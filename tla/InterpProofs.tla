---------------------------- MODULE InterpProofs ----------------------------
(***************************************************************************)
(* What the interpreter guarantees for any processes, programs, registers  *)
(* and values: wait(cond) loses no wake-up, a queued non-blocking update   *)
(* is applied to the frame that queued it, after the NBA region, and a     *)
(* return copies back what it should and nothing else.                     *)
(***************************************************************************)
EXTENDS Interp, FoldProofs, SequenceTheorems, TLAPS

-----------------------------------------------------------------------------
(* wait(cond).  The frames play no part in the argument: what is needed is *)
(* that a process that is not in the middle of a wait(cond) has            *)
(* cond = NoCond when it suspends by other means, and that a change of     *)
(* statics finds every parked process.                                     *)

\* NoLostWakeup with the domains it rests on: inductive as it stands.
WaitInv ==
  /\ DOMAIN status = Procs /\ DOMAIN cond = Procs /\ DOMAIN statics = Statics
  /\ NoLostWakeup

\* Kernel::notify_runtime_change leaves nobody parked on runtime state.
LEMMA NotifiedWakes ==
  ASSUME NEW p \in Procs, NEW s \in {"running", "ready"}
  PROVE  \A q \in Procs : Notified(p, s)[q] # "runtime"
BY DEF Notified

\* Every program, on any number of processes: a process parked in wait(cond)
\* waits for a condition that is false now (interp.rs WaitRuntime, StaticSet).
THEOREM WakeupsKept == Spec => []NoLostWakeup
<1>1. Init => WaitInv
  BY DEF Init, WaitInv, NoLostWakeup, NoCond
<1>2. WaitInv /\ [Next]_vars => WaitInv'
  <2> SUFFICES ASSUME WaitInv, [Next]_vars PROVE WaitInv'
    OBVIOUS
  <2> USE DEF WaitInv, NoLostWakeup
  <2>1. ASSUME NEW p \in Procs, Resume(p) PROVE WaitInv'
    <3>1. CASE apply_pending_nba[p]
      BY <2>1, <3>1, NotifiedWakes DEF Resume, Notified
    <3>2. CASE ~apply_pending_nba[p]
      BY <2>1, <3>2 DEF Resume
    <3> QED BY <3>1, <3>2
  <2>2. ASSUME NEW p \in Procs, Wake(p) PROVE WaitInv'
    BY <2>2 DEF Wake
  <2>3. ASSUME NEW p \in Procs, NEW r \in Regs, NEW v \in Vals, Compute(p, r, v)
        PROVE  WaitInv'
    BY <2>3 DEF Compute
  <2>4. ASSUME NEW p \in Procs, NEW r \in Regs, NEW q \in Regs, NbaAssign(p, r, q)
        PROVE  WaitInv'
    BY <2>4 DEF NbaAssign
  <2>5. ASSUME NEW p \in Procs, NEW r \in Regs, NEW s \in Statics, StaticGet(p, r, s)
        PROVE  WaitInv'
    BY <2>5 DEF StaticGet
  <2>6. ASSUME NEW p \in Procs, NEW r \in Regs, NEW s \in Statics, StaticSet(p, s, r)
        PROVE  WaitInv'
    BY <2>6, NotifiedWakes DEF StaticSet, Notified
  <2>7. ASSUME NEW p \in Procs, NEW s \in Statics, NEW v \in Vals, WaitCond(p, s, v)
        PROVE  WaitInv'
    BY <2>7 DEF WaitCond, Execute
  <2>8. ASSUME NEW p \in Procs, NEW where \in {"delay", "parked"}, Suspend(p, where)
        PROVE  WaitInv'
    BY <2>8 DEF Suspend
  <2>9. ASSUME NEW p \in Procs, NEW r \in Regs, WaitChange(p, r) PROVE WaitInv'
    BY <2>9 DEF WaitChange, Execute
  <2>10. ASSUME NEW p \in Procs, NEW sig, NEW actuals, NEW r \in Regs,
                Call(p, sig, actuals, r)
         PROVE  WaitInv'
    BY <2>10 DEF Call
  <2>11. ASSUME NEW p \in Procs, NEW result, Return(p, result) PROVE WaitInv'
    BY <2>11 DEF Return
  <2>12. ASSUME NEW p \in Procs, NEW c \in Procs, NEW where \in {"ready", "parked"},
                Fork(p, c, where)
         PROVE  WaitInv'
    BY <2>12 DEF Fork
  <2>13. ASSUME NEW p \in Procs, CheckCond(p) PROVE WaitInv'
    BY <2>13 DEF CheckCond
  <2>14. ASSUME NEW p \in Procs, Finish(p) PROVE WaitInv'
    BY <2>14 DEF Finish
  <2>15. CASE NbaRegion
    BY <2>15 DEF NbaRegion
  <2>16. ASSUME NEW S \in SUBSET Procs, AdvanceTime(S) PROVE WaitInv'
    BY <2>16 DEF AdvanceTime
  <2>17. CASE UNCHANGED vars
    BY <2>17 DEF vars
  <2>18. ASSUME NEW p \in Procs, Instruction(p) PROVE WaitInv'
    BY <2>18, <2>3, <2>4, <2>5, <2>6, <2>7, <2>8, <2>9, <2>10, <2>11, <2>12, <2>13, <2>14
       DEF Instruction
  <2> QED
    BY <2>1, <2>2, <2>15, <2>16, <2>17, <2>18 DEF Next
<1>3. WaitInv => NoLostWakeup
  BY DEF WaitInv
<1> QED
  BY <1>1, <1>2, <1>3, PTL DEF Spec

-----------------------------------------------------------------------------
(* Frames *)

\* f is a frame at depth i: every update it queued is its own.
IsFrame(f, i) ==
  /\ "pending_nba" \in DOMAIN f
  /\ \E T : f.pending_nba \in Seq(T)
  /\ \A u \in Range(f.pending_nba) : u.depth = i

\* s is a stack of frames.
IsStack(s) ==
  /\ \E T : s \in Seq(T)
  /\ Len(s) >= 1
  /\ \A i \in 1..Len(s) : IsFrame(s[i], i)

\* NbaInOwnFrame with the shape of the stacks: inductive.
FrameInv == DOMAIN frames = Procs /\ \A p \in Procs : IsStack(frames[p])

\* A prefix of a stack is a sequence with the same frames.
LEMMA Prefix ==
  ASSUME NEW s, NEW T, s \in Seq(T), NEW n \in Nat, n <= Len(s)
  PROVE  /\ SubSeq(s, 1, n) \in Seq(T) /\ Len(SubSeq(s, 1, n)) = n
         /\ \A i \in 1..n : SubSeq(s, 1, n)[i] = s[i]
<1>1. \A i \in 1..n : s[i] \in T
  OBVIOUS
<1>2. /\ SubSeq(s, 1, n) \in Seq(T)
      /\ Len(SubSeq(s, 1, n)) = IF 1 <= n THEN n - 1 + 1 ELSE 0
      /\ \A i \in 1..(n - 1 + 1) : SubSeq(s, 1, n)[i] = s[1 + i - 1]
  BY <1>1, SubSeqProperties
<1>. QED BY <1>2

\* Replacing the frame at the top.
LEMMA TopReplaced ==
  ASSUME NEW s, IsStack(s), NEW f, IsFrame(f, Len(s))
  PROVE  /\ IsStack(Append(Front(s), f))
         /\ Len(Append(Front(s), f)) = Len(s)
         /\ Last(Append(Front(s), f)) = f
<1>1. PICK T : s \in Seq(T)
  BY DEF IsStack
<1> DEFINE r == Append(Front(s), f)
<1>2. Len(s) \in Nat /\ Len(s) >= 1
  BY <1>1 DEF IsStack
<1>3. /\ Front(s) \in Seq(T) /\ Len(Front(s)) = Len(s) - 1
      /\ \A i \in 1..(Len(s) - 1) : Front(s)[i] = s[i]
  BY <1>1, <1>2, Prefix, Len(s) - 1 \in Nat, Len(s) - 1 <= Len(s) DEF Front
<1>4. /\ r \in Seq(T \cup {f}) /\ Len(r) = Len(s) /\ r[Len(s)] = f
      /\ \A i \in 1..(Len(s) - 1) : r[i] = s[i]
  BY <1>2, <1>3
<1> HIDE DEF r
<1>5. ASSUME NEW i \in 1..Len(r) PROVE IsFrame(r[i], i)
  <2>1. CASE i = Len(s)
    BY <1>4, <2>1
  <2>2. CASE i # Len(s)
    <3>1. i \in 1..(Len(s) - 1) /\ i \in 1..Len(s)
      BY <1>2, <1>4, <2>2
    <3>. QED BY <1>4, <3>1 DEF IsStack
  <2>. QED BY <2>1, <2>2
<1>6. IsStack(r)
  BY <1>2, <1>4, <1>5 DEF IsStack
<1>7. Last(r) = f
  BY <1>4 DEF Last
<1>. QED BY <1>4, <1>6, <1>7 DEF r

\* The frame at the top of a stack is at the depth of the stack.
LEMMA TopFrame ==
  ASSUME FrameInv, NEW p \in Procs
  PROVE  IsStack(frames[p]) /\ IsFrame(Top(p), Len(frames[p])) /\ Len(frames[p]) \in Nat
<1>1. IsStack(frames[p])
  BY DEF FrameInv
<1>2. Len(frames[p]) \in Nat /\ Len(frames[p]) >= 1
  BY <1>1 DEF IsStack
<1>. QED BY <1>1, <1>2 DEF IsStack, Top, Last

\* A step that replaces the top frame of p.
LEMMA SetTopFrames ==
  ASSUME FrameInv, NEW p \in Procs, NEW f, IsFrame(f, Len(frames[p])),
         frames' = SetTop(p, f)
  PROVE  FrameInv' /\ Last(frames'[p]) = f /\ \A q \in Procs : q # p => frames'[q] = frames[q]
<1>1. frames' = [frames EXCEPT ![p] = Append(Front(frames[p]), f)]
  BY DEF SetTop
<1>2. IsStack(Append(Front(frames[p]), f)) /\ Last(Append(Front(frames[p]), f)) = f
  BY TopReplaced DEF FrameInv
<1>. QED BY <1>1, <1>2 DEF FrameInv

\* A frame that has other registers is the same frame.
LEMMA SameUpdates ==
  ASSUME NEW f, NEW i, IsFrame(f, i), NEW regs
  PROVE  IsFrame([f EXCEPT !.regs = regs], i)
<1>1. [f EXCEPT !.regs = regs].pending_nba = f.pending_nba
  BY DEF IsFrame
<1>. QED BY <1>1 DEF IsFrame

\* A new frame has queued nothing.
LEMMA NewFrameIsFrame ==
  ASSUME NEW modes, NEW actuals, NEW regs, NEW ret, NEW outs, NEW i
  PROVE  IsFrame(NewFrame(modes, actuals, regs, ret, outs), i)
<1>1. NewFrame(modes, actuals, regs, ret, outs).pending_nba = <<>>
  BY DEF NewFrame
<1>2. Range(<<>>) = {} /\ <<>> \in Seq({})
  BY DEF Range
<1>3. "pending_nba" \in DOMAIN NewFrame(modes, actuals, regs, ret, outs)
  BY DEF NewFrame
<1>. QED BY <1>1, <1>2, <1>3 DEF IsFrame

\* A frame that has queued other updates of its own.
LEMMA OwnUpdates ==
  ASSUME NEW f, NEW i, IsFrame(f, i), NEW T, NEW updates \in Seq(T),
         \A u \in Range(updates) : u.depth = i
  PROVE  IsFrame([f EXCEPT !.pending_nba = updates], i)
<1>1. [f EXCEPT !.pending_nba = updates].pending_nba = updates
  BY DEF IsFrame
<1>. QED BY <1>1 DEF IsFrame

\* A frame whose updates have been applied.
LEMMA NoUpdates ==
  ASSUME NEW f, NEW i, IsFrame(f, i), NEW regs
  PROVE  IsFrame([f EXCEPT !.regs = regs, !.pending_nba = <<>>], i)
<1>1. [f EXCEPT !.regs = regs, !.pending_nba = <<>>].pending_nba = <<>>
  BY DEF IsFrame
<1>2. Range(<<>>) = {} /\ <<>> \in Seq({})
  BY DEF Range
<1>. QED BY <1>1, <1>2 DEF IsFrame

\* The frames of every process but p are as they were.
OthersKept(p) == \A q \in Procs : q # p => frames'[q] = frames[q]

\* IrProcess::run applies the updates of the top frame.
LEMMA ResumeFrames ==
  ASSUME FrameInv, NEW p \in Procs, Resume(p)
  PROVE  FrameInv' /\ OthersKept(p)
<1>1. CASE apply_pending_nba[p]
  <2> DEFINE updates == Top(p).pending_nba
             regs == FoldLeft(LAMBDA rs, u : [rs EXCEPT ![u.dst] = u.value], Top(p).regs, updates)
  <2>1. frames' = SetTop(p, [Top(p) EXCEPT !.regs = regs, !.pending_nba = <<>>])
    BY <1>1 DEF Resume, ApplyPending
  <2> HIDE DEF regs
  <2>2. IsFrame([Top(p) EXCEPT !.regs = regs, !.pending_nba = <<>>], Len(frames[p]))
    BY TopFrame, NoUpdates
  <2>. QED BY <2>1, <2>2, SetTopFrames DEF OthersKept
<1>2. CASE ~apply_pending_nba[p]
  BY <1>2 DEF Resume, FrameInv, OthersKept
<1>. QED BY <1>1, <1>2

\* An instruction that computes a register.
LEMMA SetRegFrames ==
  ASSUME FrameInv, NEW p \in Procs, NEW r, NEW v, frames' = SetReg(p, r, v)
  PROVE  FrameInv' /\ OthersKept(p)
<1> DEFINE regs == [Top(p).regs EXCEPT ![r] = v]
<1>1. frames' = SetTop(p, [Top(p) EXCEPT !.regs = regs])
  BY DEF SetReg
<1>2. IsFrame([Top(p) EXCEPT !.regs = regs], Len(frames[p]))
  BY TopFrame, SameUpdates
<1>. QED BY <1>1, <1>2, SetTopFrames DEF OthersKept

\* Inst::NbaAssign queues an update in the top frame.
LEMMA NbaAssignFrames ==
  ASSUME FrameInv, NEW p \in Procs, NEW dst, NEW src, NbaAssign(p, dst, src)
  PROVE  FrameInv' /\ OthersKept(p)
<1> DEFINE pending == Top(p).pending_nba
           new == [dst |-> dst, value |-> Top(p).regs[src], depth |-> Len(frames[p])]
           replaced == [i \in DOMAIN pending |-> IF pending[i].dst = dst THEN new ELSE pending[i]]
           updated == IF \E i \in DOMAIN pending : pending[i].dst = dst
                      THEN replaced ELSE Append(pending, new)
<1>1. frames' = SetTop(p, [Top(p) EXCEPT !.pending_nba = updated])
  BY DEF NbaAssign
<1>2. IsFrame(Top(p), Len(frames[p]))
  BY TopFrame
<1>3. PICK T : pending \in Seq(T)
  BY <1>2 DEF IsFrame
<1>4. new.depth = Len(frames[p])
  OBVIOUS
<1> HIDE DEF new, pending
<1>5. \A i \in DOMAIN pending : pending[i].depth = Len(frames[p])
  BY <1>2 DEF IsFrame, Range, pending
<1>6. /\ replaced \in Seq(T \cup {new})
      /\ \A u \in Range(replaced) : u.depth = Len(frames[p])
  <2>1. replaced \in [1..Len(pending) -> T \cup {new}] /\ Len(pending) \in Nat
    BY <1>3
  <2>2. replaced \in Seq(T \cup {new})
    BY <2>1, SeqDef
  <2>3. \A i \in DOMAIN replaced : replaced[i].depth = Len(frames[p])
    BY <1>4, <1>5
  <2>. QED BY <2>2, <2>3 DEF Range
<1>7. /\ Append(pending, new) \in Seq(T \cup {new})
      /\ \A u \in Range(Append(pending, new)) : u.depth = Len(frames[p])
  <2>1. Append(pending, new) \in Seq(T \cup {new})
    BY <1>3
  <2>2. \A i \in DOMAIN Append(pending, new) : Append(pending, new)[i].depth = Len(frames[p])
    BY <1>3, <1>4, <1>5
  <2>. QED BY <2>1, <2>2 DEF Range
<1>8. updated \in Seq(T \cup {new}) /\ \A u \in Range(updated) : u.depth = Len(frames[p])
  BY <1>6, <1>7
<1> HIDE DEF updated, replaced
<1>9. IsFrame([Top(p) EXCEPT !.pending_nba = updated], Len(frames[p]))
  BY <1>2, <1>8, OwnUpdates
<1>. QED BY <1>1, <1>9, SetTopFrames DEF OthersKept

\* Step::Call puts a new frame on top.
LEMMA CallFrames ==
  ASSUME FrameInv, NEW p \in Procs, NEW sig, NEW actuals, NEW ret, Call(p, sig, actuals, ret)
  PROVE  FrameInv' /\ OthersKept(p)
<1> DEFINE s == frames[p]
           callee == NewFrame(sig, actuals, CopyIn(Top(p), sig, actuals), ret, CopyOuts(sig, actuals))
           r == Append(s, callee)
<1>1. frames' = [frames EXCEPT ![p] = r]
  BY DEF Call
<1>2. IsFrame(callee, Len(s) + 1)
  BY NewFrameIsFrame
<1> HIDE DEF callee
<1>3. IsStack(s)
  BY DEF FrameInv
<1>4. PICK T : s \in Seq(T)
  BY <1>3 DEF IsStack
<1>5. /\ r \in Seq(T \cup {callee}) /\ Len(r) = Len(s) + 1 /\ r[Len(s) + 1] = callee
      /\ Len(s) \in Nat /\ \A i \in 1..Len(s) : r[i] = s[i]
  BY <1>4
<1> HIDE DEF r
<1>6. ASSUME NEW i \in 1..Len(r) PROVE IsFrame(r[i], i)
  <2>1. CASE i = Len(s) + 1
    BY <1>2, <1>5, <2>1
  <2>2. CASE i # Len(s) + 1
    <3>1. i \in 1..Len(s)
      BY <1>5, <2>2
    <3>. QED BY <1>3, <1>5, <3>1 DEF IsStack
  <2>. QED BY <2>1, <2>2
<1>7. IsStack(r)
  BY <1>5, <1>6 DEF IsStack
<1>. QED BY <1>1, <1>7 DEF FrameInv, OthersKept

\* Step::Return drops the top frame and with it what it had queued.
LEMMA ReturnFrames ==
  ASSUME FrameInv, NEW p \in Procs, NEW result, Return(p, result)
  PROVE  FrameInv' /\ OthersKept(p)
<1> DEFINE s == frames[p]
           n == Len(s) - 1
           caller == s[n]
           regs == Returned(caller, Top(p), result)
           f == [caller EXCEPT !.regs = regs]
           r == Append(SubSeq(s, 1, Len(s) - 2), f)
<1>1. IsStack(s)
  BY DEF FrameInv
<1>2. CASE Len(s) > 1
  <2>1. frames' = [frames EXCEPT ![p] = r]
    BY <1>2 DEF Return
  <2>2. PICK T : s \in Seq(T)
    BY <1>1 DEF IsStack
  <2>3. n \in Nat /\ n \in 1..Len(s) /\ Len(s) - 2 = n - 1 /\ n - 1 \in Nat /\ n - 1 <= Len(s)
    BY <1>2, <2>2
  <2>4. IsFrame(caller, n)
    BY <1>1, <2>3 DEF IsStack
  <2> HIDE DEF regs
  <2>5. IsFrame(f, n)
    BY <2>4, SameUpdates
  <2> HIDE DEF f
  <2>6. /\ SubSeq(s, 1, n - 1) \in Seq(T) /\ Len(SubSeq(s, 1, n - 1)) = n - 1
        /\ \A i \in 1..(n - 1) : SubSeq(s, 1, n - 1)[i] = s[i]
    BY <2>2, <2>3, Prefix
  <2>7. /\ r \in Seq(T \cup {f}) /\ Len(r) = n /\ r[n] = f
        /\ \A i \in 1..(n - 1) : r[i] = s[i]
    BY <2>3, <2>6
  <2> HIDE DEF r
  <2>8. ASSUME NEW i \in 1..Len(r) PROVE IsFrame(r[i], i)
    <3>1. CASE i = n
      BY <2>5, <2>7, <3>1
    <3>2. CASE i # n
      <4>1. i \in 1..(n - 1) /\ i \in 1..Len(s)
        BY <2>3, <2>7, <3>2
      <4>. QED BY <1>1, <2>7, <4>1 DEF IsStack
    <3>. QED BY <3>1, <3>2
  <2>9. IsStack(r)
    BY <2>3, <2>7, <2>8 DEF IsStack
  <2>. QED BY <2>1, <2>9 DEF FrameInv, OthersKept
<1>3. CASE ~(Len(s) > 1)
  BY <1>3 DEF Return, FrameInv, OthersKept
<1>. QED BY <1>2, <1>3

\* One new frame is a stack.
LEMMA OneFrame ==
  ASSUME NEW modes, NEW actuals, NEW regs, NEW ret, NEW outs
  PROVE  IsStack(<<NewFrame(modes, actuals, regs, ret, outs)>>)
<1> DEFINE f == NewFrame(modes, actuals, regs, ret, outs)
<1>1. IsFrame(f, 1)
  BY NewFrameIsFrame
<1> HIDE DEF f
<1> DEFINE s == <<f>>
<1>2. s \in Seq({f}) /\ Len(s) = 1 /\ s[1] = f
  OBVIOUS
<1> HIDE DEF s
<1>3. \A i \in 1..Len(s) : i = 1
  BY <1>2
<1>4. IsStack(s)
  BY <1>1, <1>2, <1>3 DEF IsStack
<1>. QED BY <1>4 DEF f, s

\* Step::Fork gives the child its only frame.
LEMMA ForkFrames ==
  ASSUME FrameInv, NEW p \in Procs, NEW child \in Procs, NEW where, Fork(p, child, where)
  PROVE  FrameInv' /\ OthersKept(child)
<1>1. frames' = [frames EXCEPT ![child] = <<NewFrame(<<>>, <<>>, Top(p).regs, 1, <<>>)>>]
  BY DEF Fork
<1>2. IsStack(<<NewFrame(<<>>, <<>>, Top(p).regs, 1, <<>>)>>)
  BY OneFrame
<1>. QED BY <1>1, <1>2 DEF FrameInv, OthersKept


\* Every step keeps the frames in order.
LEMMA FrameStep == FrameInv /\ [Next]_vars => FrameInv'
<1> SUFFICES ASSUME FrameInv, [Next]_vars PROVE FrameInv'
  OBVIOUS
<1>1. ASSUME UNCHANGED frames PROVE FrameInv'
  BY <1>1 DEF FrameInv
<1>2. ASSUME NEW p \in Procs, Instruction(p) PROVE FrameInv'
  <2>1. ASSUME NEW r \in Regs, NEW v, Compute(p, r, v) PROVE FrameInv'
    BY <2>1, SetRegFrames DEF Compute
  <2>2. ASSUME NEW r \in Regs, NEW q \in Regs, NbaAssign(p, r, q) PROVE FrameInv'
    BY <2>2, NbaAssignFrames
  <2>3. ASSUME NEW r \in Regs, NEW s \in Statics, StaticGet(p, r, s) PROVE FrameInv'
    BY <2>3, SetRegFrames DEF StaticGet
  <2>4. ASSUME NEW r \in Regs, NEW s \in Statics, StaticSet(p, s, r) PROVE FrameInv'
    BY <1>1, <2>4 DEF StaticSet
  <2>5. ASSUME NEW s \in Statics, NEW v \in Vals, WaitCond(p, s, v) PROVE FrameInv'
    BY <1>1, <2>5 DEF WaitCond
  <2>6. ASSUME NEW where, Suspend(p, where) PROVE FrameInv'
    BY <1>1, <2>6 DEF Suspend
  <2>7. ASSUME NEW r \in Regs, WaitChange(p, r) PROVE FrameInv'
    BY <1>1, <2>7 DEF WaitChange
  <2>8. ASSUME NEW sig, NEW actuals, NEW r \in Regs, Call(p, sig, actuals, r) PROVE FrameInv'
    BY <2>8, CallFrames
  <2>9. ASSUME NEW result, Return(p, result) PROVE FrameInv'
    BY <2>9, ReturnFrames
  <2>10. ASSUME NEW c \in Procs, NEW where, Fork(p, c, where) PROVE FrameInv'
    BY <2>10, ForkFrames
  <2>11. CASE CheckCond(p)
    BY <1>1, <2>11 DEF CheckCond
  <2>12. CASE Finish(p)
    BY <1>1, <2>12 DEF Finish
  <2>. QED
    BY <1>2, <2>1, <2>2, <2>3, <2>4, <2>5, <2>6, <2>7, <2>8, <2>9, <2>10, <2>11, <2>12
       DEF Instruction
<1>3. ASSUME NEW p \in Procs, Resume(p) PROVE FrameInv'
  BY <1>3, ResumeFrames
<1>4. ASSUME NEW p \in Procs, Wake(p) PROVE FrameInv'
  BY <1>1, <1>4 DEF Wake
<1>5. CASE NbaRegion
  BY <1>1, <1>5 DEF NbaRegion
<1>6. ASSUME NEW S \in SUBSET Procs, AdvanceTime(S) PROVE FrameInv'
  BY <1>1, <1>6 DEF AdvanceTime
<1>7. CASE UNCHANGED vars
  BY <1>1, <1>7 DEF vars
<1>. QED BY <1>2, <1>3, <1>4, <1>5, <1>6, <1>7 DEF Next

\* The frames at time 0, one per process.
LEMMA FrameInit == Init => FrameInv
<1> SUFFICES ASSUME Init PROVE FrameInv
  OBVIOUS
<1>1. IsStack(<<NewFrame(<<>>, <<>>, NullRegs, 1, <<>>)>>)
  BY OneFrame
<1>. QED BY <1>1 DEF Init, FrameInv

\* For every program, depth of calls and number of processes: an update that
\* Inst::NbaAssign queued is in the frame that queued it, until it is applied
\* there or dropped with that frame (interp.rs run, Step::Call, Step::Return).
THEOREM UpdatesInOwnFrame == Spec => []NbaInOwnFrame
<1>1. FrameInv => NbaInOwnFrame
  <2> SUFFICES ASSUME FrameInv, NEW p \in Procs, NEW i \in DOMAIN frames[p]
               PROVE  \A u \in Range(frames[p][i].pending_nba) : u.depth = i
    BY DEF NbaInOwnFrame
  <2>1. IsStack(frames[p])
    BY DEF FrameInv
  <2>2. PICK T : frames[p] \in Seq(T)
    BY <2>1 DEF IsStack
  <2>3. i \in 1..Len(frames[p])
    BY <2>2
  <2>. QED BY <2>1, <2>3 DEF IsStack, IsFrame
<1>. QED BY <1>1, FrameInit, FrameStep, PTL DEF Spec

-----------------------------------------------------------------------------
(* The flag.  A process that runs has taken its flag, so a step of one     *)
(* process changes neither the flag nor the top frame of another; what is  *)
(* left is WaitChange, which raises it.                                    *)

\* ApplyAfterNba with the domains and the frames it rests on: inductive.
FlagInv ==
  /\ DOMAIN status = Procs /\ DOMAIN apply_pending_nba = Procs
  /\ ApplyAfterNba

\* A step that raises no flag, moves nobody to the NBA region, and leaves the
\* top frame of every process whose flag is up alone.
LEMMA FlagsKept ==
  ASSUME FlagInv, DOMAIN status' = Procs, DOMAIN apply_pending_nba' = Procs,
         \A q \in Procs :
           \/ ~apply_pending_nba'[q] /\ status'[q] # "nba"
           \/ /\ apply_pending_nba'[q] = apply_pending_nba[q]
              /\ frames'[q] = frames[q] /\ status'[q] = status[q]
           \/ /\ apply_pending_nba'[q] = apply_pending_nba[q]
              /\ frames'[q] = frames[q] /\ status'[q] = "ready"
  PROVE  FlagInv'
BY DEF FlagInv, ApplyAfterNba, Top

\* A process that runs has no flag up.
LEMMA RunningNoFlag ==
  ASSUME FlagInv, NEW p \in Procs, status[p] \notin {"nba", "ready"}
  PROVE  ~apply_pending_nba[p]
BY DEF FlagInv, ApplyAfterNba

\* An instruction of p that parks nobody in the NBA region.
LEMMA InstructionFlags ==
  ASSUME FlagInv, NEW p \in Procs, status[p] = "running",
         UNCHANGED apply_pending_nba, OthersKept(p), DOMAIN status' = Procs,
         status'[p] # "nba",
         \A q \in Procs : q # p => status'[q] = status[q] \/ status'[q] = "ready"
  PROVE  FlagInv'
<1>1. ~apply_pending_nba'[p] /\ status'[p] # "nba"
  BY RunningNoFlag
<1>2. DOMAIN apply_pending_nba' = Procs
  BY DEF FlagInv
<1>3. ASSUME NEW q \in Procs, q # p
      PROVE  /\ apply_pending_nba'[q] = apply_pending_nba[q] /\ frames'[q] = frames[q]
             /\ status'[q] = status[q] \/ status'[q] = "ready"
  BY <1>3 DEF OthersKept
<1>. QED BY <1>1, <1>2, <1>3, FlagsKept

\* Inst::WaitChange raises the flag of a process whose frame has an update.
LEMMA WaitChangeFlags ==
  ASSUME FlagInv, FrameInv, NEW p \in Procs, NEW r, WaitChange(p, r)
  PROVE  FlagInv'
<1> DEFINE nba == \E u \in Range(Top(p).pending_nba) : u.dst = r
<1>1. /\ status' = [status EXCEPT ![p] = IF nba THEN "nba" ELSE "runtime"]
      /\ apply_pending_nba' = [apply_pending_nba EXCEPT ![p] = nba]
      /\ UNCHANGED frames
  BY DEF WaitChange
<1>2. nba => Top(p).pending_nba # <<>>
  BY DEF Range
<1> HIDE DEF nba
<1>3. DOMAIN status = Procs /\ DOMAIN apply_pending_nba = Procs
  BY DEF FlagInv
<1>4. DOMAIN status' = Procs /\ DOMAIN apply_pending_nba' = Procs
  BY <1>1, <1>3
<1>5. ASSUME NEW q \in Procs
      PROVE  /\ apply_pending_nba'[q] => status'[q] \in {"nba", "ready"}
                                         /\ Top(q)'.pending_nba # <<>>
             /\ status'[q] = "nba" => apply_pending_nba'[q]
  <2>1. CASE q = p
    BY <1>1, <1>2, <1>3, <2>1 DEF Top
  <2>2. CASE q # p
    BY <1>1, <1>3, <2>2 DEF FlagInv, ApplyAfterNba, Top
  <2>. QED BY <2>1, <2>2
<1>. QED BY <1>4, <1>5 DEF FlagInv, ApplyAfterNba

\* IrProcess::run takes the flag; the updates wake wait(cond) processes.
LEMMA ResumeFlags ==
  ASSUME FlagInv, FrameInv, NEW p \in Procs, Resume(p)
  PROVE  FlagInv'
<1>1. OthersKept(p)
  BY ResumeFrames
<1>2. /\ DOMAIN status' = Procs /\ status'[p] = "running"
      /\ \A q \in Procs : q # p => status'[q] = status[q] \/ status'[q] = "ready"
  <2>1. CASE apply_pending_nba[p]
    BY <2>1 DEF Resume, Notified, FlagInv
  <2>2. CASE ~apply_pending_nba[p]
    BY <2>2 DEF Resume, FlagInv
  <2>. QED BY <2>1, <2>2
<1>3. /\ DOMAIN apply_pending_nba' = Procs /\ ~apply_pending_nba'[p]
      /\ \A q \in Procs : q # p => apply_pending_nba'[q] = apply_pending_nba[q]
  BY DEF Resume, FlagInv
<1>. QED BY <1>1, <1>2, <1>3, FlagsKept DEF OthersKept

\* Step::Fork: the child has no flag, having never run.
LEMMA ForkFlags ==
  ASSUME FlagInv, FrameInv, NEW p \in Procs, NEW child \in Procs,
         NEW where \in {"ready", "parked"}, Fork(p, child, where)
  PROVE  FlagInv'
<1>1. ~apply_pending_nba[p] /\ ~apply_pending_nba[child]
  BY RunningNoFlag DEF Fork, Execute
<1>2. OthersKept(child)
  BY ForkFrames
<1>3. /\ UNCHANGED apply_pending_nba /\ DOMAIN status' = Procs /\ DOMAIN apply_pending_nba' = Procs
      /\ status'[p] # "nba" /\ status'[child] # "nba"
      /\ \A q \in Procs \ {p, child} : status'[q] = status[q]
  BY DEF Fork, FlagInv
<1>. QED BY <1>1, <1>2, <1>3, FlagsKept DEF OthersKept

\* Every step keeps the flags in order.
LEMMA FlagStep == FlagInv /\ FrameInv /\ [Next]_vars => FlagInv'
<1> SUFFICES ASSUME FlagInv, FrameInv, [Next]_vars PROVE FlagInv'
  OBVIOUS
<1>1. DOMAIN status = Procs /\ DOMAIN apply_pending_nba = Procs
  BY DEF FlagInv
<1>2. ASSUME NEW p \in Procs, Instruction(p) PROVE FlagInv'
  <2>1. ASSUME NEW r \in Regs, NEW v, Compute(p, r, v) PROVE FlagInv'
    BY <1>1, <2>1, SetRegFrames, InstructionFlags DEF Compute, Execute
  <2>2. ASSUME NEW r \in Regs, NEW q \in Regs, NbaAssign(p, r, q) PROVE FlagInv'
    <3>1. OthersKept(p)
      BY <2>2, NbaAssignFrames
    <3>. QED BY <1>1, <2>2, <3>1, InstructionFlags DEF NbaAssign, Execute
  <2>3. ASSUME NEW r \in Regs, NEW s \in Statics, StaticGet(p, r, s) PROVE FlagInv'
    BY <1>1, <2>3, SetRegFrames, InstructionFlags DEF StaticGet, Execute
  <2>4. ASSUME NEW r \in Regs, NEW s \in Statics, StaticSet(p, s, r) PROVE FlagInv'
    BY <1>1, <2>4, InstructionFlags DEF StaticSet, Execute, Notified, OthersKept
  <2>5. ASSUME NEW s \in Statics, NEW v \in Vals, WaitCond(p, s, v) PROVE FlagInv'
    BY <1>1, <2>5, InstructionFlags DEF WaitCond, Execute, OthersKept
  <2>6. ASSUME NEW where \in {"delay", "parked"}, Suspend(p, where) PROVE FlagInv'
    BY <1>1, <2>6, InstructionFlags DEF Suspend, Execute, OthersKept
  <2>7. ASSUME NEW r \in Regs, WaitChange(p, r) PROVE FlagInv'
    BY <2>7, WaitChangeFlags
  <2>8. ASSUME NEW sig, NEW actuals, NEW r \in Regs, Call(p, sig, actuals, r) PROVE FlagInv'
    <3>1. OthersKept(p)
      BY <2>8, CallFrames
    <3>. QED BY <1>1, <2>8, <3>1, InstructionFlags DEF Call, Execute
  <2>9. ASSUME NEW result, Return(p, result) PROVE FlagInv'
    <3>1. OthersKept(p)
      BY <2>9, ReturnFrames
    <3>2. /\ status[p] = "running" /\ UNCHANGED apply_pending_nba
          /\ status' = status \/ status' = [status EXCEPT ![p] = "finished"]
      BY <2>9 DEF Return, Execute
    <3>. QED BY <1>1, <3>1, <3>2, InstructionFlags
  <2>10. ASSUME NEW c \in Procs, NEW where \in {"ready", "parked"}, Fork(p, c, where)
         PROVE  FlagInv'
    BY <2>10, ForkFlags
  <2>11. CASE CheckCond(p)
    BY <1>1, <2>11, InstructionFlags DEF CheckCond, OthersKept
  <2>12. CASE Finish(p)
    BY <1>1, <2>12, InstructionFlags DEF Finish, OthersKept
  <2>. QED
    BY <1>2, <2>1, <2>2, <2>3, <2>4, <2>5, <2>6, <2>7, <2>8, <2>9, <2>10, <2>11, <2>12
       DEF Instruction
<1>3. ASSUME NEW p \in Procs, Resume(p) PROVE FlagInv'
  BY <1>3, ResumeFlags
<1>4. ASSUME NEW p \in Procs, Wake(p) PROVE FlagInv'
  BY <1>1, <1>4, FlagsKept DEF Wake
<1>5. CASE NbaRegion
  BY <1>1, <1>5, FlagsKept DEF NbaRegion
<1>6. ASSUME NEW S \in SUBSET Procs, AdvanceTime(S) PROVE FlagInv'
  BY <1>1, <1>6, FlagsKept DEF AdvanceTime
<1>7. CASE UNCHANGED vars
  BY <1>1, <1>7, FlagsKept DEF vars
<1>. QED BY <1>2, <1>3, <1>4, <1>5, <1>6, <1>7 DEF Next

\* For every program: a process whose updates are to be applied has some and
\* is on its way through the NBA region (interp.rs WaitChange and run).
THEOREM FlagAfterNba == Spec => []ApplyAfterNba
<1>1. Init => FlagInv
  BY DEF Init, FlagInv, ApplyAfterNba
<1>2. FlagInv => ApplyAfterNba
  BY DEF FlagInv
<1>. QED BY <1>1, <1>2, FrameInit, FrameStep, FlagStep, PTL DEF Spec

-----------------------------------------------------------------------------
(* Calls and returns.  The registers are typed, so that a change of one of *)
(* them is one; a frame copies back formals that are not inputs; and the   *)
(* loop of Step::Return leaves in each register what the last formal that  *)
(* was copied there held.                                                  *)

\* The registers of a frame, and an update queued for one of them.
RegFile == [Regs -> Values]

Update == [dst : Regs, value : Values, depth : Nat]

\* outs is the list of copy-outs <<formal, actual>> of the first k formals:
\* every formal that is not an input, in order, with the actual it was passed.
Lists(outs, k, modes, actuals) ==
  /\ \A j \in DOMAIN outs : /\ outs[j][1] \in 1..k
                            /\ modes[outs[j][1]] # "Input"
                            /\ outs[j][2] = actuals[outs[j][1]]
  /\ \A i, j \in DOMAIN outs : i < j => outs[i][1] < outs[j][1]
  /\ \A i \in 1..k : modes[i] # "Input" => \E j \in DOMAIN outs : outs[j][1] = i

\* A frame and what its return will copy back.
Frame == {f \in [arg_modes : Seq(ArgMode), actuals : Seq(Regs), regs : RegFile, ret_dst : Nat,
                 copy_out : Seq(Regs \X Regs), pending_nba : Seq(Update)] :
            Lists(f.copy_out, Len(f.arg_modes), f.arg_modes, f.actuals)}

\* Inductive with FrameInv.  A process that is not born yet has one frame: the
\* frame that a fork gives it does not look like a return.
CallInv ==
  /\ statics \in [Statics -> Values]
  /\ frames \in [Procs -> Seq(Frame)]
  /\ DOMAIN status = Procs
  /\ \A p \in Procs : status[p] = "unborn" => Len(frames[p]) = 1

-----------------------------------------------------------------------------
\* The loop body of Step::Call at a formal that is copied back.
LEMMA CopyOutListed ==
  ASSUME NEW k \in Nat, NEW modes, NEW actuals, NEW outs \in Seq(Regs \X Regs),
         Lists(outs, k, modes, actuals), modes[k + 1] # "Input",
         k + 1 \in Regs, actuals[k + 1] \in Regs
  PROVE  Lists(Append(outs, <<k + 1, actuals[k + 1]>>), k + 1, modes, actuals)
<1> DEFINE more == Append(outs, <<k + 1, actuals[k + 1]>>)
<1>1. /\ Len(outs) \in Nat /\ DOMAIN outs = 1..Len(outs) /\ DOMAIN more = 1..(Len(outs) + 1)
      /\ more[Len(outs) + 1] = <<k + 1, actuals[k + 1]>>
      /\ \A j \in 1..Len(outs) : more[j] = outs[j]
  OBVIOUS
<1>2. /\ more[Len(outs) + 1][1] = k + 1
      /\ more[Len(outs) + 1][2] = actuals[k + 1]
  BY <1>1
<1>3. \A j \in 1..Len(outs) : outs[j][1] \in 1..k
  BY <1>1 DEF Lists
<1> HIDE DEF more
<1>4. \A j \in DOMAIN more : j = Len(outs) + 1 \/ j \in 1..Len(outs)
  BY <1>1
<1>5. ASSUME NEW j \in DOMAIN more
      PROVE  /\ more[j][1] \in 1..(k + 1) /\ modes[more[j][1]] # "Input"
             /\ more[j][2] = actuals[more[j][1]]
  <2>1. CASE j = Len(outs) + 1
    BY <1>2, <2>1
  <2>2. CASE j \in 1..Len(outs)
    BY <1>1, <1>3, <2>2 DEF Lists
  <2>. QED BY <1>4, <2>1, <2>2
<1>6. ASSUME NEW i \in DOMAIN more, NEW j \in DOMAIN more, i < j
      PROVE  more[i][1] < more[j][1]
  <2>1. i \in 1..Len(outs)
    BY <1>1, <1>6
  <2>2. CASE j = Len(outs) + 1
    BY <1>1, <1>2, <1>3, <2>1, <2>2
  <2>3. CASE j \in 1..Len(outs)
    BY <1>1, <1>6, <2>1, <2>3 DEF Lists
  <2>. QED BY <1>4, <2>2, <2>3
<1>7. ASSUME NEW i \in 1..(k + 1), modes[i] # "Input"
      PROVE  \E j \in DOMAIN more : more[j][1] = i
  <2>1. CASE i = k + 1
    BY <1>1, <1>2, <2>1
  <2>2. CASE i # k + 1
    <3>1. i \in 1..k
      BY <2>2
    <3>2. PICK j \in DOMAIN outs : outs[j][1] = i
      BY <1>7, <3>1 DEF Lists
    <3>. QED BY <1>1, <3>2
  <2>. QED BY <2>1, <2>2
<1>8. Lists(more, k + 1, modes, actuals)
  BY <1>5, <1>6, <1>7 DEF Lists
<1>. QED BY <1>8 DEF more

\* The loop of Step::Call that collects the copy-outs.
LEMMA CopyOutsListed ==
  ASSUME NEW sig \in Seq(ArgMode), Len(sig) <= NumRegs, NEW actuals \in [DOMAIN sig -> Regs]
  PROVE  /\ CopyOuts(sig, actuals) \in Seq(Regs \X Regs)
         /\ Lists(CopyOuts(sig, actuals), Len(sig), sig, actuals)
<1> DEFINE n == Len(sig)
           A == Seq(Regs \X Regs)
           op(outs, i) == IF sig[i] = "Input" THEN outs ELSE Append(outs, <<i, actuals[i]>>)
           f == [a \in A \X (1..n) |-> op(a[1], a[2])]
           ids == [i \in DOMAIN sig |-> i]
           Body(c) == [s \in SUBSET (1..n) |->
                         IF s = {} THEN <<>> ELSE op(c[s \ {Max(s)}], ids[Max(s)])]
<1>1. n \in Nat /\ DOMAIN sig = 1..n /\ \A i \in 1..n : i \in Regs /\ actuals[i] \in Regs
  BY ProgramAssumption DEF Regs
<1>2. <<>> \in A
  OBVIOUS
<1>3. ASSUME NEW outs \in A, NEW i \in 1..n PROVE op(outs, i) \in A
  <2>1. <<i, actuals[i]>> \in Regs \X Regs
    BY <1>1
  <2>. QED BY <2>1
<1> HIDE DEF A
<1>4. f \in [A \X (1..n) -> A]
  BY <1>3
<1> HIDE DEF f
<1>5. PICK g : IsFold(g, n, A, <<>>, f)
  BY <1>1, <1>2, <1>4, FoldExists
<1>6. ASSUME NEW s \in SUBSET (1..n), s # {}
      PROVE  f[<<g[s \ {Max(s)}], Max(s)>>] = op(g[s \ {Max(s)}], ids[Max(s)])
  <2>1. Max(s) \in 1..n /\ s \ {Max(s)} \in SUBSET (1..n)
    BY <1>1, <1>6, SegmentMax
  <2>2. g[s \ {Max(s)}] \in A
    BY <1>5, <2>1 DEF IsFold
  <2>. QED BY <1>1, <2>1, <2>2 DEF f
<1>7. g = Body(g)
  BY <1>5, <1>6 DEF IsFold
<1> DEFINE c == CHOOSE h : h = Body(h)
<1>8. c = Body(c)
  BY <1>7
<1>9. CopyOuts(sig, actuals) = c[1..n]
  BY <1>1 DEF CopyOuts, FoldLeftDomain, FoldLeft, MapThenFoldSet
<1> HIDE DEF c, n, ids, op
<1>10. StepAlike(c, g, n)
  BY <1>7, <1>8 DEF StepAlike
<1>11. c[1..n] = g[1..n]
  BY <1>1, <1>10, FoldUnique
<1>12. /\ g[1..0] = <<>> /\ \A k \in 0..n : g[1..k] \in A
       /\ \A k \in 1..n : g[1..k] = f[<<g[1..(k - 1)], k>>]
  BY <1>1, <1>5, FoldAlong
<1> DEFINE P(k) == Lists(g[1..k], k, sig, actuals)
           S == {k \in Nat : k <= n => P(k)}
<1>13. P(0)
  BY <1>12 DEF Lists
<1>14. ASSUME NEW k \in Nat, k + 1 <= n, P(k) PROVE P(k + 1)
  <2>1. k + 1 \in 1..n /\ (k + 1) - 1 = k /\ k \in 0..n /\ g[1..k] \in A
    BY <1>1, <1>12, <1>14
  <2>2. g[1..(k + 1)] = op(g[1..k], k + 1)
    BY <1>12, <2>1 DEF f
  <2> DEFINE old == g[1..k]
             new == g[1..(k + 1)]
  <2> HIDE DEF old, new
  <2>3. old \in Seq(Regs \X Regs) /\ Lists(old, k, sig, actuals)
    BY <1>14, <2>1 DEF old, A
  <2>4. k + 1 \in Regs /\ actuals[k + 1] \in Regs
    BY <1>1, <2>1
  <2>5. CASE sig[k + 1] = "Input"
    <3>1. new = old
      BY <2>2, <2>5 DEF op, old, new
    <3>2. \A i \in 1..(k + 1) : i = k + 1 \/ i \in 1..k
      OBVIOUS
    <3>3. 1..k \subseteq 1..(k + 1)
      OBVIOUS
    <3>4. Lists(old, k + 1, sig, actuals)
      BY <2>3, <2>5, <3>2, <3>3 DEF Lists
    <3>. QED BY <3>1, <3>4 DEF new
  <2>6. CASE sig[k + 1] # "Input"
    <3>1. new = Append(old, <<k + 1, actuals[k + 1]>>)
      BY <2>2, <2>6 DEF op, old, new
    <3>2. Lists(new, k + 1, sig, actuals)
      BY <2>3, <2>4, <2>6, <3>1, CopyOutListed
    <3>. QED BY <3>2 DEF new
  <2>. QED BY <2>5, <2>6
<1> HIDE DEF P
<1>15. 0 \in S /\ \A k \in Nat : k \in S => k + 1 \in S
  BY <1>1, <1>13, <1>14
<1> HIDE DEF S
<1>16. n \in S
  BY <1>1, <1>15, Induction
<1>17. P(n) /\ g[1..n] \in A
  BY <1>1, <1>12, <1>16 DEF S
<1>. QED BY <1>9, <1>11, <1>17 DEF A, P, n

\* The loop of IrProcess::run that applies the queued updates.
LEMMA AppliedType ==
  ASSUME NEW regs \in RegFile, NEW updates \in Seq(Update)
  PROVE  FoldLeft(LAMBDA rs, u : [rs EXCEPT ![u.dst] = u.value], regs, updates) \in RegFile
<1> DEFINE n == Len(updates)
           op(rs, u) == [rs EXCEPT ![u.dst] = u.value]
           f == [a \in RegFile \X (1..n) |-> op(a[1], updates[a[2]])]
           Body(c) == [s \in SUBSET (1..n) |->
                         IF s = {} THEN regs ELSE op(c[s \ {Max(s)}], updates[Max(s)])]
<1>1. n \in Nat /\ DOMAIN updates = 1..n
  OBVIOUS
<1>2. ASSUME NEW rs \in RegFile, NEW i \in 1..n PROVE op(rs, updates[i]) \in RegFile
  <2>1. updates[i] \in Update
    BY <1>1
  <2>2. updates[i].value \in Values
    BY <2>1 DEF Update
  <2>. QED BY <2>2 DEF RegFile
<1>3. f \in [RegFile \X (1..n) -> RegFile]
  BY <1>2
<1> HIDE DEF f
<1>4. PICK g : IsFold(g, n, RegFile, regs, f)
  BY <1>1, <1>3, FoldExists
<1>5. ASSUME NEW s \in SUBSET (1..n), s # {}
      PROVE  f[<<g[s \ {Max(s)}], Max(s)>>] = op(g[s \ {Max(s)}], updates[Max(s)])
  <2>1. Max(s) \in 1..n /\ s \ {Max(s)} \in SUBSET (1..n)
    BY <1>1, <1>5, SegmentMax
  <2>2. g[s \ {Max(s)}] \in RegFile
    BY <1>4, <2>1 DEF IsFold
  <2>. QED BY <2>1, <2>2 DEF f
<1>6. g = Body(g)
  BY <1>4, <1>5 DEF IsFold
<1> DEFINE c == CHOOSE h : h = Body(h)
<1>7. c = Body(c)
  BY <1>6
<1>8. FoldLeft(LAMBDA rs, u : [rs EXCEPT ![u.dst] = u.value], regs, updates) = c[1..n]
  BY <1>1 DEF FoldLeft, MapThenFoldSet
<1> HIDE DEF c, n, op
<1>9. StepAlike(c, g, n)
  BY <1>6, <1>7 DEF StepAlike
<1>10. c[1..n] = g[1..n] /\ g[1..n] \in RegFile
  BY <1>1, <1>4, <1>9, FoldUnique DEF IsFold
<1>. QED BY <1>8, <1>10

\* What a register holds when the first k formals of outs have been copied.
CopiedTo(r, k, outs, formals, before, after) ==
  IF \A i \in 1..k : outs[i][2] # r THEN after[r] = before[r]
  ELSE \E i \in 1..k : /\ outs[i][2] = r /\ after[r] = formals[outs[i][1]]
                       /\ \A j \in 1..k : outs[j][2] = r => j <= i

\* The loop of Step::Return that copies the formals back.
LEMMA CopiedBack ==
  ASSUME NEW before \in RegFile, NEW formals \in RegFile, NEW outs \in Seq(Regs \X Regs)
  PROVE  LET after == FoldLeft(LAMBDA regs, fa : [regs EXCEPT ![fa[2]] = formals[fa[1]]],
                               before, outs)
         IN after \in RegFile /\ \A r \in Regs : CopiedTo(r, Len(outs), outs, formals, before, after)
<1> DEFINE n == Len(outs)
           op(regs, fa) == [regs EXCEPT ![fa[2]] = formals[fa[1]]]
           f == [a \in RegFile \X (1..n) |-> op(a[1], outs[a[2]])]
           Body(c) == [s \in SUBSET (1..n) |->
                         IF s = {} THEN before ELSE op(c[s \ {Max(s)}], outs[Max(s)])]
           after == FoldLeft(LAMBDA regs, fa : [regs EXCEPT ![fa[2]] = formals[fa[1]]],
                             before, outs)
<1>1. n \in Nat /\ DOMAIN outs = 1..n /\ \A i \in 1..n : outs[i] \in Regs \X Regs
  OBVIOUS
<1>2. ASSUME NEW regs \in RegFile, NEW i \in 1..n
      PROVE  /\ op(regs, outs[i]) \in RegFile
             /\ \A r \in Regs : op(regs, outs[i])[r] = IF outs[i][2] = r THEN formals[outs[i][1]]
                                                       ELSE regs[r]
  <2>1. formals[outs[i][1]] \in Values /\ outs[i][2] \in Regs
    BY <1>1 DEF RegFile
  <2>. QED BY <2>1 DEF RegFile
<1>3. f \in [RegFile \X (1..n) -> RegFile]
  BY <1>2
<1> HIDE DEF f
<1>4. PICK g : IsFold(g, n, RegFile, before, f)
  BY <1>1, <1>3, FoldExists
<1>5. ASSUME NEW s \in SUBSET (1..n), s # {}
      PROVE  f[<<g[s \ {Max(s)}], Max(s)>>] = op(g[s \ {Max(s)}], outs[Max(s)])
  <2>1. Max(s) \in 1..n /\ s \ {Max(s)} \in SUBSET (1..n)
    BY <1>1, <1>5, SegmentMax
  <2>2. g[s \ {Max(s)}] \in RegFile
    BY <1>4, <2>1 DEF IsFold
  <2>. QED BY <2>1, <2>2 DEF f
<1>6. g = Body(g)
  BY <1>4, <1>5 DEF IsFold
<1> DEFINE c == CHOOSE h : h = Body(h)
<1>7. c = Body(c)
  BY <1>6
<1>8. after = c[1..n]
  BY <1>1 DEF FoldLeft, MapThenFoldSet
<1> HIDE DEF c, n, op, after
<1>9. StepAlike(c, g, n)
  BY <1>6, <1>7 DEF StepAlike
<1>10. after = g[1..n] /\ g[1..n] \in RegFile
  BY <1>1, <1>4, <1>8, <1>9, FoldUnique DEF IsFold
<1>11. /\ g[1..0] = before /\ \A k \in 0..n : g[1..k] \in RegFile
       /\ \A k \in 1..n : g[1..k] = f[<<g[1..(k - 1)], k>>]
  BY <1>1, <1>4, FoldAlong
<1> DEFINE P(k) == \A r \in Regs : CopiedTo(r, k, outs, formals, before, g[1..k])
           S == {k \in Nat : k <= n => P(k)}
<1>12. P(0)
  BY <1>11 DEF CopiedTo
<1>13. ASSUME NEW k \in Nat, k + 1 <= n, P(k) PROVE P(k + 1)
  <2>1. k + 1 \in 1..n /\ (k + 1) - 1 = k /\ k \in 0..n /\ g[1..k] \in RegFile
    BY <1>1, <1>11, <1>13
  <2>2. g[1..(k + 1)] = f[<<g[1..k], k + 1>>]
    BY <1>11, <2>1
  <2>3. g[1..(k + 1)] = op(g[1..k], outs[k + 1])
    BY <2>1, <2>2 DEF f
  <2> DEFINE old == g[1..k]
             new == g[1..(k + 1)]
  <2>4. \A r \in Regs : new[r] = IF outs[k + 1][2] = r THEN formals[outs[k + 1][1]] ELSE old[r]
    BY <1>2, <2>1, <2>3
  <2>5. \A i \in 1..(k + 1) : i = k + 1 \/ i \in 1..k
    OBVIOUS
  <2>6. k + 1 \in 1..(k + 1) /\ \A i \in 1..k : i \in 1..(k + 1) /\ i <= k + 1
    OBVIOUS
  <2> SUFFICES ASSUME NEW r \in Regs PROVE CopiedTo(r, k + 1, outs, formals, before, new)
    OBVIOUS
  <2>7. CopiedTo(r, k, outs, formals, before, old)
    BY <1>13
  <2> HIDE DEF old, new
  <2>8. CASE outs[k + 1][2] = r
    BY <2>4, <2>5, <2>6, <2>8 DEF CopiedTo
  <2>9. CASE outs[k + 1][2] # r
    <3>1. new[r] = old[r]
      BY <2>4, <2>9
    <3>. QED BY <2>5, <2>6, <2>7, <2>9, <3>1 DEF CopiedTo
  <2>. QED BY <2>8, <2>9
<1> HIDE DEF P
<1>14. 0 \in S /\ \A k \in Nat : k \in S => k + 1 \in S
  BY <1>1, <1>12, <1>13
<1> HIDE DEF S
<1>15. n \in S
  BY <1>1, <1>14, Induction
<1>16. P(n)
  BY <1>15 DEF S
<1>17. \A r \in Regs : CopiedTo(r, n, outs, formals, before, after)
  BY <1>10, <1>16 DEF P
<1>. QED BY <1>10, <1>17 DEF after, n

-----------------------------------------------------------------------------
\* The frames of every process stay frames, in stacks of the depth they had.
SameDepths ==
  /\ frames' \in [Procs -> Seq(Frame)]
  /\ \A q \in Procs : Len(frames'[q]) = Len(frames[q])

\* The frame at the top of a stack, and its registers.
LEMMA TopType ==
  ASSUME CallInv, FrameInv, NEW p \in Procs
  PROVE  /\ frames[p] \in Seq(Frame) /\ Len(frames[p]) \in Nat /\ Len(frames[p]) >= 1
         /\ Top(p) \in Frame /\ Top(p).regs \in RegFile
<1>1. frames[p] \in Seq(Frame)
  BY DEF CallInv
<1>2. Len(frames[p]) \in Nat /\ Len(frames[p]) >= 1
  BY <1>1 DEF FrameInv, IsStack
<1>3. Top(p) \in Frame
  BY <1>1, <1>2 DEF Top, Last
<1>. QED BY <1>1, <1>2, <1>3 DEF Frame

\* A step that replaces the frame at the top.
LEMMA SetTopType ==
  ASSUME CallInv, FrameInv, NEW p \in Procs, NEW f \in Frame, frames' = SetTop(p, f)
  PROVE  SameDepths
<1> DEFINE s == frames[p]
           r == Append(Front(s), f)
<1>1. s \in Seq(Frame) /\ Len(s) \in Nat /\ Len(s) >= 1
  BY TopType
<1>2. Front(s) \in Seq(Frame) /\ Len(Front(s)) = Len(s) - 1
  BY <1>1, Prefix, Len(s) - 1 \in Nat, Len(s) - 1 <= Len(s) DEF Front
<1>3. r \in Seq(Frame) /\ Len(r) = Len(s)
  BY <1>1, <1>2
<1>4. frames \in [Procs -> Seq(Frame)]
  BY DEF CallInv
<1> HIDE DEF r
<1>5. frames' = [frames EXCEPT ![p] = r]
  BY DEF SetTop, r
<1>. QED BY <1>3, <1>4, <1>5 DEF SameDepths

\* A frame with other registers.
LEMMA RegsReplaced ==
  ASSUME NEW f \in Frame, NEW regs \in RegFile
  PROVE  [f EXCEPT !.regs = regs] \in Frame
BY DEF Frame

\* A frame with other registers and updates.
LEMMA UpdatesReplaced ==
  ASSUME NEW f \in Frame, NEW regs \in RegFile, NEW updates \in Seq(Update)
  PROVE  /\ [f EXCEPT !.regs = regs, !.pending_nba = updates] \in Frame
         /\ [f EXCEPT !.pending_nba = updates] \in Frame
BY DEF Frame

\* A frame that copies nothing back.
LEMMA PlainFrame ==
  ASSUME NEW regs \in RegFile
  PROVE  NewFrame(<<>>, <<>>, regs, 1, <<>>) \in Frame
<1>1. Lists(<<>>, 0, <<>>, <<>>) /\ Len(<<>>) = 0
  BY DEF Lists
<1>. QED BY <1>1 DEF Frame, NewFrame

\* IrProcess::run applies the updates of the top frame.
LEMMA ResumeType ==
  ASSUME CallInv, FrameInv, NEW p \in Procs, Resume(p)
  PROVE  SameDepths
<1>1. CASE apply_pending_nba[p]
  <2> DEFINE updates == Top(p).pending_nba
             regs == FoldLeft(LAMBDA rs, u : [rs EXCEPT ![u.dst] = u.value], Top(p).regs, updates)
  <2>1. frames' = SetTop(p, [Top(p) EXCEPT !.regs = regs, !.pending_nba = <<>>])
    BY <1>1 DEF Resume, ApplyPending
  <2>2. Top(p) \in Frame /\ Top(p).regs \in RegFile
    BY TopType
  <2>3. updates \in Seq(Update)
    BY <2>2 DEF Frame
  <2>4. regs \in RegFile
    BY <2>2, <2>3, AppliedType
  <2> HIDE DEF regs
  <2>5. [Top(p) EXCEPT !.regs = regs, !.pending_nba = <<>>] \in Frame
    <3> DEFINE none == <<>>
    <3>1. none \in Seq(Update)
      OBVIOUS
    <3> HIDE DEF none
    <3>2. [Top(p) EXCEPT !.regs = regs, !.pending_nba = none] \in Frame
      BY <2>2, <2>4, <3>1, UpdatesReplaced
    <3>. QED BY <3>2 DEF none
  <2>. QED BY <2>1, <2>5, SetTopType
<1>2. CASE ~apply_pending_nba[p]
  BY <1>2 DEF Resume, CallInv, SameDepths
<1>. QED BY <1>1, <1>2

\* An instruction that computes a register.
LEMMA SetRegType ==
  ASSUME CallInv, FrameInv, NEW p \in Procs, NEW r \in Regs, NEW v \in Values,
         frames' = SetReg(p, r, v)
  PROVE  SameDepths
<1> DEFINE regs == [Top(p).regs EXCEPT ![r] = v]
<1>1. Top(p) \in Frame /\ Top(p).regs \in RegFile
  BY TopType
<1>2. regs \in RegFile
  BY <1>1 DEF RegFile
<1>3. frames' = SetTop(p, [Top(p) EXCEPT !.regs = regs])
  BY DEF SetReg
<1> HIDE DEF regs
<1>. QED BY <1>1, <1>2, <1>3, RegsReplaced, SetTopType

\* Inst::NbaAssign queues an update in the top frame.
LEMMA NbaAssignType ==
  ASSUME CallInv, FrameInv, NEW p \in Procs, NEW dst \in Regs, NEW src \in Regs,
         NbaAssign(p, dst, src)
  PROVE  SameDepths
<1> DEFINE pending == Top(p).pending_nba
           new == [dst |-> dst, value |-> Top(p).regs[src], depth |-> Len(frames[p])]
           replaced == [i \in DOMAIN pending |-> IF pending[i].dst = dst THEN new ELSE pending[i]]
           updated == IF \E i \in DOMAIN pending : pending[i].dst = dst
                      THEN replaced ELSE Append(pending, new)
<1>1. frames' = SetTop(p, [Top(p) EXCEPT !.pending_nba = updated])
  BY DEF NbaAssign
<1>2. Top(p) \in Frame /\ Top(p).regs \in RegFile /\ Len(frames[p]) \in Nat
  BY TopType
<1>3. Top(p).regs[src] \in Values
  BY <1>2 DEF RegFile
<1>4. new \in Update
  BY <1>2, <1>3 DEF Update
<1>5. pending \in Seq(Update)
  BY <1>2 DEF Frame
<1> HIDE DEF new, pending
<1>6. replaced \in Seq(Update)
  <2>1. replaced \in [1..Len(pending) -> Update] /\ Len(pending) \in Nat
    BY <1>4, <1>5
  <2>. QED BY <2>1, SeqDef
<1>7. updated \in Seq(Update)
  BY <1>4, <1>5, <1>6
<1> HIDE DEF updated, replaced
<1>. QED BY <1>1, <1>2, <1>7, UpdatesReplaced, SetTopType

\* Step::Call puts a frame on top that copies back its output, inout and ref
\* formals to the registers that were passed.
LEMMA CallType ==
  ASSUME CallInv, FrameInv, NEW p \in Procs, NEW sig \in Signatures,
         NEW actuals \in [DOMAIN sig -> Regs], NEW ret \in Regs, Call(p, sig, actuals, ret)
  PROVE  /\ frames' \in [Procs -> Seq(Frame)]
         /\ Len(frames'[p]) = Len(frames[p]) + 1
<1> DEFINE s == frames[p]
           regs == CopyIn(Top(p), sig, actuals)
           outs == CopyOuts(sig, actuals)
           callee == NewFrame(sig, actuals, regs, ret, outs)
<1>1. frames' = [frames EXCEPT ![p] = Append(s, callee)]
  BY DEF Call
<1>2. sig \in Seq(ArgMode) /\ Len(sig) <= NumRegs
  BY ProgramAssumption
<1>3. outs \in Seq(Regs \X Regs) /\ Lists(outs, Len(sig), sig, actuals)
  BY <1>2, CopyOutsListed
<1>4. s \in Seq(Frame) /\ Len(s) \in Nat /\ Top(p).regs \in RegFile
  BY TopType
<1>5. regs \in RegFile
  BY <1>4 DEF CopyIn, RegFile, Values
<1>6. ret \in Nat
  BY DEF Regs
<1> HIDE DEF regs, outs
<1>7. actuals \in Seq(Regs)
  <2>1. actuals \in [1..Len(sig) -> Regs] /\ Len(sig) \in Nat
    BY <1>2
  <2>. QED BY <2>1, SeqDef
<1>8. callee \in Frame
  BY <1>2, <1>3, <1>5, <1>6, <1>7 DEF Frame, NewFrame
<1> HIDE DEF callee
<1>9. frames \in [Procs -> Seq(Frame)]
  BY DEF CallInv
<1>. QED BY <1>1, <1>4, <1>8, <1>9

\* Step::Return: the registers of the caller are those the formals went to.
LEMMA ReturnType ==
  ASSUME CallInv, FrameInv, NEW p \in Procs,
         NEW result \in Results(p),
         Return(p, result), Len(frames[p]) > 1
  PROVE  /\ frames' \in [Procs -> Seq(Frame)]
         /\ \A q \in Procs : q # p => frames'[q] = frames[q]
         /\ \A r \in Regs :
              IF result # <<>> /\ r = Top(p).ret_dst
              THEN Last(frames'[p]).regs[r] = result[1]
              ELSE CopiedTo(r, Len(Top(p).copy_out), Top(p).copy_out, Top(p).regs,
                            frames[p][Len(frames[p]) - 1].regs, Last(frames'[p]).regs)
<1> DEFINE s == frames[p]
           n == Len(s) - 1
           caller == s[n]
           callee == Top(p)
           copied == FoldLeft(LAMBDA regs, fa : [regs EXCEPT ![fa[2]] = callee.regs[fa[1]]],
                              caller.regs, callee.copy_out)
           regs == Returned(caller, callee, result)
           f == [caller EXCEPT !.regs = regs]
           t == Append(SubSeq(s, 1, Len(s) - 2), f)
<1>1. s \in Seq(Frame) /\ Len(s) \in Nat /\ callee \in Frame /\ callee.regs \in RegFile
  BY TopType
<1>2. n \in 1..Len(s) /\ n - 1 \in Nat /\ n - 1 = Len(s) - 2 /\ n - 1 <= Len(s)
  BY <1>1
<1>3. caller \in Frame
  BY <1>1, <1>2
<1>4. caller.regs \in RegFile /\ callee.copy_out \in Seq(Regs \X Regs)
  BY <1>1, <1>3 DEF Frame
<1>5. frames' = [frames EXCEPT ![p] = t]
  BY DEF Return
<1>6. regs = IF result = <<>> THEN copied ELSE [copied EXCEPT ![callee.ret_dst] = result[1]]
  BY DEF Returned
<1> HIDE DEF caller, callee, s, n
<1>7. /\ copied \in RegFile
      /\ \A r \in Regs : CopiedTo(r, Len(callee.copy_out), callee.copy_out, callee.regs,
                                  caller.regs, copied)
  BY <1>1, <1>4, CopiedBack
<1> HIDE DEF copied, regs
<1>8. result # <<>> => result[1] \in Values
  BY <1>1 DEF Results, RegFile, callee
<1>9. /\ regs \in RegFile
      /\ \A r \in Regs : regs[r] = IF result # <<>> /\ r = callee.ret_dst THEN result[1]
                                   ELSE copied[r]
  BY <1>6, <1>7, <1>8 DEF RegFile
<1>10. f \in Frame /\ f.regs = regs
  <2>1. f \in Frame
    BY <1>3, <1>9, RegsReplaced
  <2>2. f.regs = regs
    BY <1>3 DEF Frame
  <2>. QED BY <2>1, <2>2
<1> HIDE DEF f
<1>11. /\ SubSeq(s, 1, n - 1) \in Seq(Frame) /\ Len(SubSeq(s, 1, n - 1)) = n - 1
  BY <1>1, <1>2, Prefix
<1>12. t \in Seq(Frame) /\ Len(t) = n /\ t[n] = f
  BY <1>2, <1>10, <1>11
<1>13. Last(t) = f
  BY <1>12 DEF Last
<1> HIDE DEF t
<1>14. frames \in [Procs -> Seq(Frame)]
  BY DEF CallInv
<1>15. frames' \in [Procs -> Seq(Frame)] /\ frames'[p] = t
       /\ \A q \in Procs : q # p => frames'[q] = frames[q]
  BY <1>5, <1>12, <1>14
<1>16. Last(frames'[p]).regs = regs
  BY <1>10, <1>13, <1>15
<1>17. ASSUME NEW r \in Regs
       PROVE  IF result # <<>> /\ r = callee.ret_dst THEN Last(frames'[p]).regs[r] = result[1]
              ELSE CopiedTo(r, Len(callee.copy_out), callee.copy_out, callee.regs,
                            caller.regs, Last(frames'[p]).regs)
  BY <1>7, <1>9, <1>16 DEF CopiedTo
<1>. QED BY <1>15, <1>17 DEF caller, callee, s, n

\* What a step does to the stacks: only a return makes one shorter.
StackStep ==
  /\ frames' \in [Procs -> Seq(Frame)]
  /\ \A q \in Procs :
       \/ Len(frames'[q]) = Len(frames[q])
       \/ status[q] = "running" /\ status'[q] = "running" /\ Len(frames'[q]) = Len(frames[q]) + 1
       \/ /\ status[q] = "running" /\ status'[q] = "running"
          /\ \E result \in Results(q) : Return(q, result)

\* A process is born once.
BornOnce ==
  /\ statics' \in [Statics -> Values] /\ DOMAIN status' = Procs
  /\ \A q \in Procs : status'[q] = "unborn" => status[q] = "unborn"

\* Step::Fork gives the child, which had one frame, another one.
LEMMA ForkType ==
  ASSUME CallInv, FrameInv, NEW p \in Procs, NEW child \in Procs, NEW where \in {"ready", "parked"},
         Fork(p, child, where)
  PROVE  SameDepths /\ BornOnce
<1> DEFINE s == <<NewFrame(<<>>, <<>>, Top(p).regs, 1, <<>>)>>
<1>1. NewFrame(<<>>, <<>>, Top(p).regs, 1, <<>>) \in Frame
  BY TopType, PlainFrame
<1>2. s \in Seq(Frame) /\ Len(s) = 1
  BY <1>1
<1>3. frames' = [frames EXCEPT ![child] = s] /\ Len(frames[child]) = 1
  BY DEF Fork, CallInv
<1> HIDE DEF s
<1>4. frames \in [Procs -> Seq(Frame)]
  BY DEF CallInv
<1>5. SameDepths
  BY <1>2, <1>3, <1>4 DEF SameDepths
<1>6. BornOnce
  BY DEF Fork, CallInv, BornOnce
<1>. QED BY <1>5, <1>6

\* Every step keeps the stacks typed, and shortens one by a return only.
LEMMA StackSteps == CallInv /\ FrameInv /\ [Next]_vars => StackStep /\ BornOnce
<1> SUFFICES ASSUME CallInv, FrameInv, [Next]_vars PROVE StackStep /\ BornOnce
  OBVIOUS
<1>1. /\ statics \in [Statics -> Values] /\ DOMAIN status = Procs
      /\ frames \in [Procs -> Seq(Frame)]
  BY DEF CallInv
<1>2. SameDepths => StackStep
  BY DEF SameDepths, StackStep
<1>3. UNCHANGED frames => StackStep
  BY <1>1 DEF StackStep
<1>4. UNCHANGED <<statics, status>> => BornOnce
  BY <1>1 DEF BornOnce
<1>5. ASSUME NEW p \in Procs, Instruction(p) PROVE StackStep /\ BornOnce
  <2>1. ASSUME NEW r \in Regs, NEW v \in Vals, Compute(p, r, v) PROVE StackStep /\ BornOnce
    <3>1. SameDepths
      BY <2>1, SetRegType DEF Compute, Values
    <3>. QED BY <1>2, <1>4, <2>1, <3>1 DEF Compute
  <2>2. ASSUME NEW r \in Regs, NEW q \in Regs, NbaAssign(p, r, q) PROVE StackStep /\ BornOnce
    BY <1>2, <1>4, <2>2, NbaAssignType DEF NbaAssign
  <2>3. ASSUME NEW r \in Regs, NEW s \in Statics, StaticGet(p, r, s) PROVE StackStep /\ BornOnce
    <3>1. SameDepths
      BY <1>1, <2>3, SetRegType DEF StaticGet
    <3>. QED BY <1>2, <1>4, <2>3, <3>1 DEF StaticGet
  <2>4. ASSUME NEW r \in Regs, NEW s \in Statics, StaticSet(p, s, r) PROVE StackStep /\ BornOnce
    <3>1. Top(p).regs[r] \in Values
      BY TopType DEF RegFile
    <3>2. statics' = [statics EXCEPT ![s] = Top(p).regs[r]]
      BY <2>4 DEF StaticSet
    <3>3. statics' \in [Statics -> Values]
      BY <1>1, <3>1, <3>2
    <3>4. DOMAIN status' = Procs /\ \A q \in Procs : status'[q] = "unborn" => status[q] = "unborn"
      BY <2>4 DEF StaticSet, Notified
    <3>. QED BY <1>3, <2>4, <3>3, <3>4 DEF StaticSet, BornOnce
  <2>5. ASSUME NEW s \in Statics, NEW v \in Vals, WaitCond(p, s, v) PROVE StackStep /\ BornOnce
    BY <1>3, <1>4, <2>5 DEF WaitCond
  <2>6. ASSUME NEW where \in {"delay", "parked"}, Suspend(p, where) PROVE StackStep /\ BornOnce
    BY <1>1, <1>3, <2>6 DEF Suspend, BornOnce
  <2>7. ASSUME NEW r \in Regs, WaitChange(p, r) PROVE StackStep /\ BornOnce
    <3>1. status'[p] \in {"nba", "runtime"} /\ UNCHANGED <<frames, statics>>
          /\ DOMAIN status' = Procs /\ \A q \in Procs : q # p => status'[q] = status[q]
      BY <1>1, <2>7 DEF WaitChange
    <3>. QED BY <1>1, <1>3, <3>1 DEF BornOnce
  <2>8. ASSUME NEW sig \in Signatures, NEW actuals \in [DOMAIN sig -> Regs], NEW r \in Regs,
               Call(p, sig, actuals, r)
        PROVE  StackStep /\ BornOnce
    <3>1. frames' \in [Procs -> Seq(Frame)] /\ Len(frames'[p]) = Len(frames[p]) + 1
      BY <2>8, CallType
    <3>2. OthersKept(p)
      BY <2>8, CallFrames
    <3>3. status[p] = "running" /\ UNCHANGED <<statics, status>>
      BY <2>8 DEF Call, Execute
    <3>4. StackStep
      BY <3>1, <3>2, <3>3 DEF StackStep, OthersKept
    <3>. QED BY <1>4, <3>3, <3>4
  <2>9. ASSUME NEW result \in Results(p), Return(p, result)
        PROVE  StackStep /\ BornOnce
    <3>1. status[p] = "running" /\ UNCHANGED statics
      BY <2>9 DEF Return, Execute
    <3>2. CASE Len(frames[p]) > 1
      <4>1. UNCHANGED status
        BY <2>9, <3>2 DEF Return
      <4>2. StackStep
        BY <2>9, <3>1, <3>2, <4>1, ReturnType DEF StackStep
      <4>. QED BY <1>4, <3>1, <4>1, <4>2
    <3>3. CASE ~(Len(frames[p]) > 1)
      <4>1. UNCHANGED frames /\ status' = [status EXCEPT ![p] = "finished"]
        BY <2>9, <3>3 DEF Return
      <4>. QED BY <1>1, <1>3, <3>1, <4>1 DEF BornOnce
    <3>. QED BY <3>2, <3>3
  <2>10. ASSUME NEW c \in Procs, NEW where \in {"ready", "parked"}, Fork(p, c, where)
         PROVE  StackStep /\ BornOnce
    BY <1>2, <2>10, ForkType
  <2>11. CASE CheckCond(p)
    BY <1>1, <1>3, <2>11 DEF CheckCond, BornOnce
  <2>12. CASE Finish(p)
    BY <1>1, <1>3, <2>12 DEF Finish, BornOnce
  <2>. QED
    BY <1>5, <2>1, <2>2, <2>3, <2>4, <2>5, <2>6, <2>7, <2>8, <2>9, <2>10, <2>11, <2>12
       DEF Instruction
<1>6. ASSUME NEW p \in Procs, Resume(p) PROVE StackStep /\ BornOnce
  <2>1. SameDepths
    BY <1>6, ResumeType
  <2>2. DOMAIN status' = Procs /\ \A q \in Procs : status'[q] = "unborn" => status[q] = "unborn"
    <3>1. CASE apply_pending_nba[p]
      BY <1>6, <3>1 DEF Resume, Notified
    <3>2. CASE ~apply_pending_nba[p]
      BY <1>1, <1>6, <3>2 DEF Resume
    <3>. QED BY <3>1, <3>2
  <2>. QED BY <1>1, <1>2, <1>6, <2>1, <2>2 DEF Resume, BornOnce
<1>7. ASSUME NEW p \in Procs, Wake(p) PROVE StackStep /\ BornOnce
  BY <1>1, <1>3, <1>7 DEF Wake, BornOnce
<1>8. CASE NbaRegion
  BY <1>1, <1>3, <1>8 DEF NbaRegion, BornOnce
<1>9. ASSUME NEW S \in SUBSET Procs, AdvanceTime(S) PROVE StackStep /\ BornOnce
  BY <1>1, <1>3, <1>9 DEF AdvanceTime, BornOnce
<1>10. CASE UNCHANGED vars
  BY <1>3, <1>4, <1>10 DEF vars
<1>. QED BY <1>5, <1>6, <1>7, <1>8, <1>9, <1>10 DEF Next

\* Every step keeps the frames typed.
LEMMA CallStep == CallInv /\ FrameInv /\ [Next]_vars => CallInv'
<1> SUFFICES ASSUME CallInv, FrameInv, [Next]_vars PROVE CallInv'
  OBVIOUS
<1>1. StackStep /\ BornOnce
  BY StackSteps
<1>2. ASSUME NEW q \in Procs, status'[q] = "unborn" PROVE Len(frames'[q]) = 1
  <2>1. status[q] = "unborn" /\ Len(frames[q]) = 1
    BY <1>1, <1>2 DEF BornOnce, CallInv
  <2>. QED BY <1>1, <2>1 DEF StackStep
<1>. QED BY <1>1, <1>2 DEF CallInv, StackStep, BornOnce

\* A process starts with one frame.
LEMMA CallInit == Init => CallInv
<1> SUFFICES ASSUME Init PROVE CallInv
  OBVIOUS
<1> DEFINE f == NewFrame(<<>>, <<>>, NullRegs, 1, <<>>)
           s == <<f>>
<1>1. NullRegs \in RegFile
  BY DEF NullRegs, RegFile, Values
<1>2. f \in Frame
  BY <1>1, PlainFrame
<1> HIDE DEF f
<1>3. s \in Seq(Frame) /\ Len(s) = 1
  BY <1>2
<1> HIDE DEF s
<1>4. frames = [p \in Procs |-> s]
  BY DEF Init, s, f
<1>5. statics \in [Statics -> Values] /\ DOMAIN status = Procs
  BY DEF Init, Values
<1>. QED BY <1>3, <1>4, <1>5 DEF CallInv

\* What register r of the caller of f holds, in terms of formals and actuals.
CopiedFormal(f, r, before, after) ==
  LET formals == {i \in DOMAIN f.arg_modes : f.arg_modes[i] # "Input" /\ f.actuals[i] = r}
  IN IF formals = {} THEN after[r] = before[r]
     ELSE \E i \in formals : (\A j \in formals : j <= i) /\ after[r] = f.regs[i]

\* The list of copy-outs says the same.
LEMMA CopiedFormals ==
  ASSUME NEW f \in Frame, NEW r, NEW before, NEW after,
         CopiedTo(r, Len(f.copy_out), f.copy_out, f.regs, before, after)
  PROVE  CopiedFormal(f, r, before, after)
<1> DEFINE outs == f.copy_out
           modes == f.arg_modes
           actuals == f.actuals
           n == Len(modes)
           m == Len(outs)
           formals == {i \in DOMAIN modes : modes[i] # "Input" /\ actuals[i] = r}
<1>1. /\ outs \in Seq(Regs \X Regs) /\ modes \in Seq(ArgMode)
      /\ Lists(outs, n, modes, actuals)
  BY DEF Frame
<1>2. DOMAIN outs = 1..m /\ m \in Nat /\ DOMAIN modes = 1..n /\ n \in Nat
  BY <1>1
<1>3. CopiedTo(r, m, outs, f.regs, before, after)
  OBVIOUS
<1> HIDE DEF outs, modes, actuals, m, n
<1>4. ASSUME NEW j \in 1..m, outs[j][2] = r PROVE outs[j][1] \in formals
  BY <1>1, <1>2, <1>4 DEF Lists
<1>5. ASSUME NEW i \in formals PROVE \E j \in 1..m : outs[j][1] = i /\ outs[j][2] = r
  <2>1. PICK j \in DOMAIN outs : outs[j][1] = i
    BY <1>1, <1>2 DEF Lists
  <2>. QED BY <1>1, <1>2, <2>1 DEF Lists
<1>6. \A i \in formals : i \in Nat
  BY <1>2
<1> HIDE DEF formals
<1>7. CASE \A i \in 1..m : outs[i][2] # r
  <2>1. formals = {}
    BY <1>5, <1>7
  <2>2. after[r] = before[r]
    BY <1>3, <1>7 DEF CopiedTo
  <2>. QED BY <2>1, <2>2 DEF CopiedFormal, formals, modes, actuals
<1>8. CASE ~\A i \in 1..m : outs[i][2] # r
  <2>1. PICK k \in 1..m : /\ outs[k][2] = r /\ after[r] = f.regs[outs[k][1]]
                          /\ \A j \in 1..m : outs[j][2] = r => j <= k
    BY <1>3, <1>8 DEF CopiedTo
  <2>2. outs[k][1] \in formals
    BY <1>4, <2>1
  <2>3. ASSUME NEW i \in formals PROVE i <= outs[k][1]
    <3>1. PICK j \in 1..m : outs[j][1] = i /\ outs[j][2] = r
      BY <1>5
    <3>2. j <= k /\ j \in Nat /\ k \in Nat
      BY <2>1, <3>1
    <3>3. j < k => outs[j][1] < outs[k][1]
      BY <1>1, <1>2 DEF Lists
    <3>. QED BY <1>6, <2>2, <3>1, <3>2, <3>3
  <2>4. formals # {} /\ \E i \in formals : (\A j \in formals : j <= i) /\ after[r] = f.regs[i]
    BY <2>1, <2>2, <2>3
  <2>. QED BY <2>4 DEF CopiedFormal, formals, modes, actuals
<1>. QED BY <1>7, <1>8

\* What ReturnExact says of a step of p.
Returns(p) ==
  LET callee == Top(p)
      before == frames[p][Len(frames[p]) - 1].regs
      after == Last(frames'[p]).regs
      formals(r) == {i \in DOMAIN callee.arg_modes :
                       callee.arg_modes[i] # "Input" /\ callee.actuals[i] = r}
  IN /\ \E result \in Results(p) : Return(p, result)
     /\ \A result \in Results(p) : Return(p, result) => \A r \in Regs :
          IF result # <<>> /\ r = callee.ret_dst THEN after[r] = result[1]
          ELSE IF formals(r) = {} THEN after[r] = before[r]
          ELSE \E i \in formals(r) : /\ \A j \in formals(r) : j <= i
                                    /\ after[r] = callee.regs[i]

\* For every program, whatever runs between a call and its return: a frame is
\* popped by a return only, which leaves in the caller the result, the output,
\* inout and ref formals that were passed, the last one where an actual was
\* passed twice, and nothing else (interp.rs Step::Call and Step::Return).
THEOREM ReturnsExact == Spec => ReturnExact
<1>1. ASSUME CallInv, FrameInv, [Next]_vars,
             NEW p \in Procs, Len(frames'[p]) < Len(frames[p])
      PROVE  Returns(p)
  <2> DEFINE callee == Top(p)
             before == frames[p][Len(frames[p]) - 1].regs
             after == Last(frames'[p]).regs
  <2>1. Len(frames[p]) \in Nat /\ callee \in Frame
    BY <1>1, TopType
  <2>2. \E result \in Results(p) : Return(p, result)
    BY <1>1, <2>1, StackSteps DEF StackStep
  <2>3. ASSUME NEW result \in Results(p), Return(p, result), NEW r \in Regs
        PROVE  IF result # <<>> /\ r = callee.ret_dst THEN after[r] = result[1]
               ELSE CopiedTo(r, Len(callee.copy_out), callee.copy_out, callee.regs,
                             before, after)
    <3>1. Len(frames[p]) > 1
      <4> SUFFICES ASSUME ~(Len(frames[p]) > 1) PROVE FALSE
        OBVIOUS
      <4>1. UNCHANGED frames
        BY <2>3 DEF Return
      <4>. QED BY <1>1, <2>1, <4>1
    <3>. QED BY <1>1, <2>3, <3>1, ReturnType
  <2> HIDE DEF callee, before, after
  <2>4. ASSUME NEW result \in Results(p), Return(p, result), NEW r \in Regs
        PROVE  IF result # <<>> /\ r = callee.ret_dst THEN after[r] = result[1]
               ELSE CopiedFormal(callee, r, before, after)
    BY <2>1, <2>3, <2>4, CopiedFormals
  <2>. QED BY <2>2, <2>4 DEF Returns, CopiedFormal, callee, before, after
<1>2. CallInv /\ FrameInv /\ [Next]_vars =>
        [\A p \in Procs : Len(frames'[p]) < Len(frames[p]) => Returns(p)]_vars
  BY <1>1
<1>. QED BY <1>2, FrameInit, FrameStep, CallInit, CallStep, PTL DEF Spec, ReturnExact, Returns

=============================================================================
