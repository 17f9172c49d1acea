------------------------------- MODULE Interp -------------------------------
(***************************************************************************)
(* The bytecode interpreter: IrProcess::run and the control of run_frame   *)
(* (interp.rs), several processes that share static variables.  A process  *)
(* is a stack of frames; the last one executes.  A program is any sequence *)
(* of instructions, chosen step by step; only wait(cond), whose code the   *)
(* elaborator generates as a loop (gen_timing), is kept as one: cond is the*)
(* condition the program counter is about to check.                        *)
(*                                                                         *)
(* The kernel appears as its contract with a process (Lifecycle): status   *)
(* says where each process is; Scheduler has the queues behind it.         *)
(***************************************************************************)
EXTENDS Naturals, Sequences, SequencesExt

CONSTANTS
  Procs,      \* processes
  Started,    \* the processes that exist at time 0; the others can be forked
  NumRegs,    \* registers of a frame; formal i of a callee is register i
  Statics,    \* static variables, as are class fields and collections
  Vals,       \* values
  Null,       \* Value::Null, what a register holds at first
  Signatures, \* sequences of ArgMode, one per callable
  MaxDepth,   \* bound on the frames of a process
  MaxInsts    \* bound on the instructions of a process

Regs == 1..NumRegs
ArgMode == {"Input", "Output", "Inout", "Ref"}
Values == Vals \cup {Null}
NoCond == <<>>

ASSUME ProgramAssumption ==
  /\ Started \subseteq Procs
  /\ NumRegs \in Nat /\ MaxDepth \in Nat /\ MaxInsts \in Nat
  /\ \A sig \in Signatures : sig \in Seq(ArgMode) /\ Len(sig) <= NumRegs

VARIABLES
  frames,            \* IrProcess: callers and the current frame
  apply_pending_nba, \* IrProcess::apply_pending_nba
  statics,           \* Linkage::statics
  cond,              \* the wait(cond) being executed: <<static, value>>
  status,            \* where the kernel has each process
  insts              \* instructions executed

vars == <<frames, apply_pending_nba, statics, cond, status, insts>>

Top(p) == Last(frames[p])

SetTop(p, frame) == [frames EXCEPT ![p] = Append(Front(@), frame)]

SetReg(p, r, v) == SetTop(p, [Top(p) EXCEPT !.regs[r] = v])

\* A frame at its first instruction; arg_modes are those of its program.
\* actuals is not in the code: the registers of the caller that were passed.
NewFrame(arg_modes, actuals, regs, ret, copy_out) ==
  [arg_modes |-> arg_modes, actuals |-> actuals, regs |-> regs, ret_dst |-> ret,
   copy_out |-> copy_out, pending_nba |-> <<>>]

NullRegs == [r \in Regs |-> Null]

Init ==
  /\ frames = [p \in Procs |-> <<NewFrame(<<>>, <<>>, NullRegs, 1, <<>>)>>]
  /\ apply_pending_nba = [p \in Procs |-> FALSE]
  /\ statics = [s \in Statics |-> Null]
  /\ cond = [p \in Procs |-> NoCond]
  /\ status = [p \in Procs |-> IF p \in Started THEN "ready" ELSE "unborn"]
  /\ insts = [p \in Procs |-> 0]

-----------------------------------------------------------------------------
(* The kernel's side *)

At(s) == {p \in Procs : status[p] = s}

\* notify_runtime_change, when p goes on as s.
Notified(p, s) ==
  [q \in Procs |-> IF q = p THEN s
                   ELSE IF status[q] = "runtime" THEN "ready" ELSE status[q]]

\* The head of IrProcess::run: the updates queued by the frame are applied.
ApplyPending(p) ==
  LET updates == Top(p).pending_nba IN
  SetTop(p, [Top(p) EXCEPT
    !.regs = FoldLeft(LAMBDA regs, u : [regs EXCEPT ![u.dst] = u.value], @, updates),
    !.pending_nba = <<>>])

\* Mutant: the flag is read, not taken.
Resume_KeepFlag(p) ==
  /\ At("running") = {}
  /\ status[p] = "ready"
  /\ IF apply_pending_nba[p]
     THEN frames' = ApplyPending(p) /\ status' = Notified(p, "running")
     ELSE status' = [status EXCEPT ![p] = "running"] /\ UNCHANGED frames
  /\ UNCHANGED <<apply_pending_nba, statics, cond, insts>>

Resume(p) ==
  /\ At("running") = {}
  /\ status[p] = "ready"
  /\ IF apply_pending_nba[p]
     THEN frames' = ApplyPending(p) /\ status' = Notified(p, "running")
     ELSE status' = [status EXCEPT ![p] = "running"] /\ UNCHANGED frames
  /\ apply_pending_nba' = [apply_pending_nba EXCEPT ![p] = FALSE]
  /\ UNCHANGED <<statics, cond, insts>>

\* An edge, a named event or a join wakes a process.
Wake(p) ==
  /\ At("running") = {}
  /\ status[p] = "parked"
  /\ status' = [status EXCEPT ![p] = "ready"]
  /\ UNCHANGED <<frames, apply_pending_nba, statics, cond, insts>>

\* drain_nba releases the processes in Wait::Nba.
NbaRegion ==
  /\ At("running") = {} /\ At("ready") = {} /\ At("nba") # {}
  /\ status' = [p \in Procs |-> IF status[p] = "nba" THEN "ready" ELSE status[p]]
  /\ UNCHANGED <<frames, apply_pending_nba, statics, cond, insts>>

\* The slot is settled: time advances to the end of some delays.
AdvanceTime(S) ==
  /\ At("running") = {} /\ At("ready") = {} /\ At("nba") = {}
  /\ S # {} /\ S \subseteq At("delay")
  /\ status' = [p \in Procs |-> IF p \in S THEN "ready" ELSE status[p]]
  /\ UNCHANGED <<frames, apply_pending_nba, statics, cond, insts>>

-----------------------------------------------------------------------------
(* Instructions *)

Execute(p) ==
  /\ status[p] = "running"
  /\ cond[p] = NoCond
  /\ insts[p] < MaxInsts
  /\ insts' = [insts EXCEPT ![p] = @ + 1]

\* Inst::LoadConst, and every instruction that only computes a register.
Compute(p, dst, v) ==
  /\ Execute(p)
  /\ frames' = SetReg(p, dst, v)
  /\ UNCHANGED <<apply_pending_nba, statics, cond, status>>

\* Inst::NbaAssign: a later update of a register replaces the earlier one.
\* depth is not in the code: the frame that queued the update.
NbaAssign(p, dst, src) ==
  LET pending == Top(p).pending_nba
      new == [dst |-> dst, value |-> Top(p).regs[src], depth |-> Len(frames[p])]
      updated == IF \E i \in DOMAIN pending : pending[i].dst = dst
                 THEN [i \in DOMAIN pending |->
                         IF pending[i].dst = dst THEN new ELSE pending[i]]
                 ELSE Append(pending, new)
  IN /\ Execute(p)
     /\ frames' = SetTop(p, [Top(p) EXCEPT !.pending_nba = updated])
     /\ UNCHANGED <<apply_pending_nba, statics, cond, status>>

StaticGet(p, dst, s) ==
  /\ Execute(p)
  /\ frames' = SetReg(p, dst, statics[s])
  /\ UNCHANGED <<apply_pending_nba, statics, cond, status>>

\* Mutant: nobody is told.
StaticSet_Silent(p, s, src) ==
  /\ Execute(p)
  /\ statics' = [statics EXCEPT ![s] = Top(p).regs[src]]
  /\ UNCHANGED <<frames, apply_pending_nba, cond, status>>

\* Inst::StaticSet; SetField, IndexSet and the mutating CollMethods alike.
StaticSet(p, s, src) ==
  /\ Execute(p)
  /\ statics' = [statics EXCEPT ![s] = Top(p).regs[src]]
  /\ status' = Notified(p, "running")
  /\ UNCHANGED <<frames, apply_pending_nba, cond>>

\* wait(cond) begins: the program counter is at the check.
WaitCond(p, s, v) ==
  /\ Execute(p)
  /\ cond' = [cond EXCEPT ![p] = <<s, v>>]
  /\ UNCHANGED <<frames, apply_pending_nba, statics, status>>

\* The check: go on, or Inst::WaitRuntime and back to the check.
CheckCond(p) ==
  /\ status[p] = "running"
  /\ cond[p] # NoCond
  /\ IF statics[cond[p][1]] = cond[p][2]
     THEN cond' = [cond EXCEPT ![p] = NoCond] /\ UNCHANGED status
     ELSE status' = [status EXCEPT ![p] = "runtime"] /\ UNCHANGED cond
  /\ UNCHANGED <<frames, apply_pending_nba, statics, insts>>

\* Inst::Delay, and the waits for an edge or an event.
Suspend(p, where) ==
  /\ Execute(p)
  /\ status' = [status EXCEPT ![p] = where]
  /\ UNCHANGED <<frames, apply_pending_nba, statics, cond>>

\* Inst::WaitChange
WaitChange(p, r) ==
  LET nba == \E u \in Range(Top(p).pending_nba) : u.dst = r IN
  /\ Execute(p)
  /\ status' = [status EXCEPT ![p] = IF nba THEN "nba" ELSE "runtime"]
  /\ apply_pending_nba' = [apply_pending_nba EXCEPT ![p] = nba]
  /\ UNCHANGED <<frames, statics, cond>>

\* Step::Call: copy in, remember the copy-outs, switch to the callee.
CopyIn(caller, sig, actuals) ==
  [r \in Regs |-> IF r \in DOMAIN sig /\ sig[r] # "Output"
                  THEN caller.regs[actuals[r]] ELSE Null]

CopyOuts(sig, actuals) ==
  FoldLeftDomain(LAMBDA outs, i : IF sig[i] = "Input" THEN outs
                                  ELSE Append(outs, <<i, actuals[i]>>), <<>>, sig)

Call(p, sig, actuals, ret) ==
  /\ Execute(p)
  /\ Len(frames[p]) < MaxDepth
  /\ frames' = [frames EXCEPT ![p] =
       Append(@, NewFrame(sig, actuals, CopyIn(Top(p), sig, actuals), ret,
                          CopyOuts(sig, actuals)))]
  /\ UNCHANGED <<apply_pending_nba, statics, cond, status>>

\* Mutant: the result goes first, and a copy-out may overwrite it.
Returned_CopyLast(caller, callee, result) ==
  FoldLeft(LAMBDA regs, fa : [regs EXCEPT ![fa[2]] = callee.regs[fa[1]]],
           IF result = <<>> THEN caller.regs
           ELSE [caller.regs EXCEPT ![callee.ret_dst] = result[1]],
           callee.copy_out)

\* The caller's registers once its callee returns result (<<>>: void).
Returned(caller, callee, result) ==
  LET copied == FoldLeft(LAMBDA regs, fa : [regs EXCEPT ![fa[2]] = callee.regs[fa[1]]],
                         caller.regs, callee.copy_out)
  IN IF result = <<>> THEN copied ELSE [copied EXCEPT ![callee.ret_dst] = result[1]]

\* Mutant: the pending updates of the callee stay.
Return_KeepPending(p, result) ==
  LET caller == frames[p][Len(frames[p]) - 1] IN
  /\ Execute(p)
  /\ IF Len(frames[p]) > 1
     THEN /\ frames' = [frames EXCEPT ![p] =
               Append(SubSeq(@, 1, Len(@) - 2),
                      [caller EXCEPT !.regs = Returned(caller, Top(p), result),
                                     !.pending_nba = @ \o Top(p).pending_nba])]
          /\ UNCHANGED status
     ELSE status' = [status EXCEPT ![p] = "finished"] /\ UNCHANGED frames
  /\ UNCHANGED <<apply_pending_nba, statics, cond>>

\* Step::Return, from a callee or past the bottom frame.
Return(p, result) ==
  LET caller == frames[p][Len(frames[p]) - 1] IN
  /\ Execute(p)
  /\ IF Len(frames[p]) > 1
     THEN /\ frames' = [frames EXCEPT ![p] =
               Append(SubSeq(@, 1, Len(@) - 2),
                      [caller EXCEPT !.regs = Returned(caller, Top(p), result)])]
          /\ UNCHANGED status
     ELSE status' = [status EXCEPT ![p] = "finished"] /\ UNCHANGED frames
  /\ UNCHANGED <<apply_pending_nba, statics, cond>>

\* Inst::Finish ends the process whatever its depth.
Finish(p) ==
  /\ status[p] = "running" /\ cond[p] = NoCond
  /\ status' = [status EXCEPT ![p] = "finished"]
  /\ UNCHANGED <<frames, apply_pending_nba, statics, cond, insts>>

\* Step::Fork: the locals are sampled; the parent is queued again (join_none)
\* or parked until its join is satisfied.
Fork(p, child, where) ==
  /\ Execute(p)
  /\ status[child] = "unborn"
  /\ frames' = [frames EXCEPT ![child] = <<NewFrame(<<>>, <<>>, Top(p).regs, 1, <<>>)>>]
  /\ status' = [status EXCEPT ![child] = "ready", ![p] = where]
  /\ UNCHANGED <<apply_pending_nba, statics, cond>>

-----------------------------------------------------------------------------
\* Inst::Return takes no register, or one.
Results(p) == {<<>>} \cup {<<Top(p).regs[r]>> : r \in Regs}

Instruction(p) ==
  \/ \E r \in Regs, v \in Vals : Compute(p, r, v)
  \/ \E r, q \in Regs : NbaAssign(p, r, q)
  \/ \E r \in Regs, s \in Statics : StaticGet(p, r, s) \/ StaticSet(p, s, r)
  \/ \E s \in Statics, v \in Vals : WaitCond(p, s, v)
  \/ \E where \in {"delay", "parked"} : Suspend(p, where)
  \/ \E r \in Regs : WaitChange(p, r)
  \/ \E sig \in Signatures : \E actuals \in [DOMAIN sig -> Regs], r \in Regs :
       Call(p, sig, actuals, r)
  \/ \E result \in Results(p) : Return(p, result)
  \/ \E c \in Procs, where \in {"ready", "parked"} : Fork(p, c, where)
  \/ CheckCond(p)
  \/ Finish(p)

Next ==
  \/ \E p \in Procs : Resume(p) \/ Wake(p) \/ Instruction(p)
  \/ NbaRegion
  \/ \E S \in SUBSET Procs : AdvanceTime(S)

Spec == Init /\ [][Next]_vars

-----------------------------------------------------------------------------
(* Properties *)

\* No lost wake-up: a process parked in wait(cond) waits for a condition that
\* is false now, whoever changed what it reads and in whatever order they ran
\* (WaitRuntime parks after the check, without a lock, and relies on every
\* change of runtime state being notified).
NoLostWakeup ==
  \A p \in Procs :
    status[p] = "runtime" /\ cond[p] # NoCond => statics[cond[p][1]] # cond[p][2]

\* A queued non-blocking update belongs to the frame that queued it, through
\* calls, returns and suspensions in between: register numbers mean something
\* else in any other frame (pending_nba is saved and restored by run).
NbaInOwnFrame ==
  \A p \in Procs : \A i \in DOMAIN frames[p] :
    \A u \in Range(frames[p][i].pending_nba) : u.depth = i

\* A process that asked for its updates to be applied has some, and is on its
\* way through the NBA region: the flag never waits for a later suspension.
ApplyAfterNba ==
  \A p \in Procs :
    /\ apply_pending_nba[p] => status[p] \in {"nba", "ready"} /\ Top(p).pending_nba # <<>>
    /\ status[p] = "nba" => apply_pending_nba[p]

\* A frame is popped by a return only, and the caller is left with the result
\* where it goes, with the last output, inout or ref formal that each register
\* was passed to, and with its own registers otherwise.  The result wins over a
\* formal, an actual passed twice gets the later formal, and an input formal
\* that the callee wrote stays behind, whatever either frame did in between.
ReturnExact ==
  [][\A p \in Procs : Len(frames'[p]) < Len(frames[p]) =>
       LET callee == Top(p)
           before == frames[p][Len(frames[p]) - 1].regs
           after == Last(frames'[p]).regs
           formals(r) == {i \in DOMAIN callee.arg_modes :
                            callee.arg_modes[i] # "Input" /\ callee.actuals[i] = r}
       IN /\ \E result \in Results(p) : Return(p, result)
          /\ \A result \in Results(p) : Return(p, result) => \A r \in Regs :
               IF result # <<>> /\ r = callee.ret_dst THEN after[r] = result[1]
               ELSE IF formals(r) = {} THEN after[r] = before[r]
               ELSE \E i \in formals(r) : /\ \A j \in formals(r) : j <= i
                                         /\ after[r] = callee.regs[i]]_vars
=============================================================================
