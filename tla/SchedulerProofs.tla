-------------------------- MODULE SchedulerProofs --------------------------
(***************************************************************************)
(* What the scheduler guarantees for every number of processes, nets,      *)
(* events, delays and limits: no process is lost or queued twice, every    *)
(* join watches live children of its own, wake-ups on nets and joins are   *)
(* exact, time moves only when a slot has settled, and every step is a     *)
(* step of the life cycle of Lifecycle.tla.                                *)
(***************************************************************************)
EXTENDS Scheduler, FiniteSetTheorems, TLAPS

-----------------------------------------------------------------------------
(* Facts about the operators of the specification *)

\* Any order in which some processes are woken is a sequence of processes.
LEMMA OrderType ==
  ASSUME NEW S \in SUBSET Procs, NEW order \in SetToSeqs(S)
  PROVE  order \in Seq(Procs)
<1>1. IsFiniteSet(S)
  <2>1. IsFiniteSet(Procs)
    BY BoundsAssumption, FS_Interval, 1 \in Int, MaxProcs \in Int DEF Procs
  <2>. QED BY <2>1, FS_Subset
<1>2. Cardinality(S) \in Nat
  BY <1>1, FS_CardinalityType
<1>3. order \in [1..Cardinality(S) -> S]
  BY DEF SetToSeqs
<1>. QED
  BY <1>2, <1>3

\* Saturating addition stays within the range of simulation time and does not
\* go back.
LEMMA SaturatingAddType ==
  ASSUME NEW t \in 0..TimeMax, NEW d \in Nat
  PROVE  SaturatingAdd(t, d) \in 0..TimeMax /\ t <= SaturatingAdd(t, d)
  BY DataAssumption DEF SaturatingAdd

\* A write wakes processes of the table only.
LEMMA FiredType ==
  ASSUME TypeOK, NEW net \in Nets, NEW val \in Vals
  PROVE  Fired(net, val) \in SUBSET Procs
  BY DEF TypeOK, Fired, Waiter

\* write_net keeps the types of what it changes.
LEMMA WriteNetType ==
  ASSUME TypeOK, NEW net \in Nets, NEW val \in Vals, WriteNet(net, val)
  PROVE  /\ value' \in [Nets -> Vals]
         /\ waiters' \in [Nets -> SUBSET Waiter]
         /\ active' \in Seq(Procs)
         /\ runtime_waiters' \in Seq(Procs)
         /\ wait_epochs' \in [Procs -> Nat]
         /\ net_waits' \in [Procs -> SUBSET Nets]
<1>1. value' \in [Nets -> Vals]
  BY DEF TypeOK, WriteNet
<1>2. CASE val = value[net]
  BY <1>1, <1>2 DEF TypeOK, WriteNet
<1>3. CASE val # value[net]
  <2>1. PICK order \in SetToSeqs(Fired(net, val)) :
          /\ active' = active \o runtime_waiters \o order
          /\ runtime_waiters' = <<>>
          /\ waiters' = WaitersAfterWake(net, Fired(net, val))
          /\ wait_epochs' = [p \in Procs |-> IF p \in Fired(net, val)
                                             THEN wait_epochs[p] + 1
                                             ELSE wait_epochs[p]]
          /\ net_waits' = [p \in Procs |-> IF p \in Fired(net, val)
                                           THEN {} ELSE net_waits[p]]
    BY <1>3, Zenon DEF WriteNet
  <2>2. order \in Seq(Procs)
    BY FiredType, OrderType
  <2>3. active' \in Seq(Procs)
    BY <2>1, <2>2 DEF TypeOK
  <2>4. waiters' \in [Nets -> SUBSET Waiter]
    BY <2>1 DEF TypeOK, WaitersAfterWake
  <2>5. runtime_waiters' \in Seq(Procs)
    BY <2>1
  <2>6. wait_epochs' \in [Procs -> Nat] /\ net_waits' \in [Procs -> SUBSET Nets]
    BY <2>1 DEF TypeOK
  <2>. QED BY <1>1, <2>3, <2>4, <2>5, <2>6
<1>. QED BY <1>2, <1>3

\* notify_finished keeps the types of what it changes.
LEMMA NotifyFinishedType ==
  ASSUME TypeOK, NEW pid \in Procs, NotifyFinished(pid)
  PROVE  active' \in Seq(Procs) /\ join_watches' \subseteq JoinWatch
<1> DEFINE done == {w \in join_watches : Satisfied(w, pid)}
<1>1. join_watches' = {[w EXCEPT !.remaining = @ \ {pid}] : w \in join_watches \ done}
  BY Zenon DEF NotifyFinished
<1>2. \A w \in JoinWatch : [w EXCEPT !.remaining = @ \ {pid}] \in JoinWatch
  BY DEF JoinWatch
<1>3. join_watches' \subseteq JoinWatch
  BY <1>1, <1>2 DEF TypeOK
<1>4. PICK order \in SetToSeqs({w.parent : w \in done}) : active' = active \o order
  BY Zenon DEF NotifyFinished
<1>5. {w.parent : w \in done} \in SUBSET Procs
  BY DEF TypeOK, JoinWatch
<1>6. order \in Seq(Procs)
  BY <1>5, OrderType
<1>. QED BY <1>3, <1>4, <1>6 DEF TypeOK

-----------------------------------------------------------------------------
(* Type correctness *)

\* What holds when a process of the table returns from resume, ...
Returned ==
  /\ running \in Procs
  /\ phase' \in {"idle", "settle"} /\ running' = 0
  /\ time' \in 0..TimeMax /\ limit' \in 0..TimeMax
  /\ value' \in [Nets -> Vals]
  /\ nba' \in Seq(Nets \X Vals) /\ batch' \in Seq(Nets \X Vals)
  /\ stop' \in BOOLEAN /\ calls' \in 0..MaxCalls

\* ... when its registrations on nets were replaced, ...
Registered ==
  /\ waiters' \in [Nets -> SUBSET Waiter]
  /\ net_waits' \in [Procs -> SUBSET Nets]
  /\ wait_epochs' \in [Procs -> Nat]

\* ... and when the process table is left alone.
SameTable == nprocs' = nprocs /\ join_watches' = join_watches /\ finished' = finished

\* A returning process is one of the table, and returning ends the resume.
LEMMA ReturnType ==
  ASSUME TypeOK, Return
  PROVE  Returned
  BY DEF TypeOK, Return, nbaVars, Returned

\* So does a return with a wait, which uses up some of the budget.
LEMMA ReturnWaitType ==
  ASSUME TypeOK, NEW kind, ReturnWait(kind)
  PROVE  Returned /\ budget' \in [Procs -> 0..MaxWaits]
<1>1. Returned
  BY ReturnType DEF ReturnWait
<1>2. budget' = [budget EXCEPT ![running] = @ - 1] /\ budget[running] > 0
  BY DEF ReturnWait
<1>3. running \in Procs
  BY <1>1 DEF Returned
<1>. QED BY <1>1, <1>2, <1>3, BoundsAssumption DEF TypeOK

\* Arming a wait that is not on a net.
LEMMA ArmElsewhereType ==
  ASSUME TypeOK, running \in Procs, ArmElsewhere
  PROVE  Registered /\ SameTable
  BY DEF TypeOK, ArmElsewhere, ClearNetWaiters, NextEpoch, Registered, SameTable

\* Arming a wait on nets.
LEMMA ArmNetsType ==
  ASSUME TypeOK, running \in Procs,
         NEW list \in SUBSET (Nets \X EdgeKind), ArmNets(list)
  PROVE  Registered /\ SameTable /\ UNCHANGED <<queueVars, timed, seq>>
<1>1. \A ne \in list : [proc |-> running, edge |-> ne[2], epoch |-> NextEpoch(running)]
                         \in Waiter
  BY DEF TypeOK, NextEpoch, Waiter
<1>2. \A n \in Nets : ClearNetWaiters(running)[n] \subseteq Waiter
  BY DEF TypeOK, ClearNetWaiters
<1>3. waiters' \in [Nets -> SUBSET Waiter]
  BY <1>1, <1>2 DEF ArmNets
<1>4. {ne[1] : ne \in list} \in SUBSET Nets
  OBVIOUS
<1>. QED
  BY <1>3, <1>4 DEF TypeOK, ArmNets, NextEpoch, Registered, SameTable

\* Every wait a process returns keeps the kernel well typed.
LEMMA ProcessReturnType ==
  ASSUME TypeOK, ProcessReturn
  PROVE  TypeOK'
<1>2. ASSUME NEW d \in Delays, ArmDelay(d) PROVE TypeOK'
  <2>1. SaturatingAdd(time, d) \in 0..TimeMax
    BY DataAssumption, SaturatingAddType DEF TypeOK
  <2>2. Returned /\ budget' \in [Procs -> 0..MaxWaits]
    BY <1>2, ReturnWaitType DEF ArmDelay
  <2>3. Registered /\ SameTable
    BY <1>2, <2>2, ArmElsewhereType DEF ArmDelay, Returned
  <2>4. [time |-> SaturatingAdd(time, d), seq |-> seq + 1, proc |-> running] \in TimedEvent
    BY <2>1, <2>2 DEF Returned, TypeOK, TimedEvent
  <2>5. timed' \subseteq TimedEvent /\ seq' \in Nat /\ UNCHANGED queueVars
    BY <1>2, <2>4 DEF ArmDelay, TypeOK
  <2>. QED BY <2>2, <2>3, <2>5 DEF TypeOK, Returned, Registered, SameTable, queueVars
<1>3. ASSUME ArmRuntimeCond PROVE TypeOK'
  <2>2. Returned /\ budget' \in [Procs -> 0..MaxWaits]
    BY <1>3, ReturnWaitType DEF ArmRuntimeCond
  <2>3. Registered /\ SameTable
    BY <1>3, <2>2, ArmElsewhereType DEF ArmRuntimeCond, Returned
  <2>4. /\ runtime_waiters' \in Seq(Procs)
        /\ UNCHANGED <<active, nba_waiters, event_waiters, timed, seq>>
    BY <1>3, <2>2 DEF ArmRuntimeCond, TypeOK, Returned
  <2>. QED BY <2>2, <2>3, <2>4 DEF TypeOK, Returned, Registered, SameTable
<1>4. ASSUME ArmNba PROVE TypeOK'
  <2>2. Returned /\ budget' \in [Procs -> 0..MaxWaits]
    BY <1>4, ReturnWaitType DEF ArmNba
  <2>3. Registered /\ SameTable
    BY <1>4, <2>2, ArmElsewhereType DEF ArmNba, Returned
  <2>4. /\ nba_waiters' \in Seq(Procs)
        /\ UNCHANGED <<active, runtime_waiters, event_waiters, timed, seq>>
    BY <1>4, <2>2 DEF ArmNba, TypeOK, Returned
  <2>. QED BY <2>2, <2>3, <2>4 DEF TypeOK, Returned, Registered, SameTable
<1>5. ASSUME NEW e \in Events, ArmNamedEvent(e) PROVE TypeOK'
  <2>2. Returned /\ budget' \in [Procs -> 0..MaxWaits]
    BY <1>5, ReturnWaitType DEF ArmNamedEvent
  <2>3. Registered /\ SameTable
    BY <1>5, <2>2, ArmElsewhereType DEF ArmNamedEvent, Returned
  <2>4. event_waiters[e] \in Seq(Procs) /\ running \in Procs
    BY <2>2 DEF TypeOK, Returned
  <2>5. /\ event_waiters' \in [Events -> Seq(Procs)]
        /\ UNCHANGED <<active, nba_waiters, runtime_waiters, timed, seq>>
    BY <1>5, <2>4 DEF ArmNamedEvent, TypeOK
  <2>. QED BY <2>2, <2>3, <2>5 DEF TypeOK, Returned, Registered, SameTable
<1>6. ASSUME NEW kind, ReturnWait(kind),
             NEW list \in SUBSET (Nets \X EdgeKind), ArmNets(list)
      PROVE  TypeOK'
  <2>2. Returned /\ budget' \in [Procs -> 0..MaxWaits]
    BY <1>6, ReturnWaitType
  <2>3. Registered /\ SameTable /\ UNCHANGED <<queueVars, timed, seq>>
    BY <1>6, <2>2, ArmNetsType DEF Returned
  <2>. QED BY <2>2, <2>3 DEF TypeOK, Returned, Registered, SameTable, queueVars
<1>7. ASSUME NEW n \in Nets, NEW k \in EdgeKind, ArmEdge(n, k) PROVE TypeOK'
  BY <1>6, <1>7 DEF ArmEdge
<1>8. ASSUME NEW l \in Sensitivities, ArmSensitivity(l) PROVE TypeOK'
  BY <1>6, <1>8, DataAssumption DEF ArmSensitivity
<1>9. ASSUME NEW ns \in (SUBSET Nets) \ {{}}, ArmCond(ns) PROVE TypeOK'
  <2>1. ns \X {"AnyChange"} \in SUBSET (Nets \X EdgeKind)
    BY DEF EdgeKind
  <2>. QED BY <1>6, <1>9, <2>1 DEF ArmCond
<1>10. ASSUME NEW k \in ForkWidths, NEW j \in ForkJoin, Fork(k, j) PROVE TypeOK'
  <2> DEFINE ids == [i \in 1..k |-> nprocs + i]
  <2>1. Returned /\ budget' \in [Procs -> 0..MaxWaits]
    BY <1>10, ReturnWaitType DEF Fork
  <2>2. k \in Nat /\ nprocs + k <= MaxProcs /\ nprocs' = nprocs + k
    BY <1>10, BoundsAssumption DEF Fork
  <2>3. ids \in Seq(Procs) /\ (nprocs + 1)..(nprocs + k) \subseteq Procs
    BY <2>2, BoundsAssumption DEF Procs, TypeOK
  <2>4. \/ active' = Append(active \o ids, running) /\ join_watches' = join_watches
        \/ /\ active' = active \o ids
           /\ join_watches' = join_watches \cup
               {[parent |-> running, any |-> j = "Any",
                 remaining |-> (nprocs + 1)..(nprocs + k)]}
    BY <1>10, Zenon DEF Fork
  <2>5. running \in Procs /\ active \in Seq(Procs)
    BY <2>1 DEF Returned, TypeOK
  <2>6. active' \in Seq(Procs)
    <3>. HIDE DEF ids
    <3>1. active \o ids \in Seq(Procs)
      BY <2>3, <2>5
    <3>2. Append(active \o ids, running) \in Seq(Procs)
      BY <3>1, <2>5
    <3>. QED BY <2>4, <3>1, <3>2
  <2>7. [parent |-> running, any |-> j = "Any",
         remaining |-> (nprocs + 1)..(nprocs + k)] \in JoinWatch
    BY <2>3, <2>5 DEF JoinWatch
  <2>8. join_watches' \subseteq JoinWatch
    BY <2>4, <2>7 DEF TypeOK
  <2>9. UNCHANGED <<nba_waiters, runtime_waiters, event_waiters, timed, seq,
                    waiters, net_waits, wait_epochs, finished>>
    BY <1>10 DEF Fork
  <2>10. nprocs' \in 0..MaxProcs
    BY <2>2, BoundsAssumption DEF TypeOK
  <2>. QED BY <2>1, <2>6, <2>8, <2>9, <2>10 DEF TypeOK, Returned
<1>11. ASSUME Finish PROVE TypeOK'
  <2>1. Returned /\ NotifyFinished(running)
    BY <1>11, ReturnType DEF Finish
  <2>2. running \in Procs
    BY <2>1 DEF Returned
  <2>3. Registered /\ finished' \in SUBSET Procs
    BY <1>11, <2>2 DEF Finish, TypeOK, ClearNetWaiters, Registered
  <2>4. UNCHANGED <<nba_waiters, runtime_waiters, event_waiters, timed, seq,
                    nprocs, budget>>
    BY <1>11 DEF Finish
  <2>5. active' \in Seq(Procs) /\ join_watches' \subseteq JoinWatch
    BY <2>1, <2>2, NotifyFinishedType
  <2>. QED BY <2>1, <2>3, <2>4, <2>5 DEF TypeOK, Returned, Registered
<1>. QED
  BY <1>2, <1>3, <1>4, <1>5, <1>7, <1>8, <1>9, <1>10, <1>11 DEF ProcessReturn

\* Every kernel call a process makes keeps the kernel well typed.
LEMMA ProcessCallType ==
  ASSUME TypeOK, ProcessCall
  PROVE  TypeOK'
<1> USE DEF queueVars, netVars, nbaVars, timeVars, procVars, loopVars
<1>1. ASSUME NEW kind, Call(kind)
      PROVE  calls' \in 0..MaxCalls /\ UNCHANGED <<phase, running, limit>>
  BY <1>1, BoundsAssumption DEF Call, TypeOK
<1>2. ASSUME NEW n \in Nets, NEW v \in Vals, BlockingWrite(n, v) PROVE TypeOK'
  <2>1. WriteNet(n, v) /\ Call("write_net")
    BY <1>2 DEF BlockingWrite
  <2>2. calls' \in 0..MaxCalls /\ UNCHANGED <<phase, running, limit>>
    BY <1>1, <2>1
  <2>3. /\ value' \in [Nets -> Vals]
        /\ waiters' \in [Nets -> SUBSET Waiter]
        /\ active' \in Seq(Procs)
        /\ runtime_waiters' \in Seq(Procs)
        /\ wait_epochs' \in [Procs -> Nat]
        /\ net_waits' \in [Procs -> SUBSET Nets]
    BY <2>1, WriteNetType
  <2>4. UNCHANGED <<nba_waiters, event_waiters, nbaVars, timeVars, procVars, stop>>
    BY <1>2 DEF BlockingWrite
  <2>. QED BY <2>2, <2>3, <2>4 DEF TypeOK
<1>3. ASSUME NEW n \in Nets, NEW v \in Vals, ScheduleNba(n, v) PROVE TypeOK'
  <2>1. calls' \in 0..MaxCalls /\ UNCHANGED <<phase, running, limit>>
    BY <1>1, <1>3 DEF ScheduleNba
  <2>2. /\ nba' \in Seq(Nets \X Vals)
        /\ UNCHANGED <<queueVars, netVars, batch, timeVars, procVars, stop>>
    BY <1>3 DEF ScheduleNba, TypeOK
  <2>. QED BY <2>1, <2>2 DEF TypeOK
<1>4. ASSUME NotifyRuntimeChange PROVE TypeOK'
  <2>1. calls' \in 0..MaxCalls /\ UNCHANGED <<phase, running, limit>>
    BY <1>1, <1>4 DEF NotifyRuntimeChange
  <2>2. /\ active' \in Seq(Procs) /\ runtime_waiters' \in Seq(Procs)
        /\ UNCHANGED <<nba_waiters, event_waiters, netVars, nbaVars, timeVars,
                       procVars, stop>>
    BY <1>4 DEF NotifyRuntimeChange, TypeOK
  <2>. QED BY <2>1, <2>2 DEF TypeOK
<1>5. ASSUME NEW e \in Events, TriggerEvent(e) PROVE TypeOK'
  <2>1. calls' \in 0..MaxCalls /\ UNCHANGED <<phase, running, limit>>
    BY <1>1, <1>5 DEF TriggerEvent
  <2>2. event_waiters[e] \in Seq(Procs)
    BY DEF TypeOK
  <2>3. /\ active' \in Seq(Procs) /\ event_waiters' \in [Events -> Seq(Procs)]
        /\ UNCHANGED <<nba_waiters, runtime_waiters, netVars, nbaVars, timeVars,
                       procVars, stop>>
    BY <1>5, <2>2 DEF TriggerEvent, TypeOK
  <2>. QED BY <2>1, <2>3 DEF TypeOK
<1>6. ASSUME RequestStop PROVE TypeOK'
  <2>1. calls' \in 0..MaxCalls /\ UNCHANGED <<phase, running, limit>>
    BY <1>1, <1>6 DEF RequestStop
  <2>. QED BY <1>6, <2>1 DEF RequestStop, TypeOK
<1>. QED
  BY <1>2, <1>3, <1>4, <1>5, <1>6 DEF ProcessCall

\* So does every step of the loops of run_until.
LEMMA KernelStepType ==
  ASSUME TypeOK, KernelStep
  PROVE  TypeOK'
<1> USE DEF queueVars, netVars, nbaVars, timeVars, procVars, loopVars
<1>1. ASSUME Resume PROVE TypeOK'
  <2>1. Head(active) \in Procs /\ Tail(active) \in Seq(Procs)
    BY <1>1 DEF Resume, TypeOK
  <2>2. 0 \in 0..MaxCalls /\ Head(active) # 0
    BY <2>1, BoundsAssumption DEF Procs
  <2>. QED BY <1>1, <2>1, <2>2 DEF Resume, TypeOK
<1>2. ASSUME DrainNba PROVE TypeOK'
  BY <1>2 DEF DrainNba, TypeOK
<1>3. ASSUME ApplyNba PROVE TypeOK'
  <2>1. Head(batch) \in Nets \X Vals /\ Tail(batch) \in Seq(Nets \X Vals)
    BY <1>3 DEF ApplyNba, TypeOK
  <2>2. Head(batch)[1] \in Nets /\ Head(batch)[2] \in Vals
    BY <2>1
  <2>3. WriteNet(Head(batch)[1], Head(batch)[2])
    BY <1>3 DEF ApplyNba
  <2>4. /\ value' \in [Nets -> Vals]
        /\ waiters' \in [Nets -> SUBSET Waiter]
        /\ active' \in Seq(Procs)
        /\ runtime_waiters' \in Seq(Procs)
        /\ wait_epochs' \in [Procs -> Nat]
        /\ net_waits' \in [Procs -> SUBSET Nets]
    BY <2>2, <2>3, WriteNetType
  <2>5. /\ batch' \in Seq(Nets \X Vals)
        /\ UNCHANGED <<nba_waiters, event_waiters, nba, timeVars, procVars,
                       loopVars, stop>>
    BY <1>3, <2>1 DEF ApplyNba
  <2>. QED BY <2>4, <2>5 DEF TypeOK
<1>4. ASSUME EndNba PROVE TypeOK'
  BY <1>4 DEF EndNba, TypeOK
<1>5. ASSUME AdvanceTime PROVE TypeOK'
  <2>1. time' \in 0..TimeMax
    BY <1>5 DEF AdvanceTime, TypeOK, TimedEvent
  <2>. QED BY <1>5, <2>1 DEF AdvanceTime, TypeOK
<1>6. ASSUME ReturnAtLimit PROVE TypeOK'
  BY <1>6 DEF ReturnAtLimit, TypeOK
<1>7. ASSUME ReturnEmpty PROVE TypeOK'
  BY <1>7 DEF ReturnEmpty, TypeOK
<1>8. ASSUME Dispatch PROVE TypeOK'
  <2>1. active' \in Seq(Procs) /\ timed' \subseteq TimedEvent
    BY <1>8 DEF Dispatch, TypeOK, TimedEvent
  <2>. QED BY <1>8, <2>1 DEF Dispatch, TypeOK
<1>9. ASSUME EndDispatch PROVE TypeOK'
  BY <1>9 DEF EndDispatch, TypeOK
<1>. QED
  BY <1>1, <1>2, <1>3, <1>4, <1>5, <1>6, <1>7, <1>8, <1>9 DEF KernelStep

\* The kernel never leaves its types: process ids stay within the table, times
\* within u64, a process is inside resume exactly in the run phase.
THEOREM TypeCorrect == Spec => []TypeOK
<1>1. Init => TypeOK
  <2> SUFFICES ASSUME Init PROVE TypeOK
    OBVIOUS
  <2>1. /\ 0 \in 0..TimeMax /\ 0 \in 0..MaxProcs /\ 0 \in 0..MaxCalls
        /\ MaxWaits \in 0..MaxWaits /\ InitVal \in Vals
    BY BoundsAssumption, DataAssumption
  <2>2. /\ value \in [Nets -> Vals] /\ waiters \in [Nets -> SUBSET Waiter]
        /\ wait_epochs \in [Procs -> Nat] /\ net_waits \in [Procs -> SUBSET Nets]
        /\ budget \in [Procs -> 0..MaxWaits]
    BY <2>1 DEF Init
  <2>3. event_waiters \in [Events -> Seq(Procs)]
    BY DEF Init
  <2>4. /\ active \in Seq(Procs) /\ nba_waiters \in Seq(Procs)
        /\ runtime_waiters \in Seq(Procs)
        /\ nba \in Seq(Nets \X Vals) /\ batch \in Seq(Nets \X Vals)
    BY DEF Init
  <2>. QED BY <2>1, <2>2, <2>3, <2>4 DEF Init, TypeOK
<1>2. TypeOK /\ [Next]_vars => TypeOK'
  <2> SUFFICES ASSUME TypeOK, [Next]_vars PROVE TypeOK'
    OBVIOUS
  <2>1. CASE AddProcess
    <3>1. nprocs + 1 \in Procs
      BY <2>1, BoundsAssumption DEF AddProcess, TypeOK, Procs
    <3>2. nprocs' \in 0..MaxProcs
      BY <2>1, BoundsAssumption DEF AddProcess, TypeOK
    <3>3. active' \in Seq(Procs)
      BY <2>1, <3>1 DEF AddProcess, TypeOK
    <3>. QED BY <2>1, <3>2, <3>3
         DEF AddProcess, TypeOK, netVars, nbaVars, timeVars, loopVars
  <2>2. ASSUME NEW l \in Limits, RunUntil(l) PROVE TypeOK'
    BY <2>2, DataAssumption
    DEF RunUntil, TypeOK, queueVars, netVars, nbaVars, timeVars, procVars
  <2>3. CASE UNCHANGED vars
    BY <2>3 DEF vars, TypeOK, queueVars, netVars, nbaVars, timeVars, procVars, loopVars
  <2>. QED
    BY <2>1, <2>2, <2>3, ProcessCallType, ProcessReturnType, KernelStepType DEF Next
<1>. QED
  BY <1>1, <1>2, PTL DEF Spec

-----------------------------------------------------------------------------
(* The index of net waiters: WaiterIndex is inductive once types are known *)

\* clear_net_waiters removes every registration of the process: net_waits
\* names every list that holds one.
LEMMA ClearsAll ==
  ASSUME TypeOK, WaiterIndex, NEW pid \in Procs, NEW n \in Nets
  PROVE  ClearNetWaiters(pid)[n] = {w \in waiters[n] : w.proc # pid}
<1>1. CASE n \in net_waits[pid]
  BY <1>1 DEF ClearNetWaiters
<1>2. CASE n \notin net_waits[pid]
  <2>1. \A w \in waiters[n] : w.proc # pid
    BY <1>2 DEF WaiterIndex
  <2>. QED BY <1>2, <2>1 DEF ClearNetWaiters
<1>. QED BY <1>1, <1>2

\* write_net keeps the index: the registrations of a woken process disappear
\* from every net, those of the others stay current.
LEMMA WriteNetIndex ==
  ASSUME TypeOK, WaiterIndex, NEW net \in Nets, NEW val \in Vals, WriteNet(net, val)
  PROVE  WaiterIndex'
<1>1. CASE val = value[net]
  BY <1>1 DEF WriteNet, WaiterIndex, IsCurrent
<1>2. CASE val # value[net]
  <2> DEFINE S == Fired(net, val)
  <2>1. /\ waiters' = WaitersAfterWake(net, S)
        /\ wait_epochs' = [p \in Procs |-> IF p \in S THEN wait_epochs[p] + 1
                                                      ELSE wait_epochs[p]]
        /\ net_waits' = [p \in Procs |-> IF p \in S THEN {} ELSE net_waits[p]]
    BY <1>2, Zenon DEF WriteNet
  <2>2. ASSUME NEW m \in Nets
        PROVE  waiters'[m] = {w \in waiters[m] : w.proc \notin S}
    BY <2>1 DEF WaitersAfterWake, WaiterIndex
  <2>3. \A m \in Nets : \A w \in waiters[m] : w.proc \in Procs
    BY DEF TypeOK, Waiter
  <2> HIDE DEF S
  <2>4. ASSUME NEW m \in Nets, NEW w \in waiters'[m]
        PROVE  w.epoch = wait_epochs'[w.proc] /\ m \in net_waits'[w.proc]
    <3>1. w \in waiters[m] /\ w.proc \notin S /\ w.proc \in Procs
      BY <2>2, <2>3, <2>4
    <3>2. w.epoch = wait_epochs[w.proc] /\ m \in net_waits[w.proc]
      BY <3>1 DEF WaiterIndex, IsCurrent
    <3>. QED BY <2>1, <3>1, <3>2
  <2>5. ASSUME NEW m \in Nets, NEW p \in Procs, m \in net_waits'[p]
        PROVE  \E w \in waiters'[m] : w.proc = p
    <3>1. p \notin S /\ m \in net_waits[p]
      BY <2>1, <2>5
    <3>. QED BY <2>2, <3>1 DEF WaiterIndex
  <2>. QED BY <2>4, <2>5 DEF WaiterIndex, IsCurrent
<1>. QED BY <1>1, <1>2

\* Arming a process on the nets of list (none, for the other waits) with any
\* new epoch keeps the index.
LEMMA ArmIndex ==
  ASSUME TypeOK, WaiterIndex, NEW pid \in Procs, NEW e \in Nat,
         NEW list \in SUBSET (Nets \X EdgeKind),
         \A n \in Nets : waiters'[n] = ClearNetWaiters(pid)[n] \cup
            {[proc |-> pid, edge |-> ne[2], epoch |-> e] :
               ne \in {le \in list : le[1] = n}},
         net_waits' = [net_waits EXCEPT ![pid] = {ne[1] : ne \in list}],
         wait_epochs' = [wait_epochs EXCEPT ![pid] = e]
  PROVE  WaiterIndex'
<1>1. ASSUME NEW n \in Nets, NEW w \in waiters'[n]
      PROVE  w.epoch = wait_epochs'[w.proc] /\ n \in net_waits'[w.proc]
  <2>1. CASE w \in ClearNetWaiters(pid)[n]
    <3>1. w \in waiters[n] /\ w.proc # pid
      BY <2>1, ClearsAll
    <3>2. w.proc \in Procs
      BY <3>1 DEF TypeOK, Waiter
    <3>3. w.epoch = wait_epochs[w.proc] /\ n \in net_waits[w.proc]
      BY <3>1 DEF WaiterIndex, IsCurrent
    <3>. QED BY <3>1, <3>2, <3>3 DEF TypeOK
  <2>2. ASSUME NEW le \in list, le[1] = n,
               w = [proc |-> pid, edge |-> le[2], epoch |-> e]
        PROVE  w.epoch = wait_epochs'[w.proc] /\ n \in net_waits'[w.proc]
    BY <2>2 DEF TypeOK
  <2>. QED BY <1>1, <2>1, <2>2
<1>2. ASSUME NEW n \in Nets, NEW p \in Procs, n \in net_waits'[p]
      PROVE  \E w \in waiters'[n] : w.proc = p
  <2>1. CASE p = pid
    <3>1. PICK le \in list : le[1] = n
      BY <1>2, <2>1 DEF TypeOK
    <3>2. [proc |-> pid, edge |-> le[2], epoch |-> e] \in waiters'[n]
      BY <3>1
    <3>. QED BY <2>1, <3>2
  <2>2. CASE p # pid
    <3>1. n \in net_waits[p]
      BY <1>2, <2>2 DEF TypeOK
    <3>2. PICK w \in waiters[n] : w.proc = p
      BY <3>1 DEF WaiterIndex
    <3>3. w \in ClearNetWaiters(pid)[n]
      BY <2>2, <3>2, ClearsAll
    <3>. QED BY <3>2, <3>3
  <2>. QED BY <2>1, <2>2
<1>. QED BY <1>1, <1>2 DEF WaiterIndex, IsCurrent

\* The steps that leave nets and their waiters alone.
LEMMA SameIndex ==
  ASSUME WaiterIndex, UNCHANGED <<waiters, wait_epochs, net_waits>>
  PROVE  WaiterIndex'
  BY DEF WaiterIndex, IsCurrent

\* Every wait a process returns keeps the index.
LEMMA ProcessReturnIndex ==
  ASSUME TypeOK, WaiterIndex, ProcessReturn
  PROVE  WaiterIndex'
<1>1. running \in Procs
  <2>1. Return
    BY DEF ProcessReturn, ArmDelay, ArmEdge, ArmSensitivity, ArmCond, ArmRuntimeCond,
           ArmNba, ArmNamedEvent, Fork, Finish, ReturnWait
  <2>. QED BY <2>1, ReturnType DEF Returned
<1>2. ASSUME NEW e \in Nat, waiters' = ClearNetWaiters(running),
             net_waits' = [net_waits EXCEPT ![running] = {}],
             wait_epochs' = [wait_epochs EXCEPT ![running] = e]
      PROVE  WaiterIndex'
  <2> DEFINE list == {le \in Nets \X EdgeKind : FALSE}
  <2>1. list \in SUBSET (Nets \X EdgeKind) /\ {ne[1] : ne \in list} = {}
    OBVIOUS
  <2>2. \A n \in Nets : waiters'[n] = ClearNetWaiters(running)[n] \cup
           {[proc |-> running, edge |-> ne[2], epoch |-> e] :
              ne \in {le \in list : le[1] = n}}
    BY <1>2
  <2> HIDE DEF list
  <2>. QED BY <1>1, <1>2, <2>1, <2>2, ArmIndex
<1>3. ASSUME ArmElsewhere PROVE WaiterIndex'
  <2>1. NextEpoch(running) \in Nat
    BY <1>1 DEF TypeOK, NextEpoch
  <2>. QED BY <1>2, <1>3, <2>1 DEF ArmElsewhere
<1>4. ASSUME NEW list \in SUBSET (Nets \X EdgeKind), ArmNets(list) PROVE WaiterIndex'
  <2>1. NextEpoch(running) \in Nat
    BY <1>1 DEF TypeOK, NextEpoch
  <2>2. \A n \in Nets : waiters'[n] = ClearNetWaiters(running)[n] \cup
           {[proc |-> running, edge |-> ne[2], epoch |-> NextEpoch(running)] :
              ne \in {le \in list : le[1] = n}}
    BY <1>4, Zenon DEF ArmNets
  <2>3. /\ net_waits' = [net_waits EXCEPT ![running] = {ne[1] : ne \in list}]
        /\ wait_epochs' = [wait_epochs EXCEPT ![running] = NextEpoch(running)]
    BY <1>4, Zenon DEF ArmNets
  <2>. QED BY <1>1, <1>4, <2>1, <2>2, <2>3, ArmIndex
<1>5. ASSUME NEW n \in Nets, NEW k \in EdgeKind, ArmEdge(n, k) PROVE WaiterIndex'
  BY <1>4, <1>5 DEF ArmEdge
<1>6. ASSUME NEW l \in Sensitivities, ArmSensitivity(l) PROVE WaiterIndex'
  BY <1>4, <1>6, DataAssumption DEF ArmSensitivity
<1>7. ASSUME NEW ns \in (SUBSET Nets) \ {{}}, ArmCond(ns) PROVE WaiterIndex'
  <2>1. ns \X {"AnyChange"} \in SUBSET (Nets \X EdgeKind)
    BY DEF EdgeKind
  <2>. QED BY <1>4, <1>7, <2>1 DEF ArmCond
<1>8. ASSUME NEW k \in ForkWidths, NEW j \in ForkJoin, Fork(k, j) PROVE WaiterIndex'
  BY <1>8, SameIndex DEF Fork
<1>9. ASSUME Finish PROVE WaiterIndex'
  BY <1>2, <1>9 DEF Finish
<1>. QED
  BY <1>3, <1>5, <1>6, <1>7, <1>8, <1>9
  DEF ProcessReturn, ArmDelay, ArmRuntimeCond, ArmNba, ArmNamedEvent

\* Net::waiters and Kernel::net_waits always agree, for any number of
\* processes and nets and any sensitivity lists: a wake-up never leaves a
\* registration behind that could resume the process a second time.
THEOREM IndexInvariant == Spec => []WaiterIndex
<1>1. Init => WaiterIndex
  BY DEF Init, WaiterIndex
<1>2. TypeOK /\ WaiterIndex /\ [Next]_vars => WaiterIndex'
  <2> SUFFICES ASSUME TypeOK, WaiterIndex, [Next]_vars PROVE WaiterIndex'
    OBVIOUS
  <2>1. CASE AddProcess \/ (\E l \in Limits : RunUntil(l)) \/ UNCHANGED vars
    BY <2>1, SameIndex DEF AddProcess, RunUntil, vars, netVars
  <2>2. CASE ProcessCall
    <3>1. ASSUME NEW n \in Nets, NEW v \in Vals, BlockingWrite(n, v) PROVE WaiterIndex'
      BY <3>1, WriteNetIndex DEF BlockingWrite
    <3>. QED BY <2>2, <3>1, SameIndex
         DEF ProcessCall, ScheduleNba, NotifyRuntimeChange, TriggerEvent,
             RequestStop, netVars
  <2>3. CASE KernelStep
    <3>1. CASE ApplyNba
      <4>1. Head(batch) \in Nets \X Vals
        BY <3>1 DEF ApplyNba, TypeOK
      <4>2. Head(batch)[1] \in Nets /\ Head(batch)[2] \in Vals
        BY <4>1
      <4>. QED BY <3>1, <4>2, WriteNetIndex DEF ApplyNba
    <3>. QED BY <2>3, <3>1, SameIndex
         DEF KernelStep, Resume, DrainNba, EndNba, AdvanceTime, ReturnAtLimit,
             ReturnEmpty, Dispatch, EndDispatch, netVars
  <2>. QED
    BY <2>1, <2>2, <2>3, ProcessReturnIndex DEF Next
<1>. QED
  BY <1>1, <1>2, TypeCorrect, PTL DEF Spec

-----------------------------------------------------------------------------
(* Time *)

\* Between the calls of run_until the limit and the batch say nothing; inside,
\* time has not passed the limit and a batch exists in the NBA region only.
LoopInv ==
  /\ phase # "idle" => time <= limit
  /\ phase # "nba" => batch = <<>>

\* The invariant the properties of time rest on.
TimeInv == TypeOK /\ TimedInFuture /\ LoopInv

\* Scheduling a wake-up keeps it in the future and its number unique.
LEMMA ArmDelayTime ==
  ASSUME TimeInv, NEW d \in Delays, ArmDelay(d)
  PROVE  TimedInFuture'
<1> DEFINE ev == [time |-> SaturatingAdd(time, d), seq |-> seq + 1, proc |-> running]
<1>1. timed' = timed \cup {ev} /\ seq' = seq + 1 /\ time' = time
  BY DEF ArmDelay, ReturnWait, Return
<1>2. time <= SaturatingAdd(time, d)
  BY DataAssumption, SaturatingAddType DEF TimeInv, TypeOK
<1>3. \A o \in timed : time <= o.time /\ o.seq <= seq /\ o.seq \in Nat /\ seq \in Nat
  BY DEF TimeInv, TimedInFuture, TypeOK, TimedEvent
<1>4. \A a, b \in timed : a.seq = b.seq => a = b
  BY DEF TimeInv, TimedInFuture
<1>5. ev.time = SaturatingAdd(time, d) /\ ev.seq = seq + 1 /\ seq \in Nat
  BY DEF TimeInv, TypeOK
<1> HIDE DEF ev
<1>6. \A o \in timed' : time' <= o.time /\ o.seq <= seq'
  BY <1>1, <1>2, <1>3, <1>5
<1>7. \A a, b \in timed' : a.seq = b.seq => a = b
  BY <1>1, <1>3, <1>4, <1>5
<1>. QED BY <1>6, <1>7 DEF TimedInFuture

\* Steps that leave time and the heap alone.
LEMMA SameTime ==
  ASSUME TimedInFuture, UNCHANGED <<time, timed, seq>>
  PROVE  TimedInFuture'
  BY DEF TimedInFuture

\* Each step of the kernel keeps the invariant.
LEMMA TimeStep ==
  ASSUME TimeInv, [Next]_vars
  PROVE  TimedInFuture' /\ LoopInv'
<1> USE DEF timeVars, nbaVars, TimeInv
<1>1. CASE AddProcess
  BY <1>1, SameTime DEF AddProcess, LoopInv, loopVars
<1>2. ASSUME NEW l \in Limits, RunUntil(l) PROVE TimedInFuture' /\ LoopInv'
  BY <1>2, SameTime DEF RunUntil, LoopInv
<1>3. CASE ProcessCall
  <2>1. UNCHANGED <<time, timed, seq, batch, phase, limit>>
    BY <1>3 DEF ProcessCall, BlockingWrite, ScheduleNba, NotifyRuntimeChange,
                TriggerEvent, RequestStop, Call
  <2>. QED BY <2>1, SameTime DEF LoopInv
<1>4. CASE ProcessReturn
  <2>1. Return
    BY <1>4 DEF ProcessReturn, ArmDelay, ArmEdge, ArmSensitivity, ArmCond,
                ArmRuntimeCond, ArmNba, ArmNamedEvent, Fork, Finish, ReturnWait
  <2>2. phase = "run" /\ UNCHANGED <<time, batch, limit>>
    BY <2>1 DEF Return
  <2>3. LoopInv'
    BY <2>2 DEF LoopInv
  <2>4. TimedInFuture'
    <3>1. ASSUME NEW d \in Delays, ArmDelay(d) PROVE TimedInFuture'
      BY <3>1, ArmDelayTime
    <3>2. CASE UNCHANGED <<timed, seq>>
      BY <2>2, <3>2, SameTime
    <3>. QED BY <1>4, <3>1, <3>2
         DEF ProcessReturn, ArmEdge, ArmSensitivity, ArmCond, ArmNets,
             ArmRuntimeCond, ArmNba, ArmNamedEvent, Fork, Finish
  <2>. QED BY <2>3, <2>4
<1>5. CASE Resume \/ DrainNba \/ ApplyNba \/ EndNba \/ ReturnEmpty \/ EndDispatch
  <2>1. UNCHANGED <<time, timed, seq, limit>>
    BY <1>5 DEF Resume, DrainNba, ApplyNba, EndNba, ReturnEmpty, EndDispatch, loopVars
  <2>2. LoopInv'
    BY <1>5, <2>1 DEF LoopInv, Resume, DrainNba, ApplyNba, EndNba, ReturnEmpty,
                      EndDispatch, loopVars
  <2>. QED BY <2>1, <2>2, SameTime
<1>6. CASE AdvanceTime
  <2>1. PICK ev \in timed : IsNext(ev) /\ ev.time <= limit /\ time' = ev.time
    BY <1>6 DEF AdvanceTime
  <2>2. UNCHANGED <<timed, seq, batch, limit>> /\ phase = "settle" /\ phase' = "dispatch"
    BY <1>6 DEF AdvanceTime
  <2>n. \A o \in timed : o.time \in Nat
    BY DEF TypeOK, TimedEvent
  <2>3. \A o \in timed : ev.time <= o.time
    BY <2>1, <2>n DEF IsNext
  <2>. QED BY <2>1, <2>2, <2>3 DEF TimedInFuture, LoopInv
<1>7. CASE ReturnAtLimit
  <2>1. PICK ev \in timed : IsNext(ev) /\ ev.time > limit
    BY <1>7 DEF ReturnAtLimit
  <2>2. /\ UNCHANGED <<timed, seq, batch, limit>> /\ time' = limit
        /\ phase = "settle" /\ phase' = "idle"
    BY <1>7 DEF ReturnAtLimit
  <2>n. limit \in Nat /\ \A o \in timed : o.time \in Nat
    BY DEF TypeOK, TimedEvent
  <2>m. \A o \in timed : ev.time <= o.time
    BY <2>1, <2>n DEF IsNext
  <2>3. \A o \in timed : limit <= o.time
    BY <2>1, <2>n, <2>m
  <2>. QED BY <2>2, <2>3 DEF TimedInFuture, LoopInv
<1>8. CASE Dispatch
  BY <1>8 DEF Dispatch, TimedInFuture, LoopInv, loopVars
<1>9. CASE UNCHANGED vars
  BY <1>9, SameTime DEF vars, LoopInv, loopVars
<1>. QED
  BY <1>1, <1>2, <1>3, <1>4, <1>5, <1>6, <1>7, <1>8, <1>9 DEF Next, KernelStep

\* The invariant holds of every reachable state.
LEMMA TimeInvariant == Spec => []TimeInv
<1>1. Init => TimedInFuture /\ LoopInv
  BY DEF Init, TimedInFuture, LoopInv
<1>2. TypeOK /\ (TimedInFuture /\ LoopInv) /\ [Next]_vars => (TimedInFuture /\ LoopInv)'
  BY TimeStep DEF TimeInv
<1>. QED
  BY <1>1, <1>2, TypeCorrect, PTL DEF Spec, TimeInv

\* No scheduled wake-up is ever passed, at any limit and with any delays.
THEOREM FutureInvariant == Spec => []TimedInFuture
  BY TimeInvariant, PTL DEF TimeInv

\* Simulation time moves forward only, and only out of a settled slot.
THEOREM SlotsSettle == Spec => SlotSettled
<1>1. TimeInv /\ [Next]_vars =>
        [time' # time =>
           /\ time' > time
           /\ active = <<>> /\ nba = <<>> /\ nba_waiters = <<>>
           /\ batch = <<>> /\ running = 0]_vars
  <2> SUFFICES ASSUME TimeInv, Next, time' # time
               PROVE  /\ time' > time
                      /\ active = <<>> /\ nba = <<>> /\ nba_waiters = <<>>
                      /\ batch = <<>> /\ running = 0
    BY DEF vars
  <2>1. AdvanceTime \/ ReturnAtLimit
    BY DEF Next, AddProcess, RunUntil, ProcessCall, BlockingWrite, ScheduleNba,
           NotifyRuntimeChange, TriggerEvent, RequestStop, ProcessReturn, ArmDelay,
           ArmEdge, ArmSensitivity, ArmCond, ArmRuntimeCond, ArmNba, ArmNamedEvent,
           Fork, Finish, ReturnWait, Return, KernelStep, Resume, DrainNba, ApplyNba,
           EndNba, ReturnEmpty, Dispatch, EndDispatch, timeVars
  <2>2. phase = "settle" /\ SlotIsEmpty
    BY <2>1 DEF AdvanceTime, ReturnAtLimit
  <2>3. batch = <<>> /\ running = 0
    BY <2>2 DEF TimeInv, LoopInv, TypeOK
  <2>4. time' > time
    <3>1. CASE AdvanceTime
      BY <3>1 DEF AdvanceTime, TimeInv, TimedInFuture, TypeOK, TimedEvent
    <3>2. CASE ReturnAtLimit
      BY <2>2, <3>2 DEF ReturnAtLimit, TimeInv, LoopInv, TypeOK
    <3>. QED BY <2>1, <3>1, <3>2
  <2>. QED BY <2>2, <2>3, <2>4 DEF SlotIsEmpty
<1>. QED
  BY <1>1, TimeInvariant, PTL DEF Spec, SlotSettled

-----------------------------------------------------------------------------
(* Queues without duplicates *)

\* No process is queued twice in q.
Once(q) == \A i, j \in DOMAIN q : q[i] = q[j] => i = j

\* Joining two queues without duplicates and with no process in common.
LEMMA ConcatOnce ==
  ASSUME NEW q \in Seq(Procs), NEW r \in Seq(Procs), Once(q), Once(r),
         Range(q) \cap Range(r) = {}
  PROVE  Once(q \o r)
<1> SUFFICES ASSUME NEW i \in 1..Len(q \o r), NEW j \in 1..Len(q \o r),
                    (q \o r)[i] = (q \o r)[j]
             PROVE  i = j
  BY DEF Once
<1>1. \A k \in 1..Len(q) : (q \o r)[k] = q[k] /\ q[k] \in Range(q)
  BY DEF Range
<1>2. \A k \in 1..Len(q \o r) : k > Len(q) =>
        /\ (q \o r)[k] = r[k - Len(q)] /\ r[k - Len(q)] \in Range(r)
        /\ k - Len(q) \in 1..Len(r)
  BY DEF Range
<1>3. CASE i <= Len(q) /\ j <= Len(q)
  BY <1>1, <1>3 DEF Once
<1>4. CASE i > Len(q) /\ j > Len(q)
  BY <1>2, <1>4 DEF Once
<1>5. ~(i <= Len(q) /\ j > Len(q)) /\ ~(i > Len(q) /\ j <= Len(q))
  BY <1>1, <1>2
<1>. QED BY <1>3, <1>4, <1>5

\* The processes of two joined queues.
LEMMA ConcatRange ==
  ASSUME NEW q \in Seq(Procs), NEW r \in Seq(Procs)
  PROVE  Range(q \o r) = Range(q) \cup Range(r)
<1>1. ASSUME NEW x \in Range(q \o r) PROVE x \in Range(q) \cup Range(r)
  BY <1>1 DEF Range
<1>2. ASSUME NEW x \in Range(q) PROVE x \in Range(q \o r)
  BY <1>2 DEF Range
<1>3. ASSUME NEW x \in Range(r) PROVE x \in Range(q \o r)
  <2>1. PICK k \in 1..Len(r) : r[k] = x
    BY <1>3 DEF Range
  <2>2. (q \o r)[Len(q) + k] = x /\ Len(q) + k \in 1..Len(q \o r)
    BY <2>1
  <2>. QED BY <2>2 DEF Range
<1>. QED BY <1>1, <1>2, <1>3

\* Queueing one more process.
LEMMA AppendOnce ==
  ASSUME NEW q \in Seq(Procs), NEW p \in Procs
  PROVE  /\ Range(Append(q, p)) = Range(q) \cup {p}
         /\ Once(q) /\ p \notin Range(q) => Once(Append(q, p))
<1> DEFINE r == Append(q, p)
<1>1. /\ Len(r) = Len(q) + 1 /\ r[Len(r)] = p
      /\ \A i \in 1..Len(q) : r[i] = q[i]
      /\ DOMAIN r = 1..Len(r) /\ DOMAIN q = 1..Len(q)
  OBVIOUS
<1> HIDE DEF r
<1>2. Range(r) = Range(q) \cup {p}
  <2>1. ASSUME NEW x \in Range(r) PROVE x \in Range(q) \cup {p}
    BY <1>1, <2>1 DEF Range
  <2>2. ASSUME NEW x \in Range(q) \cup {p} PROVE x \in Range(r)
    BY <1>1, <2>2 DEF Range
  <2>. QED BY <2>1, <2>2
<1>3. ASSUME Once(q), p \notin Range(q) PROVE Once(r)
  BY <1>1, <1>3 DEF Range, Once
<1>. QED BY <1>2, <1>3 DEF r

\* Taking the first process of a queue.
LEMMA TailOnce ==
  ASSUME NEW q \in Seq(Procs), q # <<>>, Once(q)
  PROVE  /\ Head(q) \in Range(q)
         /\ Range(Tail(q)) = Range(q) \ {Head(q)}
         /\ Once(Tail(q))
<1>1. /\ Head(q) = q[1] /\ 1 \in DOMAIN q
      /\ Len(Tail(q)) = Len(q) - 1
      /\ \A i \in 1..Len(Tail(q)) : Tail(q)[i] = q[i + 1] /\ i + 1 \in DOMAIN q
  OBVIOUS
<1>2. ASSUME NEW x \in Range(Tail(q)) PROVE x \in Range(q) \ {Head(q)}
  BY <1>1, <1>2 DEF Range, Once
<1>3. ASSUME NEW x \in Range(q) \ {Head(q)} PROVE x \in Range(Tail(q))
  <2>1. PICK k \in 1..Len(q) : q[k] = x
    BY <1>3 DEF Range
  <2>2. k - 1 \in 1..Len(Tail(q)) /\ Tail(q)[k - 1] = x
    BY <1>1, <1>3, <2>1
  <2>. QED BY <2>2 DEF Range
<1>4. Once(Tail(q))
  BY <1>1 DEF Once
<1>. QED BY <1>1, <1>2, <1>3, <1>4 DEF Range

\* Any order in which the processes S are woken queues each of them once.
LEMMA OrderOnce ==
  ASSUME NEW S \in SUBSET Procs, NEW order \in SetToSeqs(S)
  PROVE  order \in Seq(Procs) /\ Once(order) /\ Range(order) = S
<1>1. IsFiniteSet(S)
  <2>1. IsFiniteSet(Procs)
    BY BoundsAssumption, FS_Interval, 1 \in Int, MaxProcs \in Int DEF Procs
  <2>. QED BY <2>1, FS_Subset
<1>2. Cardinality(S) \in Nat
  BY <1>1, FS_CardinalityType
<1> DEFINE D == 1..Cardinality(S)
<1>3. order \in [D -> S] /\ \A i, j \in D : i # j => order[i] # order[j]
  BY DEF SetToSeqs
<1>4. Cardinality(D) = Cardinality(S)
  BY <1>2, FS_Interval
<1>5. order \in Injection(D, S)
  BY <1>3 DEF Injection, IsInjective
<1>6. order \in Surjection(D, S)
  BY <1>1, <1>4, <1>5, FS_Injection
<1>7. Range(order) = S
  BY <1>3, <1>6 DEF Range, Surjection
<1>. QED
  BY <1>2, <1>3, <1>7 DEF Once

-----------------------------------------------------------------------------
(* The places a process can be in *)

EventQueued(p) == \E e \in Events : p \in Range(event_waiters[e])
TimedOut(p) == \E ev \in timed : ev.proc = p
Joining(p) == \E w \in join_watches : w.parent = p

Tag == {"running", "active", "nba", "runtime", "event", "timed", "join", "nets"}

\* p is in a place of kind k.
IsAt(k, p) ==
  \/ k = "running" /\ running = p
  \/ k = "active"  /\ p \in Range(active)
  \/ k = "nba"     /\ p \in Range(nba_waiters)
  \/ k = "runtime" /\ p \in Range(runtime_waiters)
  \/ k = "event"   /\ EventQueued(p)
  \/ k = "timed"   /\ TimedOut(p)
  \/ k = "join"    /\ Joining(p)
  \/ k = "nets"    /\ net_waits[p] # {}

\* The kinds of places p is in.
Where(p) == {k \in Tag : IsAt(k, p)}

\* No place holds a process twice.
NoDuplicates ==
  /\ Once(active) /\ Once(nba_waiters) /\ Once(runtime_waiters)
  /\ \A e \in Events : Once(event_waiters[e])
  /\ \A e, f \in Events : Range(event_waiters[e]) \cap Range(event_waiters[f]) # {}
                            => e = f
  /\ \A a, b \in timed : a.proc = b.proc => a = b
  /\ \A a, b \in join_watches : a.parent = b.parent => a = b

\* A live process is in places of one kind, a finished or unborn one in none.
Placed ==
  \A p \in Procs :
    /\ p \in Alive <=> Where(p) # {}
    /\ \A k, l \in Where(p) : k = l

\* The inductive invariant behind OnePlace.
PlaceInv == NoDuplicates /\ Placed

\* The joins watch live children, and finished processes were created.
JoinInv == JoinSound /\ finished \subseteq 1..nprocs

\* Everything the steps need.
SchedInv == TypeOK /\ WaiterIndex /\ TimedInFuture /\ PlaceInv /\ JoinInv

-----------------------------------------------------------------------------
(* What a step does to the places *)

\* The processes S go to a place of kind k, the others stay where they are.
Move(S, k) ==
  \A p \in Procs : Where(p)' = IF p \in S THEN {k} ELSE Where(p)

\* Moving live processes keeps every live process in one place.
LEMMA MoveKeeps ==
  ASSUME Placed, NEW S, \A p \in S : p \in Alive, NEW k, Move(S, k),
         UNCHANGED <<nprocs, finished>>
  PROVE  Placed'
<1> SUFFICES ASSUME NEW p \in Procs
             PROVE  /\ p \in Alive' <=> Where(p)' # {}
                    /\ \A i, j \in Where(p)' : i = j
  BY DEF Placed
<1>1. /\ p \in Alive <=> Where(p) # {}
      /\ \A i, j \in Where(p) : i = j
  BY DEF Placed
<1>2. Where(p)' = IF p \in S THEN {k} ELSE Where(p)
  BY DEF Move
<1>3. Alive' = Alive
  BY DEF Alive
<1>. QED BY <1>1, <1>2, <1>3

\* The kinds of places of p, one by one, before and after a step.
LEMMA WhereParts ==
  ASSUME NEW p
  PROVE  /\ Where(p) \subseteq Tag /\ Where(p)' \subseteq Tag
         /\ "running" \in Where(p) <=> running = p
         /\ "active" \in Where(p) <=> p \in Range(active)
         /\ "nba" \in Where(p) <=> p \in Range(nba_waiters)
         /\ "runtime" \in Where(p) <=> p \in Range(runtime_waiters)
         /\ "event" \in Where(p) <=> EventQueued(p)
         /\ "timed" \in Where(p) <=> TimedOut(p)
         /\ "join" \in Where(p) <=> Joining(p)
         /\ "nets" \in Where(p) <=> net_waits[p] # {}
         /\ "running" \in Where(p)' <=> running' = p
         /\ "active" \in Where(p)' <=> p \in Range(active')
         /\ "nba" \in Where(p)' <=> p \in Range(nba_waiters')
         /\ "runtime" \in Where(p)' <=> p \in Range(runtime_waiters')
         /\ "event" \in Where(p)' <=> EventQueued(p)'
         /\ "timed" \in Where(p)' <=> TimedOut(p)'
         /\ "join" \in Where(p)' <=> Joining(p)'
         /\ "nets" \in Where(p)' <=> net_waits'[p] # {}
  BY DEF Where, IsAt, Tag

\* A process that no queue gains or loses stays where it is.
LEMMA Stays ==
  ASSUME NEW p,
         running' = p <=> running = p,
         p \in Range(active') <=> p \in Range(active),
         p \in Range(nba_waiters') <=> p \in Range(nba_waiters),
         p \in Range(runtime_waiters') <=> p \in Range(runtime_waiters),
         EventQueued(p)' <=> EventQueued(p),
         TimedOut(p)' <=> TimedOut(p),
         Joining(p)' <=> Joining(p),
         net_waits'[p] # {} <=> net_waits[p] # {}
  PROVE  Where(p)' = Where(p)
<1>1. \A k : IsAt(k, p)' <=> IsAt(k, p)
  BY Zenon DEF IsAt
<1>. QED BY <1>1, Zenon DEF Where

\* A process in a place of some kind is alive and in no other kind of place.
LEMMA OnlyAt ==
  ASSUME Placed, NEW p \in Procs, NEW k \in Where(p)
  PROVE  p \in Alive /\ Where(p) = {k}
  BY DEF Placed

\* A step that changes no place.
LEMMA SamePlaces ==
  ASSUME PlaceInv,
         UNCHANGED <<running, queueVars, timed, join_watches, net_waits, nprocs,
                     finished>>
  PROVE  PlaceInv'
<1>1. NoDuplicates'
  BY DEF PlaceInv, NoDuplicates, Once, Range, queueVars
<1>2. Move({}, "active")
  BY DEF Move, Where, IsAt, EventQueued, TimedOut, Joining, Range, queueVars
<1>. QED BY <1>1, <1>2, MoveKeeps DEF PlaceInv

\* Queueing processes that are not yet in the active queue.
LEMMA QueueActive ==
  ASSUME TypeOK, PlaceInv, NEW order \in Seq(Procs), Once(order),
         active' = active \o order,
         \A p \in Range(order) : "active" \notin Where(p)
  PROVE  Once(active') /\ Range(active') = Range(active) \cup Range(order)
<1>1. Range(active) \cap Range(order) = {}
  BY WhereParts
<1>2. active \in Seq(Procs) /\ Once(active)
  BY DEF TypeOK, PlaceInv, NoDuplicates
<1>. QED BY <1>1, <1>2, ConcatOnce, ConcatRange

\* notify_runtime_change moves the processes in Wait::RuntimeCond to the
\* active queue.
LEMMA NotifyRuntimeChangePlaces ==
  ASSUME TypeOK, PlaceInv, NotifyRuntimeChange
  PROVE  PlaceInv'
<1>1. /\ active' = active \o runtime_waiters /\ runtime_waiters' = <<>>
      /\ UNCHANGED <<running, nba_waiters, event_waiters, timed, join_watches,
                     net_waits, nprocs, finished>>
  BY DEF NotifyRuntimeChange, Call, netVars, timeVars, procVars
<1>t. runtime_waiters \in Seq(Procs) /\ Once(runtime_waiters)
  BY DEF TypeOK, PlaceInv, NoDuplicates
<1>2. ASSUME NEW p \in Range(runtime_waiters)
      PROVE  p \in Alive /\ Where(p) = {"runtime"}
  <2>1. p \in Procs /\ "runtime" \in Where(p)
    BY <1>t, WhereParts DEF Range
  <2>. QED BY <2>1, OnlyAt DEF PlaceInv
<1>3. Once(active') /\ Range(active') = Range(active) \cup Range(runtime_waiters)
  BY <1>1, <1>2, <1>t, QueueActive
<1>4. Once(runtime_waiters') /\ Range(runtime_waiters') = {}
  BY <1>1 DEF Once, Range
<1>5. NoDuplicates'
  BY <1>1, <1>3, <1>4 DEF PlaceInv, NoDuplicates
<1>6. ASSUME NEW p \in Procs
      PROVE  Where(p)' = IF p \in Range(runtime_waiters) THEN {"active"} ELSE Where(p)
  <2>1. /\ EventQueued(p)' <=> EventQueued(p)
        /\ TimedOut(p)' <=> TimedOut(p)
        /\ Joining(p)' <=> Joining(p)
    BY <1>1 DEF EventQueued, TimedOut, Joining
  <2>2. CASE p \in Range(runtime_waiters)
    <3>1. Where(p)' = {"active"}
      BY <1>1, <1>2, <1>3, <1>4, <2>1, <2>2, WhereParts, Zenon DEF Tag
    <3>. QED BY <2>2, <3>1
  <2>3. CASE p \notin Range(runtime_waiters)
    <3>1. Where(p)' = Where(p)
      BY <1>1, <1>3, <1>4, <2>1, <2>3, Stays
    <3>. QED BY <2>3, <3>1
  <2>. QED BY <2>2, <2>3
<1>7. Move(Range(runtime_waiters), "active")
  BY <1>6, Zenon DEF Move
<1>. QED BY <1>1, <1>2, <1>5, <1>7, MoveKeeps DEF PlaceInv

\* trigger_event moves the processes waiting for the event to the active queue.
LEMMA TriggerEventPlaces ==
  ASSUME TypeOK, PlaceInv, NEW e \in Events, TriggerEvent(e)
  PROVE  PlaceInv'
<1> DEFINE q == event_waiters[e]
<1>1. /\ active' = active \o q
      /\ event_waiters' = [event_waiters EXCEPT ![e] = <<>>]
      /\ UNCHANGED <<running, nba_waiters, runtime_waiters, timed, join_watches,
                     net_waits, nprocs, finished>>
  BY DEF TriggerEvent, Call, netVars, timeVars, procVars
<1>t. q \in Seq(Procs) /\ Once(q)
  BY DEF TypeOK, PlaceInv, NoDuplicates
<1>2. ASSUME NEW p \in Range(q)
      PROVE  p \in Alive /\ Where(p) = {"event"}
  <2>1. p \in Procs /\ "event" \in Where(p)
    BY <1>t, WhereParts DEF Range, EventQueued
  <2>. QED BY <2>1, OnlyAt DEF PlaceInv
<1> HIDE DEF q
<1>3. Once(active') /\ Range(active') = Range(active) \cup Range(q)
  BY <1>1, <1>2, <1>t, QueueActive
<1>4. \A f \in Events : event_waiters'[f] = IF f = e THEN <<>> ELSE event_waiters[f]
  BY <1>1 DEF TypeOK
<1>5. Once(<<>>) /\ Range(<<>>) = {}
  BY DEF Once, Range
<1>6. NoDuplicates'
  <2>1. /\ \A f \in Events : Once(event_waiters'[f])
        /\ \A f, g \in Events : Range(event_waiters'[f]) \cap Range(event_waiters'[g]) # {}
                                  => f = g
    BY <1>4, <1>5 DEF PlaceInv, NoDuplicates
  <2>. QED BY <1>1, <1>3, <2>1 DEF PlaceInv, NoDuplicates
<1>7. ASSUME NEW p \in Procs
      PROVE  Where(p)' = IF p \in Range(q) THEN {"active"} ELSE Where(p)
  <2>1. TimedOut(p)' <=> TimedOut(p)
    BY <1>1 DEF TimedOut
  <2>2. Joining(p)' <=> Joining(p)
    BY <1>1 DEF Joining
  <2>3. CASE p \in Range(q)
    <3>1. \A f \in Events : p \in Range(event_waiters[f]) => f = e
      BY <2>3 DEF PlaceInv, NoDuplicates, q
    <3>2. ~EventQueued(p)'
      BY <1>4, <1>5, <3>1 DEF EventQueued
    <3>3. Where(p)' = {"active"}
      BY <1>1, <1>2, <1>3, <2>1, <2>2, <2>3, <3>2, WhereParts, Zenon DEF Tag
    <3>. QED BY <2>3, <3>3
  <2>4. CASE p \notin Range(q)
    <3>1. EventQueued(p)' <=> EventQueued(p)
      BY <1>4, <1>5, <2>4 DEF EventQueued, q
    <3>2. Where(p)' = Where(p)
      BY <1>1, <1>3, <2>1, <2>2, <2>4, <3>1, Stays
    <3>. QED BY <2>4, <3>2
  <2>. QED BY <2>3, <2>4
<1>8. Move(Range(q), "active")
  BY <1>7, Zenon DEF Move
<1>. QED BY <1>1, <1>2, <1>6, <1>8, MoveKeeps DEF PlaceInv

\* The tail of drain_nba moves the processes in Wait::Nba to the active queue.
LEMMA EndNbaPlaces ==
  ASSUME TypeOK, PlaceInv, EndNba
  PROVE  PlaceInv'
<1>1. /\ active' = active \o nba_waiters /\ nba_waiters' = <<>>
      /\ UNCHANGED <<running, runtime_waiters, event_waiters, timed, join_watches,
                     net_waits, nprocs, finished>>
  BY DEF EndNba, netVars, timeVars, procVars
<1>t. nba_waiters \in Seq(Procs) /\ Once(nba_waiters)
  BY DEF TypeOK, PlaceInv, NoDuplicates
<1>2. ASSUME NEW p \in Range(nba_waiters)
      PROVE  p \in Alive /\ Where(p) = {"nba"}
  <2>1. p \in Procs /\ "nba" \in Where(p)
    BY <1>t, WhereParts DEF Range
  <2>. QED BY <2>1, OnlyAt DEF PlaceInv
<1>3. Once(active') /\ Range(active') = Range(active) \cup Range(nba_waiters)
  BY <1>1, <1>2, <1>t, QueueActive
<1>4. Once(nba_waiters') /\ Range(nba_waiters') = {}
  BY <1>1 DEF Once, Range
<1>5. NoDuplicates'
  BY <1>1, <1>3, <1>4 DEF PlaceInv, NoDuplicates
<1>6. ASSUME NEW p \in Procs
      PROVE  Where(p)' = IF p \in Range(nba_waiters) THEN {"active"} ELSE Where(p)
  <2>1. /\ EventQueued(p)' <=> EventQueued(p)
        /\ TimedOut(p)' <=> TimedOut(p)
        /\ Joining(p)' <=> Joining(p)
    BY <1>1 DEF EventQueued, TimedOut, Joining
  <2>2. CASE p \in Range(nba_waiters)
    <3>1. Where(p)' = {"active"}
      BY <1>1, <1>2, <1>3, <1>4, <2>1, <2>2, WhereParts, Zenon DEF Tag
    <3>. QED BY <2>2, <3>1
  <2>3. CASE p \notin Range(nba_waiters)
    <3>1. Where(p)' = Where(p)
      BY <1>1, <1>3, <1>4, <2>1, <2>3, Stays
    <3>. QED BY <2>3, <3>1
  <2>. QED BY <2>2, <2>3
<1>7. Move(Range(nba_waiters), "active")
  BY <1>6, Zenon DEF Move
<1>. QED BY <1>1, <1>2, <1>5, <1>7, MoveKeeps DEF PlaceInv

\* A write that fires registrations of p finds p parked on nets.
LEMMA FiredParked ==
  ASSUME TypeOK, WaiterIndex, NEW net \in Nets, NEW val \in Vals,
         NEW p \in Fired(net, val)
  PROVE  p \in Procs /\ net_waits[p] # {}
<1>1. PICK w \in waiters[net] : w.proc = p
  BY DEF Fired
<1>. QED BY <1>1 DEF WaiterIndex, TypeOK, Waiter

\* write_net moves the processes in Wait::RuntimeCond and those whose
\* registration fires to the active queue.
LEMMA WriteNetPlaces ==
  ASSUME TypeOK, WaiterIndex, PlaceInv, NEW net \in Nets, NEW val \in Vals,
         WriteNet(net, val),
         UNCHANGED <<running, nba_waiters, event_waiters, timed, join_watches,
                     nprocs, finished>>
  PROVE  PlaceInv'
<1>1. CASE val = value[net]
  <2>1. UNCHANGED <<active, runtime_waiters, net_waits>>
    BY <1>1 DEF WriteNet
  <2>. QED BY <2>1, SamePlaces DEF queueVars
<1>2. CASE val # value[net]
  <2> DEFINE S == Fired(net, val)
  <2>1. PICK order \in SetToSeqs(S) :
          /\ active' = active \o runtime_waiters \o order
          /\ runtime_waiters' = <<>>
          /\ net_waits' = [p \in Procs |-> IF p \in S THEN {} ELSE net_waits[p]]
    BY <1>2, Zenon DEF WriteNet
  <2>2. S \in SUBSET Procs
    BY FiredType
  <2>3. ASSUME NEW p \in S PROVE p \in Alive /\ Where(p) = {"nets"}
    <3>1. p \in Procs /\ "nets" \in Where(p)
      BY FiredParked, WhereParts
    <3>. QED BY <3>1, OnlyAt DEF PlaceInv
  <2> HIDE DEF S
  <2>4. order \in Seq(Procs) /\ Once(order) /\ Range(order) = S
    BY <2>2, OrderOnce
  <2>5. runtime_waiters \in Seq(Procs) /\ Once(runtime_waiters) /\ active \in Seq(Procs)
    BY DEF TypeOK, PlaceInv, NoDuplicates
  <2>6. ASSUME NEW p \in Range(runtime_waiters)
        PROVE  p \in Alive /\ Where(p) = {"runtime"}
    <3>1. p \in Procs /\ "runtime" \in Where(p)
      BY <2>5, WhereParts DEF Range
    <3>. QED BY <3>1, OnlyAt DEF PlaceInv
  <2> DEFINE woken == runtime_waiters \o order
  <2>7. Range(runtime_waiters) \cap Range(order) = {}
    BY <2>3, <2>4, <2>6
  <2>8. /\ woken \in Seq(Procs) /\ Once(woken)
        /\ Range(woken) = Range(runtime_waiters) \cup S
    BY <2>4, <2>5, <2>7, ConcatOnce, ConcatRange
  <2>9. active' = active \o woken
    BY <2>1, <2>4, <2>5
  <2> HIDE DEF woken
  <2>10. Once(active') /\ Range(active') = Range(active) \cup Range(woken)
    <3>1. \A p \in Range(woken) : "active" \notin Where(p)
      BY <2>3, <2>6, <2>8
    <3>. QED BY <2>8, <2>9, <3>1, QueueActive
  <2>11. Once(runtime_waiters') /\ Range(runtime_waiters') = {}
    BY <2>1 DEF Once, Range
  <2>12. NoDuplicates'
    BY <2>10, <2>11 DEF PlaceInv, NoDuplicates
  <2>13. ASSUME NEW p \in Procs
         PROVE  Where(p)' = IF p \in Range(woken) THEN {"active"} ELSE Where(p)
    <3>1. /\ EventQueued(p)' <=> EventQueued(p)
          /\ TimedOut(p)' <=> TimedOut(p)
          /\ Joining(p)' <=> Joining(p)
      BY DEF EventQueued, TimedOut, Joining
    <3>2. CASE p \in Range(runtime_waiters)
      <4>1. Where(p) = {"runtime"} /\ p \notin S
        BY <2>3, <2>6, <3>2
      <4>2. net_waits'[p] = net_waits[p]
        BY <2>1, <4>1
      <4>3. Where(p)' = {"active"}
        BY <2>8, <2>10, <2>11, <3>1, <3>2, <4>1, <4>2, WhereParts, Zenon DEF Tag
      <4>. QED BY <2>8, <3>2, <4>3
    <3>3. CASE p \in S
      <4>1. Where(p) = {"nets"} /\ p \notin Range(runtime_waiters)
        BY <2>3, <2>6, <3>3
      <4>2. net_waits'[p] = {}
        BY <2>1, <3>3
      <4>3. Where(p)' = {"active"}
        BY <2>8, <2>10, <2>11, <3>1, <3>3, <4>1, <4>2, WhereParts, Zenon DEF Tag
      <4>. QED BY <2>8, <3>3, <4>3
    <3>4. CASE p \notin Range(woken)
      <4>1. p \notin S /\ p \notin Range(runtime_waiters)
        BY <2>8, <3>4
      <4>2. net_waits'[p] = net_waits[p]
        BY <2>1, <4>1
      <4>3. Where(p)' = Where(p)
        BY <2>8, <2>10, <2>11, <3>1, <4>1, <4>2, Stays
      <4>. QED BY <3>4, <4>3
    <3>. QED BY <2>8, <3>2, <3>3, <3>4
  <2>14. Move(Range(woken), "active")
    BY <2>13, Zenon DEF Move
  <2>15. \A p \in Range(woken) : p \in Alive
    BY <2>3, <2>6, <2>8
  <2>. QED BY <2>12, <2>14, <2>15, MoveKeeps DEF PlaceInv
<1>. QED BY <1>1, <1>2

\* dispatch_time_slot moves the process of an expired delay to the active queue.
LEMMA DispatchPlaces ==
  ASSUME TypeOK, PlaceInv, Dispatch
  PROVE  PlaceInv'
<1>1. PICK ev \in timed : active' = Append(active, ev.proc) /\ timed' = timed \ {ev}
  BY DEF Dispatch
<1>2. UNCHANGED <<running, nba_waiters, runtime_waiters, event_waiters, join_watches,
                  net_waits, nprocs, finished>>
  BY DEF Dispatch, netVars, procVars, loopVars
<1> DEFINE q == ev.proc
<1>3. q \in Alive /\ Where(q) = {"timed"} /\ q \in Procs
  <2>1. q \in Procs /\ "timed" \in Where(q)
    BY WhereParts DEF TypeOK, TimedEvent, TimedOut
  <2>. QED BY <2>1, OnlyAt DEF PlaceInv
<1>4. active \in Seq(Procs) /\ Once(active) /\ q \notin Range(active)
  BY <1>3, WhereParts DEF TypeOK, PlaceInv, NoDuplicates
<1>5. Once(active') /\ Range(active') = Range(active) \cup {q}
  BY <1>1, <1>3, <1>4, AppendOnce
<1>6. \A p : TimedOut(p)' <=> TimedOut(p) /\ p # q
  BY <1>1 DEF TimedOut, PlaceInv, NoDuplicates
<1>7. NoDuplicates'
  BY <1>1, <1>2, <1>5 DEF PlaceInv, NoDuplicates
<1> HIDE DEF q
<1>8. ASSUME NEW p \in Procs
      PROVE  Where(p)' = IF p \in {q} THEN {"active"} ELSE Where(p)
  <2>1. /\ EventQueued(p)' <=> EventQueued(p)
        /\ Joining(p)' <=> Joining(p)
    BY <1>2 DEF EventQueued, Joining
  <2>2. CASE p = q
    <3>1. Where(p)' = {"active"}
      BY <1>2, <1>3, <1>5, <1>6, <2>1, <2>2, WhereParts, Zenon DEF Tag
    <3>. QED BY <2>2, <3>1
  <2>3. CASE p # q
    <3>1. Where(p)' = Where(p)
      BY <1>2, <1>5, <1>6, <2>1, <2>3, Stays
    <3>. QED BY <2>3, <3>1
  <2>. QED BY <2>2, <2>3
<1>9. Move({q}, "active")
  BY <1>8, Zenon DEF Move
<1>. QED BY <1>2, <1>3, <1>7, <1>9, MoveKeeps DEF PlaceInv

\* drain_active takes the first process of the active queue and runs it.
LEMMA ResumePlaces ==
  ASSUME TypeOK, PlaceInv, Resume
  PROVE  PlaceInv'
<1> DEFINE q == Head(active)
<1>1. /\ active # <<>> /\ running' = q /\ active' = Tail(active) /\ running = 0
      /\ UNCHANGED <<nba_waiters, runtime_waiters, event_waiters, timed, join_watches,
                     net_waits, nprocs, finished>>
  BY DEF Resume, netVars, timeVars, procVars, TypeOK
<1>2. active \in Seq(Procs) /\ Once(active)
  BY DEF TypeOK, PlaceInv, NoDuplicates
<1>3. /\ q \in Range(active) /\ Range(active') = Range(active) \ {q} /\ Once(active')
      /\ q \in Procs
  BY <1>1, <1>2, TailOnce
<1> HIDE DEF q
<1>4. q \in Alive /\ Where(q) = {"active"}
  BY <1>3, WhereParts, OnlyAt DEF PlaceInv
<1>5. NoDuplicates'
  BY <1>1, <1>3 DEF PlaceInv, NoDuplicates
<1>6. ASSUME NEW p \in Procs
      PROVE  Where(p)' = IF p \in {q} THEN {"running"} ELSE Where(p)
  <2>1. /\ EventQueued(p)' <=> EventQueued(p)
        /\ TimedOut(p)' <=> TimedOut(p)
        /\ Joining(p)' <=> Joining(p)
    BY <1>1 DEF EventQueued, TimedOut, Joining
  <2>2. CASE p = q
    <3>1. Where(p)' = {"running"}
      BY <1>1, <1>3, <1>4, <2>1, <2>2, WhereParts, Zenon DEF Tag
    <3>. QED BY <2>2, <3>1
  <2>3. CASE p # q
    <3>1. p # 0
      BY BoundsAssumption DEF Procs
    <3>2. Where(p)' = Where(p)
      BY <1>1, <1>3, <2>1, <2>3, <3>1, Stays
    <3>. QED BY <2>3, <3>2
  <2>. QED BY <2>2, <2>3
<1>7. Move({q}, "running")
  BY <1>6, Zenon DEF Move
<1>. QED BY <1>1, <1>4, <1>5, <1>7, MoveKeeps DEF PlaceInv

-----------------------------------------------------------------------------
(* What a return does to the places *)

\* The process that returns was in no other place.
LEMMA ReturnPlaces ==
  ASSUME TypeOK, PlaceInv, Return
  PROVE  /\ running \in Procs /\ running \in Alive /\ Where(running) = {"running"}
         /\ running' = 0 /\ 0 \notin Procs
<1>1. running \in Procs /\ running' = 0
  BY ReturnType DEF Returned
<1>2. "running" \in Where(running)
  BY WhereParts
<1>3. 0 \notin Procs
  BY BoundsAssumption DEF Procs
<1>. QED BY <1>1, <1>2, <1>3, OnlyAt DEF PlaceInv

\* The process that returns a wait is parked in the place of that wait.
LEMMA ParkKeeps ==
  ASSUME TypeOK, PlaceInv, Return, NoDuplicates', UNCHANGED <<nprocs, finished>>,
         NEW k, \A p \in Procs : p = running => Where(p)' = {k},
         \A p \in Procs : p # running => Where(p)' = Where(p)
  PROVE  PlaceInv'
<1>1. running \in Procs /\ running \in Alive
  BY ReturnPlaces
<1>2. Move({running}, k)
  <2> SUFFICES ASSUME NEW p \in Procs
               PROVE  Where(p)' = IF p \in {running} THEN {k} ELSE Where(p)
    BY Zenon DEF Move
  <2>. QED OBVIOUS
<1>. QED BY <1>1, <1>2, MoveKeeps DEF PlaceInv

\* What arm does to net_waits for the waits on something other than a net.
LEMMA ArmElsewherePlaces ==
  ASSUME TypeOK, running \in Procs, ArmElsewhere
  PROVE  /\ \A p \in Procs : net_waits'[p] = IF p = running THEN {} ELSE net_waits[p]
         /\ UNCHANGED <<nprocs, join_watches, finished>>
  BY DEF ArmElsewhere, TypeOK

\* Wait::Delay moves the process that runs to the time wheel.
LEMMA ArmDelayPlaces ==
  ASSUME TypeOK, PlaceInv, NEW d \in Delays, ArmDelay(d)
  PROVE  PlaceInv'
<1>1. Return /\ ArmElsewhere /\ UNCHANGED queueVars
  BY DEF ArmDelay, ReturnWait
<1>2. PICK ev : ev.proc = running /\ timed' = timed \cup {ev}
  <2>1. timed' = timed \cup {[time |-> SaturatingAdd(time, d), seq |-> seq + 1,
                              proc |-> running]}
    BY DEF ArmDelay
  <2>. QED BY <2>1
<1>3. /\ running \in Procs /\ Where(running) = {"running"}
      /\ running' = 0 /\ 0 \notin Procs
  BY <1>1, ReturnPlaces
<1>4. /\ \A p \in Procs : net_waits'[p] = IF p = running THEN {} ELSE net_waits[p]
      /\ UNCHANGED <<nprocs, join_watches, finished>>
  BY <1>1, <1>3, ArmElsewherePlaces
<1>5. UNCHANGED <<active, nba_waiters, runtime_waiters, event_waiters>>
  BY <1>1 DEF queueVars
<1>6. \A p : TimedOut(p)' <=> TimedOut(p) \/ p = running
  BY <1>2 DEF TimedOut
<1>7. ~TimedOut(running)
  BY <1>3, WhereParts
<1>8. NoDuplicates'
  BY <1>2, <1>4, <1>5, <1>7 DEF PlaceInv, NoDuplicates, TimedOut
<1>9. \A p : (EventQueued(p)' <=> EventQueued(p)) /\ (Joining(p)' <=> Joining(p))
  BY <1>4, <1>5 DEF EventQueued, Joining
<1>10. ASSUME NEW p \in Procs, p = running PROVE Where(p)' = {"timed"}
  BY <1>10, <1>3, <1>4, <1>5, <1>6, <1>9, WhereParts, Zenon DEF Tag
<1>11. ASSUME NEW p \in Procs, p # running PROVE Where(p)' = Where(p)
  BY <1>3, <1>4, <1>5, <1>6, <1>9, <1>11, Stays
<1>. QED BY <1>1, <1>4, <1>8, <1>10, <1>11, ParkKeeps

\* Wait::RuntimeCond moves the process that runs to runtime_waiters.
LEMMA ArmRuntimeCondPlaces ==
  ASSUME TypeOK, PlaceInv, ArmRuntimeCond
  PROVE  PlaceInv'
<1>1. /\ Return /\ ArmElsewhere /\ runtime_waiters' = Append(runtime_waiters, running)
      /\ UNCHANGED <<active, nba_waiters, event_waiters, timed>>
  BY DEF ArmRuntimeCond, ReturnWait
<1>3. /\ running \in Procs /\ Where(running) = {"running"}
      /\ running' = 0 /\ 0 \notin Procs
  BY <1>1, ReturnPlaces
<1>4. /\ \A p \in Procs : net_waits'[p] = IF p = running THEN {} ELSE net_waits[p]
      /\ UNCHANGED <<nprocs, join_watches, finished>>
  BY <1>1, <1>3, ArmElsewherePlaces
<1>5. running \notin Range(runtime_waiters)
  BY <1>3, WhereParts
<1>6. /\ Range(runtime_waiters') = Range(runtime_waiters) \cup {running}
      /\ Once(runtime_waiters')
  BY <1>1, <1>3, <1>5, AppendOnce DEF TypeOK, PlaceInv, NoDuplicates
<1>7. NoDuplicates'
  BY <1>1, <1>4, <1>6 DEF PlaceInv, NoDuplicates
<1>8. \A p : /\ EventQueued(p)' <=> EventQueued(p)
             /\ TimedOut(p)' <=> TimedOut(p)
             /\ Joining(p)' <=> Joining(p)
  BY <1>1, <1>4 DEF EventQueued, Joining, TimedOut
<1>9. ASSUME NEW p \in Procs, p = running PROVE Where(p)' = {"runtime"}
  <2>1. Where(p) = {"running"} /\ p \in Range(runtime_waiters') /\ running' # p
    BY <1>3, <1>6, <1>9
  <2>2. net_waits'[p] = {}
    BY <1>4, <1>9
  <2>. QED BY <1>1, <1>8, <2>1, <2>2, WhereParts, Zenon DEF Tag
<1>10. ASSUME NEW p \in Procs, p # running PROVE Where(p)' = Where(p)
  BY <1>1, <1>3, <1>4, <1>6, <1>8, <1>10, Stays
<1>. QED BY <1>1, <1>4, <1>7, <1>9, <1>10, ParkKeeps

\* Wait::Nba moves the process that runs to nba_waiters.
LEMMA ArmNbaPlaces ==
  ASSUME TypeOK, PlaceInv, ArmNba
  PROVE  PlaceInv'
<1>1. /\ Return /\ ArmElsewhere /\ nba_waiters' = Append(nba_waiters, running)
      /\ UNCHANGED <<active, runtime_waiters, event_waiters, timed>>
  BY DEF ArmNba, ReturnWait
<1>3. /\ running \in Procs /\ Where(running) = {"running"}
      /\ running' = 0 /\ 0 \notin Procs
  BY <1>1, ReturnPlaces
<1>4. /\ \A p \in Procs : net_waits'[p] = IF p = running THEN {} ELSE net_waits[p]
      /\ UNCHANGED <<nprocs, join_watches, finished>>
  BY <1>1, <1>3, ArmElsewherePlaces
<1>5. running \notin Range(nba_waiters)
  BY <1>3, WhereParts
<1>6. /\ Range(nba_waiters') = Range(nba_waiters) \cup {running}
      /\ Once(nba_waiters')
  BY <1>1, <1>3, <1>5, AppendOnce DEF TypeOK, PlaceInv, NoDuplicates
<1>7. NoDuplicates'
  BY <1>1, <1>4, <1>6 DEF PlaceInv, NoDuplicates
<1>8. \A p : /\ EventQueued(p)' <=> EventQueued(p)
             /\ TimedOut(p)' <=> TimedOut(p)
             /\ Joining(p)' <=> Joining(p)
  BY <1>1, <1>4 DEF EventQueued, Joining, TimedOut
<1>9. ASSUME NEW p \in Procs, p = running PROVE Where(p)' = {"nba"}
  <2>1. Where(p) = {"running"} /\ p \in Range(nba_waiters') /\ running' # p
    BY <1>3, <1>6, <1>9
  <2>2. net_waits'[p] = {}
    BY <1>4, <1>9
  <2>. QED BY <1>1, <1>8, <2>1, <2>2, WhereParts, Zenon DEF Tag
<1>10. ASSUME NEW p \in Procs, p # running PROVE Where(p)' = Where(p)
  BY <1>1, <1>3, <1>4, <1>6, <1>8, <1>10, Stays
<1>. QED BY <1>1, <1>4, <1>7, <1>9, <1>10, ParkKeeps

\* Wait::NamedEvent moves the process that runs to event_waiters.
LEMMA ArmNamedEventPlaces ==
  ASSUME TypeOK, PlaceInv, NEW e \in Events, ArmNamedEvent(e)
  PROVE  PlaceInv'
<1>1. /\ Return /\ ArmElsewhere
      /\ event_waiters' = [event_waiters EXCEPT ![e] = Append(@, running)]
      /\ UNCHANGED <<active, nba_waiters, runtime_waiters, timed>>
  BY DEF ArmNamedEvent, ReturnWait
<1>2. event_waiters[e] \in Seq(Procs) /\ Once(event_waiters[e])
  BY DEF TypeOK, PlaceInv, NoDuplicates
<1>3. /\ running \in Procs /\ Where(running) = {"running"}
      /\ running' = 0 /\ 0 \notin Procs
  BY <1>1, ReturnPlaces
<1>4. /\ \A p \in Procs : net_waits'[p] = IF p = running THEN {} ELSE net_waits[p]
      /\ UNCHANGED <<nprocs, join_watches, finished>>
  BY <1>1, <1>3, ArmElsewherePlaces
<1>5. \A f \in Events : running \notin Range(event_waiters[f])
  BY <1>3, WhereParts DEF EventQueued
<1> DEFINE q == Append(event_waiters[e], running)
<1>6. Range(q) = Range(event_waiters[e]) \cup {running} /\ Once(q)
  BY <1>2, <1>3, <1>5, AppendOnce
<1>7. \A f \in Events : event_waiters'[f] = IF f = e THEN q ELSE event_waiters[f]
  BY <1>1 DEF TypeOK
<1> HIDE DEF q
<1>8. NoDuplicates'
  <2>1. /\ \A f \in Events : Once(event_waiters[f])
        /\ \A f, g \in Events : Range(event_waiters[f]) \cap Range(event_waiters[g]) # {}
                                  => f = g
    BY DEF PlaceInv, NoDuplicates
  <2>2. \A f \in Events : Once(event_waiters'[f])
    BY <1>6, <1>7, <2>1
  <2>3. \A f, g \in Events : Range(event_waiters'[f]) \cap Range(event_waiters'[g]) # {}
                               => f = g
    BY <1>5, <1>6, <1>7, <2>1
  <2>. QED BY <1>1, <1>4, <2>2, <2>3 DEF PlaceInv, NoDuplicates
<1>9. \A p : EventQueued(p)' <=> EventQueued(p) \/ p = running
  BY <1>6, <1>7 DEF EventQueued
<1>10. \A p : (TimedOut(p)' <=> TimedOut(p)) /\ (Joining(p)' <=> Joining(p))
  BY <1>1, <1>4 DEF Joining, TimedOut
<1>11. ASSUME NEW p \in Procs, p = running PROVE Where(p)' = {"event"}
  BY <1>11, <1>1, <1>3, <1>4, <1>9, <1>10, WhereParts, Zenon DEF Tag
<1>12. ASSUME NEW p \in Procs, p # running PROVE Where(p)' = Where(p)
  BY <1>1, <1>3, <1>4, <1>9, <1>10, <1>12, Stays
<1>. QED BY <1>1, <1>4, <1>8, <1>11, <1>12, ParkKeeps

\* A wait on nets: at least one registration.
LEMMA ArmNetsPlaces ==
  ASSUME TypeOK, PlaceInv, Return, NEW list \in SUBSET (Nets \X EdgeKind),
         list # {}, ArmNets(list)
  PROVE  PlaceInv'
<1>1. /\ net_waits' = [net_waits EXCEPT ![running] = {ne[1] : ne \in list}]
      /\ UNCHANGED <<active, nba_waiters, runtime_waiters, event_waiters, timed,
                     nprocs, join_watches, finished>>
  BY DEF ArmNets, queueVars
<1>2. {ne[1] : ne \in list} # {}
  OBVIOUS
<1>3. /\ running \in Procs /\ Where(running) = {"running"}
      /\ running' = 0 /\ 0 \notin Procs
  BY ReturnPlaces
<1>4. /\ net_waits'[running] # {}
      /\ \A p \in Procs : p # running => net_waits'[p] = net_waits[p]
  BY <1>1, <1>2, <1>3 DEF TypeOK
<1>5. NoDuplicates'
  BY <1>1 DEF PlaceInv, NoDuplicates
<1>6. \A p : /\ EventQueued(p)' <=> EventQueued(p)
             /\ TimedOut(p)' <=> TimedOut(p)
             /\ Joining(p)' <=> Joining(p)
  BY <1>1 DEF EventQueued, Joining, TimedOut
<1>7. ASSUME NEW p \in Procs, p = running PROVE Where(p)' = {"nets"}
  BY <1>7, <1>1, <1>3, <1>4, <1>6, WhereParts, Zenon DEF Tag
<1>8. ASSUME NEW p \in Procs, p # running PROVE Where(p)' = Where(p)
  BY <1>1, <1>3, <1>4, <1>6, <1>8, Stays
<1>. QED BY <1>1, <1>5, <1>7, <1>8, ParkKeeps

-----------------------------------------------------------------------------
(* Births and deaths *)

\* Each process is placed as it should be when the step says, for each one
\* apart, where it is and whether it is alive.
LEMMA PlacedNext ==
  ASSUME \A p \in Procs : \/ p \in Alive' /\ \E k : Where(p)' = {k}
                          \/ p \notin Alive' /\ Where(p)' = {}
  PROVE  Placed'
<1> SUFFICES ASSUME NEW p \in Procs
             PROVE  /\ p \in Alive' <=> Where(p)' # {}
                    /\ \A i, j \in Where(p)' : i = j
  BY DEF Placed
<1>. QED OBVIOUS

\* The same fact of the state before the step.
LEMMA PlacedNow ==
  ASSUME Placed, NEW p \in Procs
  PROVE  \/ p \in Alive /\ \E k : Where(p) = {k}
         \/ p \notin Alive /\ Where(p) = {}
  BY DEF Placed

\* add_process queues the new process.
LEMMA AddProcessPlaces ==
  ASSUME TypeOK, PlaceInv, JoinInv, AddProcess
  PROVE  PlaceInv'
<1> DEFINE q == nprocs + 1
<1>1. /\ active' = Append(active, q) /\ nprocs' = q /\ q \in Procs /\ nprocs \in Nat
      /\ UNCHANGED <<running, nba_waiters, runtime_waiters, event_waiters, timed,
                     join_watches, net_waits, finished>>
  BY BoundsAssumption DEF AddProcess, netVars, timeVars, loopVars, TypeOK, Procs
<1>2. q \notin Alive /\ q \in Alive' /\ \A p \in Procs : p # q => (p \in Alive' <=> p \in Alive)
  BY <1>1 DEF Alive, JoinInv, Procs
<1> HIDE DEF q
<1>3. Where(q) = {}
  BY <1>1, <1>2 DEF PlaceInv, Placed
<1>4. active \in Seq(Procs) /\ Once(active) /\ q \notin Range(active)
  BY <1>3, WhereParts DEF TypeOK, PlaceInv, NoDuplicates
<1>5. Once(active') /\ Range(active') = Range(active) \cup {q}
  BY <1>1, <1>4, AppendOnce
<1>6. NoDuplicates'
  BY <1>1, <1>5 DEF PlaceInv, NoDuplicates
<1>7. ASSUME NEW p \in Procs
      PROVE  \/ p \in Alive' /\ \E k : Where(p)' = {k}
             \/ p \notin Alive' /\ Where(p)' = {}
  <2>1. /\ EventQueued(p)' <=> EventQueued(p)
        /\ TimedOut(p)' <=> TimedOut(p)
        /\ Joining(p)' <=> Joining(p)
    BY <1>1 DEF EventQueued, TimedOut, Joining
  <2>2. CASE p = q
    <3>1. Where(p)' = {"active"}
      BY <1>1, <1>3, <1>5, <2>1, <2>2, WhereParts, Zenon DEF Tag
    <3>. QED BY <1>2, <2>2, <3>1
  <2>3. CASE p # q
    <3>1. Where(p)' = Where(p)
      BY <1>1, <1>5, <2>1, <2>3, Stays
    <3>. QED BY <1>2, <2>3, <3>1, PlacedNow DEF PlaceInv
  <2>. QED BY <2>2, <2>3
<1>8. Placed'
  BY <1>7, PlacedNext
<1>. QED BY <1>6, <1>8 DEF PlaceInv

\* The identifiers spawn_fork gives to the branches are new.
LEMMA ForkIds ==
  ASSUME TypeOK, PlaceInv, JoinInv, NEW width \in Nat, nprocs + width <= MaxProcs,
         NEW ids, ids = [i \in 1..width |-> nprocs + i]
  PROVE  /\ ids \in Seq(Procs) /\ Once(ids)
         /\ Range(ids) = (nprocs + 1)..(nprocs + width)
         /\ \A p \in Range(ids) : p \in Procs /\ p \notin Alive /\ Where(p) = {}
<1>1. nprocs \in Nat /\ MaxProcs \in Nat
  BY BoundsAssumption DEF TypeOK
<1>2. ids \in Seq(Procs)
  BY <1>1 DEF Procs
<1>3. Once(ids)
  BY <1>1 DEF Once
<1>4. Range(ids) = (nprocs + 1)..(nprocs + width)
  <2>1. ASSUME NEW x \in (nprocs + 1)..(nprocs + width) PROVE x \in Range(ids)
    <3>1. x - nprocs \in 1..width /\ ids[x - nprocs] = x
      BY <1>1, <2>1
    <3>. QED BY <3>1 DEF Range
  <2>2. ASSUME NEW x \in Range(ids) PROVE x \in (nprocs + 1)..(nprocs + width)
    BY <1>1, <2>2 DEF Range
  <2>. QED BY <2>1, <2>2
<1>5. \A p \in Range(ids) : p \in Procs /\ p \notin Alive
  BY <1>1, <1>4 DEF Procs, Alive
<1>6. \A p \in Range(ids) : Where(p) = {}
  BY <1>5, PlacedNow DEF PlaceInv
<1>. QED BY <1>2, <1>3, <1>4, <1>5, <1>6

\* spawn_fork queues the branches and queues or parks the parent.
LEMMA ForkPlaces ==
  ASSUME TypeOK, PlaceInv, JoinInv, NEW width \in ForkWidths, NEW join \in ForkJoin,
         Fork(width, join)
  PROVE  PlaceInv'
<1> DEFINE ids == [i \in 1..width |-> nprocs + i]
<1>1. /\ Return /\ width \in Nat
      /\ nprocs + width <= MaxProcs /\ nprocs' = nprocs + width
      /\ UNCHANGED <<nba_waiters, runtime_waiters, event_waiters, timed, net_waits,
                     finished>>
  BY BoundsAssumption DEF Fork, ReturnWait
<1>2. \/ active' = Append(active \o ids, running) /\ join_watches' = join_watches
      \/ /\ active' = active \o ids
         /\ join_watches' = join_watches \cup
              {[parent |-> running, any |-> join = "Any",
                remaining |-> (nprocs + 1)..(nprocs + width)]}
  BY Zenon DEF Fork
<1>3. /\ ids \in Seq(Procs) /\ Once(ids)
      /\ Range(ids) = (nprocs + 1)..(nprocs + width)
      /\ \A p \in Range(ids) : p \in Procs /\ p \notin Alive /\ Where(p) = {}
  BY <1>1, ForkIds
<1>4. PICK w : /\ w.parent = running
               /\ \/ active' = Append(active \o ids, running) /\ join_watches' = join_watches
                  \/ active' = active \o ids /\ join_watches' = join_watches \cup {w}
  <2> HIDE DEF ids
  <2> WITNESS [parent |-> running, any |-> join = "Any",
               remaining |-> (nprocs + 1)..(nprocs + width)]
  <2>. QED BY <1>2
<1> HIDE DEF ids
<1>5. /\ running \in Procs /\ running \in Alive /\ Where(running) = {"running"}
      /\ running' = 0 /\ 0 \notin Procs
  BY <1>1, ReturnPlaces
<1>6. active \in Seq(Procs) /\ Once(active) /\ Range(active) \cap Range(ids) = {}
  BY <1>3, WhereParts DEF TypeOK, PlaceInv, NoDuplicates
<1>7. /\ active \o ids \in Seq(Procs) /\ Once(active \o ids)
      /\ Range(active \o ids) = Range(active) \cup Range(ids)
  <2>1. active \o ids \in Seq(Procs)
    BY <1>3, <1>6
  <2>. QED BY <1>3, <1>6, <2>1, ConcatOnce, ConcatRange, Zenon
<1>8. running \notin Range(active \o ids) /\ ~Joining(running)
  BY <1>3, <1>5, <1>7, WhereParts
<1>9. ASSUME NEW p \in Procs
      PROVE  p \in Alive' <=> (p \in Alive \/ p \in Range(ids))
  BY <1>1, <1>3 DEF Alive, JoinInv, TypeOK, Procs
<1>10. \A p : (EventQueued(p)' <=> EventQueued(p)) /\ (TimedOut(p)' <=> TimedOut(p))
  BY <1>1 DEF EventQueued, TimedOut
<1>11. CASE active' = Append(active \o ids, running) /\ join_watches' = join_watches
  <2>1. Once(active') /\ Range(active') = Range(active) \cup Range(ids) \cup {running}
    BY <1>5, <1>7, <1>8, <1>11, AppendOnce
  <2>2. NoDuplicates'
    BY <1>1, <1>11, <2>1 DEF PlaceInv, NoDuplicates
  <2>3. \A p : Joining(p)' <=> Joining(p)
    BY <1>11 DEF Joining
  <2>4. ASSUME NEW p \in Procs
        PROVE  \/ p \in Alive' /\ \E k : Where(p)' = {k}
               \/ p \notin Alive' /\ Where(p)' = {}
    <3>1. CASE p = running \/ p \in Range(ids)
      <4>1. Where(p) = {"running"} \/ Where(p) = {}
        BY <1>3, <1>5, <3>1
      <4>2. p \in Range(active') /\ running' # p /\ p \in Alive'
        BY <1>5, <1>9, <2>1, <3>1
      <4>3. Where(p)' = {"active"}
        BY <1>1, <1>10, <2>3, <4>1, <4>2, WhereParts, Zenon DEF Tag
      <4>. QED BY <4>2, <4>3
    <3>2. CASE p # running /\ p \notin Range(ids)
      <4>1. Where(p)' = Where(p)
        BY <1>1, <1>5, <1>10, <2>1, <2>3, <3>2, Stays
      <4>. QED BY <1>9, <3>2, <4>1, PlacedNow DEF PlaceInv
    <3>. QED BY <3>1, <3>2
  <2>5. Placed'
    BY <2>4, PlacedNext
  <2>. QED BY <2>2, <2>5 DEF PlaceInv
<1>12. CASE active' = active \o ids /\ join_watches' = join_watches \cup {w}
  <2>1. Once(active') /\ Range(active') = Range(active) \cup Range(ids)
    BY <1>7, <1>12
  <2>2. \A p : Joining(p)' <=> Joining(p) \/ p = running
    BY <1>4, <1>12 DEF Joining
  <2>3. \A a, b \in join_watches' : a.parent = b.parent => a = b
    BY <1>4, <1>8, <1>12 DEF Joining, PlaceInv, NoDuplicates
  <2>4. NoDuplicates'
    BY <1>1, <2>1, <2>3 DEF PlaceInv, NoDuplicates
  <2>5. ASSUME NEW p \in Procs
        PROVE  \/ p \in Alive' /\ \E k : Where(p)' = {k}
               \/ p \notin Alive' /\ Where(p)' = {}
    <3>1. CASE p = running
      <4>1. Where(p) = {"running"} /\ running' # p /\ p \in Alive'
        BY <1>5, <1>9, <3>1
      <4>2. p \notin Range(active')
        BY <1>8, <1>12, <3>1
      <4>3. Where(p)' = {"join"}
        BY <1>1, <1>10, <2>2, <3>1, <4>1, <4>2, WhereParts, Zenon DEF Tag
      <4>. QED BY <4>1, <4>3
    <3>2. CASE p \in Range(ids)
      <4>1. Where(p) = {} /\ p \in Alive' /\ p # running
        BY <1>3, <1>5, <1>9, <3>2
      <4>2. p \in Range(active') /\ running' # p
        BY <1>5, <2>1, <3>2
      <4>3. Where(p)' = {"active"}
        BY <1>1, <1>10, <2>2, <4>1, <4>2, WhereParts, Zenon DEF Tag
      <4>. QED BY <4>1, <4>3
    <3>3. CASE p # running /\ p \notin Range(ids)
      <4>1. Where(p)' = Where(p)
        BY <1>1, <1>5, <1>10, <2>1, <2>2, <3>3, Stays
      <4>. QED BY <1>9, <3>3, <4>1, PlacedNow DEF PlaceInv
    <3>. QED BY <3>1, <3>2, <3>3
  <2>6. Placed'
    BY <2>5, PlacedNext
  <2>. QED BY <2>4, <2>6 DEF PlaceInv
<1>. QED BY <1>4, <1>11, <1>12

\* What notify_finished does to the joins: the satisfied ones go, the others
\* keep their parents.
LEMMA JoinsAfterFinish ==
  ASSUME TypeOK, PlaceInv, NEW pid \in Procs, NotifyFinished(pid)
  PROVE  \E done \in SUBSET join_watches :
           /\ \A w \in join_watches : w \in done <=> Satisfied(w, pid)
           /\ join_watches' = {[w EXCEPT !.remaining = @ \ {pid}] :
                                 w \in join_watches \ done}
           /\ \A p : Joining(p)' <=> \E w \in join_watches \ done : w.parent = p
           /\ \A a, b \in join_watches' : a.parent = b.parent => a = b
           /\ \E order \in Seq(Procs) :
                /\ active' = active \o order /\ Once(order)
                /\ Range(order) = {w.parent : w \in done}
<1> DEFINE done == {w \in join_watches : Satisfied(w, pid)}
<1>1. join_watches' = {[w EXCEPT !.remaining = @ \ {pid}] : w \in join_watches \ done}
  BY Zenon DEF NotifyFinished
<1>2. \E order \in SetToSeqs({w.parent : w \in done}) : active' = active \o order
  BY Zenon DEF NotifyFinished
<1>3. {w.parent : w \in done} \in SUBSET Procs
  BY DEF TypeOK, JoinWatch
<1>4. done \in SUBSET join_watches /\ \A w \in join_watches : w \in done <=> Satisfied(w, pid)
  OBVIOUS
<1> HIDE DEF done
<1>5. \E order \in Seq(Procs) : /\ active' = active \o order /\ Once(order)
                                /\ Range(order) = {w.parent : w \in done}
  BY <1>2, <1>3, OrderOnce
<1>6. \A w \in join_watches : [w EXCEPT !.remaining = @ \ {pid}].parent = w.parent
  BY DEF TypeOK, JoinWatch
<1>7. \A p : Joining(p)' <=> \E w \in join_watches \ done : w.parent = p
  BY <1>1, <1>6 DEF Joining
<1>8. \A a, b \in join_watches' : a.parent = b.parent => a = b
  <2> SUFFICES ASSUME NEW a \in join_watches', NEW b \in join_watches',
                      a.parent = b.parent
               PROVE  a = b
    OBVIOUS
  <2>1. PICK u \in join_watches : a = [u EXCEPT !.remaining = @ \ {pid}]
    BY <1>1
  <2>2. PICK v \in join_watches : b = [v EXCEPT !.remaining = @ \ {pid}]
    BY <1>1
  <2>3. u.parent = v.parent
    BY <1>6, <2>1, <2>2
  <2>4. u = v
    BY <2>3 DEF PlaceInv, NoDuplicates
  <2>. QED BY <2>1, <2>2, <2>4
<1>. QED BY <1>1, <1>4, <1>5, <1>7, <1>8

\* A finished process is taken out of every place, and the parents whose join
\* is satisfied become active.
LEMMA FinishPlaces ==
  ASSUME TypeOK, PlaceInv, Finish
  PROVE  PlaceInv'
<1>1. /\ Return /\ NotifyFinished(running)
      /\ net_waits' = [net_waits EXCEPT ![running] = {}]
      /\ finished' = finished \cup {running}
      /\ UNCHANGED <<nba_waiters, runtime_waiters, event_waiters, timed, nprocs>>
  BY DEF Finish
<1>2. /\ running \in Procs /\ running \in Alive /\ Where(running) = {"running"}
      /\ running' = 0 /\ 0 \notin Procs
  BY <1>1, ReturnPlaces
<1>3. \A p \in Procs : net_waits'[p] = IF p = running THEN {} ELSE net_waits[p]
  BY <1>1, <1>2 DEF TypeOK
<1>4. PICK done \in SUBSET join_watches :
           /\ \A p : Joining(p)' <=> \E w \in join_watches \ done : w.parent = p
           /\ \A a, b \in join_watches' : a.parent = b.parent => a = b
           /\ \E order \in Seq(Procs) :
                /\ active' = active \o order /\ Once(order)
                /\ Range(order) = {w.parent : w \in done}
  BY <1>1, <1>2, JoinsAfterFinish
<1>5. PICK order \in Seq(Procs) : /\ active' = active \o order /\ Once(order)
                                  /\ Range(order) = {w.parent : w \in done}
  BY <1>4
<1>6. ASSUME NEW p \in Range(order)
      PROVE  p \in Alive /\ Where(p) = {"join"}
  <2>1. Joining(p) /\ p \in Procs
    <3>1. p \in Procs
      BY <1>5 DEF Range
    <3>2. PICK w \in done : w.parent = p
      BY <1>5
    <3>. QED BY <3>1, <3>2 DEF Joining
  <2>2. "join" \in Where(p)
    BY <2>1, WhereParts
  <2>. QED BY <2>1, <2>2, OnlyAt DEF PlaceInv
<1>7. Once(active') /\ Range(active') = Range(active) \cup Range(order)
  <2>1. \A p \in Range(order) : "active" \notin Where(p)
    BY <1>6
  <2>. QED BY <1>5, <2>1, QueueActive
<1>8. \A p : Joining(p)' <=> Joining(p) /\ p \notin Range(order)
  <2> SUFFICES ASSUME NEW p
               PROVE  (\E w \in join_watches \ done : w.parent = p)
                        <=> Joining(p) /\ p \notin Range(order)
    BY <1>4, Zenon
  <2>1. \A a, b \in join_watches : a.parent = b.parent => a = b
    BY DEF PlaceInv, NoDuplicates
  <2>2. p \in Range(order) <=> \E w \in done : w.parent = p
    BY <1>5
  <2>. QED BY <2>1, <2>2 DEF Joining
<1>9. NoDuplicates'
  BY <1>1, <1>4, <1>7 DEF PlaceInv, NoDuplicates
<1>10. \A p : (EventQueued(p)' <=> EventQueued(p)) /\ (TimedOut(p)' <=> TimedOut(p))
  BY <1>1 DEF EventQueued, TimedOut
<1>11. \A p : p \in Alive' <=> p \in Alive /\ p # running
  BY <1>1 DEF Alive
<1>12. ASSUME NEW p \in Procs
       PROVE  \/ p \in Alive' /\ \E k : Where(p)' = {k}
              \/ p \notin Alive' /\ Where(p)' = {}
  <2>1. CASE p = running
    <3>1. Where(p) = {"running"} /\ running' # p /\ p \notin Alive' /\ p \notin Range(order)
      BY <1>2, <1>6, <1>11, <2>1
    <3>2. Where(p)' = {}
      BY <1>1, <1>3, <1>7, <1>8, <1>10, <3>1, WhereParts, Zenon DEF Tag
    <3>. QED BY <3>1, <3>2
  <2>2. CASE p \in Range(order)
    <3>1. Where(p) = {"join"} /\ running # p /\ running' # p /\ p \in Alive'
      BY <1>2, <1>6, <1>11, <2>2
    <3>2. p \in Range(active') /\ ~Joining(p)' /\ net_waits'[p] = net_waits[p]
      BY <1>3, <1>7, <1>8, <2>2, <3>1
    <3>3. Where(p)' = {"active"}
      BY <1>1, <1>10, <3>1, <3>2, WhereParts, Zenon DEF Tag
    <3>. QED BY <3>1, <3>3
  <2>3. CASE p # running /\ p \notin Range(order)
    <3>1. Where(p)' = Where(p)
      BY <1>1, <1>2, <1>3, <1>7, <1>8, <1>10, <2>3, Stays
    <3>. QED BY <1>11, <2>3, <3>1, PlacedNow DEF PlaceInv
  <2>. QED BY <2>1, <2>2, <2>3
<1>13. Placed'
  BY <1>12, PlacedNext
<1>. QED BY <1>9, <1>13 DEF PlaceInv

-----------------------------------------------------------------------------
(* The joins *)

\* Steps that create and finish nobody and leave the joins alone.
LEMMA SameJoins ==
  ASSUME JoinInv, UNCHANGED <<nprocs, finished, join_watches>>
  PROVE  JoinInv'
  BY DEF JoinInv, JoinSound, Alive

\* A new process is watched by nobody.
LEMMA AddProcessJoins ==
  ASSUME TypeOK, JoinInv, AddProcess
  PROVE  JoinInv'
<1>1. nprocs' = nprocs + 1 /\ nprocs \in Nat /\ UNCHANGED <<finished, join_watches>>
  BY DEF AddProcess, TypeOK
<1>2. Alive \subseteq Alive' /\ finished' \subseteq 1..nprocs'
  BY <1>1 DEF JoinInv, Alive
<1>. QED BY <1>1, <1>2 DEF JoinInv, JoinSound

\* The branches of a fork are new processes: no other join watches them.
LEMMA ForkJoins ==
  ASSUME TypeOK, JoinInv, NEW width \in ForkWidths, NEW join \in ForkJoin,
         Fork(width, join)
  PROVE  JoinInv'
<1>1. /\ width \in Nat /\ nprocs \in Nat /\ nprocs' = nprocs + width
      /\ UNCHANGED finished
  BY BoundsAssumption DEF Fork, TypeOK
<1>2. Alive \subseteq Alive' /\ finished' \subseteq 1..nprocs'
  BY <1>1 DEF JoinInv, Alive
<1>3. CASE join_watches' = join_watches
  BY <1>2, <1>3 DEF JoinInv, JoinSound
<1>4. CASE join_watches' # join_watches
  <2> DEFINE ids == (nprocs + 1)..(nprocs + width)
             new == [parent |-> running, any |-> join = "Any", remaining |-> ids]
  <2>1. width # 0 /\ join_watches' = join_watches \cup {new}
    BY <1>4, Zenon DEF Fork
  <2>2. new.remaining = ids
    OBVIOUS
  <2>3. ids # {} /\ ids \subseteq Alive' /\ ids \cap Alive = {}
    <3>1. nprocs + 1 \in ids
      BY <1>1, <2>1
    <3>2. \A p \in ids : p \in 1..nprocs' /\ p \notin 1..nprocs
      BY <1>1
    <3>. QED BY <1>1, <3>1, <3>2 DEF Alive, JoinInv
  <2> HIDE DEF ids, new
  <2>4. \A w \in join_watches' : w.remaining # {} /\ w.remaining \subseteq Alive'
    BY <1>2, <2>1, <2>2, <2>3 DEF JoinInv, JoinSound
  <2>5. \A a, b \in join_watches' : a.remaining \cap b.remaining # {} => a = b
    BY <2>1, <2>2, <2>3 DEF JoinInv, JoinSound
  <2>. QED BY <1>2, <2>4, <2>5 DEF JoinInv, JoinSound
<1>. QED BY <1>3, <1>4

\* A finished child is taken out of the join that watched it, and a join
\* without children left is gone.
LEMMA FinishJoins ==
  ASSUME TypeOK, PlaceInv, JoinInv, Finish
  PROVE  JoinInv'
<1>1. /\ Return /\ NotifyFinished(running)
      /\ finished' = finished \cup {running} /\ UNCHANGED nprocs
  BY DEF Finish
<1>2. running \in Procs /\ running \in Alive
  BY <1>1, ReturnPlaces
<1>3. finished' \subseteq 1..nprocs' /\ Alive' = Alive \ {running}
  BY <1>1, <1>2 DEF Alive, JoinInv
<1>4. PICK done \in SUBSET join_watches :
        /\ \A w \in join_watches : w \in done <=> Satisfied(w, running)
        /\ join_watches' = {[w EXCEPT !.remaining = @ \ {running}] :
                              w \in join_watches \ done}
  BY <1>1, <1>2, JoinsAfterFinish, Zenon
<1>5. ASSUME NEW a \in join_watches'
      PROVE  \E u \in join_watches : /\ ~Satisfied(u, running)
                                     /\ a = [u EXCEPT !.remaining = @ \ {running}]
                                     /\ a.remaining = u.remaining \ {running}
  <2>1. PICK u \in join_watches : /\ ~Satisfied(u, running)
                                  /\ a = [u EXCEPT !.remaining = @ \ {running}]
    BY <1>4
  <2>2. a.remaining = u.remaining \ {running}
    BY <2>1 DEF TypeOK, JoinWatch
  <2>. QED BY <2>1, <2>2
<1>6. ASSUME NEW a \in join_watches'
      PROVE  a.remaining # {} /\ a.remaining \subseteq Alive'
  <2>1. PICK u \in join_watches : /\ ~Satisfied(u, running)
                                  /\ a.remaining = u.remaining \ {running}
    BY <1>5
  <2>2. u.remaining # {} /\ u.remaining \subseteq Alive
    BY DEF JoinInv, JoinSound
  <2>3. u.remaining # {running}
    BY <2>1 DEF Satisfied
  <2>. QED BY <1>3, <2>1, <2>2, <2>3
<1>7. ASSUME NEW a \in join_watches', NEW b \in join_watches',
             a.remaining \cap b.remaining # {}
      PROVE  a = b
  <2>1. PICK u \in join_watches : /\ a = [u EXCEPT !.remaining = @ \ {running}]
                                  /\ a.remaining = u.remaining \ {running}
    BY <1>5
  <2>2. PICK v \in join_watches : /\ b = [v EXCEPT !.remaining = @ \ {running}]
                                  /\ b.remaining = v.remaining \ {running}
    BY <1>5
  <2>3. u = v
    BY <1>7, <2>1, <2>2 DEF JoinInv, JoinSound
  <2>. QED BY <2>1, <2>2, <2>3
<1>. QED BY <1>3, <1>6, <1>7 DEF JoinInv, JoinSound

-----------------------------------------------------------------------------
(* Every step keeps the invariant *)

\* The waits: each parks the process that returns in one place.
LEMMA ProcessReturnPlaces ==
  ASSUME TypeOK, PlaceInv, JoinInv, ProcessReturn
  PROVE  PlaceInv' /\ JoinInv'
<1>1. ASSUME NEW d \in Delays, ArmDelay(d) PROVE PlaceInv' /\ JoinInv'
  BY <1>1, ArmDelayPlaces, SameJoins DEF ArmDelay, ArmElsewhere
<1>2. CASE ArmRuntimeCond
  BY <1>2, ArmRuntimeCondPlaces, SameJoins DEF ArmRuntimeCond, ArmElsewhere
<1>3. CASE ArmNba
  BY <1>3, ArmNbaPlaces, SameJoins DEF ArmNba, ArmElsewhere
<1>4. ASSUME NEW e \in Events, ArmNamedEvent(e) PROVE PlaceInv' /\ JoinInv'
  BY <1>4, ArmNamedEventPlaces, SameJoins DEF ArmNamedEvent, ArmElsewhere
<1>5. ASSUME NEW list \in SUBSET (Nets \X EdgeKind), list # {}, Return, ArmNets(list)
      PROVE  PlaceInv' /\ JoinInv'
  <2>1. PlaceInv'
    BY <1>5, ArmNetsPlaces
  <2>2. UNCHANGED <<nprocs, finished, join_watches>>
    BY <1>5, Zenon DEF ArmNets
  <2>. QED BY <2>1, <2>2, SameJoins
<1>6. ASSUME NEW n \in Nets, NEW k \in EdgeKind, ArmEdge(n, k)
      PROVE  PlaceInv' /\ JoinInv'
  <2>1. {<<n, k>>} \in SUBSET (Nets \X EdgeKind) /\ {<<n, k>>} # {}
    OBVIOUS
  <2>. QED BY <1>5, <1>6, <2>1, Zenon DEF ArmEdge, ReturnWait
<1>7. ASSUME NEW l \in Sensitivities, ArmSensitivity(l) PROVE PlaceInv' /\ JoinInv'
  BY <1>5, <1>7, DataAssumption DEF ArmSensitivity, ReturnWait
<1>8. ASSUME NEW ns \in (SUBSET Nets) \ {{}}, ArmCond(ns) PROVE PlaceInv' /\ JoinInv'
  <2>1. /\ ns \X {"AnyChange"} \in SUBSET (Nets \X EdgeKind)
        /\ ns \X {"AnyChange"} # {}
    <3>1. PICK n \in ns : TRUE
      OBVIOUS
    <3>2. <<n, "AnyChange">> \in ns \X {"AnyChange"}
      OBVIOUS
    <3>. QED BY <3>2 DEF EdgeKind
  <2>. QED BY <1>5, <1>8, <2>1 DEF ArmCond, ReturnWait
<1>9. ASSUME NEW k \in ForkWidths, NEW j \in ForkJoin, Fork(k, j)
      PROVE  PlaceInv' /\ JoinInv'
  BY <1>9, ForkPlaces, ForkJoins
<1>10. CASE Finish
  BY <1>10, FinishPlaces, FinishJoins
<1>. QED
  BY <1>1, <1>2, <1>3, <1>4, <1>6, <1>7, <1>8, <1>9, <1>10 DEF ProcessReturn

\* The calls of a running process: wake-ups go to the active queue.
LEMMA ProcessCallPlaces ==
  ASSUME TypeOK, WaiterIndex, PlaceInv, JoinInv, ProcessCall
  PROVE  PlaceInv' /\ JoinInv'
<1>1. JoinInv'
  <2>1. UNCHANGED <<nprocs, finished, join_watches>>
    BY DEF ProcessCall, BlockingWrite, ScheduleNba, NotifyRuntimeChange, TriggerEvent,
           RequestStop, procVars
  <2>. QED BY <2>1, SameJoins
<1>2. ASSUME NEW n \in Nets, NEW v \in Vals, BlockingWrite(n, v) PROVE PlaceInv'
  BY <1>2, WriteNetPlaces DEF BlockingWrite, Call, timeVars, procVars
<1>3. ASSUME NEW n \in Nets, NEW v \in Vals, ScheduleNba(n, v) PROVE PlaceInv'
  BY <1>3, SamePlaces DEF ScheduleNba, Call, netVars, timeVars, procVars
<1>4. CASE RequestStop
  <2>1. UNCHANGED <<running, queueVars, timed, join_watches, net_waits, nprocs, finished>>
    BY <1>4 DEF RequestStop, Call, netVars, timeVars, procVars
  <2>. QED BY <1>1, <2>1, SamePlaces
<1>. QED
  BY <1>1, <1>2, <1>3, <1>4, NotifyRuntimeChangePlaces, TriggerEventPlaces DEF ProcessCall

\* The loops of run_until.
LEMMA KernelStepPlaces ==
  ASSUME TypeOK, WaiterIndex, PlaceInv, JoinInv, KernelStep
  PROVE  PlaceInv' /\ JoinInv'
<1>1. JoinInv'
  <2>1. UNCHANGED <<nprocs, finished, join_watches>>
    BY DEF KernelStep, Resume, DrainNba, ApplyNba, EndNba, AdvanceTime, ReturnAtLimit,
           ReturnEmpty, Dispatch, EndDispatch, procVars
  <2>. QED BY <2>1, SameJoins
<1>2. CASE ApplyNba
  <2>1. Head(batch) \in Nets \X Vals
    BY <1>2 DEF ApplyNba, TypeOK
  <2>2. Head(batch)[1] \in Nets /\ Head(batch)[2] \in Vals
    BY <2>1
  <2>. QED BY <1>1, <1>2, <2>2, WriteNetPlaces DEF ApplyNba, timeVars, procVars, loopVars
<1>3. CASE DrainNba \/ AdvanceTime \/ ReturnAtLimit \/ ReturnEmpty \/ EndDispatch
  BY <1>1, <1>3, SamePlaces
  DEF DrainNba, AdvanceTime, ReturnAtLimit, ReturnEmpty, EndDispatch, netVars, timeVars,
      procVars
<1>. QED
  BY <1>1, <1>2, <1>3, ResumePlaces, EndNbaPlaces, DispatchPlaces DEF KernelStep

\* Every step of the kernel keeps the invariant.
LEMMA PlaceStep ==
  ASSUME TypeOK, WaiterIndex, PlaceInv, JoinInv, [Next]_vars
  PROVE  PlaceInv' /\ JoinInv'
<1>1. CASE AddProcess
  BY <1>1, AddProcessPlaces, AddProcessJoins
<1>2. ASSUME NEW l \in Limits, RunUntil(l) PROVE PlaceInv' /\ JoinInv'
  BY <1>2, SamePlaces, SameJoins DEF RunUntil, netVars, timeVars, procVars
<1>3. CASE UNCHANGED vars
  BY <1>3, SamePlaces, SameJoins DEF vars, netVars, timeVars, procVars, loopVars
<1>. QED
  BY <1>1, <1>2, <1>3, ProcessReturnPlaces, ProcessCallPlaces, KernelStepPlaces DEF Next

\* The invariant holds of every reachable state.
LEMMA SchedInvariant == Spec => []SchedInv
<1>1. Init => PlaceInv /\ JoinInv
  <2> SUFFICES ASSUME Init PROVE PlaceInv /\ JoinInv
    OBVIOUS
  <2>1. /\ running = 0 /\ active = <<>> /\ nba_waiters = <<>> /\ runtime_waiters = <<>>
        /\ event_waiters = [e \in Events |-> <<>>] /\ timed = {} /\ join_watches = {}
        /\ net_waits = [p \in Procs |-> {}] /\ nprocs = 0 /\ finished = {}
    BY DEF Init
  <2>2. Once(<<>>) /\ Range(<<>>) = {}
    BY DEF Once, Range
  <2>3. NoDuplicates
    BY <2>1, <2>2 DEF NoDuplicates
  <2>4. ASSUME NEW p \in Procs PROVE p \notin Alive /\ Where(p) = {}
    <3>1. p # 0 /\ p \notin Alive
      BY <2>1, BoundsAssumption DEF Procs, Alive
    <3>2. ~EventQueued(p) /\ ~TimedOut(p) /\ ~Joining(p) /\ net_waits[p] = {}
      BY <2>1, <2>2 DEF EventQueued, TimedOut, Joining
    <3>. QED BY <2>1, <2>2, <3>1, <3>2 DEF Where, IsAt
  <2>. QED BY <2>1, <2>3, <2>4 DEF PlaceInv, Placed, JoinInv, JoinSound
<1>2. TypeOK /\ WaiterIndex /\ (PlaceInv /\ JoinInv) /\ [Next]_vars => (PlaceInv /\ JoinInv)'
  BY PlaceStep
<1>. QED
  BY <1>1, <1>2, TypeCorrect, IndexInvariant, FutureInvariant, PTL DEF Spec, SchedInv

\* A join waits for live children only and a child is watched once, whatever
\* the processes fork and in whatever order they finish.
THEOREM JoinsSound == Spec => []JoinSound
  BY SchedInvariant, PTL DEF SchedInv, JoinInv

-----------------------------------------------------------------------------
(* One place per process *)

\* A process that is queued once has one position in the queue.
LEMMA QueuePosition ==
  ASSUME NEW q, NEW p, Once(q)
  PROVE  /\ \A i, j \in Positions(q, p) : i = j
         /\ Positions(q, p) # {} <=> p \in Range(q)
  BY DEF Once, Positions, Range

\* The members of Places(p), kind by kind.
LEMMA PlaceKinds ==
  ASSUME NEW p, NEW x \in Places(p)
  PROVE  \/ running = p /\ x = <<"running", 0>>
         \/ \E i \in Positions(active, p) : x = <<"active", i>>
         \/ \E i \in Positions(nba_waiters, p) : x = <<"nba", i>>
         \/ \E i \in Positions(runtime_waiters, p) : x = <<"runtime", i>>
         \/ \E e \in Events : \E i \in Positions(event_waiters[e], p) : x = <<"event", e, i>>
         \/ \E ev \in timed : ev.proc = p /\ x = <<"timed", ev.seq>>
         \/ \E w \in join_watches : w.parent = p /\ x = <<"join", w>>
         \/ net_waits[p] # {} /\ x = <<"nets", 0>>
<1>1. CASE x \in {"running"} \X (IF running = p THEN {0} ELSE {})
  BY <1>1
<1>2. CASE x \in {"active"} \X Positions(active, p)
  BY <1>2
<1>3. CASE x \in {"nba"} \X Positions(nba_waiters, p)
  BY <1>3
<1>4. CASE x \in {"runtime"} \X Positions(runtime_waiters, p)
  BY <1>4
<1>5. ASSUME NEW e \in Events, x \in {"event"} \X {e} \X Positions(event_waiters[e], p)
      PROVE  \E i \in Positions(event_waiters[e], p) : x = <<"event", e, i>>
  BY <1>5
<1>6. CASE x \in {"timed"} \X {ev.seq : ev \in {t \in timed : t.proc = p}}
  <2>1. PICK s \in {ev.seq : ev \in {t \in timed : t.proc = p}} : x = <<"timed", s>>
    BY <1>6
  <2>. QED BY <2>1
<1>7. CASE x \in {"join"} \X {w \in join_watches : w.parent = p}
  BY <1>7
<1>8. CASE x \in {"nets"} \X (IF net_waits[p] # {} THEN {0} ELSE {})
  BY <1>8
<1>9. \/ x \in {"running"} \X (IF running = p THEN {0} ELSE {})
      \/ x \in {"active"} \X Positions(active, p)
      \/ x \in {"nba"} \X Positions(nba_waiters, p)
      \/ x \in {"runtime"} \X Positions(runtime_waiters, p)
      \/ \E e \in Events : x \in {"event"} \X {e} \X Positions(event_waiters[e], p)
      \/ x \in {"timed"} \X {ev.seq : ev \in {t \in timed : t.proc = p}}
      \/ x \in {"join"} \X {w \in join_watches : w.parent = p}
      \/ x \in {"nets"} \X (IF net_waits[p] # {} THEN {0} ELSE {})
  <2> DEFINE Ev(e) == {"event"} \X {e} \X Positions(event_waiters[e], p)
             Run == {"running"} \X (IF running = p THEN {0} ELSE {})
             Act == {"active"} \X Positions(active, p)
             Nba == {"nba"} \X Positions(nba_waiters, p)
             Rtm == {"runtime"} \X Positions(runtime_waiters, p)
             Tim == {"timed"} \X {ev.seq : ev \in {t \in timed : t.proc = p}}
             Joi == {"join"} \X {w \in join_watches : w.parent = p}
             Net == {"nets"} \X (IF net_waits[p] # {} THEN {0} ELSE {})
  <2>1. x \in Run \cup Act \cup Nba \cup Rtm \cup (UNION {Ev(e) : e \in Events})
                  \cup Tim \cup Joi \cup Net
    BY Zenon DEF Places
  <2> HIDE DEF Ev, Run, Act, Nba, Rtm, Tim, Joi, Net
  <2>2. \/ x \in Run \/ x \in Act \/ x \in Nba \/ x \in Rtm
        \/ \E e \in Events : x \in Ev(e)
        \/ x \in Tim \/ x \in Joi \/ x \in Net
    BY <2>1
  <2>. QED BY <2>2, Zenon DEF Ev, Run, Act, Nba, Rtm, Tim, Joi, Net
<1>. QED BY <1>1, <1>2, <1>3, <1>4, <1>5, <1>6, <1>7, <1>8, <1>9, Zenon

\* Each kind of place the process is in contributes to Places(p).
LEMMA KindPlaces ==
  ASSUME NEW p
  PROVE  /\ running = p => Places(p) # {}
         /\ Positions(active, p) # {} => Places(p) # {}
         /\ Positions(nba_waiters, p) # {} => Places(p) # {}
         /\ Positions(runtime_waiters, p) # {} => Places(p) # {}
         /\ \A e \in Events : Positions(event_waiters[e], p) # {} => Places(p) # {}
         /\ TimedOut(p) => Places(p) # {}
         /\ Joining(p) => Places(p) # {}
         /\ net_waits[p] # {} => Places(p) # {}
<1>1. running = p => <<"running", 0>> \in Places(p)
  BY DEF Places
<1>2. \A i \in Positions(active, p) : <<"active", i>> \in Places(p)
  BY DEF Places
<1>3. \A i \in Positions(nba_waiters, p) : <<"nba", i>> \in Places(p)
  BY DEF Places
<1>4. \A i \in Positions(runtime_waiters, p) : <<"runtime", i>> \in Places(p)
  BY DEF Places
<1>5. ASSUME NEW e \in Events, NEW i \in Positions(event_waiters[e], p)
      PROVE  <<"event", e, i>> \in Places(p)
  <2>1. <<"event", e, i>> \in {"event"} \X {e} \X Positions(event_waiters[e], p)
    OBVIOUS
  <2>. QED BY <2>1 DEF Places
<1>6. ASSUME NEW ev \in timed, ev.proc = p PROVE <<"timed", ev.seq>> \in Places(p)
  <2>1. <<"timed", ev.seq>> \in {"timed"} \X {o.seq : o \in {t \in timed : t.proc = p}}
    BY <1>6
  <2>. QED BY <2>1, Zenon DEF Places
<1>7. ASSUME NEW w \in join_watches, w.parent = p PROVE <<"join", w>> \in Places(p)
  <2>1. <<"join", w>> \in {"join"} \X {u \in join_watches : u.parent = p}
    BY <1>7
  <2>. QED BY <2>1, Zenon DEF Places
<1>8. ASSUME net_waits[p] # {} PROVE <<"nets", 0>> \in Places(p)
  <2>1. <<"nets", 0>> \in {"nets"} \X (IF net_waits[p] # {} THEN {0} ELSE {})
    BY <1>8
  <2>. QED BY <2>1, Zenon DEF Places
<1>. QED BY <1>1, <1>2, <1>3, <1>4, <1>5, <1>6, <1>7, <1>8 DEF TimedOut, Joining

\* Places(p) has a member for each kind of place p is in, and one only.
LEMMA PlacesOfWhere ==
  ASSUME SchedInv, NEW p \in Procs
  PROVE  /\ Places(p) # {} <=> Where(p) # {}
         /\ \A x, y \in Places(p) : x = y
<1>1. /\ Once(active) /\ Once(nba_waiters) /\ Once(runtime_waiters)
      /\ \A e \in Events : Once(event_waiters[e])
  BY DEF SchedInv, PlaceInv, NoDuplicates
<1>2. Where(p) # {} => Places(p) # {}
  <2> SUFFICES ASSUME NEW k \in Where(p) PROVE Places(p) # {}
    OBVIOUS
  <2>1. CASE k \in {"running", "timed", "join", "nets"}
    BY <2>1, KindPlaces, WhereParts
  <2>2. CASE k \in {"active", "nba", "runtime"}
    <3>1. /\ k = "active" => Positions(active, p) # {}
          /\ k = "nba" => Positions(nba_waiters, p) # {}
          /\ k = "runtime" => Positions(runtime_waiters, p) # {}
      BY <1>1, QueuePosition, WhereParts
    <3>. QED BY <2>2, <3>1, KindPlaces
  <2>3. CASE k = "event"
    <3>1. PICK e \in Events : p \in Range(event_waiters[e])
      BY <2>3, WhereParts DEF EventQueued
    <3>2. Positions(event_waiters[e], p) # {}
      BY <1>1, <3>1, QueuePosition
    <3>. QED BY <3>2, KindPlaces
  <2>4. k \in Tag
    BY WhereParts
  <2>. QED BY <2>1, <2>2, <2>3, <2>4 DEF Tag
<1>3. ASSUME NEW x \in Places(p) PROVE x[1] \in Where(p)
  BY <1>1, <1>3, PlaceKinds, QueuePosition, WhereParts DEF EventQueued, TimedOut, Joining
<1>4. ASSUME NEW x \in Places(p), NEW y \in Places(p) PROVE x = y
  <2>1. x[1] = y[1]
    BY <1>3 DEF SchedInv, PlaceInv, Placed
  <2>2. CASE x[1] \in {"running", "nets"}
    BY <2>1, <2>2, PlaceKinds
  <2>3. CASE x[1] \in {"active", "nba", "runtime"}
    BY <1>1, <2>1, <2>3, PlaceKinds, QueuePosition
  <2>4. CASE x[1] = "event"
    <3>a. PICK e \in Events : \E i \in Positions(event_waiters[e], p) : x = <<"event", e, i>>
      BY <2>4, PlaceKinds
    <3>1. PICK i \in Positions(event_waiters[e], p) : x = <<"event", e, i>>
      BY <3>a
    <3>b. PICK f \in Events : \E j \in Positions(event_waiters[f], p) : y = <<"event", f, j>>
      <4>1. y[1] = "event"
        BY <2>1, <2>4
      <4>. QED BY <4>1, PlaceKinds
    <3>2. PICK j \in Positions(event_waiters[f], p) : y = <<"event", f, j>>
      BY <3>b
    <3>3. p \in Range(event_waiters[e]) /\ p \in Range(event_waiters[f])
      BY DEF Positions, Range
    <3>4. e = f
      BY <3>3 DEF SchedInv, PlaceInv, NoDuplicates
    <3>5. i = j
      BY <1>1, <3>4, QueuePosition
    <3>. QED BY <3>1, <3>2, <3>4, <3>5
  <2>5. CASE x[1] = "timed"
    <3>1. PICK a \in timed : a.proc = p /\ x = <<"timed", a.seq>>
      BY <2>5, PlaceKinds
    <3>2. PICK b \in timed : b.proc = p /\ y = <<"timed", b.seq>>
      <4>1. y[1] = "timed"
        BY <2>1, <2>5
      <4>. QED BY <4>1, PlaceKinds
    <3>. QED BY <3>1, <3>2 DEF SchedInv, PlaceInv, NoDuplicates
  <2>6. CASE x[1] = "join"
    <3>1. PICK a \in join_watches : a.parent = p /\ x = <<"join", a>>
      BY <2>6, PlaceKinds
    <3>2. PICK b \in join_watches : b.parent = p /\ y = <<"join", b>>
      <4>1. y[1] = "join"
        BY <2>1, <2>6
      <4>. QED BY <4>1, PlaceKinds
    <3>. QED BY <3>1, <3>2 DEF SchedInv, PlaceInv, NoDuplicates
  <2>7. x[1] \in Tag
    BY <1>3, WhereParts
  <2>. QED BY <2>2, <2>3, <2>4, <2>5, <2>6, <2>7 DEF Tag
<1>5. Places(p) # {} => Where(p) # {}
  BY <1>3
<1>. QED BY <1>2, <1>4, <1>5

\* No process is lost and none can be resumed twice for one wait: in every
\* reachable state a live process is in exactly one place and a finished one
\* is in none, for every number of processes, nets and events.
THEOREM OnePlaceEach == Spec => []OnePlace
<1>1. SchedInv => OnePlace
  <2> SUFFICES ASSUME SchedInv, NEW p \in Procs
               PROVE  Cardinality(Places(p)) = IF p \in Alive THEN 1 ELSE 0
    BY DEF OnePlace
  <2>1. /\ Places(p) # {} <=> p \in Alive
        /\ \A x, y \in Places(p) : x = y
    BY PlacesOfWhere DEF SchedInv, PlaceInv, Placed
  <2>2. CASE p \in Alive
    <3>1. PICK x \in Places(p) : TRUE
      BY <2>1, <2>2
    <3>2. Places(p) = {x}
      BY <2>1
    <3>. QED BY <2>2, <3>2, FS_Singleton
  <2>3. CASE p \notin Alive
    BY <2>1, <2>3, FS_EmptySet
  <2>. QED BY <2>2, <2>3
<1>. QED BY <1>1, SchedInvariant, PTL

-----------------------------------------------------------------------------
(* Wake-ups on nets *)

\* A step writes a net, or it changes the value of none and the registrations
\* of the running process only.
LEMMA NetSteps ==
  ASSUME TypeOK, Next
  PROVE  \/ \E n \in Nets, v \in Vals : WriteNet(n, v)
         \/ /\ value' = value
            /\ \A p \in Procs : p # running => net_waits'[p] = net_waits[p]
<1>1. CASE AddProcess \/ (\E l \in Limits : RunUntil(l))
  BY <1>1 DEF AddProcess, RunUntil, netVars
<1>2. CASE ProcessCall
  BY <1>2 DEF ProcessCall, BlockingWrite, ScheduleNba, NotifyRuntimeChange,
              TriggerEvent, RequestStop, netVars
<1>3. CASE KernelStep
  <2>1. CASE ApplyNba
    <3>1. Head(batch) \in Nets \X Vals
      BY <2>1 DEF ApplyNba, TypeOK
    <3>2. Head(batch)[1] \in Nets /\ Head(batch)[2] \in Vals
      BY <3>1
    <3>. QED BY <2>1, <3>2 DEF ApplyNba
  <2>. QED BY <1>3, <2>1
       DEF KernelStep, Resume, DrainNba, EndNba, AdvanceTime, ReturnAtLimit,
           ReturnEmpty, Dispatch, EndDispatch, netVars
<1>4. CASE ProcessReturn
  <2>1. Return
    BY <1>4 DEF ProcessReturn, ArmDelay, ArmEdge, ArmSensitivity, ArmCond,
                ArmRuntimeCond, ArmNba, ArmNamedEvent, Fork, Finish, ReturnWait
  <2>2. value' = value /\ running \in Procs
    BY <2>1, ReturnType DEF Return, Returned
  <2>3. \/ UNCHANGED net_waits
        \/ \E X : net_waits' = [net_waits EXCEPT ![running] = X]
    BY <1>4 DEF ProcessReturn, ArmDelay, ArmEdge, ArmSensitivity, ArmCond,
                ArmRuntimeCond, ArmNba, ArmNamedEvent, Fork, Finish, ArmElsewhere,
                ArmNets
  <2>. QED BY <2>2, <2>3 DEF TypeOK
<1>. QED BY <1>1, <1>2, <1>3, <1>4 DEF Next

\* What a write that changes a net does to the processes parked on nets: the
\* ones with a registration that fires are queued and lose their
\* registrations, the others keep them.
LEMMA WriteWakes ==
  ASSUME SchedInv, NEW net \in Nets, NEW val \in Vals, val # value[net],
         WriteNet(net, val), NEW p \in Procs
  PROVE  /\ EdgeSeen(p) <=> p \in Fired(net, val)
         /\ p \in Fired(net, val) => net_waits'[p] = {} /\ p \in Range(active')
         /\ p \notin Fired(net, val) => net_waits'[p] = net_waits[p]
<1> USE DEF SchedInv
<1>1. PICK order \in SetToSeqs(Fired(net, val)) :
        /\ active' = active \o runtime_waiters \o order
        /\ net_waits' = [q \in Procs |-> IF q \in Fired(net, val) THEN {} ELSE net_waits[q]]
  BY Zenon DEF WriteNet
<1>2. order \in Seq(Procs) /\ Range(order) = Fired(net, val)
  BY FiredType, OrderOnce
<1>3. active \o runtime_waiters \in Seq(Procs)
  BY DEF TypeOK
<1>4. Range(active') = Range(active \o runtime_waiters) \cup Range(order)
  BY <1>1, <1>2, <1>3, ConcatRange
<1>5. value' = [value EXCEPT ![net] = val] /\ value \in [Nets -> Vals]
  BY DEF WriteNet, TypeOK
<1>6. EdgeSeen(p) <=> \E w \in waiters[net] : w.proc = p /\ Fires(value[net], val, w.edge)
  <2>1. \A n \in Nets : value'[n] = IF n = net THEN val ELSE value[n]
    BY <1>5
  <2>2. \A v, k : ~Fires(v, v, k)
    BY DEF Fires
  <2>. QED BY <2>1, <2>2 DEF EdgeSeen
<1>7. \A w \in waiters[net] : IsCurrent(w)
  BY DEF WaiterIndex
<1>8. p \in Fired(net, val) <=>
        \E w \in waiters[net] : w.proc = p /\ Fires(value[net], val, w.edge)
  BY <1>7 DEF Fired
<1>. QED BY <1>1, <1>2, <1>4, <1>6, <1>8

\* A process parked on nets is woken exactly when a write fires one of its
\* registrations: no edge is missed and none wakes it twice.
THEOREM WakeUpsExact == Spec => WakeExact
<1>1. SchedInv /\ SchedInv' /\ [Next]_vars =>
        [\A p \in Procs : net_waits[p] # {} =>
           IF EdgeSeen(p)
           THEN /\ Cardinality(Positions(active', p)) = 1
                /\ \A n \in Nets : \A w \in waiters'[n] : w.proc # p
           ELSE net_waits'[p] = net_waits[p] /\ Positions(active', p) = {}]_vars
  <2> SUFFICES ASSUME SchedInv, SchedInv', Next, NEW p \in Procs, net_waits[p] # {}
               PROVE  IF EdgeSeen(p)
                      THEN /\ Cardinality(Positions(active', p)) = 1
                           /\ \A n \in Nets : \A w \in waiters'[n] : w.proc # p
                      ELSE net_waits'[p] = net_waits[p] /\ Positions(active', p) = {}
    OBVIOUS
  <2>1. p # running
    <3>1. Where(p) = {"nets"}
      BY WhereParts, OnlyAt DEF SchedInv, PlaceInv
    <3>. QED BY <3>1, WhereParts
  <2>2. ASSUME EdgeSeen(p), net_waits'[p] = {}, p \in Range(active')
        PROVE  /\ Cardinality(Positions(active', p)) = 1
               /\ \A n \in Nets : \A w \in waiters'[n] : w.proc # p
    <3>1. Once(active')
      BY DEF SchedInv, PlaceInv, NoDuplicates
    <3>2. PICK i \in Positions(active', p) : Positions(active', p) = {i}
      BY <2>2, <3>1, QueuePosition
    <3>3. \A n \in Nets : \A w \in waiters'[n] : w.proc # p
      BY <2>2 DEF SchedInv, WaiterIndex
    <3>. QED BY <3>2, <3>3, FS_Singleton
  <2>3. ASSUME net_waits'[p] = net_waits[p] PROVE Positions(active', p) = {}
    <3>1. "nets" \in Where(p)'
      BY <2>3, WhereParts
    <3>2. "active" \notin Where(p)'
      BY <3>1 DEF SchedInv, PlaceInv, Placed
    <3>3. p \notin Range(active')
      BY <3>2, WhereParts
    <3>. QED BY <3>3 DEF Positions, Range
  <2>4. CASE value' = value /\ \A q \in Procs : q # running => net_waits'[q] = net_waits[q]
    <3>1. ~EdgeSeen(p)
      BY <2>4 DEF EdgeSeen, Fires
    <3>. QED BY <2>1, <2>3, <2>4, <3>1
  <2>5. ASSUME NEW n \in Nets, NEW v \in Vals, WriteNet(n, v)
        PROVE  IF EdgeSeen(p)
               THEN /\ Cardinality(Positions(active', p)) = 1
                    /\ \A m \in Nets : \A w \in waiters'[m] : w.proc # p
               ELSE net_waits'[p] = net_waits[p] /\ Positions(active', p) = {}
    <3>1. CASE v = value[n]
      <4>1. value' = value /\ net_waits' = net_waits
        BY <2>5, <3>1 DEF WriteNet, SchedInv, TypeOK
      <4>2. ~EdgeSeen(p)
        BY <4>1 DEF EdgeSeen, Fires
      <4>. QED BY <2>3, <4>1, <4>2
    <3>2. CASE v # value[n]
      BY <2>2, <2>3, <2>5, <3>2, WriteWakes
    <3>. QED BY <3>1, <3>2
  <2>. QED BY <2>4, <2>5, NetSteps DEF SchedInv
<1>. QED BY <1>1, SchedInvariant, PTL DEF Spec, WakeExact

-----------------------------------------------------------------------------
(* Joins *)

\* Only a process that finishes changes finished, and only forks and finishing
\* processes change the joins: no other step drops one.
LEMMA JoinSteps ==
  ASSUME Next
  PROVE  Finish \/ (finished' = finished /\ join_watches \subseteq join_watches')
<1>1. CASE AddProcess \/ (\E l \in Limits : RunUntil(l)) \/ ProcessCall \/ KernelStep
  BY <1>1 DEF AddProcess, RunUntil, ProcessCall, BlockingWrite, ScheduleNba,
              NotifyRuntimeChange, TriggerEvent, RequestStop, KernelStep, Resume,
              DrainNba, ApplyNba, EndNba, AdvanceTime, ReturnAtLimit, ReturnEmpty,
              Dispatch, EndDispatch, procVars
<1>2. ASSUME NEW k \in ForkWidths, NEW j \in ForkJoin, Fork(k, j)
      PROVE  finished' = finished /\ join_watches \subseteq join_watches'
  <2>1. \/ join_watches' = join_watches
        \/ join_watches' = join_watches \cup
               {[parent |-> running, any |-> j = "Any",
                 remaining |-> (nprocs + 1)..(nprocs + k)]}
    BY <1>2, Zenon DEF Fork
  <2>2. finished' = finished
    BY <1>2 DEF Fork
  <2>. QED BY <2>1, <2>2
<1>3. CASE ProcessReturn /\ ~Finish
  BY <1>2, <1>3 DEF ProcessReturn, ArmDelay, ArmEdge, ArmSensitivity, ArmCond,
              ArmRuntimeCond, ArmNba, ArmNamedEvent, ArmElsewhere, ArmNets
<1>. QED BY <1>1, <1>3 DEF Next

\* A parent in join goes on exactly when its last child finishes, one in
\* join_any when the first does, and until then the join keeps exactly the
\* children that are still running.
THEOREM JoinsExact == Spec => JoinExact
<1>1. SchedInv /\ [Next]_vars =>
        [\A w \in join_watches :
           LET left == w.remaining \ finished' IN
           IF left = {} \/ (w.any /\ left # w.remaining)
           THEN /\ \A u \in join_watches' : u.parent # w.parent
                /\ w.parent \in Range(active')
           ELSE [w EXCEPT !.remaining = left] \in join_watches']_vars
  <2> SUFFICES ASSUME SchedInv, Next, NEW w \in join_watches, NEW left,
                      left = w.remaining \ finished'
               PROVE  IF left = {} \/ (w.any /\ left # w.remaining)
                      THEN /\ \A u \in join_watches' : u.parent # w.parent
                           /\ w.parent \in Range(active')
                      ELSE [w EXCEPT !.remaining = left] \in join_watches'
    OBVIOUS
  <2>1. w.remaining # {} /\ w.remaining \cap finished = {}
    BY DEF SchedInv, JoinInv, JoinSound, Alive
  <2>2. w \in JoinWatch
    BY DEF SchedInv, TypeOK
  <2>3. CASE finished' = finished /\ join_watches \subseteq join_watches'
    <3>1. left = w.remaining
      BY <2>1, <2>3
    <3>2. [w EXCEPT !.remaining = left] = w
      BY <2>2, <3>1 DEF JoinWatch
    <3>. QED BY <2>1, <2>3, <3>1, <3>2
  <2>4. CASE Finish
    <3>1. Return /\ NotifyFinished(running) /\ finished' = finished \cup {running}
      BY <2>4 DEF Finish
    <3>2. running \in Procs
      BY <3>1, ReturnPlaces DEF SchedInv
    <3>3. PICK done \in SUBSET join_watches :
            /\ \A u \in join_watches : u \in done <=> Satisfied(u, running)
            /\ join_watches' = {[u EXCEPT !.remaining = @ \ {running}] :
                                  u \in join_watches \ done}
            /\ \A p : Joining(p)' <=> \E u \in join_watches \ done : u.parent = p
            /\ \E order \in Seq(Procs) :
                 /\ active' = active \o order /\ Once(order)
                 /\ Range(order) = {u.parent : u \in done}
      BY <3>1, <3>2, JoinsAfterFinish DEF SchedInv
    <3>4. left = w.remaining \ {running}
      BY <2>1, <3>1
    <3>5. (left = {} \/ (w.any /\ left # w.remaining)) <=> w \in done
      BY <2>1, <3>3, <3>4 DEF Satisfied
    <3>6. CASE w \in done
      <4>1. ~Joining(w.parent)'
        <5>1. \A u \in join_watches : u.parent = w.parent => u = w
          BY DEF SchedInv, PlaceInv, NoDuplicates
        <5> DEFINE q == w.parent
        <5>2. ~\E u \in join_watches \ done : u.parent = q
          BY <3>6, <5>1
        <5> HIDE DEF q
        <5>3. ~Joining(q)'
          BY <3>3, <5>2, Zenon
        <5>. QED BY <5>3 DEF q
      <4>2. \A u \in join_watches' : u.parent # w.parent
        BY <4>1 DEF Joining
      <4>3. PICK order \in Seq(Procs) : /\ active' = active \o order
                                        /\ Range(order) = {u.parent : u \in done}
        BY <3>3
      <4>4. Range(active') = Range(active) \cup Range(order)
        BY <4>3, ConcatRange DEF SchedInv, TypeOK
      <4>5. w.parent \in Range(active')
        BY <3>6, <4>3, <4>4
      <4>. QED BY <3>5, <3>6, <4>2, <4>5
    <3>7. CASE w \notin done
      <4>1. [w EXCEPT !.remaining = @ \ {running}] \in join_watches'
        BY <3>3, <3>7
      <4>2. [w EXCEPT !.remaining = @ \ {running}] = [w EXCEPT !.remaining = left]
        BY <3>4
      <4>. QED BY <3>5, <3>7, <4>1, <4>2
    <3>. QED BY <3>6, <3>7
  <2>. QED BY <2>3, <2>4, JoinSteps
<1>. QED BY <1>1, SchedInvariant, PTL DEF Spec, JoinExact

-----------------------------------------------------------------------------
(* The life cycle *)

\* The status of a process, from the table and the active queue.
LEMMA StatusOf ==
  ASSUME SchedInv, NEW p \in Procs
  PROVE  /\ ProcStatus[p] = "unborn" <=> p > nprocs
         /\ ProcStatus[p] = "running" <=> p = running
         /\ ProcStatus[p] = "finished" <=> p \in finished
         /\ ProcStatus[p] = "ready" <=> p \in Range(active)
         /\ ProcStatus[p] = "parked" <=>
              p \in Alive /\ p # running /\ p \notin Range(active)
<1>1. nprocs \in Nat /\ p \in Nat /\ p >= 1
  BY DEF SchedInv, TypeOK, Procs
<1>2. p = running => p \in Alive /\ p \notin Range(active)
  BY WhereParts DEF SchedInv, PlaceInv, Placed
<1>3. p \in Range(active) => p \in Alive
  BY WhereParts DEF SchedInv, PlaceInv, Placed
<1>4. p \in finished => ~(p > nprocs)
  BY <1>1 DEF SchedInv, JoinInv
<1>5. p \in Alive <=> ~(p > nprocs) /\ p \notin finished
  BY <1>1 DEF Alive
<1>6. ProcStatus[p] = CASE p > nprocs          -> "unborn"
                        [] p = running         -> "running"
                        [] p \in finished      -> "finished"
                        [] p \in Range(active) -> "ready"
                        [] OTHER               -> "parked"
  BY DEF ProcStatus
<1>. QED BY <1>2, <1>3, <1>4, <1>5, <1>6

\* The processes of each status.
LEMMA StatusSets ==
  ASSUME SchedInv
  PROVE  /\ \A p \in Procs : p \in LC!In("unborn") <=> p > nprocs
         /\ \A p \in Procs : p \in LC!In("running") <=> p = running
         /\ \A p \in Procs : p \in LC!In("ready") <=> p \in Range(active)
         /\ \A p \in Procs : p \in LC!In("parked") <=>
              p \in Alive /\ p # running /\ p \notin Range(active)
  BY StatusOf DEF LC!In

\* A step that leaves the table and the active queue alone is no step of the
\* life cycle.
LEMMA SameStatus ==
  ASSUME UNCHANGED <<nprocs, running, finished, active>>
  PROVE  ProcStatus' = ProcStatus
  BY DEF ProcStatus, Range

\* A step that only queues processes wakes parked ones.
LEMMA WakeStep ==
  ASSUME SchedInv, SchedInv', UNCHANGED <<nprocs, running, finished>>,
         NEW order \in Seq(Procs), active' = active \o order
  PROVE  LC!Next
<1> DEFINE S == Range(order) \ Range(active)
<1>1. Range(active') = Range(active) \cup S /\ S \in SUBSET Procs
  <2>1. Range(active') = Range(active) \cup Range(order)
    BY ConcatRange DEF SchedInv, TypeOK
  <2>2. Range(order) \in SUBSET Procs
    BY DEF Range
  <2>. QED BY <2>1, <2>2
<1>2. Alive' = Alive
  BY DEF Alive
<1>3. ASSUME NEW p \in S PROVE p \in Alive /\ p # running
  <2>1. p \in Procs /\ "active" \in Where(p)'
    BY <1>1, WhereParts
  <2>2. p \in Alive' /\ "running" \notin Where(p)'
    BY <2>1 DEF SchedInv, PlaceInv, Placed
  <2>. QED BY <1>2, <2>2, WhereParts
<1>4. S \subseteq LC!In("parked")
  BY <1>1, <1>3, StatusSets
<1> HIDE DEF S
<1>5. ProcStatus' = [p \in Procs |-> IF p \in S THEN "ready" ELSE ProcStatus[p]]
  <2>1. ASSUME NEW p \in Procs
        PROVE  ProcStatus'[p] = IF p \in S THEN "ready" ELSE ProcStatus[p]
    <3>1. p \in S => ~(p > nprocs) /\ p # running /\ p \notin finished
      BY <1>3 DEF Alive, SchedInv, TypeOK, Procs
    <3>. QED BY <1>1, <3>1 DEF ProcStatus
  <2>2. ProcStatus' = [p \in Procs |-> ProcStatus'[p]]
    BY DEF ProcStatus
  <2>. QED BY <2>1, <2>2
<1>. QED BY <1>1, <1>4, <1>5, Zenon DEF LC!Next, LC!Wake

\* add_process creates one process, outside any resume.
LEMMA CreateStep ==
  ASSUME SchedInv, AddProcess
  PROVE  LC!Next
<1> DEFINE q == nprocs + 1
<1>1. /\ active' = Append(active, q) /\ nprocs' = q /\ q \in Procs /\ nprocs \in Nat
      /\ running = 0 /\ UNCHANGED <<running, finished>>
  BY BoundsAssumption DEF SchedInv, AddProcess, loopVars, TypeOK, Procs
<1>2. Range(active') = Range(active) \cup {q}
  BY <1>1, AppendOnce DEF SchedInv, TypeOK
<1>3. LC!In("running") = {}
  <2>1. 0 \notin Procs
    BY BoundsAssumption DEF Procs
  <2>. QED BY <1>1, <2>1, StatusSets DEF LC!In
<1>4. {q} \subseteq LC!In("unborn")
  BY <1>1, StatusSets
<1>5. ProcStatus' = [p \in Procs |-> IF p \in {q} THEN "ready" ELSE ProcStatus[p]]
  <2>1. ASSUME NEW p \in Procs
        PROVE  ProcStatus'[p] = IF p \in {q} THEN "ready" ELSE ProcStatus[p]
    <3>1. p \in Nat /\ p >= 1
      BY DEF Procs
    <3>2. q \notin finished
      BY <1>1 DEF SchedInv, JoinInv
    <3>3. p > nprocs' <=> p > nprocs /\ p # q
      BY <1>1, <3>1
    <3>4. p > nprocs => p \notin Range(active)
      BY <3>1, StatusOf
    <3>5. p = q => p > nprocs
      BY <1>1
    <3>. QED BY <1>1, <1>2, <3>1, <3>2, <3>3, <3>4, <3>5 DEF ProcStatus
  <2>2. ProcStatus' = [p \in Procs |-> ProcStatus'[p]]
    BY DEF ProcStatus
  <2>. QED BY <2>1, <2>2
<1> HIDE DEF q
<1>6. LC!Create({q})
  BY <1>3, <1>4, <1>5 DEF LC!Create
<1>. QED BY <1>1, <1>6 DEF LC!Next

\* drain_active resumes a ready process, when none is running.
LEMMA ResumeStep ==
  ASSUME SchedInv, Resume
  PROVE  LC!Next
<1> DEFINE q == Head(active)
<1>1. /\ active # <<>> /\ running' = q /\ active' = Tail(active) /\ running = 0
      /\ UNCHANGED <<nprocs, finished>>
  BY DEF Resume, procVars, SchedInv, TypeOK
<1>2. active \in Seq(Procs) /\ Once(active)
  BY DEF SchedInv, TypeOK, PlaceInv, NoDuplicates
<1>3. q \in Range(active) /\ Range(active') = Range(active) \ {q} /\ q \in Procs
  BY <1>1, <1>2, TailOnce
<1> HIDE DEF q
<1>4. LC!In("running") = {}
  <2>1. 0 \notin Procs
    BY BoundsAssumption DEF Procs
  <2>. QED BY <1>1, <2>1, StatusSets DEF LC!In
<1>5. q \in LC!In("ready")
  BY <1>3, StatusSets
<1>6. ProcStatus' = [ProcStatus EXCEPT ![q] = "running"]
  <2>1. ASSUME NEW p \in Procs
        PROVE  ProcStatus'[p] = IF p = q THEN "running" ELSE ProcStatus[p]
    <3>1. p # 0
      BY BoundsAssumption DEF Procs
    <3>2. q \in Alive
      BY <1>3, WhereParts DEF SchedInv, PlaceInv, Placed
    <3>3. ~(q > nprocs) /\ q \notin finished
      BY <1>3, <3>2 DEF Alive, SchedInv, TypeOK, Procs
    <3>4. CASE p = q
      BY <1>1, <1>3, <3>3, <3>4 DEF ProcStatus
    <3>5. CASE p # q
      BY <1>1, <1>3, <3>1, <3>5 DEF ProcStatus
    <3>. QED BY <3>4, <3>5
  <2>2. ProcStatus' = [p \in Procs |-> ProcStatus'[p]] /\ ProcStatus = [p \in Procs |-> ProcStatus[p]]
    BY DEF ProcStatus
  <2>. QED BY <2>1, <2>2
<1>7. LC!Resume(q)
  BY <1>4, <1>5, <1>6 DEF LC!Resume
<1>. QED BY <1>3, <1>7 DEF LC!Next

\* A process that returns a wait is parked or, after a fork without a join,
\* ready again; the new processes of a fork are ready.
LEMMA ParkStep ==
  ASSUME SchedInv, SchedInv', Return, UNCHANGED finished,
         nprocs' \in Nat, nprocs' >= nprocs,
         Range(active) \subseteq Range(active'),
         \A p \in Range(active') :
            p \in Range(active) \/ p = running \/ p \in (nprocs + 1)..nprocs',
         (nprocs + 1)..nprocs' \subseteq Range(active')
  PROVE  LC!Next
<1> DEFINE S == (nprocs + 1)..nprocs'
           to == IF running \in Range(active') THEN "ready" ELSE "parked"
           q == running
<1>1. /\ q \in Procs /\ q \in Alive /\ running' = 0 /\ 0 \notin Procs
  BY ReturnPlaces DEF SchedInv
<1>2. S \in SUBSET Procs
  BY BoundsAssumption DEF SchedInv, TypeOK, Procs
<1>3. S \subseteq LC!In("unborn")
  <2>1. nprocs \in Nat
    BY DEF SchedInv, TypeOK
  <2>2. \A p \in S : p \in Procs /\ p > nprocs
    BY <1>2, <2>1
  <2> HIDE DEF S
  <2>. QED BY <2>2, StatusSets
<1>4. q \in LC!In("running")
  BY <1>1, StatusSets
<1>5. ASSUME NEW p \in Procs
      PROVE  ProcStatus'[p] = IF p = q THEN to
                              ELSE IF p \in S THEN "ready" ELSE ProcStatus[p]
  <2>1. p \in Nat /\ nprocs \in Nat /\ p # running'
    BY <1>1 DEF SchedInv, TypeOK, Procs
  <2>2. finished \subseteq 1..nprocs
    BY DEF SchedInv, JoinInv
  <2>3. CASE p = q
    <3>1. ~(p > nprocs') /\ p \notin finished
      BY <1>1, <2>1, <2>3 DEF Alive
    <3>. QED BY <2>1, <2>3, <3>1 DEF ProcStatus
  <2>4. CASE p # q /\ p \in S
    <3>1. ~(p > nprocs') /\ p \notin finished /\ p \in Range(active')
      BY <2>1, <2>2, <2>4
    <3>. QED BY <2>1, <2>4, <3>1 DEF ProcStatus
  <2>5. CASE p # q /\ p \notin S
    <3>1. p > nprocs' <=> p > nprocs
      BY <2>1, <2>5
    <3>2. p \in Range(active') <=> p \in Range(active)
      BY <2>5
    <3>. QED BY <2>1, <2>5, <3>1, <3>2 DEF ProcStatus
  <2>. QED BY <2>3, <2>4, <2>5
<1>6. ProcStatus' = [p \in Procs |-> IF p = q THEN to
                                     ELSE IF p \in S THEN "ready" ELSE ProcStatus[p]]
  <2>1. ProcStatus' = [p \in Procs |-> ProcStatus'[p]]
    BY DEF ProcStatus
  <2>. QED BY <1>5, <2>1
<1>7. to \in {"ready", "parked"}
  OBVIOUS
<1> HIDE DEF S, to, q
<1>8. LC!Park(q, to, S)
  BY <1>3, <1>4, <1>6 DEF LC!Park
<1>. QED BY <1>1, <1>2, <1>7, <1>8 DEF LC!Next

\* A process that finishes makes the parents whose join it satisfies ready.
LEMMA FinishStep ==
  ASSUME SchedInv, Finish
  PROVE  LC!Next
<1> DEFINE q == running
<1>1. /\ Return /\ NotifyFinished(running) /\ finished' = finished \cup {running}
      /\ UNCHANGED nprocs
  BY DEF Finish
<1>2. q \in Procs /\ q \in Alive /\ Where(q) = {"running"} /\ running' = 0 /\ 0 \notin Procs
  BY <1>1, ReturnPlaces DEF SchedInv
<1>3. PICK done \in SUBSET join_watches : \E order \in Seq(Procs) :
        /\ active' = active \o order
        /\ Range(order) = {u.parent : u \in done}
  BY <1>1, <1>2, JoinsAfterFinish DEF SchedInv
<1>4. PICK order \in Seq(Procs) : /\ active' = active \o order
                                  /\ Range(order) = {u.parent : u \in done}
  BY <1>3
<1> DEFINE S == Range(order)
<1>5. Range(active') = Range(active) \cup S /\ S \in SUBSET Procs
  <2>1. Range(active') = Range(active) \cup Range(order)
    BY <1>4, ConcatRange DEF SchedInv, TypeOK
  <2>2. Range(order) \in SUBSET Procs
    BY DEF Range
  <2>. QED BY <2>1, <2>2
<1>6. ASSUME NEW p \in S PROVE p \in Alive /\ Where(p) = {"join"}
  <2>1. PICK u \in done : u.parent = p
    BY <1>4
  <2>2. Joining(p) /\ p \in Procs
    BY <1>5, <2>1 DEF Joining
  <2>3. "join" \in Where(p)
    BY <2>2, WhereParts
  <2>. QED BY <2>2, <2>3, OnlyAt DEF SchedInv, PlaceInv
<1>7. ASSUME NEW p \in S PROVE p # q /\ p \notin Range(active) /\ p \in Procs
  BY <1>2, <1>5, <1>6, WhereParts
<1> HIDE DEF S
<1>8. S \subseteq LC!In("parked")
  BY <1>5, <1>6, <1>7, StatusSets
<1>9. q \in LC!In("running")
  BY <1>2, StatusSets
<1>10. ASSUME NEW p \in Procs
       PROVE  ProcStatus'[p] = IF p = q THEN "finished"
                               ELSE IF p \in S THEN "ready" ELSE ProcStatus[p]
  <2>1. p \in Nat /\ nprocs \in Nat /\ p # running'
    BY <1>2 DEF SchedInv, TypeOK, Procs
  <2>2. CASE p = q
    <3>1. ~(p > nprocs')
      BY <1>1, <1>2, <2>1, <2>2 DEF Alive
    <3>2. p \notin Range(active') /\ p \in finished'
      BY <1>1, <1>2, <1>5, <1>7, <2>2, WhereParts
    <3>. QED BY <2>1, <2>2, <3>1, <3>2 DEF ProcStatus
  <2>3. CASE p # q /\ p \in S
    <3>1. ~(p > nprocs') /\ p \notin finished' /\ p \in Range(active')
      BY <1>1, <1>5, <1>6, <2>1, <2>3 DEF Alive
    <3>. QED BY <2>1, <2>3, <3>1 DEF ProcStatus
  <2>4. CASE p # q /\ p \notin S
    BY <1>1, <1>5, <2>1, <2>4 DEF ProcStatus
  <2>. QED BY <2>2, <2>3, <2>4
<1>11. ProcStatus' = [p \in Procs |-> IF p = q THEN "finished"
                                      ELSE IF p \in S THEN "ready" ELSE ProcStatus[p]]
  <2>1. ProcStatus' = [p \in Procs |-> ProcStatus'[p]]
    BY DEF ProcStatus
  <2>. QED BY <1>10, <2>1
<1> HIDE DEF q
<1>12. LC!Finish(q, S)
  BY <1>8, <1>9, <1>11 DEF LC!Finish
<1>. QED BY <1>2, <1>5, <1>12 DEF LC!Next

\* Every step of the kernel is a step of the life cycle or leaves the status
\* of every process alone.
LEMMA LifecycleStep ==
  ASSUME SchedInv, SchedInv', [Next]_vars
  PROVE  LC!Next \/ ProcStatus' = ProcStatus
<1>t. /\ active \in Seq(Procs) /\ runtime_waiters \in Seq(Procs)
      /\ nba_waiters \in Seq(Procs) /\ \A e \in Events : event_waiters[e] \in Seq(Procs)
      /\ nprocs \in Nat
  BY DEF SchedInv, TypeOK
<1>1. CASE AddProcess
  BY <1>1, CreateStep
<1>2. ASSUME NEW l \in Limits, RunUntil(l) PROVE ProcStatus' = ProcStatus
  BY <1>2, SameStatus DEF RunUntil, queueVars, procVars
<1>3. ASSUME NEW n \in Nets, NEW v \in Vals, WriteNet(n, v),
             UNCHANGED <<nprocs, running, finished>>
      PROVE  LC!Next \/ ProcStatus' = ProcStatus
  <2>1. CASE v = value[n]
    BY <1>3, <2>1, SameStatus DEF WriteNet
  <2>2. CASE v # value[n]
    <3>1. PICK order \in SetToSeqs(Fired(n, v)) :
            active' = active \o runtime_waiters \o order
      BY <1>3, <2>2, Zenon DEF WriteNet
    <3>2. order \in Seq(Procs)
      BY FiredType, OrderOnce DEF SchedInv
    <3>3. /\ active' = active \o (runtime_waiters \o order)
          /\ runtime_waiters \o order \in Seq(Procs)
      BY <1>t, <3>1, <3>2
    <3>. QED BY <1>3, <3>3, WakeStep
  <2>. QED BY <2>1, <2>2
<1>4. CASE ProcessCall
  <2>1. UNCHANGED <<nprocs, running, finished>>
    BY <1>4 DEF ProcessCall, BlockingWrite, ScheduleNba, NotifyRuntimeChange,
                TriggerEvent, RequestStop, Call, procVars
  <2>2. ASSUME NEW n \in Nets, NEW v \in Vals, BlockingWrite(n, v)
        PROVE  LC!Next \/ ProcStatus' = ProcStatus
    BY <1>3, <2>1, <2>2 DEF BlockingWrite
  <2>3. CASE RequestStop \/ \E n \in Nets, v \in Vals : ScheduleNba(n, v)
    BY <2>1, <2>3, SameStatus DEF RequestStop, ScheduleNba, queueVars
  <2>4. CASE NotifyRuntimeChange
    BY <1>t, <2>1, <2>4, WakeStep DEF NotifyRuntimeChange
  <2>5. ASSUME NEW e \in Events, TriggerEvent(e) PROVE LC!Next
    BY <1>t, <2>1, <2>5, WakeStep DEF TriggerEvent
  <2>. QED BY <1>4, <2>2, <2>3, <2>4, <2>5 DEF ProcessCall
<1>5. CASE ProcessReturn
  <2>1. Return
    BY <1>5 DEF ProcessReturn, ArmDelay, ArmEdge, ArmSensitivity, ArmCond,
                ArmRuntimeCond, ArmNba, ArmNamedEvent, Fork, Finish, ReturnWait
  <2>2. ASSUME UNCHANGED <<active, nprocs, finished>> PROVE LC!Next
    BY <1>t, <2>1, <2>2, ParkStep
  <2>3. ASSUME NEW k \in ForkWidths, NEW j \in ForkJoin, Fork(k, j) PROVE LC!Next
    <3> DEFINE ids == [i \in 1..k |-> nprocs + i]
    <3>1. /\ k \in Nat /\ nprocs + k <= MaxProcs /\ nprocs' = nprocs + k
          /\ UNCHANGED finished
      BY <2>3, BoundsAssumption DEF Fork
    <3>2. ids \in Seq(Procs) /\ Range(ids) = (nprocs + 1)..nprocs'
      BY <3>1, ForkIds DEF SchedInv
    <3>3. active' = Append(active \o ids, running) \/ active' = active \o ids
      BY <2>3, Zenon DEF Fork
    <3> HIDE DEF ids
    <3>4. active \o ids \in Seq(Procs) /\ running \in Procs
      BY <1>t, <2>1, <3>2, ReturnPlaces DEF SchedInv
    <3>5. Range(active \o ids) = Range(active) \cup Range(ids)
      BY <1>t, <3>2, ConcatRange
    <3>6. \/ Range(active') = Range(active) \cup Range(ids)
          \/ Range(active') = Range(active) \cup Range(ids) \cup {running}
      BY <3>3, <3>4, <3>5, AppendOnce
    <3>7. nprocs' \in Nat /\ nprocs' >= nprocs
      BY <1>t, <3>1
    <3>. QED BY <2>1, <3>1, <3>2, <3>6, <3>7, ParkStep
  <2>4. CASE ProcessReturn /\ ~Finish /\ ~\E k \in ForkWidths, j \in ForkJoin : Fork(k, j)
    <3>1. UNCHANGED <<active, nprocs, finished>>
      BY <2>4 DEF ProcessReturn, ArmDelay, ArmEdge, ArmSensitivity, ArmCond,
                  ArmRuntimeCond, ArmNba, ArmNamedEvent, ArmElsewhere, ArmNets, queueVars
    <3>. QED BY <2>2, <3>1
  <2>. QED BY <1>5, <2>3, <2>4, FinishStep
<1>6. CASE KernelStep
  <2>1. CASE Resume
    BY <2>1, ResumeStep
  <2>2. CASE ApplyNba
    <3>b. batch \in Seq(Nets \X Vals) /\ batch # <<>>
      BY <2>2 DEF ApplyNba, SchedInv, TypeOK
    <3>1. Head(batch) \in Nets \X Vals
      BY <3>b
    <3>2. Head(batch)[1] \in Nets /\ Head(batch)[2] \in Vals
      BY <3>1
    <3>. QED BY <1>3, <2>2, <3>2 DEF ApplyNba, procVars, loopVars
  <2>3. CASE EndNba
    BY <1>t, <2>3, WakeStep DEF EndNba, procVars
  <2>4. CASE Dispatch
    <3>1. PICK ev \in timed : active' = Append(active, ev.proc)
      BY <2>4 DEF Dispatch
    <3>2. ev.proc \in Procs
      BY DEF SchedInv, TypeOK, TimedEvent
    <3>3. <<ev.proc>> \in Seq(Procs) /\ active' = active \o <<ev.proc>>
      BY <1>t, <3>1, <3>2
    <3>. QED BY <2>4, <3>3, WakeStep DEF Dispatch, procVars, loopVars
  <2>5. CASE DrainNba \/ AdvanceTime \/ ReturnAtLimit \/ ReturnEmpty \/ EndDispatch
    BY <2>5, SameStatus DEF DrainNba, AdvanceTime, ReturnAtLimit, ReturnEmpty,
                            EndDispatch, queueVars, procVars
  <2>. QED BY <1>6, <2>1, <2>2, <2>3, <2>4, <2>5 DEF KernelStep
<1>7. CASE UNCHANGED vars
  BY <1>7, SameStatus DEF vars, queueVars, procVars, loopVars
<1>. QED BY <1>1, <1>2, <1>4, <1>5, <1>6, <1>7 DEF Next

\* The kernel implements the contract of trait Process, for every number of
\* processes, nets and events: at most one process is inside resume, each
\* resume uses up one wake-up, and a finished process is never resumed.
THEOREM KernelImplementsLifecycle == Spec => ImplementsLifecycle
<1>1. Init => LC!Init
  <2> SUFFICES ASSUME Init PROVE ProcStatus = [p \in Procs |-> "unborn"]
    BY DEF LC!Init
  <2>1. nprocs = 0 /\ running = 0 /\ finished = {} /\ active = <<>>
    BY DEF Init
  <2>2. Range(<<>>) = {}
    BY DEF Range
  <2>3. \A p \in Procs : p > 0 /\ p # 0
    BY BoundsAssumption DEF Procs
  <2>4. \A p \in Procs : ProcStatus[p] = "unborn"
    BY <2>1, <2>2, <2>3 DEF ProcStatus
  <2>5. ProcStatus = [p \in Procs |-> ProcStatus[p]]
    BY DEF ProcStatus
  <2>. QED BY <2>4, <2>5
<1>2. SchedInv /\ SchedInv' /\ [Next]_vars => [LC!Next]_ProcStatus
  BY LifecycleStep
<1>. QED BY <1>1, <1>2, SchedInvariant, PTL DEF Spec, ImplementsLifecycle, LC!Spec
=============================================================================
