----------------------------- MODULE Scheduler -----------------------------
(***************************************************************************)
(* The event kernel of eevee-sched: kernel.rs (Kernel, Sim), net.rs        *)
(* (waiters and edge detection), process.rs (Wait) and time.rs (saturating *)
(* simulation time).  Sim::run_until, drain_active, drain_nba and          *)
(* dispatch_time_slot are loops; one iteration of a loop is one step, and  *)
(* phase says which loop the kernel is in.  A process is a client that     *)
(* makes any sequence of kernel calls and then returns any Wait; budget    *)
(* and calls bound it.                                                     *)
(*                                                                         *)
(* Continuous drivers are in Drives.tla; net resolution is in              *)
(* Strength.tla.  The queue Kernel::inactive is left out: dispatch_time_   *)
(* slot is the only code that fills it, for events of Region::Inactive,    *)
(* and no code pushes one: #0 is an ordinary delay of zero.                *)
(***************************************************************************)
EXTENDS Naturals, FiniteSets, Sequences, SequencesExt

CONSTANTS
  MaxProcs,     \* bound on the process table Sim::procs
  AddedProcs,   \* bound on the processes created by add_process
  MaxWaits,     \* bound on the waits other than Finished a process returns
  MaxCalls,     \* bound on the kernel calls made by one resume
  ForkWidths,   \* numbers of branches of a fork
  Nets,         \* nets
  Vals,         \* net values: <<LSB, the other bits>>
  InitVal,      \* the value every net is created with
  Events,       \* named events
  Delays,       \* operands of Wait::Delay
  TimeMax,      \* u64::MAX, where saturating_add_fs stops
  Limits,       \* limits given to run_until; TimeMax stands for None
  Sensitivities,\* operands of Wait::Sensitivity: sets of <<net, edge>>
  Calls,        \* the kernel calls the processes make
  Waits         \* the waits the processes return

Bit == {"0", "1", "x", "z"}
EdgeKind == {"Posedge", "Negedge", "AnyChange"}
ForkJoin == {"All", "Any", "None"}
Procs == 1..MaxProcs

ASSUME BoundsAssumption ==
  /\ MaxProcs \in Nat /\ AddedProcs \in 0..MaxProcs
  /\ MaxWaits \in Nat /\ MaxCalls \in Nat
  /\ ForkWidths \subseteq Nat

ASSUME DataAssumption ==
  /\ \A v \in Vals : v[1] \in Bit
  /\ InitVal \in Vals
  /\ TimeMax \in Nat
  /\ Delays \subseteq Nat
  /\ Limits \subseteq 0..TimeMax
  /\ Sensitivities \subseteq (SUBSET (Nets \X EdgeKind)) \ {{}}

VARIABLES
  \* fields of Kernel (waiters is Net::waiters, value is Net::value)
  time, value, waiters, active, nba, nba_waiters, timed, seq, stop,
  join_watches, runtime_waiters, event_waiters, wait_epochs, net_waits,
  \* Sim::procs.len()
  nprocs,
  \* control: the loop being executed, the process inside resume (0: none),
  \* the argument of run_until, the rest of the batch of drain_nba
  phase, running, limit, batch,
  \* the clients: waits left per process, calls made by this resume, and the
  \* processes that returned Wait::Finished
  budget, calls, finished

queueVars == <<active, nba_waiters, runtime_waiters, event_waiters>>
netVars == <<value, waiters, wait_epochs, net_waits>>
nbaVars == <<nba, batch>>
timeVars == <<time, timed, seq>>
procVars == <<nprocs, join_watches, finished, budget>>
loopVars == <<phase, running, limit, calls>>
vars == <<queueVars, netVars, nbaVars, timeVars, procVars, loopVars, stop>>

-----------------------------------------------------------------------------
(* Net transitions (net.rs) *)

IsPosedge(o, n) == \/ o = "0" /\ n \in {"1", "x", "z"}
                   \/ o \in {"x", "z"} /\ n = "1"

IsNegedge(o, n) == \/ o = "1" /\ n \in {"0", "x", "z"}
                   \/ o \in {"x", "z"} /\ n = "0"

\* detect_edge followed by Edges::fires: does writing new over old fire edge?
Fires(old, new, edge) ==
  /\ old # new
  /\ CASE edge = "Posedge"   -> IsPosedge(old[1], new[1])
       [] edge = "Negedge"   -> IsNegedge(old[1], new[1])
       [] edge = "AnyChange" -> TRUE

\* Mutant: addition that does not saturate.
SaturatingAdd_Plain(t, d) == t + d

SaturatingAdd(t, d) == IF t + d > TimeMax THEN TimeMax ELSE t + d

-----------------------------------------------------------------------------
Init ==
  /\ time = 0 /\ timed = {} /\ seq = 0 /\ stop = FALSE
  /\ value = [n \in Nets |-> InitVal]
  /\ waiters = [n \in Nets |-> {}]
  /\ active = <<>> /\ nba = <<>> /\ nba_waiters = <<>> /\ runtime_waiters = <<>>
  /\ event_waiters = [e \in Events |-> <<>>]
  /\ wait_epochs = [p \in Procs |-> 0]
  /\ net_waits = [p \in Procs |-> {}]
  /\ join_watches = {} /\ nprocs = 0 /\ finished = {}
  /\ phase = "idle" /\ running = 0 /\ limit = 0 /\ batch = <<>>
  /\ budget = [p \in Procs |-> MaxWaits] /\ calls = 0

-----------------------------------------------------------------------------
(* Waiters on nets *)

IsCurrent(w) == w.epoch = wait_epochs[w.proc]

\* Mutant: every registration fires on every change.
Fired_AnyChange(net, val) ==
  {w.proc : w \in {u \in waiters[net] : IsCurrent(u) /\ value[net] # val}}

\* The processes whose registration on net is current and fires.
Fired(net, val) ==
  {w.proc : w \in {u \in waiters[net] :
                     IsCurrent(u) /\ Fires(value[net], val, u.edge)}}

\* Mutant: the registrations on the other nets stay.
WaitersAfterWake_KeepSiblings(net, S) ==
  [m \in Nets |-> {w \in waiters[m] : m = net => IsCurrent(w) /\ w.proc \notin S}]

\* Registrations left once the processes S are woken by a change of net: the
\* scan of net also drops the stale ones, the others go with net_waits.
WaitersAfterWake(net, S) ==
  [m \in Nets |->
     {w \in waiters[m] :
        IF m = net THEN IsCurrent(w) /\ w.proc \notin S
                   ELSE ~(w.proc \in S /\ m \in net_waits[w.proc])}]

\* Mutant: runtime_waiters is copied to active instead of drained.
WriteNet_KeepRuntimeWaiters(net, val) ==
  /\ value' = [value EXCEPT ![net] = val]
  /\ UNCHANGED runtime_waiters
  /\ IF val = value[net]
     THEN UNCHANGED <<waiters, wait_epochs, net_waits, active>>
     ELSE \E order \in SetToSeqs(Fired(net, val)) :
            /\ active' = active \o runtime_waiters \o order
            /\ waiters' = WaitersAfterWake(net, Fired(net, val))
            /\ wait_epochs' = [p \in Procs |-> IF p \in Fired(net, val)
                                               THEN wait_epochs[p] + 1
                                               ELSE wait_epochs[p]]
            /\ net_waits' = [p \in Procs |-> IF p \in Fired(net, val)
                                             THEN {} ELSE net_waits[p]]

\* Kernel::write_net.  The order in which one write wakes several processes
\* depends on the swap_removes in a Vec; any order is allowed here.
WriteNet(net, val) ==
  /\ value' = [value EXCEPT ![net] = val]
  /\ IF val = value[net]
     THEN UNCHANGED <<waiters, wait_epochs, net_waits, active, runtime_waiters>>
     ELSE \E order \in SetToSeqs(Fired(net, val)) :
            /\ active' = active \o runtime_waiters \o order
            /\ runtime_waiters' = <<>>
            /\ waiters' = WaitersAfterWake(net, Fired(net, val))
            /\ wait_epochs' = [p \in Procs |-> IF p \in Fired(net, val)
                                               THEN wait_epochs[p] + 1
                                               ELSE wait_epochs[p]]
            /\ net_waits' = [p \in Procs |-> IF p \in Fired(net, val)
                                             THEN {} ELSE net_waits[p]]

\* Kernel::clear_net_waiters: what is left in the waiter lists.
ClearNetWaiters(pid) ==
  [n \in Nets |-> IF n \in net_waits[pid]
                  THEN {w \in waiters[n] : w.proc # pid}
                  ELSE waiters[n]]

-----------------------------------------------------------------------------
(* Outside run_until *)

\* Sim::add_process
AddProcess ==
  /\ phase = "idle"
  /\ nprocs < AddedProcs
  /\ nprocs' = nprocs + 1
  /\ active' = Append(active, nprocs + 1)
  /\ UNCHANGED <<nba_waiters, runtime_waiters, event_waiters, netVars, nbaVars,
                 timeVars, join_watches, finished, budget, loopVars, stop>>

\* Sim::run_until is called.  Callers pass limits in ascending order.
RunUntil(l) ==
  /\ phase = "idle"
  /\ l >= time
  /\ phase' = "settle"
  /\ limit' = l
  /\ UNCHANGED <<queueVars, netVars, nbaVars, timeVars, procVars, running,
                 calls, stop>>

-----------------------------------------------------------------------------
(* drain_active: resume a process, let it make calls, park it *)

Resume ==
  /\ phase = "settle"
  /\ active # <<>>
  /\ running' = Head(active)
  /\ active' = Tail(active)
  /\ phase' = "run"
  /\ calls' = 0
  /\ UNCHANGED <<nba_waiters, runtime_waiters, event_waiters, netVars, nbaVars,
                 timeVars, procVars, limit, stop>>

\* The running process makes one more call of the given kind.
Call(kind) ==
  /\ phase = "run"
  /\ kind \in Calls
  /\ calls < MaxCalls
  /\ calls' = calls + 1
  /\ UNCHANGED <<phase, running, limit>>

BlockingWrite(net, val) ==
  /\ Call("write_net")
  /\ WriteNet(net, val)
  /\ UNCHANGED <<nba_waiters, event_waiters, nbaVars, timeVars, procVars, stop>>

ScheduleNba(net, val) ==
  /\ Call("schedule_nba")
  /\ nba' = Append(nba, <<net, val>>)
  /\ UNCHANGED <<queueVars, netVars, batch, timeVars, procVars, stop>>

NotifyRuntimeChange ==
  /\ Call("notify_runtime_change")
  /\ active' = active \o runtime_waiters
  /\ runtime_waiters' = <<>>
  /\ UNCHANGED <<nba_waiters, event_waiters, netVars, nbaVars, timeVars,
                 procVars, stop>>

TriggerEvent(e) ==
  /\ Call("trigger_event")
  /\ active' = active \o event_waiters[e]
  /\ event_waiters' = [event_waiters EXCEPT ![e] = <<>>]
  /\ UNCHANGED <<nba_waiters, runtime_waiters, netVars, nbaVars, timeVars,
                 procVars, stop>>

RequestStop ==
  /\ Call("request_stop")
  /\ stop' = TRUE
  /\ UNCHANGED <<queueVars, netVars, nbaVars, timeVars, procVars>>

\* The running process returns: drain_active, and run_until with it, stops
\* here once a stop was requested.
Return ==
  /\ phase = "run"
  /\ phase' = IF stop THEN "idle" ELSE "settle"
  /\ running' = 0
  /\ UNCHANGED <<nbaVars, time, value, limit, calls, stop>>

ReturnWait(kind) ==
  /\ Return
  /\ kind \in Waits
  /\ budget[running] > 0
  /\ budget' = [budget EXCEPT ![running] = @ - 1]

\* The head of Kernel::arm: forget the old registrations, start a new epoch.
NextEpoch(pid) == wait_epochs[pid] + 1

\* Kernel::arm for the waits on something other than a net.
ArmElsewhere ==
  /\ waiters' = ClearNetWaiters(running)
  /\ net_waits' = [net_waits EXCEPT ![running] = {}]
  /\ wait_epochs' = [wait_epochs EXCEPT ![running] = NextEpoch(running)]
  /\ UNCHANGED <<nprocs, join_watches, finished>>

ArmDelay(fs) ==
  /\ ReturnWait("Delay")
  /\ ArmElsewhere
  /\ seq' = seq + 1
  /\ timed' = timed \cup {[time |-> SaturatingAdd(time, fs), seq |-> seq + 1,
                           proc |-> running]}
  /\ UNCHANGED queueVars

ArmRuntimeCond ==
  /\ ReturnWait("RuntimeCond")
  /\ ArmElsewhere
  /\ runtime_waiters' = Append(runtime_waiters, running)
  /\ UNCHANGED <<active, nba_waiters, event_waiters, timed, seq>>

ArmNba ==
  /\ ReturnWait("Nba")
  /\ ArmElsewhere
  /\ nba_waiters' = Append(nba_waiters, running)
  /\ UNCHANGED <<active, runtime_waiters, event_waiters, timed, seq>>

ArmNamedEvent(e) ==
  /\ ReturnWait("NamedEvent")
  /\ ArmElsewhere
  /\ event_waiters' = [event_waiters EXCEPT ![e] = Append(@, running)]
  /\ UNCHANGED <<active, nba_waiters, runtime_waiters, timed, seq>>

\* Kernel::arm for the waits on nets: list is a set of <<net, edge>>.
ArmNets(list) ==
  /\ waiters' = [n \in Nets |->
       ClearNetWaiters(running)[n] \cup
       {[proc |-> running, edge |-> ne[2], epoch |-> NextEpoch(running)] :
          ne \in {le \in list : le[1] = n}}]
  /\ net_waits' = [net_waits EXCEPT ![running] = {ne[1] : ne \in list}]
  /\ wait_epochs' = [wait_epochs EXCEPT ![running] = NextEpoch(running)]
  /\ UNCHANGED <<queueVars, timed, seq, nprocs, join_watches, finished>>

ArmEdge(net, edge) == ReturnWait("Edge") /\ ArmNets({<<net, edge>>})

ArmSensitivity(list) == ReturnWait("Sensitivity") /\ ArmNets(list)

ArmCond(nets) == ReturnWait("Cond") /\ ArmNets(nets \X {"AnyChange"})

\* Mutant: the last child does not satisfy a join.
Satisfied_AnyOnly(w, pid) == pid \in w.remaining /\ w.any

\* Mutant: join_any waits for all children.
Satisfied_AllOnly(w, pid) == w.remaining = {pid}

\* Kernel::notify_finished
Satisfied(w, pid) == pid \in w.remaining /\ (w.any \/ w.remaining = {pid})

NotifyFinished(pid) ==
  LET done == {w \in join_watches : Satisfied(w, pid)} IN
  /\ join_watches' = {[w EXCEPT !.remaining = @ \ {pid}] :
                        w \in join_watches \ done}
  /\ \E order \in SetToSeqs({w.parent : w \in done}) : active' = active \o order

\* Wait::Finished: arm forgets the process, then the joins are told.
Finish ==
  /\ Return
  /\ waiters' = ClearNetWaiters(running)
  /\ net_waits' = [net_waits EXCEPT ![running] = {}]
  /\ wait_epochs' = [wait_epochs EXCEPT ![running] = 0]
  /\ finished' = finished \cup {running}
  /\ NotifyFinished(running)
  /\ UNCHANGED <<nba_waiters, runtime_waiters, event_waiters, timed, seq,
                 nprocs, budget>>

\* Sim::spawn_fork.  The parent is not armed: it is queued again or watched.
Fork(width, join) ==
  LET ids == [i \in 1..width |-> nprocs + i] IN
  /\ ReturnWait("Fork")
  /\ nprocs + width <= MaxProcs
  /\ nprocs' = nprocs + width
  /\ IF join = "None" \/ width = 0
     THEN /\ active' = Append(active \o ids, running)
          /\ UNCHANGED join_watches
     ELSE /\ active' = active \o ids
          /\ join_watches' = join_watches \cup
               {[parent |-> running, any |-> join = "Any",
                 remaining |-> (nprocs + 1)..(nprocs + width)]}
  /\ UNCHANGED <<nba_waiters, runtime_waiters, event_waiters, timed, seq,
                 waiters, net_waits, wait_epochs, finished>>

-----------------------------------------------------------------------------
(* The NBA region *)

\* The head of drain_nba: take the batch.
DrainNba ==
  /\ phase = "settle"
  /\ active = <<>>
  /\ nba # <<>> \/ nba_waiters # <<>>
  /\ phase' = "nba"
  /\ batch' = nba
  /\ nba' = <<>>
  /\ UNCHANGED <<queueVars, netVars, timeVars, procVars, running, limit, calls,
                 stop>>

ApplyNba ==
  /\ phase = "nba"
  /\ batch # <<>>
  /\ WriteNet(Head(batch)[1], Head(batch)[2])
  /\ batch' = Tail(batch)
  /\ UNCHANGED <<nba_waiters, event_waiters, nba, timeVars, procVars, loopVars,
                 stop>>

\* Mutant: nba_waiters is copied to active instead of drained.
EndNba_KeepWaiters ==
  /\ phase = "nba"
  /\ batch = <<>>
  /\ active' = active \o nba_waiters
  /\ phase' = "settle"
  /\ UNCHANGED <<nba_waiters, runtime_waiters, event_waiters, netVars, nbaVars,
                 timeVars, procVars, running, limit, calls, stop>>

\* The tail of drain_nba: the processes in Wait::Nba become active.
EndNba ==
  /\ phase = "nba"
  /\ batch = <<>>
  /\ active' = active \o nba_waiters
  /\ nba_waiters' = <<>>
  /\ phase' = "settle"
  /\ UNCHANGED <<runtime_waiters, event_waiters, netVars, nbaVars, timeVars,
                 procVars, running, limit, calls, stop>>

-----------------------------------------------------------------------------
(* Advancing time *)

\* Mutant: the processes in Wait::Nba do not hold the slot open.
SlotIsEmpty_ForgetNbaWaiters == active = <<>> /\ nba = <<>>

SlotIsEmpty == active = <<>> /\ nba = <<>> /\ nba_waiters = <<>>

\* Mutant: a max-heap.
IsNext_LatestFirst(ev) ==
  \A o \in timed : ev.time > o.time \/ (ev.time = o.time /\ ev.seq >= o.seq)

\* ev is on top of the heap (all events are of Region::Active).
IsNext(ev) ==
  \A o \in timed : ev.time < o.time \/ (ev.time = o.time /\ ev.seq <= o.seq)

AdvanceTime ==
  /\ phase = "settle"
  /\ SlotIsEmpty
  /\ \E ev \in timed : IsNext(ev) /\ ev.time <= limit /\ time' = ev.time
  /\ phase' = "dispatch"
  /\ UNCHANGED <<queueVars, netVars, nbaVars, timed, seq, procVars, running,
                 limit, calls, stop>>

\* Mutant: the limit is exclusive.
ReturnAtLimit_Exclusive ==
  /\ phase = "settle"
  /\ SlotIsEmpty
  /\ \E ev \in timed : IsNext(ev) /\ ev.time >= limit
  /\ time' = limit
  /\ phase' = "idle"
  /\ UNCHANGED <<queueVars, netVars, nbaVars, timed, seq, procVars, running,
                 limit, calls, stop>>

ReturnAtLimit ==
  /\ phase = "settle"
  /\ SlotIsEmpty
  /\ \E ev \in timed : IsNext(ev) /\ ev.time > limit
  /\ time' = limit
  /\ phase' = "idle"
  /\ UNCHANGED <<queueVars, netVars, nbaVars, timed, seq, procVars, running,
                 limit, calls, stop>>

ReturnEmpty ==
  /\ phase = "settle"
  /\ SlotIsEmpty
  /\ timed = {}
  /\ phase' = "idle"
  /\ UNCHANGED <<queueVars, netVars, nbaVars, timeVars, procVars, running,
                 limit, calls, stop>>

\* Mutant: the queue holds the last event of the slot only.
Dispatch_Overwrite ==
  /\ phase = "dispatch"
  /\ \E ev \in timed :
       /\ IsNext(ev)
       /\ ev.time = time
       /\ active' = <<ev.proc>>
       /\ timed' = timed \ {ev}
  /\ UNCHANGED <<nba_waiters, runtime_waiters, event_waiters, netVars, nbaVars,
                 time, seq, procVars, loopVars, stop>>

\* dispatch_time_slot pops the events of the new time one by one.
Dispatch ==
  /\ phase = "dispatch"
  /\ \E ev \in timed :
       /\ IsNext(ev)
       /\ ev.time = time
       /\ active' = Append(active, ev.proc)
       /\ timed' = timed \ {ev}
  /\ UNCHANGED <<nba_waiters, runtime_waiters, event_waiters, netVars, nbaVars,
                 time, seq, procVars, loopVars, stop>>

EndDispatch ==
  /\ phase = "dispatch"
  /\ \A ev \in timed : ev.time # time
  /\ phase' = "settle"
  /\ UNCHANGED <<queueVars, netVars, nbaVars, timeVars, procVars, running,
                 limit, calls, stop>>

-----------------------------------------------------------------------------
ProcessCall ==
  \/ \E n \in Nets, v \in Vals : BlockingWrite(n, v) \/ ScheduleNba(n, v)
  \/ NotifyRuntimeChange
  \/ \E e \in Events : TriggerEvent(e)
  \/ RequestStop

ProcessReturn ==
  \/ \E d \in Delays : ArmDelay(d)
  \/ \E n \in Nets, k \in EdgeKind : ArmEdge(n, k)
  \/ \E l \in Sensitivities : ArmSensitivity(l)
  \/ \E ns \in (SUBSET Nets) \ {{}} : ArmCond(ns)
  \/ ArmRuntimeCond
  \/ ArmNba
  \/ \E e \in Events : ArmNamedEvent(e)
  \/ \E k \in ForkWidths, j \in ForkJoin : Fork(k, j)
  \/ Finish

KernelStep ==
  \/ Resume
  \/ DrainNba \/ ApplyNba \/ EndNba
  \/ AdvanceTime \/ ReturnAtLimit \/ ReturnEmpty \/ Dispatch \/ EndDispatch

Next ==
  \/ AddProcess
  \/ \E l \in Limits : RunUntil(l)
  \/ ProcessCall \/ ProcessReturn \/ KernelStep

Spec == Init /\ [][Next]_vars

\* run_until is a single thread of control that keeps going; a resume returns.
Fairness == WF_vars(KernelStep) /\ WF_vars(ProcessReturn)

FairSpec == Spec /\ Fairness

-----------------------------------------------------------------------------
(* Type invariant *)

TimedEvent == [time : 0..TimeMax, seq : Nat, proc : Procs]
Waiter == [proc : Procs, edge : EdgeKind, epoch : Nat]
JoinWatch == [parent : Procs, any : BOOLEAN, remaining : SUBSET Procs]

\* The values the fields of Kernel and Sim range over.
TypeOK ==
  /\ time \in 0..TimeMax /\ limit \in 0..TimeMax /\ seq \in Nat
  /\ value \in [Nets -> Vals]
  /\ waiters \in [Nets -> SUBSET Waiter]
  /\ active \in Seq(Procs)
  /\ nba_waiters \in Seq(Procs)
  /\ runtime_waiters \in Seq(Procs)
  /\ event_waiters \in [Events -> Seq(Procs)]
  /\ nba \in Seq(Nets \X Vals) /\ batch \in Seq(Nets \X Vals)
  /\ timed \subseteq TimedEvent
  /\ join_watches \subseteq JoinWatch
  /\ wait_epochs \in [Procs -> Nat]
  /\ net_waits \in [Procs -> SUBSET Nets]
  /\ nprocs \in 0..MaxProcs /\ finished \in SUBSET Procs
  /\ stop \in BOOLEAN
  /\ phase \in {"idle", "settle", "run", "nba", "dispatch"}
  /\ running \in Procs \cup {0} /\ (phase = "run" <=> running # 0)
  /\ budget \in [Procs -> 0..MaxWaits] /\ calls \in 0..MaxCalls

-----------------------------------------------------------------------------
(* Safety *)

Positions(s, p) == {i \in DOMAIN s : s[i] = p}

\* Every place from which the kernel could resume p, each with a tag.
Places(p) ==
  ({"running"} \X (IF running = p THEN {0} ELSE {})) \cup
  ({"active"} \X Positions(active, p)) \cup
  ({"nba"} \X Positions(nba_waiters, p)) \cup
  ({"runtime"} \X Positions(runtime_waiters, p)) \cup
  (UNION {{"event"} \X {e} \X Positions(event_waiters[e], p) : e \in Events}) \cup
  ({"timed"} \X {ev.seq : ev \in {t \in timed : t.proc = p}}) \cup
  ({"join"} \X {w \in join_watches : w.parent = p}) \cup
  ({"nets"} \X (IF net_waits[p] # {} THEN {0} ELSE {}))

Alive == (1..nprocs) \ finished

\* A process that has not finished is in exactly one place - it can neither be
\* lost nor be resumed twice for one wait - and a finished one is in none
\* (process.rs: resume is called once at startup and once per fired wakeup,
\* and a finished process is never resumed again).
OnePlace ==
  \A p \in Procs : Cardinality(Places(p)) = IF p \in Alive THEN 1 ELSE 0

\* Net::waiters and Kernel::net_waits agree in both directions, and no stale
\* registration outlives a step, so no list grows with dead waiters and no
\* wake-up misses the cleanup of a sibling registration.
WaiterIndex ==
  \A n \in Nets :
    /\ \A w \in waiters[n] : IsCurrent(w) /\ n \in net_waits[w.proc]
    /\ \A p \in Procs : n \in net_waits[p] => \E w \in waiters[n] : w.proc = p

\* Time never passes a scheduled wake-up, and the events of one time keep the
\* order in which they were scheduled (no two share a sequence number).
TimedInFuture ==
  /\ \A ev \in timed : time <= ev.time /\ ev.seq <= seq
  /\ \A a, b \in timed : a.seq = b.seq => a = b

\* A join waits for live children only, each child is watched once, and a
\* watch with nobody left to wait for does not exist.
JoinSound ==
  /\ \A w \in join_watches : w.remaining # {} /\ w.remaining \subseteq Alive
  /\ \A a, b \in join_watches : a.remaining \cap b.remaining # {} => a = b

-----------------------------------------------------------------------------
(* Action properties *)

\* The transition of some net in this step fires a registration of p.
EdgeSeen(p) ==
  \E n \in Nets : \E w \in waiters[n] :
    w.proc = p /\ Fires(value[n], value'[n], w.edge)

\* A process parked on nets is woken exactly when a write fires one of its
\* registrations, and then it is queued once and loses its other ones
\* (write_net wakes every matching process, and no other).
WakeExact ==
  [][\A p \in Procs : net_waits[p] # {} =>
       IF EdgeSeen(p)
       THEN /\ Cardinality(Positions(active', p)) = 1
            /\ \A n \in Nets : \A w \in waiters'[n] : w.proc # p
       ELSE net_waits'[p] = net_waits[p] /\ Positions(active', p) = {}]_vars

\* Simulation time moves forward only, and only from a slot in which nobody is
\* runnable and no non-blocking update is pending (run_until settles the slot).
SlotSettled ==
  [][time' # time =>
       /\ time' > time
       /\ active = <<>> /\ nba = <<>> /\ nba_waiters = <<>>
       /\ batch = <<>> /\ running = 0]_vars

\* A parent in join goes on exactly when its last child finishes, a parent in
\* join_any when the first does; until then the watch keeps the children
\* that have not finished (notify_finished).
JoinExact ==
  [][\A w \in join_watches :
       LET left == w.remaining \ finished' IN
       IF left = {} \/ (w.any /\ left # w.remaining)
       THEN /\ \A u \in join_watches' : u.parent # w.parent
            /\ w.parent \in Range(active')
       ELSE [w EXCEPT !.remaining = left] \in join_watches']_vars

-----------------------------------------------------------------------------
(* Refinement *)

ProcStatus ==
  [p \in Procs |-> CASE p > nprocs            -> "unborn"
                     [] p = running           -> "running"
                     [] p \in finished        -> "finished"
                     [] p \in Range(active)   -> "ready"
                     [] OTHER                 -> "parked"]

LC == INSTANCE Lifecycle WITH status <- ProcStatus

\* The kernel keeps the contract of trait Process: one resume at startup, one
\* per wake-up, never two processes inside resume, none after Finished.
ImplementsLifecycle == LC!Spec

-----------------------------------------------------------------------------
(* Liveness *)

\* A queued process runs before run_until returns, unless a stop is requested:
\* nothing that happens in the slot keeps it waiting for ever.
QueuedRuns ==
  \A p \in Procs :
    (p \in Range(active) /\ phase # "idle") ~> (running = p \/ stop)

\* A process in Wait::Delay is resumed if the run goes past its time.
DelayExpires ==
  \A p \in Procs :
    (phase # "idle" /\ \E ev \in timed : ev.proc = p /\ ev.time <= limit)
      ~> (running = p \/ stop)

\* run_until returns: with clients that make finitely many waits, the kernel
\* adds no infinite loop of its own.
RunReturns == phase # "idle" ~> phase = "idle"
=============================================================================
