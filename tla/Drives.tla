------------------------------- MODULE Drives -------------------------------
(***************************************************************************)
(* Continuous drivers and delayed nets: kernel.rs (drive_net,              *)
(* schedule_drive, schedule_drive_transitions, apply_drive,                *)
(* apply_resolved_net, dispatch_time_slot, discard_stale_timed_actions)    *)
(* and the delay selection of net.rs.                                      *)
(*                                                                         *)
(* A driver update is inertial.  It is never removed from the heap: it     *)
(* carries the generation of its driver, driver bit or net bit and is      *)
(* ignored when that generation has moved on.                              *)
(*                                                                         *)
(* The processes that evaluate the right-hand sides are one client, awake  *)
(* or not, that requests any value of any driver.  The elaborator gives a  *)
(* driver one of three forms (gen_continuous) and keeps procedural writes  *)
(* off driven nets, so this module has neither mixed forms nor such writes.*)
(***************************************************************************)
EXTENDS Naturals, FiniteSets

CONSTANTS
  Drivers,      \* continuous drivers
  DrivenNets,   \* the nets they drive
  NetOf,        \* DriverTarget::net
  Form,         \* "immediate", "single" or "transitions", per driver
  Bits,         \* bit positions of the nets
  DriveVals,    \* bit values the client requests, per driver
  DriveDelays,  \* per driver [rise, fall, off]; a single delay has all equal
  DelayedNets,  \* nets with Net::delay = Some
  NetDelays,    \* per net [rise, fall, off]
  Resolve(_),   \* the resolution function: bits of the drivers -> bit
  SleepDelays,  \* delays after which the client resumes by itself
  TimeMax,      \* u64::MAX, where saturating_add_fs stops
  MaxCalls      \* bound on the requests and sleeps of the client

Bit4 == {"0", "1", "x", "z"}
Vec == [Bits -> Bit4]
DelayTriple == [rise : Nat, fall : Nat, off : Nat]

ASSUME DriverAssumption ==
  /\ NetOf \in [Drivers -> DrivenNets]
  /\ Form \in [Drivers -> {"immediate", "single", "transitions"}]
  /\ DriveVals \in [Drivers -> SUBSET Bit4]
  /\ DelayedNets \subseteq DrivenNets

ASSUME DelayAssumption ==
  /\ DriveDelays \in [Drivers -> DelayTriple]
  /\ NetDelays \in [DrivenNets -> DelayTriple]
  /\ SleepDelays \subseteq Nat /\ TimeMax \in Nat /\ MaxCalls \in Nat

\* What the resolution functions of kernel.rs have in common.
ASSUME ResolveAssumption ==
  \A D \in SUBSET Drivers :
    /\ \A f \in [D -> Bit4] : Resolve(f) \in Bit4
    /\ Resolve([d \in D |-> "z"]) = "z"

VARIABLES
  time, timed, seq,        \* Kernel::time, timed, seq
  driver_values,           \* Net::driver_values, by driver
  driver_requests,         \* Kernel::driver_requests
  generation,              \* DriverTarget::generation
  driver_bit_generations,  \* Kernel::driver_bit_generations
  value,                   \* Net::value
  delay_request,           \* Net::delay_request
  delay_generations,       \* Net::delay_generations
  phase, awake, calls,     \* the loop of run_until and the client
  since, net_since         \* history: when each request last changed

timeVars == <<time, timed, seq>>
driverVars == <<driver_values, driver_requests, generation,
                driver_bit_generations, since>>
netVars == <<value, delay_request, delay_generations, net_since>>
loopVars == <<phase, awake, calls>>
vars == <<timeVars, driverVars, netVars, loopVars>>

-----------------------------------------------------------------------------
(* Delays *)

SmallerOf(a, b) == IF a <= b THEN a ELSE b

SaturatingAdd(t, d) == SmallerOf(t + d, TimeMax)

\* transition_delay
TransitionDelay(delays, from, to) ==
  CASE to = "1" -> delays.rise
    [] to = "0" -> delays.fall
    [] to = "z" -> delays.off
    [] to = "x" -> CASE from = "0" -> SmallerOf(delays.rise, delays.off)
                     [] from = "1" -> SmallerOf(delays.fall, delays.off)
                     [] from = "z" -> SmallerOf(delays.rise, delays.fall)
                     [] from = "x" -> 0

\* One request over a vector, as schedule_drive_transitions and
\* apply_resolved_net make it: what becomes of the generations, of the bits
\* without delay, and of the others, grouped by delay.
Rerequested(previous, requested) == {b \in Bits : previous[b] # requested[b]}

NextGenerations(gens, previous, requested) ==
  [b \in Bits |-> IF b \in Rerequested(previous, requested)
                  THEN gens[b] + 1 ELSE gens[b]]

\* Mutant: bits whose request is already pending are scheduled again.
Moving_Again(previous, current, requested) ==
  {b \in Bits : current[b] # requested[b]}

Moving(previous, current, requested) ==
  {b \in Rerequested(previous, requested) : current[b] # requested[b]}

\* Mutant: one delay for every transition.
DelayOf_AlwaysRise(delays, current, requested, b) == delays.rise

DelayOf(delays, current, requested, b) ==
  TransitionDelay(delays, current[b], requested[b])

\* Mutant: a bit without delay takes the whole request with it.
Immediate_Whole(previous, current, requested, delays) ==
  IF \E b \in Moving(previous, current, requested) :
       DelayOf(delays, current, requested, b) = 0
  THEN requested ELSE current

Immediate(previous, current, requested, delays) ==
  [b \in Bits |->
     IF /\ b \in Moving(previous, current, requested)
        /\ DelayOf(delays, current, requested, b) = 0
     THEN requested[b] ELSE current[b]]

\* The updates that take delay k.
Delayed(previous, current, requested, delays, gens, k) ==
  {[bit |-> b, value |-> requested[b],
    gen |-> NextGenerations(gens, previous, requested)[b]] :
     b \in {c \in Moving(previous, current, requested) :
              DelayOf(delays, current, requested, c) = k}}

PositiveDelays(previous, current, requested, delays) ==
  {DelayOf(delays, current, requested, b) :
     b \in Moving(previous, current, requested)} \ {0}

\* The heap entries for them.  The groups of one call share a sequence number:
\* their times differ, unless they saturate.
Events(kind, id, sq, previous, current, requested, delays, gens) ==
  {[time |-> SaturatingAdd(time, k), seq |-> sq, kind |-> kind, id |-> id,
    updates |-> Delayed(previous, current, requested, delays, gens, k)] :
     k \in PositiveDelays(previous, current, requested, delays)}

-----------------------------------------------------------------------------
Init ==
  /\ time = 0 /\ timed = {} /\ seq = 0
  /\ driver_values = [d \in Drivers |-> [b \in Bits |-> "z"]]
  /\ driver_requests = [d \in Drivers |-> [b \in Bits |-> "z"]]
  /\ generation = [d \in Drivers |-> 0]
  /\ driver_bit_generations = [d \in Drivers |-> [b \in Bits |-> 0]]
  /\ value = [n \in DrivenNets |-> [b \in Bits |-> "z"]]
  /\ delay_request = [n \in DrivenNets |-> [b \in Bits |-> "z"]]
  /\ delay_generations = [n \in DrivenNets |-> [b \in Bits |-> 0]]
  /\ phase = "settle" /\ awake = TRUE /\ calls = 0
  /\ since = [d \in Drivers |-> [b \in Bits |-> 0]]
  /\ net_since = [n \in DrivenNets |-> [b \in Bits |-> 0]]

-----------------------------------------------------------------------------
(* Applying a driver *)

DriversOf(n) == {d \in Drivers : NetOf[d] = n}

Resolved(n, values) ==
  [b \in Bits |-> Resolve([d \in DriversOf(n) |-> values[d][b]])]

\* Kernel::apply_resolved_net, with write_net (the waiters are in Scheduler).
\* events are the heap entries after this call but for its own.
ApplyResolvedNet(n, res, events) ==
  IF n \notin DelayedNets
  THEN /\ value' = [value EXCEPT ![n] = res]
       /\ timed' = events
       /\ UNCHANGED <<delay_request, delay_generations, net_since>>
  ELSE /\ delay_request' = [delay_request EXCEPT ![n] = res]
       /\ delay_generations' = [delay_generations EXCEPT ![n] =
            NextGenerations(@, delay_request[n], res)]
       /\ value' = [value EXCEPT ![n] =
            Immediate(delay_request[n], @, res, NetDelays[n])]
       /\ timed' = events \cup
            Events("NetBits", n, seq + 1, delay_request[n], value[n], res,
                   NetDelays[n], delay_generations[n])
       /\ net_since' = [net_since EXCEPT ![n] =
            [b \in Bits |-> IF b \in Rerequested(delay_request[n], res)
                            THEN time ELSE @[b]]]

\* Mutant: the net is resolved before the new driver value is stored.
ApplyDrive_ResolveFirst(d, val, events) ==
  /\ driver_values' = [driver_values EXCEPT ![d] = val]
  /\ ApplyResolvedNet(NetOf[d], Resolved(NetOf[d], driver_values), events)

\* Kernel::apply_drive
ApplyDrive(d, val, events) ==
  /\ driver_values' = [driver_values EXCEPT ![d] = val]
  /\ ApplyResolvedNet(NetOf[d], Resolved(NetOf[d], driver_values'), events)

NoDrive(events) ==
  /\ timed' = events
  /\ UNCHANGED <<driver_values, value, delay_request, delay_generations,
                 net_since>>

-----------------------------------------------------------------------------
(* Requests *)

Call(d, form) ==
  /\ phase = "settle" /\ awake
  /\ Form[d] = form
  /\ calls < MaxCalls
  /\ calls' = calls + 1
  /\ seq' = seq + 2
  /\ UNCHANGED <<time, phase, awake>>

\* The request is recorded, with the time its bits changed.
Request(d, val) ==
  /\ driver_requests' = [driver_requests EXCEPT ![d] = val]
  /\ since' = [since EXCEPT ![d] =
       [b \in Bits |-> IF b \in Rerequested(driver_requests[d], val)
                       THEN time ELSE @[b]]]

NextDriver(d) == generation' = [generation EXCEPT ![d] = @ + 1]

NextBits(d, bits) ==
  driver_bit_generations' = [driver_bit_generations EXCEPT ![d] =
    [b \in Bits |-> IF b \in bits THEN @[b] + 1 ELSE @[b]]]

\* Kernel::drive_net
DriveNet(d, val) ==
  /\ Call(d, "immediate")
  /\ Request(d, val)
  /\ NextDriver(d)
  /\ NextBits(d, Bits)
  /\ ApplyDrive(d, val, timed)

\* Kernel::schedule_drive
ScheduleDrive(d, val) ==
  LET delay == DriveDelays[d].rise IN
  /\ Call(d, "single")
  /\ IF driver_requests[d] = val
     THEN /\ NoDrive(timed)
          /\ UNCHANGED <<driver_requests, since, generation,
                         driver_bit_generations>>
     ELSE /\ Request(d, val)
          /\ NextDriver(d)
          /\ NextBits(d, Bits)
          /\ \/ driver_values[d] = val /\ NoDrive(timed)
             \/ driver_values[d] # val /\ delay = 0 /\ ApplyDrive(d, val, timed)
             \/ /\ driver_values[d] # val /\ delay > 0
                /\ NoDrive(timed \cup
                     {[time |-> SaturatingAdd(time, delay), seq |-> seq + 2,
                       kind |-> "Drive", id |-> d,
                       updates |-> {[bit |-> b, value |-> val[b],
                                     gen |-> generation[d] + 1] : b \in Bits}]})

\* Kernel::schedule_drive_transitions
ScheduleDriveTransitions(d, val) ==
  LET previous == driver_requests[d]
      current == driver_values[d]
      now == Immediate(previous, current, val, DriveDelays[d])
      events == timed \cup
        Events("DriveBits", d, seq + 2, previous, current, val,
               DriveDelays[d], driver_bit_generations[d])
  IN
  /\ Call(d, "transitions")
  /\ IF previous = val
     THEN /\ NoDrive(timed)
          /\ UNCHANGED <<driver_requests, since, generation,
                         driver_bit_generations>>
     ELSE /\ Request(d, val)
          /\ NextDriver(d)
          /\ NextBits(d, Rerequested(previous, val))
          /\ IF now # current THEN ApplyDrive(d, now, events) ELSE NoDrive(events)

-----------------------------------------------------------------------------
(* Time *)

\* The client waits: for a delay, or for the nets only.
Sleep(delay) ==
  /\ phase = "settle" /\ awake
  /\ calls < MaxCalls
  /\ calls' = calls + 1
  /\ awake' = FALSE
  /\ seq' = seq + 1
  /\ timed' = timed \cup {[time |-> SaturatingAdd(time, delay), seq |-> seq + 1,
                           kind |-> "Resume", id |-> 0, updates |-> {}]}
  /\ UNCHANGED <<time, phase, driverVars, netVars>>

WaitForNets ==
  /\ phase = "settle" /\ awake
  /\ awake' = FALSE
  /\ UNCHANGED <<timeVars, phase, calls, driverVars, netVars>>

\* The update u of the heap entry ev is not superseded.
IsLive(ev, u) ==
  CASE ev.kind = "Drive"     -> generation[ev.id] = u.gen
    [] ev.kind = "DriveBits" -> driver_bit_generations[ev.id][u.bit] = u.gen
    [] ev.kind = "NetBits"   -> delay_generations[ev.id][u.bit] = u.gen

LiveUpdates(ev) == {u \in ev.updates : IsLive(ev, u)}

\* Mutant: one superseded bit discards the whole group.
IsStale_SomeBit(ev) == ev.kind # "Resume" /\ LiveUpdates(ev) # ev.updates

IsStale(ev) == ev.kind # "Resume" /\ LiveUpdates(ev) = {}

IsNext(ev) ==
  \A o \in timed : ev.time < o.time \/ (ev.time = o.time /\ ev.seq <= o.seq)

\* discard_stale_timed_actions, one pop at a time
DiscardStale ==
  /\ phase = "settle" /\ ~awake
  /\ \E ev \in timed : IsNext(ev) /\ IsStale(ev) /\ timed' = timed \ {ev}
  /\ UNCHANGED <<time, seq, driverVars, netVars, loopVars>>

\* Mutant: stale entries are not discarded first.
AdvanceTime_AnyEvent ==
  /\ phase = "settle" /\ ~awake
  /\ \E ev \in timed : IsNext(ev) /\ time' = ev.time
  /\ phase' = "dispatch"
  /\ UNCHANGED <<timed, seq, driverVars, netVars, awake, calls>>

AdvanceTime ==
  /\ phase = "settle" /\ ~awake
  /\ \E ev \in timed : IsNext(ev) /\ ~IsStale(ev) /\ time' = ev.time
  /\ phase' = "dispatch"
  /\ UNCHANGED <<timed, seq, driverVars, netVars, awake, calls>>

Overwrite(vec, updates) ==
  [b \in Bits |-> IF \E u \in updates : u.bit = b
                  THEN (CHOOSE u \in updates : u.bit = b).value
                  ELSE vec[b]]

\* dispatch_time_slot, one pop at a time
Dispatch ==
  /\ phase = "dispatch"
  /\ \E ev \in timed :
       /\ IsNext(ev) /\ ev.time = time
       /\ \/ /\ IsStale(ev) \/ ev.kind = "Resume"
             /\ NoDrive(timed \ {ev})
          \/ /\ ~IsStale(ev) /\ ev.kind \in {"Drive", "DriveBits"}
             /\ ApplyDrive(ev.id, Overwrite(driver_values[ev.id], LiveUpdates(ev)),
                           timed \ {ev})
          \/ /\ ~IsStale(ev) /\ ev.kind = "NetBits"
             /\ value' = [value EXCEPT ![ev.id] = Overwrite(@, LiveUpdates(ev))]
             /\ timed' = timed \ {ev}
             /\ UNCHANGED <<driver_values, delay_request, delay_generations,
                            net_since>>
  /\ seq' = seq + 2
  /\ UNCHANGED <<time, driver_requests, generation, driver_bit_generations,
                 since, loopVars>>

\* The processes woken by the slot run.
EndDispatch ==
  /\ phase = "dispatch"
  /\ \A ev \in timed : ev.time # time
  /\ phase' = "settle"
  /\ awake' = TRUE
  /\ UNCHANGED <<timeVars, calls, driverVars, netVars>>

-----------------------------------------------------------------------------
Requests ==
  \E d \in Drivers : \E v \in [Bits -> DriveVals[d]] :
    DriveNet(d, v) \/ ScheduleDrive(d, v) \/ ScheduleDriveTransitions(d, v)

ClientWaits == (\E k \in SleepDelays : Sleep(k)) \/ WaitForNets

KernelStep == DiscardStale \/ AdvanceTime \/ Dispatch \/ EndDispatch

Next == Requests \/ ClientWaits \/ KernelStep

Spec == Init /\ [][Next]_vars

\* run_until keeps going, and a resume returns.
FairSpec == Spec /\ WF_vars(KernelStep) /\ WF_vars(ClientWaits)

-----------------------------------------------------------------------------
(* Safety *)

DriverEvents == {ev \in timed : ev.kind \in {"Drive", "DriveBits"}}
NetEvents == {ev \in timed : ev.kind = "NetBits"}

\* In the events E, a live update carries the requested value of its bit, ...
CarryRequest(E, request) ==
  \A ev \in E : \A u \in LiveUpdates(ev) : u.value = request[ev.id][u.bit]

\* ... it is the only one for that bit, ...
OnePerBit(E) ==
  \A ev, o \in E : \A u \in LiveUpdates(ev), v \in LiveUpdates(o) :
    ev.id = o.id /\ u.bit = v.bit => ev = o /\ u = v

\* ... and there is one for every bit that is not what was requested.
NoneMissing(E, ids, request, current) ==
  \A i \in ids, b \in Bits :
    request[i][b] # current[i][b] =>
      \E ev \in E : ev.id = i /\ \E u \in LiveUpdates(ev) : u.bit = b

\* PendingExact: no requested value is lost and no superseded one can still be
\* applied, in the drivers and in the second stage of a net with a declared
\* delay: a bit that differs from its request has a live update pending, and a
\* live update carries the request and is the only one of its bit.
PendingExact ==
  /\ CarryRequest(DriverEvents, driver_requests)
  /\ OnePerBit(DriverEvents)
  /\ NoneMissing(DriverEvents, Drivers, driver_requests, driver_values)
  /\ CarryRequest(NetEvents, delay_request)
  /\ OnePerBit(NetEvents)
  /\ NoneMissing(NetEvents, DelayedNets, delay_request, value)

\* The resolved value of the drivers is on the net, or requested from its delay
\* stage, whatever mixture of immediate and delayed drivers the net has.
NetResolved ==
  \A n \in DrivenNets :
    Resolved(n, driver_values) = IF n \in DelayedNets THEN delay_request[n] ELSE value[n]

\* Everything requested has arrived.
Quiet ==
  /\ driver_requests = driver_values
  /\ \A n \in DelayedNets : delay_request[n] = value[n]

-----------------------------------------------------------------------------
(* Action properties *)

\* InertialExact: a bit of a driver with two or three delays changes exactly when
\* its request has been stable for the delay of this transition, and then to the
\* requested value, at the request itself only if that delay is 0: short pulses are
\* rejected per bit, and requests for other bits or for the same value do not move
\* the deadline (README: "short pulses are rejected independently per bit, identical
\* requests retain their pending deadlines").  It is not so of a driver with one
\* delay, whose bits share one generation in schedule_drive.
InertialExact ==
  [][\A d \in {e \in Drivers : Form[e] = "transitions"}, b \in Bits :
       driver_values'[d][b] # driver_values[d][b] =>
         /\ driver_values'[d][b] = driver_requests'[d][b]
         /\ time = SaturatingAdd(since'[d][b],
                     TransitionDelay(DriveDelays[d], driver_values[d][b],
                                     driver_requests'[d][b]))]_vars

\* The same of a bit of a net with a declared delay.
NetInertialExact ==
  [][\A n \in DelayedNets, b \in Bits :
       value'[n][b] # value[n][b] =>
         /\ value'[n][b] = delay_request'[n][b]
         /\ time = SaturatingAdd(net_since'[n][b],
                     TransitionDelay(NetDelays[n], value[n][b],
                                     delay_request'[n][b]))]_vars

\* Time advances to a wake-up or to an update that is still wanted (README:
\* "fully canceled events do not advance simulation time").
NoPhantomSlot ==
  [][time' # time =>
       time' > time /\ \E ev \in timed : ev.time = time' /\ ~IsStale(ev)]_vars

-----------------------------------------------------------------------------
(* Liveness *)

\* Once the processes stop requesting, every net reaches its final value.
Settles == (calls = MaxCalls) ~> Quiet
=============================================================================
