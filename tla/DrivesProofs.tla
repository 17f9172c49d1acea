---------------------------- MODULE DrivesProofs ----------------------------
(***************************************************************************)
(* What the kernel guarantees for any continuous drivers, nets, delays and *)
(* resolution function: a bit that differs from its request has one live   *)
(* update pending, it changes when its request has been stable for the     *)
(* delay of the transition, a net has the resolved value of its drivers,   *)
(* and no superseded update advances time.                                 *)
(***************************************************************************)
EXTENDS Drives, TLAPS

-----------------------------------------------------------------------------
(* The inductive invariant *)

\* u is an update of bit b in ev, an entry of kind k for the driver or net i.
Hits(ev, u, k, i, b) == ev.kind = k /\ ev.id = i /\ u.bit = b

\* PendingExact of one bit, whose generation is gen, request req and value cur:
\* no update is ahead of the generation, a live one carries the request, there
\* is at most one, and there is one if the request has not arrived.
Exact(E, k, i, b, gen, req, cur) ==
  /\ \A ev \in E : \A u \in ev.updates : Hits(ev, u, k, i, b) => u.gen <= gen
  /\ \A ev \in E : \A u \in ev.updates :
       Hits(ev, u, k, i, b) /\ u.gen = gen => u.value = req
  /\ \A ev, o \in E : \A u \in ev.updates, v \in o.updates :
       /\ Hits(ev, u, k, i, b) /\ u.gen = gen
       /\ Hits(o, v, k, i, b) /\ v.gen = gen
       => ev = o /\ u = v
  /\ req # cur => \E ev \in E : \E u \in ev.updates :
                    Hits(ev, u, k, i, b) /\ u.gen = gen

\* The live update of the bit is in the slot due.
OnTime(E, k, i, b, gen, due) ==
  \A ev \in E : \A u \in ev.updates :
    Hits(ev, u, k, i, b) /\ u.gen = gen => ev.time = due

\* When a bit that has been requested since t to become req has to change.
Due(delays, t, cur, req) == SaturatingAdd(t, TransitionDelay(delays, cur, req))

\* The types of the state.
Types ==
  /\ time \in Nat /\ time <= TimeMax
  /\ driver_values \in [Drivers -> Vec] /\ driver_requests \in [Drivers -> Vec]
  /\ generation \in [Drivers -> Nat]
  /\ driver_bit_generations \in [Drivers -> [Bits -> Nat]]
  /\ value \in [DrivenNets -> Vec] /\ delay_request \in [DrivenNets -> Vec]
  /\ delay_generations \in [DrivenNets -> [Bits -> Nat]]
  /\ since \in [Drivers -> [Bits -> Nat]] /\ net_since \in [DrivenNets -> [Bits -> Nat]]

\* An entry of the heap: its kind is that of the form of its driver.
EventOK(ev) ==
  /\ ev.time \in Nat /\ ev.time <= TimeMax
  /\ \/ ev.kind = "Resume" /\ ev.updates = {}
     \/ ev.kind = "Drive" /\ ev.id \in Drivers /\ Form[ev.id] = "single"
     \/ ev.kind = "DriveBits" /\ ev.id \in Drivers /\ Form[ev.id] = "transitions"
     \/ ev.kind = "NetBits" /\ ev.id \in DelayedNets
  /\ \A u \in ev.updates : u.bit \in Bits /\ u.gen \in Nat /\ u.value \in Bit4

\* The heap holds such entries, none in the past.
HeapInv == \A ev \in timed : EventOK(ev) /\ time <= ev.time

\* The updates of a driver, by its form.
DriverOK(d) ==
  /\ Form[d] = "immediate" => driver_requests[d] = driver_values[d]
  /\ Form[d] = "single" => \A b \in Bits :
       Exact(timed, "Drive", d, b, generation[d], driver_requests[d][b], driver_values[d][b])
  /\ Form[d] = "transitions" => \A b \in Bits :
       /\ Exact(timed, "DriveBits", d, b, driver_bit_generations[d][b],
                driver_requests[d][b], driver_values[d][b])
       /\ OnTime(timed, "DriveBits", d, b, driver_bit_generations[d][b],
                 Due(DriveDelays[d], since[d][b], driver_values[d][b], driver_requests[d][b]))

\* The updates of a net with a delay.
NetOK(n) ==
  \A b \in Bits :
    /\ Exact(timed, "NetBits", n, b, delay_generations[n][b], delay_request[n][b], value[n][b])
    /\ OnTime(timed, "NetBits", n, b, delay_generations[n][b],
              Due(NetDelays[n], net_since[n][b], value[n][b], delay_request[n][b]))

\* Every driver and every net with a delay is in order.
DriverInv == \A d \in Drivers : DriverOK(d)
NetInv == \A n \in DelayedNets : NetOK(n)

DriveInv == Types /\ HeapInv /\ DriverInv /\ NetInv /\ NetResolved

-----------------------------------------------------------------------------
(* One bit *)

\* Only the entries of its own kind and driver or net matter to a bit.
LEMMA ExactSame ==
  ASSUME NEW E, NEW F, NEW k, NEW i, NEW b, NEW gen, NEW req, NEW cur, NEW due,
         \A ev : ev.kind = k /\ ev.id = i => (ev \in F <=> ev \in E),
         Exact(E, k, i, b, gen, req, cur)
  PROVE  /\ Exact(F, k, i, b, gen, req, cur)
         /\ OnTime(E, k, i, b, gen, due) => OnTime(F, k, i, b, gen, due)
<1>1. \A ev : \A u : Hits(ev, u, k, i, b) => (ev \in F <=> ev \in E)
  BY DEF Hits
<1>2. OnTime(E, k, i, b, gen, due) => OnTime(F, k, i, b, gen, due)
  BY <1>1 DEF OnTime
<1>3. /\ \A ev \in F : \A u \in ev.updates : Hits(ev, u, k, i, b) => u.gen <= gen
      /\ \A ev \in F : \A u \in ev.updates :
           Hits(ev, u, k, i, b) /\ u.gen = gen => u.value = req
  BY <1>1 DEF Exact
<1>4. ASSUME NEW ev \in F, NEW o \in F, NEW u \in ev.updates, NEW v \in o.updates,
             Hits(ev, u, k, i, b), u.gen = gen, Hits(o, v, k, i, b), v.gen = gen
      PROVE  ev = o /\ u = v
  <2>1. ev \in E /\ o \in E
    BY <1>1, <1>4
  <2>. QED BY <1>4, <2>1 DEF Exact
<1>5. ASSUME req # cur
      PROVE  \E ev \in F : \E u \in ev.updates : Hits(ev, u, k, i, b) /\ u.gen = gen
  BY <1>1, <1>5 DEF Exact
<1>. QED BY <1>2, <1>3, <1>4, <1>5 DEF Exact

\* What a request makes of one bit.
LEMMA BitRequested ==
  ASSUME NEW previous, NEW current, NEW requested, NEW delays, NEW gens, NEW b \in Bits
  PROVE  /\ NextGenerations(gens, previous, requested)[b] =
              IF previous[b] # requested[b] THEN gens[b] + 1 ELSE gens[b]
         /\ b \in Moving(previous, current, requested) <=>
              previous[b] # requested[b] /\ current[b] # requested[b]
         /\ Immediate(previous, current, requested, delays)[b] =
              IF /\ b \in Moving(previous, current, requested)
                 /\ DelayOf(delays, current, requested, b) = 0
              THEN requested[b] ELSE current[b]
BY DEF NextGenerations, Rerequested, Moving, Immediate

\* The heap entry and the update that a request makes for bit b.
NewEvent(k, i, sq, previous, current, requested, delays, gens, b) ==
  LET d == DelayOf(delays, current, requested, b) IN
  [time |-> SaturatingAdd(time, d), seq |-> sq, kind |-> k, id |-> i,
   updates |-> Delayed(previous, current, requested, delays, gens, d)]

NewUpdate(previous, requested, gens, b) ==
  [bit |-> b, value |-> requested[b], gen |-> NextGenerations(gens, previous, requested)[b]]

\* A request has an update of a bit only if the bit moves with a delay, and
\* then it is this one.
LEMMA EventsOfBit ==
  ASSUME NEW k, NEW i, NEW sq, NEW previous, NEW current, NEW requested, NEW delays,
         NEW gens, NEW b \in Bits
  PROVE  \A ev \in Events(k, i, sq, previous, current, requested, delays, gens) :
           \A u \in ev.updates : u.bit = b =>
             /\ b \in Moving(previous, current, requested)
             /\ DelayOf(delays, current, requested, b) # 0
             /\ ev = NewEvent(k, i, sq, previous, current, requested, delays, gens, b)
             /\ u = NewUpdate(previous, requested, gens, b)
<1> TAKE ev \in Events(k, i, sq, previous, current, requested, delays, gens)
<1> TAKE u \in ev.updates
<1> HAVE u.bit = b
<1>1. PICK d \in PositiveDelays(previous, current, requested, delays) :
        ev = [time |-> SaturatingAdd(time, d), seq |-> sq, kind |-> k, id |-> i,
              updates |-> Delayed(previous, current, requested, delays, gens, d)]
  BY DEF Events
<1>2. u \in Delayed(previous, current, requested, delays, gens, d)
  BY <1>1
<1>3. PICK c \in Moving(previous, current, requested) :
        /\ DelayOf(delays, current, requested, c) = d
        /\ u = [bit |-> c, value |-> requested[c],
                gen |-> NextGenerations(gens, previous, requested)[c]]
  BY <1>2 DEF Delayed
<1>4. c = b
  BY <1>3
<1>5. d # 0
  BY DEF PositiveDelays
<1>. QED BY <1>1, <1>3, <1>4, <1>5 DEF NewEvent, NewUpdate

\* A bit that moves with a delay gets its update.
LEMMA EventForBit ==
  ASSUME NEW k, NEW i, NEW sq, NEW previous, NEW current, NEW requested, NEW delays,
         NEW gens, NEW b \in Moving(previous, current, requested),
         DelayOf(delays, current, requested, b) # 0
  PROVE  LET ev == NewEvent(k, i, sq, previous, current, requested, delays, gens, b) IN
         /\ ev \in Events(k, i, sq, previous, current, requested, delays, gens)
         /\ NewUpdate(previous, requested, gens, b) \in ev.updates
<1> DEFINE d == DelayOf(delays, current, requested, b)
<1>1. d \in PositiveDelays(previous, current, requested, delays)
  BY DEF PositiveDelays
<1>2. NewUpdate(previous, requested, gens, b)
        \in Delayed(previous, current, requested, delays, gens, d)
  BY DEF Delayed, NewUpdate
<1>. QED BY <1>1, <1>2 DEF Events, NewEvent

\* schedule_drive_transitions and apply_resolved_net keep a bit exact and on time.
LEMMA ExactRequest ==
  ASSUME NEW E, NEW k, NEW i, NEW sq, NEW previous, NEW current, NEW requested, NEW delays,
         NEW gens, NEW b \in Bits, gens[b] \in Nat, NEW t,
         \A ev \in E : \A u \in ev.updates : u.gen \in Nat,
         Exact(E, k, i, b, gens[b], previous[b], current[b]),
         OnTime(E, k, i, b, gens[b], Due(delays, t, current[b], previous[b]))
  PROVE  LET F == E \cup Events(k, i, sq, previous, current, requested, delays, gens)
             gen == NextGenerations(gens, previous, requested)[b]
             now == Immediate(previous, current, requested, delays)[b]
             since1 == IF b \in Rerequested(previous, requested) THEN time ELSE t
         IN /\ Exact(F, k, i, b, gen, requested[b], now)
            /\ OnTime(F, k, i, b, gen, Due(delays, since1, now, requested[b]))
<1> DEFINE N == Events(k, i, sq, previous, current, requested, delays, gens)
           F == E \cup N
           gen == NextGenerations(gens, previous, requested)[b]
           now == Immediate(previous, current, requested, delays)[b]
           since1 == IF b \in Rerequested(previous, requested) THEN time ELSE t
           moving == b \in Moving(previous, current, requested)
           d == DelayOf(delays, current, requested, b)
           ne == NewEvent(k, i, sq, previous, current, requested, delays, gens, b)
           nu == NewUpdate(previous, requested, gens, b)
<1> SUFFICES /\ Exact(F, k, i, b, gen, requested[b], now)
             /\ OnTime(F, k, i, b, gen, Due(delays, since1, now, requested[b]))
  OBVIOUS
<1>0. b \in Rerequested(previous, requested) <=> previous[b] # requested[b]
  BY DEF Rerequested
<1>1. /\ gen = IF previous[b] # requested[b] THEN gens[b] + 1 ELSE gens[b]
      /\ moving <=> previous[b] # requested[b] /\ current[b] # requested[b]
      /\ now = IF moving /\ d = 0 THEN requested[b] ELSE current[b]
      /\ since1 = IF previous[b] # requested[b] THEN time ELSE t
  BY <1>0, BitRequested
<1>2. \A ev \in N : \A u \in ev.updates : u.bit = b => moving /\ d # 0 /\ ev = ne /\ u = nu
  <2>1. \A ev \in Events(k, i, sq, previous, current, requested, delays, gens) :
           \A u \in ev.updates : u.bit = b =>
             /\ b \in Moving(previous, current, requested)
             /\ DelayOf(delays, current, requested, b) # 0
             /\ ev = NewEvent(k, i, sq, previous, current, requested, delays, gens, b)
             /\ u = NewUpdate(previous, requested, gens, b)
    BY ONLY EventsOfBit, b \in Bits
  <2>. QED BY <2>1, Zenon
<1>3. moving /\ d # 0 => ne \in N /\ nu \in ne.updates
  BY EventForBit
<1>4. /\ ne.kind = k /\ ne.id = i /\ ne.time = SaturatingAdd(time, d)
      /\ nu.bit = b /\ nu.value = requested[b] /\ nu.gen = gen
  BY DEF NewEvent, NewUpdate
<1>5. d = TransitionDelay(delays, current[b], requested[b])
  BY DEF DelayOf
<1> HIDE DEF N, gen, now, since1, moving, d, ne, nu
<1>6. CASE previous[b] = requested[b]
  <2>1. /\ gen = gens[b] /\ now = current[b] /\ since1 = t
        /\ \A ev \in N : \A u \in ev.updates : u.bit # b
    BY <1>1, <1>2, <1>6
  <2>2. \A ev \in F : \A u \in ev.updates : Hits(ev, u, k, i, b) => ev \in E
    BY <2>1 DEF Hits
  <2>3. OnTime(F, k, i, b, gen, Due(delays, since1, now, requested[b]))
    BY <1>6, <2>1, <2>2 DEF OnTime
  <2>4. Exact(F, k, i, b, gen, requested[b], now)
    <3>1. /\ \A ev \in F : \A u \in ev.updates : Hits(ev, u, k, i, b) => u.gen <= gen
          /\ \A ev \in F : \A u \in ev.updates :
               Hits(ev, u, k, i, b) /\ u.gen = gen => u.value = requested[b]
      BY <1>6, <2>1, <2>2 DEF Exact
    <3>2. ASSUME NEW ev \in F, NEW o \in F, NEW u \in ev.updates, NEW v \in o.updates,
                 Hits(ev, u, k, i, b), u.gen = gen, Hits(o, v, k, i, b), v.gen = gen
          PROVE  ev = o /\ u = v
      <4>1. ev \in E /\ o \in E
        BY <2>2, <3>2
      <4>. QED BY <2>1, <3>2, <4>1 DEF Exact
    <3>3. ASSUME requested[b] # now
          PROVE  \E ev \in F : \E u \in ev.updates : Hits(ev, u, k, i, b) /\ u.gen = gen
      BY <1>6, <2>1, <3>3 DEF Exact
    <3>. QED BY <3>1, <3>2, <3>3 DEF Exact
  <2>. QED BY <2>3, <2>4
<1>7. CASE previous[b] # requested[b]
  <2>1. gen = gens[b] + 1 /\ since1 = time
    BY <1>1, <1>7
  <2>2. \A ev \in E : \A u \in ev.updates :
          Hits(ev, u, k, i, b) => u.gen \in Nat /\ u.gen <= gens[b]
    BY DEF Exact
  <2>3. ASSUME NEW ev \in F, NEW u \in ev.updates, Hits(ev, u, k, i, b)
        PROVE  \/ u.gen # gen /\ u.gen <= gen
               \/ moving /\ d # 0 /\ ev = ne /\ u = nu
    <3>1. CASE ev \in E
      BY <2>1, <2>2, <2>3, <3>1
    <3>2. CASE ev \in N
      BY <1>2, <2>3, <3>2 DEF Hits
    <3>. QED BY <3>1, <3>2
  <2>4. gen <= gen
    BY <2>1
  <2>5. OnTime(F, k, i, b, gen, Due(delays, since1, now, requested[b]))
    <3>1. ASSUME NEW ev \in F, NEW u \in ev.updates, Hits(ev, u, k, i, b), u.gen = gen
          PROVE  ev.time = Due(delays, since1, now, requested[b])
      <4>1. d # 0 /\ ev = ne
        BY <2>3, <3>1
      <4>2. now = current[b]
        BY <1>1, <4>1
      <4>. QED BY <1>4, <1>5, <2>1, <4>1, <4>2 DEF Due
    <3>. QED BY <3>1 DEF OnTime
  <2>6. Exact(F, k, i, b, gen, requested[b], now)
    <3>1. ASSUME NEW ev \in F, NEW u \in ev.updates, Hits(ev, u, k, i, b)
          PROVE  u.gen <= gen /\ (u.gen = gen => u.value = requested[b])
      BY <1>4, <2>3, <2>4, <3>1
    <3>2. ASSUME NEW ev \in F, NEW o \in F, NEW u \in ev.updates, NEW v \in o.updates,
                 Hits(ev, u, k, i, b), u.gen = gen, Hits(o, v, k, i, b), v.gen = gen
          PROVE  ev = o /\ u = v
      BY <2>3, <3>2
    <3>3. ASSUME requested[b] # now
          PROVE  \E ev \in F : \E u \in ev.updates : Hits(ev, u, k, i, b) /\ u.gen = gen
      <4>1. moving /\ d # 0
        BY <1>1, <1>7, <3>3
      <4>. QED BY <1>3, <1>4, <4>1 DEF Hits
    <3>. QED BY <3>1, <3>2, <3>3 DEF Exact
  <2>. QED BY <2>5, <2>6
<1>. QED BY <1>6, <1>7


\* What dispatch_time_slot makes of one bit: it gets the value of an update of
\* it, if there is one.
LEMMA BitOverwritten ==
  ASSUME NEW vec, NEW L, NEW b \in Bits
  PROVE  \/ Overwrite(vec, L)[b] = vec[b] /\ \A u \in L : u.bit # b
         \/ \E u \in L : u.bit = b /\ Overwrite(vec, L)[b] = u.value
<1>1. CASE \E u \in L : u.bit = b
  <2> DEFINE c == CHOOSE u \in L : u.bit = b
  <2>1. c \in L /\ c.bit = b
    BY <1>1
  <2>2. Overwrite(vec, L)[b] = c.value
    BY <1>1 DEF Overwrite
  <2>. QED BY <2>1, <2>2
<1>2. CASE ~\E u \in L : u.bit = b
  BY <1>2 DEF Overwrite
<1>. QED BY <1>1, <1>2

\* Taking ev from the heap and applying its live updates L keeps a bit exact
\* and on time.
LEMMA ExactDispatch ==
  ASSUME NEW E, NEW ev \in E, NEW L \in SUBSET ev.updates, NEW b \in Bits, NEW gen, NEW req,
         NEW vec, NEW delays, NEW t,
         \A u \in ev.updates : u.bit = b => (u \in L <=> u.gen = gen),
         Exact(E, ev.kind, ev.id, b, gen, req, vec[b])
  PROVE  /\ Exact(E \ {ev}, ev.kind, ev.id, b, gen, req, Overwrite(vec, L)[b])
         /\ OnTime(E, ev.kind, ev.id, b, gen, Due(delays, t, vec[b], req))
            => OnTime(E \ {ev}, ev.kind, ev.id, b, gen,
                      Due(delays, t, Overwrite(vec, L)[b], req))
<1> DEFINE k == ev.kind
           i == ev.id
           F == E \ {ev}
           new == Overwrite(vec, L)[b]
           Live(o, u) == u \in o.updates /\ Hits(o, u, k, i, b) /\ u.gen = gen
<1>1. \A u \in L : u.bit = b => Live(ev, u)
  BY DEF Hits
<1>2. \A u : Live(ev, u) => u \in L /\ u.bit = b
  BY DEF Hits
<1>3. \A u : Live(ev, u) => u.value = req
  BY DEF Exact
<1>4. \A o \in E : \A u, v : Live(ev, u) /\ Live(o, v) => o = ev
  BY DEF Exact
<1>5. \/ new = vec[b] /\ \A u \in L : u.bit # b
      \/ \E u \in L : u.bit = b /\ new = u.value
  BY BitOverwritten
<1> HIDE DEF new
<1>6. /\ \A o \in F : \A u \in o.updates : Hits(o, u, k, i, b) => u.gen <= gen
      /\ \A o \in F : \A u \in o.updates : Hits(o, u, k, i, b) /\ u.gen = gen => u.value = req
  BY DEF Exact
<1>7. ASSUME NEW o \in F, NEW o2 \in F, NEW u \in o.updates, NEW v \in o2.updates,
             Hits(o, u, k, i, b), u.gen = gen, Hits(o2, v, k, i, b), v.gen = gen
      PROVE  o = o2 /\ u = v
  BY <1>7 DEF Exact
<1>8. CASE new = vec[b] /\ \A u \in L : u.bit # b
  <2>1. \A u : ~Live(ev, u)
    BY <1>2, <1>8
  <2>2. ASSUME req # new
        PROVE  \E o \in F : \E u \in o.updates : Hits(o, u, k, i, b) /\ u.gen = gen
    <3>1. PICK o \in E : \E u \in o.updates : Hits(o, u, k, i, b) /\ u.gen = gen
      BY <1>8, <2>2 DEF Exact
    <3>2. o # ev
      BY <2>1, <3>1
    <3>. QED BY <3>1, <3>2
  <2>3. Exact(F, k, i, b, gen, req, new)
    BY <1>6, <1>7, <2>2 DEF Exact
  <2>4. OnTime(E, k, i, b, gen, Due(delays, t, vec[b], req))
        => OnTime(F, k, i, b, gen, Due(delays, t, new, req))
    BY <1>8 DEF OnTime
  <2>. QED BY <2>3, <2>4 DEF new
<1>9. ASSUME NEW w \in L, w.bit = b, new = w.value
      PROVE  /\ Exact(F, k, i, b, gen, req, new)
             /\ OnTime(F, k, i, b, gen, Due(delays, t, new, req))
  <2>1. Live(ev, w) /\ new = req
    BY <1>1, <1>3, <1>9
  <2>2. \A o \in F : \A u \in o.updates : ~(Hits(o, u, k, i, b) /\ u.gen = gen)
    BY <1>4, <2>1
  <2>. QED BY <1>6, <1>7, <2>1, <2>2 DEF Exact, OnTime
<1>. QED BY <1>5, <1>8, <1>9 DEF new

\* Discarding an entry none of whose updates is live.
LEMMA ExactDiscard ==
  ASSUME NEW E, NEW ev, NEW k, NEW i, NEW b, NEW gen, NEW req, NEW cur, NEW due,
         \A u \in ev.updates : ~(Hits(ev, u, k, i, b) /\ u.gen = gen),
         Exact(E, k, i, b, gen, req, cur)
  PROVE  /\ Exact(E \ {ev}, k, i, b, gen, req, cur)
         /\ OnTime(E, k, i, b, gen, due) => OnTime(E \ {ev}, k, i, b, gen, due)
<1>1. OnTime(E, k, i, b, gen, due) => OnTime(E \ {ev}, k, i, b, gen, due)
  BY DEF OnTime
<1>2. ASSUME req # cur
      PROVE  \E o \in E \ {ev} : \E u \in o.updates : Hits(o, u, k, i, b) /\ u.gen = gen
  <2>1. PICK o \in E : \E u \in o.updates : Hits(o, u, k, i, b) /\ u.gen = gen
    BY <1>2 DEF Exact
  <2>. QED BY <2>1
<1>3. Exact(E \ {ev}, k, i, b, gen, req, cur)
  BY <1>2 DEF Exact
<1>. QED BY <1>1, <1>3

\* The heap entry of schedule_drive.
DriveEvent(d, val, t) ==
  [time |-> t, seq |-> seq + 2, kind |-> "Drive", id |-> d,
   updates |-> {[bit |-> b, value |-> val[b], gen |-> generation[d] + 1] : b \in Bits}]

\* schedule_drive supersedes every update of the driver; N has its new entry, if
\* the value has still to change.
LEMMA ExactSchedule ==
  ASSUME NEW E, NEW d, NEW val, NEW t, NEW b \in Bits, generation[d] \in Nat, NEW req, NEW cur,
         NEW cur1, NEW N \in SUBSET {DriveEvent(d, val, t)},
         \A ev \in E : \A u \in ev.updates : u.gen \in Nat,
         Exact(E, "Drive", d, b, generation[d], req, cur),
         N = {} => cur1 = val[b]
  PROVE  Exact(E \cup N, "Drive", d, b, generation[d] + 1, val[b], cur1)
<1> DEFINE gen == generation[d] + 1
           ne == DriveEvent(d, val, t)
           nu == [bit |-> b, value |-> val[b], gen |-> gen]
           F == E \cup N
<1>1. /\ ne.kind = "Drive" /\ ne.id = d /\ nu \in ne.updates
      /\ nu.bit = b /\ nu.value = val[b] /\ nu.gen = gen
  BY DEF DriveEvent
<1>2. \A u \in ne.updates : u.bit = b => u = nu
  BY DEF DriveEvent
<1>3. gen \in Nat /\ generation[d] < gen
  OBVIOUS
<1> HIDE DEF ne, nu
<1>4. ASSUME NEW ev \in F, NEW u \in ev.updates, Hits(ev, u, "Drive", d, b)
      PROVE  (u.gen # gen /\ u.gen <= gen) \/ (ev = ne /\ u = nu)
  <2>1. CASE ev \in E
    <3>1. u.gen \in Nat /\ u.gen <= generation[d]
      BY <1>4, <2>1 DEF Exact
    <3>. QED BY <3>1
  <2>2. CASE ev \in N
    <3>1. ev = ne
      BY <2>2 DEF ne
    <3>. QED BY <1>2, <1>4, <3>1 DEF Hits
  <2>. QED BY <2>1, <2>2
<1>5. ASSUME val[b] # cur1
      PROVE  \E ev \in F : \E u \in ev.updates : Hits(ev, u, "Drive", d, b) /\ u.gen = gen
  <2>1. ne \in F
    BY <1>5 DEF ne
  <2>. QED BY <1>1, <2>1 DEF Hits
<1>6. gen <= gen
  BY <1>3
<1> HIDE DEF gen, F
<1>7. ASSUME NEW ev \in F, NEW o \in F, NEW u \in ev.updates, NEW v \in o.updates,
             Hits(ev, u, "Drive", d, b), u.gen = gen, Hits(o, v, "Drive", d, b), v.gen = gen
      PROVE  ev = o /\ u = v
  BY <1>4, <1>7
<1>8. ASSUME NEW ev \in F, NEW u \in ev.updates, Hits(ev, u, "Drive", d, b)
      PROVE  u.gen <= gen /\ (u.gen = gen => u.value = val[b])
  BY <1>1, <1>4, <1>6, <1>8
<1>9. Exact(F, "Drive", d, b, gen, val[b], cur1)
  BY <1>5, <1>7, <1>8 DEF Exact
<1>. QED BY <1>9 DEF gen, F


-----------------------------------------------------------------------------
(* Types *)

\* Times do not run past TimeMax, nor backwards.
LEMMA SaturatingTime ==
  ASSUME NEW t \in Nat, t <= TimeMax, NEW d \in Nat
  PROVE  /\ SaturatingAdd(t, d) \in Nat /\ SaturatingAdd(t, d) <= TimeMax
         /\ t <= SaturatingAdd(t, d) /\ SaturatingAdd(t, 0) = t
BY DelayAssumption DEF SaturatingAdd, SmallerOf

\* transition_delay returns one of the delays, the smaller of two, or none.
LEMMA TransitionDelayType ==
  ASSUME NEW delays \in DelayTriple, NEW from \in Bit4, NEW to \in Bit4
  PROVE  TransitionDelay(delays, from, to) \in Nat
<1>1. delays.rise \in Nat /\ delays.fall \in Nat /\ delays.off \in Nat
  BY DEF DelayTriple
<1>. QED BY <1>1 DEF TransitionDelay, SmallerOf, Bit4

\* A request leaves vectors vectors and generations numbers.
LEMMA RequestTypes ==
  ASSUME NEW previous \in Vec, NEW current \in Vec, NEW requested \in Vec, NEW delays,
         NEW gens \in [Bits -> Nat]
  PROVE  /\ Immediate(previous, current, requested, delays) \in Vec
         /\ NextGenerations(gens, previous, requested) \in [Bits -> Nat]
<1>1. NextGenerations(gens, previous, requested) \in [Bits -> Nat]
  BY DEF NextGenerations
<1>2. Immediate(previous, current, requested, delays) \in Vec
  BY DEF Immediate, Vec
<1>. QED BY <1>1, <1>2

\* The entries that a request adds to the heap are in the future.
LEMMA EventsTypes ==
  ASSUME time \in Nat, time <= TimeMax, NEW k, NEW i, NEW sq, NEW previous \in Vec,
         NEW current \in Vec, NEW requested \in Vec, NEW delays \in DelayTriple,
         NEW gens \in [Bits -> Nat],
         \/ k = "DriveBits" /\ i \in Drivers /\ Form[i] = "transitions"
         \/ k = "NetBits" /\ i \in DelayedNets
  PROVE  \A ev \in Events(k, i, sq, previous, current, requested, delays, gens) :
           EventOK(ev) /\ time <= ev.time /\ ev.kind = k /\ ev.id = i
<1> TAKE ev \in Events(k, i, sq, previous, current, requested, delays, gens)
<1>1. PICK d \in PositiveDelays(previous, current, requested, delays) :
        ev = [time |-> SaturatingAdd(time, d), seq |-> sq, kind |-> k, id |-> i,
              updates |-> Delayed(previous, current, requested, delays, gens, d)]
  BY DEF Events
<1>2. d \in Nat
  <2>1. PICK b \in Moving(previous, current, requested) :
          d = TransitionDelay(delays, current[b], requested[b])
    BY DEF PositiveDelays, DelayOf
  <2>2. current[b] \in Bit4 /\ requested[b] \in Bit4
    BY DEF Moving, Rerequested, Vec
  <2>. QED BY <2>1, <2>2, TransitionDelayType
<1>3. /\ ev.time \in Nat /\ ev.time <= TimeMax /\ time <= ev.time
      /\ ev.kind = k /\ ev.id = i
      /\ ev.updates = Delayed(previous, current, requested, delays, gens, d)
  BY <1>1, <1>2, SaturatingTime
<1>4. ASSUME NEW u \in ev.updates PROVE u.bit \in Bits /\ u.gen \in Nat /\ u.value \in Bit4
  <2>1. PICK b \in Moving(previous, current, requested) :
          u = [bit |-> b, value |-> requested[b],
               gen |-> NextGenerations(gens, previous, requested)[b]]
    BY <1>3 DEF Delayed
  <2>2. b \in Bits
    BY DEF Moving, Rerequested
  <2>3. NextGenerations(gens, previous, requested)[b] \in Nat
    BY <2>2 DEF NextGenerations
  <2>4. requested[b] \in Bit4
    BY <2>2 DEF Vec
  <2>. QED BY <2>1, <2>2, <2>3, <2>4
<1>. QED BY <1>3, <1>4 DEF EventOK

\* The resolution function yields a vector.
LEMMA ResolvedType ==
  ASSUME NEW n, NEW values \in [Drivers -> Vec]
  PROVE  Resolved(n, values) \in Vec
<1>1. ASSUME NEW b \in Bits PROVE Resolve([d \in DriversOf(n) |-> values[d][b]]) \in Bit4
  <2>1. DriversOf(n) \in SUBSET Drivers
    BY DEF DriversOf
  <2>2. [d \in DriversOf(n) |-> values[d][b]] \in [DriversOf(n) -> Bit4]
    BY <2>1 DEF Vec
  <2>. QED BY <2>1, <2>2, ResolveAssumption
<1>. QED BY <1>1 DEF Resolved, Vec

\* It reads the drivers of the net only.
LEMMA ResolvedLocal ==
  ASSUME NEW n, NEW v, NEW w, \A d \in DriversOf(n) : v[d] = w[d]
  PROVE  Resolved(n, v) = Resolved(n, w)
<1>1. ASSUME NEW b \in Bits
      PROVE  [d \in DriversOf(n) |-> v[d][b]] = [d \in DriversOf(n) |-> w[d][b]]
  OBVIOUS
<1>. QED BY <1>1 DEF Resolved

\* Applied updates are values of bits.
LEMMA OverwriteType ==
  ASSUME NEW vec \in Vec, NEW L, \A u \in L : u.value \in Bit4
  PROVE  Overwrite(vec, L) \in Vec
<1>1. ASSUME NEW b \in Bits PROVE Overwrite(vec, L)[b] \in Bit4
  BY BitOverwritten DEF Vec
<1>2. Overwrite(vec, L) = [b \in Bits |-> Overwrite(vec, L)[b]]
  BY DEF Overwrite
<1>. QED BY <1>1, <1>2 DEF Vec


-----------------------------------------------------------------------------
(* The nets *)

\* What an action does to the nets, events being the heap but for the entries
\* that apply_resolved_net adds.
NetStage(events) ==
  /\ value' \in [DrivenNets -> Vec] /\ delay_request' \in [DrivenNets -> Vec]
  /\ delay_generations' \in [DrivenNets -> [Bits -> Nat]]
  /\ net_since' \in [DrivenNets -> [Bits -> Nat]]
  /\ NetResolved' /\ NetInv'
  /\ \A ev \in events : ev \in timed'
  /\ \A ev \in timed' : ev \in events \/ (ev.kind = "NetBits" /\ EventOK(ev) /\ time <= ev.time)

\* A net that a step leaves alone.
LEMMA NetKept ==
  ASSUME NEW n, NetOK(n), value'[n] = value[n], delay_request'[n] = delay_request[n],
         delay_generations'[n] = delay_generations[n], net_since'[n] = net_since[n],
         \A ev : ev.kind = "NetBits" /\ ev.id = n => (ev \in timed' <=> ev \in timed)
  PROVE  NetOK(n)'
<1> SUFFICES ASSUME NEW b \in Bits
             PROVE  /\ Exact(timed', "NetBits", n, b, delay_generations[n][b],
                             delay_request[n][b], value[n][b])
                    /\ OnTime(timed', "NetBits", n, b, delay_generations[n][b],
                              Due(NetDelays[n], net_since[n][b], value[n][b],
                                  delay_request[n][b]))
  BY DEF NetOK
<1> DEFINE gen == delay_generations[n][b]
           req == delay_request[n][b]
           cur == value[n][b]
           due == Due(NetDelays[n], net_since[n][b], cur, req)
<1>1. Exact(timed, "NetBits", n, b, gen, req, cur) /\ OnTime(timed, "NetBits", n, b, gen, due)
  BY DEF NetOK
<1> HIDE DEF gen, req, cur, due
<1>2. Exact(timed', "NetBits", n, b, gen, req, cur) /\ OnTime(timed', "NetBits", n, b, gen, due)
  BY <1>1, ExactSame
<1>. QED BY <1>2 DEF gen, req, cur, due

\* A call that applies no driver.
LEMMA NoDriveNets ==
  ASSUME DriveInv, NEW events, NoDrive(events),
         \A ev : ev.kind = "NetBits" => (ev \in events <=> ev \in timed)
  PROVE  NetStage(events)
<1>1. UNCHANGED <<driver_values, value, delay_request, delay_generations, net_since>>
      /\ timed' = events
  BY DEF NoDrive
<1>2. NetInv'
  BY <1>1, NetKept DEF DriveInv, NetInv
<1>3. NetResolved'
  BY <1>1 DEF DriveInv, NetResolved, Resolved
<1>. QED BY <1>1, <1>2, <1>3 DEF NetStage, DriveInv, Types

\* Kernel::apply_drive
LEMMA ApplyDriveNets ==
  ASSUME DriveInv, NEW d \in Drivers, NEW val \in Vec, NEW events, ApplyDrive(d, val, events),
         \A ev : ev.kind = "NetBits" => (ev \in events <=> ev \in timed)
  PROVE  NetStage(events) /\ driver_values' \in [Drivers -> Vec]
<1> DEFINE n == NetOf[d]
           res == Resolved(n, driver_values')
<1>1. n \in DrivenNets
  BY DriverAssumption
<1>2. driver_values' = [driver_values EXCEPT ![d] = val]
  BY DEF ApplyDrive
<1>3. driver_values' \in [Drivers -> Vec]
  BY <1>2 DEF DriveInv, Types
<1>4. res \in Vec
  BY <1>3, ResolvedType
<1>5. ApplyResolvedNet(n, res, events)
  BY DEF ApplyDrive
<1>6. ASSUME NEW m \in DrivenNets, m # n
      PROVE  Resolved(m, driver_values') = Resolved(m, driver_values)
  <2>1. \A e \in DriversOf(m) : driver_values'[e] = driver_values[e]
    BY <1>2, <1>6 DEF DriversOf, DriveInv, Types
  <2>. QED BY <2>1, ResolvedLocal
<1> HIDE DEF n, res
<1>7. CASE n \notin DelayedNets
  <2>1. /\ value' = [value EXCEPT ![n] = res] /\ timed' = events
        /\ UNCHANGED <<delay_request, delay_generations, net_since>>
    BY <1>5, <1>7 DEF ApplyResolvedNet
  <2>2. ASSUME NEW m \in DelayedNets PROVE NetOK(m)'
    <3>1. m # n /\ value'[m] = value[m]
      BY <1>7, <2>1, DriverAssumption DEF DriveInv, Types
    <3>. QED BY <2>1, <3>1, NetKept DEF DriveInv, NetInv
  <2>3. ASSUME NEW m \in DrivenNets
        PROVE  Resolved(m, driver_values')
                 = IF m \in DelayedNets THEN delay_request'[m] ELSE value'[m]
    <3>1. CASE m = n
      BY <1>1, <1>7, <2>1, <3>1 DEF res, DriveInv, Types
    <3>2. CASE m # n
      <4>1. value'[m] = value[m] /\ delay_request'[m] = delay_request[m]
        BY <2>1, <3>2 DEF DriveInv, Types
      <4>. QED BY <1>6, <3>2, <4>1 DEF DriveInv, NetResolved
    <3>. QED BY <3>1, <3>2
  <2>4. NetResolved'
    BY <2>3 DEF NetResolved
  <2>5. NetInv'
    BY <2>2 DEF NetInv
  <2>6. value' \in [DrivenNets -> Vec]
    BY <1>4, <2>1 DEF DriveInv, Types
  <2>. QED BY <1>3, <2>1, <2>4, <2>5, <2>6 DEF NetStage, DriveInv, Types
<1>8. CASE n \in DelayedNets
  <2> DEFINE previous == delay_request[n]
             current == value[n]
             gens == delay_generations[n]
             N == Events("NetBits", n, seq + 1, previous, current, res, NetDelays[n], gens)
             now == Immediate(previous, current, res, NetDelays[n])
             next == NextGenerations(gens, previous, res)
             when == [b \in Bits |-> IF b \in Rerequested(previous, res)
                                     THEN time ELSE net_since[n][b]]
  <2>1. /\ delay_request' = [delay_request EXCEPT ![n] = res]
        /\ delay_generations' = [delay_generations EXCEPT ![n] = next]
        /\ value' = [value EXCEPT ![n] = now]
        /\ timed' = events \cup N
        /\ net_since' = [net_since EXCEPT ![n] = when]
    BY <1>5, <1>8 DEF ApplyResolvedNet
  <2>2. /\ previous \in Vec /\ current \in Vec /\ gens \in [Bits -> Nat]
        /\ NetDelays[n] \in DelayTriple /\ net_since[n] \in [Bits -> Nat]
        /\ time \in Nat /\ time <= TimeMax
    BY <1>1, DelayAssumption DEF DriveInv, Types
  <2>3. now \in Vec /\ next \in [Bits -> Nat]
    BY <1>4, <2>2, RequestTypes
  <2>4. when \in [Bits -> Nat]
    BY <2>2
  <2>5. \A ev \in N : EventOK(ev) /\ time <= ev.time /\ ev.kind = "NetBits" /\ ev.id = n
    BY <1>4, <1>8, <2>2, EventsTypes
  <2>6. ASSUME NEW b \in Bits
        PROVE  /\ Exact(timed \cup N, "NetBits", n, b, next[b], res[b], now[b])
               /\ OnTime(timed \cup N, "NetBits", n, b, next[b],
                         Due(NetDelays[n], when[b], now[b], res[b]))
    <3>1. \A ev \in timed : \A u \in ev.updates : u.gen \in Nat
      BY DEF DriveInv, HeapInv, EventOK
    <3>2. /\ Exact(timed, "NetBits", n, b, gens[b], previous[b], current[b])
          /\ OnTime(timed, "NetBits", n, b, gens[b],
                    Due(NetDelays[n], net_since[n][b], current[b], previous[b]))
      BY <1>8 DEF DriveInv, NetInv, NetOK
    <3>3. gens[b] \in Nat
      BY <2>2
    <3>4. when[b] = IF b \in Rerequested(previous, res) THEN time ELSE net_since[n][b]
      OBVIOUS
    <3> HIDE DEF previous, current, gens, when
    <3>. QED BY <3>1, <3>2, <3>3, <3>4, ExactRequest
  <2> HIDE DEF N, now, next, when, previous, current, gens
  <2>7. /\ value'[n] = now /\ delay_request'[n] = res /\ delay_generations'[n] = next
        /\ net_since'[n] = when
        /\ \A m \in DrivenNets : m # n =>
             /\ value'[m] = value[m] /\ delay_request'[m] = delay_request[m]
             /\ delay_generations'[m] = delay_generations[m] /\ net_since'[m] = net_since[m]
    BY <1>1, <2>1 DEF DriveInv, Types
  <2>8. NetOK(n)'
    <3> SUFFICES ASSUME NEW b \in Bits
                 PROVE  /\ Exact(timed', "NetBits", n, b, next[b], res[b], now[b])
                        /\ OnTime(timed', "NetBits", n, b, next[b],
                                  Due(NetDelays[n], when[b], now[b], res[b]))
      BY <2>7 DEF NetOK
    <3>1. \A ev : ev.kind = "NetBits" /\ ev.id = n => (ev \in timed' <=> ev \in timed \cup N)
      BY <2>1
    <3> DEFINE E == timed \cup N
               due == Due(NetDelays[n], when[b], now[b], res[b])
    <3>2. /\ Exact(E, "NetBits", n, b, next[b], res[b], now[b])
          /\ OnTime(E, "NetBits", n, b, next[b], due)
      BY <2>6
    <3> HIDE DEF E, due
    <3>3. Exact(timed', "NetBits", n, b, next[b], res[b], now[b])
          /\ OnTime(timed', "NetBits", n, b, next[b], due)
      BY <3>1, <3>2, ExactSame DEF E
    <3>. QED BY <3>3 DEF due
  <2>9. ASSUME NEW m \in DelayedNets, m # n PROVE NetOK(m)'
    <3>1. \A ev : ev.kind = "NetBits" /\ ev.id = m => (ev \in timed' <=> ev \in timed)
      BY <2>1, <2>5, <2>9
    <3>2. m \in DrivenNets
      BY DriverAssumption
    <3>. QED BY <2>7, <2>9, <3>1, <3>2, NetKept DEF DriveInv, NetInv
  <2>10. NetInv'
    BY <2>8, <2>9 DEF NetInv
  <2>11. ASSUME NEW m \in DrivenNets
         PROVE  Resolved(m, driver_values')
                  = IF m \in DelayedNets THEN delay_request'[m] ELSE value'[m]
    <3>1. CASE m = n
      BY <1>8, <2>7, <3>1 DEF res
    <3>2. CASE m # n
      BY <1>6, <2>7, <3>2 DEF DriveInv, NetResolved
    <3>. QED BY <3>1, <3>2
  <2>12. NetResolved'
    BY <2>11 DEF NetResolved
  <2>13. /\ value' \in [DrivenNets -> Vec] /\ delay_request' \in [DrivenNets -> Vec]
         /\ delay_generations' \in [DrivenNets -> [Bits -> Nat]]
         /\ net_since' \in [DrivenNets -> [Bits -> Nat]]
    BY <1>4, <2>1, <2>3, <2>4 DEF DriveInv, Types
  <2>. QED BY <1>3, <2>1, <2>5, <2>10, <2>12, <2>13 DEF NetStage
<1>. QED BY <1>7, <1>8


-----------------------------------------------------------------------------
(* The drivers *)

\* A driver that a step leaves alone.
LEMMA DriverKept ==
  ASSUME NEW d, DriverOK(d), driver_values'[d] = driver_values[d],
         driver_requests'[d] = driver_requests[d], generation'[d] = generation[d],
         driver_bit_generations'[d] = driver_bit_generations[d], since'[d] = since[d],
         \A ev : ev.kind \in {"Drive", "DriveBits"} /\ ev.id = d
                 => (ev \in timed' <=> ev \in timed)
  PROVE  DriverOK(d)'
<1>1. Form[d] = "immediate" => driver_requests'[d] = driver_values'[d]
  BY DEF DriverOK
<1>2. ASSUME Form[d] = "single", NEW b \in Bits
      PROVE  Exact(timed', "Drive", d, b, generation[d], driver_requests[d][b],
                   driver_values[d][b])
  BY <1>2, ExactSame DEF DriverOK
<1>3. ASSUME Form[d] = "transitions", NEW b \in Bits
      PROVE  /\ Exact(timed', "DriveBits", d, b, driver_bit_generations[d][b],
                      driver_requests[d][b], driver_values[d][b])
             /\ OnTime(timed', "DriveBits", d, b, driver_bit_generations[d][b],
                       Due(DriveDelays[d], since[d][b], driver_values[d][b],
                           driver_requests[d][b]))
  <2> DEFINE gen == driver_bit_generations[d][b]
             req == driver_requests[d][b]
             cur == driver_values[d][b]
             due == Due(DriveDelays[d], since[d][b], cur, req)
  <2>1. Exact(timed, "DriveBits", d, b, gen, req, cur) /\ OnTime(timed, "DriveBits", d, b, gen, due)
    BY <1>3 DEF DriverOK
  <2>2. \A ev : ev.kind = "DriveBits" /\ ev.id = d => (ev \in timed' <=> ev \in timed)
    OBVIOUS
  <2> HIDE DEF gen, req, cur, due
  <2>3. Exact(timed', "DriveBits", d, b, gen, req, cur) /\ OnTime(timed', "DriveBits", d, b, gen, due)
    BY <2>1, <2>2, ExactSame
  <2>. QED BY <2>3 DEF gen, req, cur, due
<1>. QED BY <1>1, <1>2, <1>3 DEF DriverOK

\* A new request supersedes the generations of its driver and leaves the other
\* drivers alone.
LEMMA RequestVars ==
  ASSUME Types, NEW d \in Drivers, NEW val \in Vec, NEW bits,
         Request(d, val), NextDriver(d), NextBits(d, bits)
  PROVE  /\ driver_requests' \in [Drivers -> Vec] /\ generation' \in [Drivers -> Nat]
         /\ driver_bit_generations' \in [Drivers -> [Bits -> Nat]]
         /\ since' \in [Drivers -> [Bits -> Nat]]
         /\ driver_requests'[d] = val /\ generation'[d] = generation[d] + 1
         /\ \A b \in Bits :
              /\ driver_bit_generations'[d][b] =
                   IF b \in bits THEN driver_bit_generations[d][b] + 1
                   ELSE driver_bit_generations[d][b]
              /\ since'[d][b] = IF b \in Rerequested(driver_requests[d], val)
                                THEN time ELSE since[d][b]
         /\ \A e \in Drivers : e # d =>
              /\ driver_requests'[e] = driver_requests[e] /\ generation'[e] = generation[e]
              /\ driver_bit_generations'[e] = driver_bit_generations[e] /\ since'[e] = since[e]
<1> DEFINE g == [b \in Bits |-> IF b \in bits THEN driver_bit_generations[d][b] + 1
                                ELSE driver_bit_generations[d][b]]
           s == [b \in Bits |-> IF b \in Rerequested(driver_requests[d], val)
                                THEN time ELSE since[d][b]]
<1>1. /\ driver_requests' = [driver_requests EXCEPT ![d] = val]
      /\ since' = [since EXCEPT ![d] = s]
      /\ generation' = [generation EXCEPT ![d] = @ + 1]
      /\ driver_bit_generations' = [driver_bit_generations EXCEPT ![d] = g]
  BY DEF Request, NextDriver, NextBits
<1>2. driver_bit_generations[d] \in [Bits -> Nat] /\ since[d] \in [Bits -> Nat] /\ time \in Nat
  BY DEF Types
<1>3. g \in [Bits -> Nat] /\ s \in [Bits -> Nat]
  BY <1>2
<1>4. \A b \in Bits :
        /\ g[b] = IF b \in bits THEN driver_bit_generations[d][b] + 1
                  ELSE driver_bit_generations[d][b]
        /\ s[b] = IF b \in Rerequested(driver_requests[d], val) THEN time ELSE since[d][b]
  OBVIOUS
<1> HIDE DEF g, s
<1>. QED BY <1>1, <1>3, <1>4 DEF Types

\* The heap after an action, events being as for NetStage.
LEMMA StageHeap ==
  ASSUME NEW events, NetStage(events), UNCHANGED time,
         \A ev \in events : EventOK(ev) /\ time <= ev.time
  PROVE  /\ HeapInv'
         /\ \A ev : ev.kind \in {"Drive", "DriveBits"} => (ev \in timed' <=> ev \in events)
BY DEF NetStage, HeapInv

\* An action on driver d, once its own updates are known to be in order.
LEMMA DriverStage ==
  ASSUME DriveInv, NEW d \in Drivers, NEW events, NetStage(events), UNCHANGED time,
         \A ev \in events : EventOK(ev) /\ time <= ev.time,
         \A ev : ev.kind \in {"Drive", "DriveBits"} /\ ev.id # d
                 => (ev \in events <=> ev \in timed),
         driver_values' \in [Drivers -> Vec], driver_requests' \in [Drivers -> Vec],
         generation' \in [Drivers -> Nat],
         driver_bit_generations' \in [Drivers -> [Bits -> Nat]],
         since' \in [Drivers -> [Bits -> Nat]],
         \A e \in Drivers : e # d =>
           /\ driver_values'[e] = driver_values[e]
           /\ driver_requests'[e] = driver_requests[e] /\ generation'[e] = generation[e]
           /\ driver_bit_generations'[e] = driver_bit_generations[e] /\ since'[e] = since[e],
         DriverOK(d)'
  PROVE  DriveInv'
<1>1. /\ HeapInv'
      /\ \A ev : ev.kind \in {"Drive", "DriveBits"} => (ev \in timed' <=> ev \in events)
  BY StageHeap
<1>2. ASSUME NEW e \in Drivers, e # d PROVE DriverOK(e)'
  <2>1. DriverOK(e)
    BY DEF DriveInv, DriverInv
  <2>2. \A ev : ev.kind \in {"Drive", "DriveBits"} /\ ev.id = e
                => (ev \in timed' <=> ev \in timed)
    BY <1>1, <1>2
  <2>. QED BY <1>2, <2>1, <2>2, DriverKept
<1>3. DriverInv'
  BY <1>2 DEF DriverInv
<1>4. Types'
  BY DEF Types, NetStage, DriveInv
<1>. QED BY <1>1, <1>3, <1>4 DEF DriveInv, NetStage

\* Kernel::drive_net
LEMMA DriveNetStep ==
  ASSUME DriveInv, NEW d \in Drivers, NEW val \in Vec, DriveNet(d, val)
  PROVE  DriveInv'
<1>1. /\ Form[d] = "immediate" /\ UNCHANGED time
      /\ Request(d, val) /\ NextDriver(d) /\ NextBits(d, Bits) /\ ApplyDrive(d, val, timed)
  BY DEF DriveNet, Call
<1>2. NetStage(timed) /\ driver_values' \in [Drivers -> Vec]
  BY <1>1, ApplyDriveNets
<1>3. driver_values' = [driver_values EXCEPT ![d] = val]
  BY <1>1 DEF ApplyDrive
<1>4. driver_requests'[d] = driver_values'[d]
  BY <1>1, <1>3, RequestVars DEF DriveInv, Types
<1>5. DriverOK(d)'
  BY <1>1, <1>4 DEF DriverOK
<1>6. \A ev \in timed : EventOK(ev) /\ time <= ev.time
  BY DEF DriveInv, HeapInv
<1>7. /\ driver_requests' \in [Drivers -> Vec] /\ generation' \in [Drivers -> Nat]
      /\ driver_bit_generations' \in [Drivers -> [Bits -> Nat]]
      /\ since' \in [Drivers -> [Bits -> Nat]]
      /\ \A e \in Drivers : e # d =>
           /\ driver_values'[e] = driver_values[e]
           /\ driver_requests'[e] = driver_requests[e] /\ generation'[e] = generation[e]
           /\ driver_bit_generations'[e] = driver_bit_generations[e] /\ since'[e] = since[e]
  BY <1>1, <1>3, RequestVars DEF DriveInv, Types
<1>. QED BY <1>1, <1>2, <1>5, <1>6, <1>7, DriverStage

\* A request for what is requested already changes nothing.
LEMMA SameRequest ==
  ASSUME DriveInv, NEW d \in Drivers, NoDrive(timed), UNCHANGED time,
         UNCHANGED <<driver_requests, since, generation, driver_bit_generations>>
  PROVE  DriveInv'
<1>1. NetStage(timed)
  BY NoDriveNets
<1>2. UNCHANGED <<timed, driver_values>>
  BY DEF NoDrive
<1>3. DriverOK(d)'
  BY <1>2, DriverKept DEF DriveInv, DriverInv
<1>4. \A ev \in timed : EventOK(ev) /\ time <= ev.time
  BY DEF DriveInv, HeapInv
<1>. QED BY <1>1, <1>2, <1>3, <1>4, DriverStage DEF DriveInv, Types

\* Kernel::schedule_drive
LEMMA ScheduleDriveStep ==
  ASSUME DriveInv, NEW d \in Drivers, NEW val \in Vec, ScheduleDrive(d, val)
  PROVE  DriveInv'
<1> DEFINE delay == DriveDelays[d].rise
           t == SaturatingAdd(time, delay)
<1>1. Form[d] = "single" /\ UNCHANGED time
  BY DEF ScheduleDrive, Call
<1>2. CASE driver_requests[d] = val
  BY <1>1, <1>2, SameRequest DEF ScheduleDrive
<1>3. CASE driver_requests[d] # val
  <2>1. Request(d, val) /\ NextDriver(d) /\ NextBits(d, Bits)
    BY <1>3 DEF ScheduleDrive
  <2>2. \/ driver_values[d] = val /\ NoDrive(timed)
        \/ ApplyDrive(d, val, timed)
        \/ NoDrive(timed \cup {DriveEvent(d, val, t)})
    BY <1>3 DEF ScheduleDrive, DriveEvent
  <2>3. delay \in Nat /\ generation[d] \in Nat /\ time \in Nat /\ time <= TimeMax
    BY DelayAssumption DEF DelayTriple, DriveInv, Types
  <2>4. EventOK(DriveEvent(d, val, t)) /\ time <= DriveEvent(d, val, t).time
    <3>1. t \in Nat /\ t <= TimeMax /\ time <= t
      BY <2>3, SaturatingTime
    <3> HIDE DEF t
    <3>2. \A u \in DriveEvent(d, val, t).updates : u.bit \in Bits /\ u.gen \in Nat /\ u.value \in Bit4
      BY <2>3 DEF DriveEvent, Vec
    <3>. QED BY <1>1, <3>1, <3>2 DEF EventOK, DriveEvent
  <2>5. PICK N \in SUBSET {DriveEvent(d, val, t)} :
          /\ NetStage(timed \cup N)
          /\ driver_values' \in [Drivers -> Vec]
          /\ driver_values' = driver_values \/ driver_values' = [driver_values EXCEPT ![d] = val]
          /\ N = {} => driver_values'[d] = val
    <3>1. CASE driver_values[d] = val /\ NoDrive(timed)
      <4>1. NetStage(timed \cup {}) /\ driver_values' = driver_values
        BY <3>1, NoDriveNets, timed \cup {} = timed DEF NoDrive
      <4>. QED BY <3>1, <4>1 DEF DriveInv, Types
    <3>2. CASE ApplyDrive(d, val, timed)
      <4>1. NetStage(timed \cup {}) /\ driver_values' \in [Drivers -> Vec]
        BY <3>2, ApplyDriveNets, timed \cup {} = timed
      <4>2. driver_values' = [driver_values EXCEPT ![d] = val] /\ driver_values'[d] = val
        BY <3>2 DEF ApplyDrive, DriveInv, Types
      <4>. QED BY <4>1, <4>2
    <3>3. CASE NoDrive(timed \cup {DriveEvent(d, val, t)})
      <4> DEFINE N == {DriveEvent(d, val, t)}
      <4>1. \A ev : ev.kind = "NetBits" => (ev \in timed \cup N <=> ev \in timed)
        BY DEF DriveEvent
      <4>2. NetStage(timed \cup N) /\ driver_values' = driver_values
        BY <3>3, <4>1, NoDriveNets DEF NoDrive
      <4>3. driver_values' \in [Drivers -> Vec] /\ N # {}
        BY <4>2 DEF DriveInv, Types
      <4>. QED BY <4>2, <4>3
    <3>. QED BY <2>2, <3>1, <3>2, <3>3
  <2> DEFINE events == timed \cup N
  <2>6. \A ev \in events : EventOK(ev) /\ time <= ev.time
    BY <2>4 DEF DriveInv, HeapInv
  <2>7. /\ driver_requests' \in [Drivers -> Vec] /\ generation' \in [Drivers -> Nat]
        /\ driver_bit_generations' \in [Drivers -> [Bits -> Nat]]
        /\ since' \in [Drivers -> [Bits -> Nat]]
        /\ driver_requests'[d] = val /\ generation'[d] = generation[d] + 1
        /\ \A e \in Drivers : e # d =>
             /\ driver_values'[e] = driver_values[e]
             /\ driver_requests'[e] = driver_requests[e] /\ generation'[e] = generation[e]
             /\ driver_bit_generations'[e] = driver_bit_generations[e] /\ since'[e] = since[e]
    BY <2>1, <2>5, RequestVars DEF DriveInv, Types
  <2>8. \A ev : ev.kind \in {"Drive", "DriveBits"} /\ ev.id # d
                => (ev \in events <=> ev \in timed)
    BY DEF DriveEvent
  <2>9. ASSUME NEW b \in Bits
        PROVE  Exact(timed', "Drive", d, b, generation[d] + 1, val[b], driver_values'[d][b])
    <3>1. \A ev \in timed : \A u \in ev.updates : u.gen \in Nat
      BY DEF DriveInv, HeapInv, EventOK
    <3>2. Exact(timed, "Drive", d, b, generation[d], driver_requests[d][b], driver_values[d][b])
      BY <1>1 DEF DriveInv, DriverInv, DriverOK
    <3>3. Exact(events, "Drive", d, b, generation[d] + 1, val[b], driver_values'[d][b])
      BY <2>3, <2>5, <3>1, <3>2, ExactSchedule
    <3>4. \A ev : ev.kind = "Drive" /\ ev.id = d => (ev \in timed' <=> ev \in events)
      BY <1>1, <2>5, <2>6, StageHeap
    <3> HIDE DEF events
    <3>. QED BY <3>3, <3>4, ExactSame
  <2>10. DriverOK(d)'
    BY <1>1, <2>7, <2>9 DEF DriverOK
  <2> HIDE DEF events
  <2>11. NetStage(events)
    BY <2>5 DEF events
  <2>. QED BY <1>1, <2>5, <2>6, <2>7, <2>8, <2>10, <2>11, DriverStage
<1>. QED BY <1>2, <1>3


\* Kernel::schedule_drive_transitions
LEMMA ScheduleDriveTransitionsStep ==
  ASSUME DriveInv, NEW d \in Drivers, NEW val \in Vec, ScheduleDriveTransitions(d, val)
  PROVE  DriveInv'
<1> DEFINE previous == driver_requests[d]
           current == driver_values[d]
           gens == driver_bit_generations[d]
           now == Immediate(previous, current, val, DriveDelays[d])
           next == NextGenerations(gens, previous, val)
           N == Events("DriveBits", d, seq + 2, previous, current, val, DriveDelays[d], gens)
           events == timed \cup N
<1>1. Form[d] = "transitions" /\ UNCHANGED time
  BY DEF ScheduleDriveTransitions, Call
<1>2. CASE previous = val
  BY <1>1, <1>2, SameRequest DEF ScheduleDriveTransitions
<1>3. CASE previous # val
  <2>1. /\ Request(d, val) /\ NextDriver(d) /\ NextBits(d, Rerequested(previous, val))
        /\ IF now # current THEN ApplyDrive(d, now, events) ELSE NoDrive(events)
    BY <1>3 DEF ScheduleDriveTransitions
  <2>2. /\ previous \in Vec /\ current \in Vec /\ gens \in [Bits -> Nat]
        /\ DriveDelays[d] \in DelayTriple /\ time \in Nat /\ time <= TimeMax
    BY DelayAssumption DEF DriveInv, Types
  <2>3. now \in Vec
    BY <2>2, RequestTypes
  <2>4. \A ev \in N : EventOK(ev) /\ time <= ev.time /\ ev.kind = "DriveBits" /\ ev.id = d
    BY <1>1, <2>2, EventsTypes
  <2>5. \A b \in Bits : next[b] = IF b \in Rerequested(previous, val) THEN gens[b] + 1 ELSE gens[b]
    BY DEF NextGenerations
  <2>6. ASSUME NEW b \in Bits, NEW when,
               when = IF b \in Rerequested(previous, val) THEN time ELSE since[d][b]
        PROVE  /\ Exact(events, "DriveBits", d, b, next[b], val[b], now[b])
               /\ OnTime(events, "DriveBits", d, b, next[b],
                         Due(DriveDelays[d], when, now[b], val[b]))
    <3>1. \A ev \in timed : \A u \in ev.updates : u.gen \in Nat
      BY DEF DriveInv, HeapInv, EventOK
    <3>2. /\ Exact(timed, "DriveBits", d, b, gens[b], previous[b], current[b])
          /\ OnTime(timed, "DriveBits", d, b, gens[b],
                    Due(DriveDelays[d], since[d][b], current[b], previous[b]))
      BY <1>1 DEF DriveInv, DriverInv, DriverOK
    <3>3. gens[b] \in Nat
      BY <2>2
    <3> HIDE DEF previous, current, gens
    <3>. QED BY <2>6, <3>1, <3>2, <3>3, ExactRequest
  <2> HIDE DEF previous, current, gens, now, next, N
  <2>7. \A ev \in events : EventOK(ev) /\ time <= ev.time
    BY <2>4 DEF DriveInv, HeapInv
  <2>8. /\ NetStage(events) /\ driver_values' \in [Drivers -> Vec]
        /\ driver_values' = [driver_values EXCEPT ![d] = now]
    <3>1. \A ev : ev.kind = "NetBits" => (ev \in events <=> ev \in timed)
      BY <2>4
    <3> HIDE DEF events
    <3>2. CASE now # current
      BY <2>1, <2>3, <3>1, <3>2, ApplyDriveNets DEF ApplyDrive
    <3>3. CASE now = current
      <4>1. NetStage(events) /\ driver_values' = driver_values
        BY <2>1, <3>1, <3>3, NoDriveNets DEF NoDrive
      <4>. QED BY <3>3, <4>1 DEF DriveInv, Types, current
    <3>. QED BY <3>2, <3>3
  <2>9. /\ driver_requests' \in [Drivers -> Vec] /\ generation' \in [Drivers -> Nat]
        /\ driver_bit_generations' \in [Drivers -> [Bits -> Nat]]
        /\ since' \in [Drivers -> [Bits -> Nat]]
        /\ driver_requests'[d] = val /\ driver_values'[d] = now
        /\ \A b \in Bits :
             /\ driver_bit_generations'[d][b] = next[b]
             /\ since'[d][b] = IF b \in Rerequested(previous, val) THEN time ELSE since[d][b]
        /\ \A e \in Drivers : e # d =>
             /\ driver_values'[e] = driver_values[e]
             /\ driver_requests'[e] = driver_requests[e] /\ generation'[e] = generation[e]
             /\ driver_bit_generations'[e] = driver_bit_generations[e] /\ since'[e] = since[e]
    BY <2>1, <2>5, <2>8, RequestVars DEF DriveInv, Types, previous, gens
  <2>10. \A ev : ev.kind \in {"Drive", "DriveBits"} /\ ev.id # d
                 => (ev \in events <=> ev \in timed)
    BY <2>4
  <2>11. ASSUME NEW b \in Bits
         PROVE  /\ Exact(timed', "DriveBits", d, b, next[b], val[b], now[b])
                /\ OnTime(timed', "DriveBits", d, b, next[b],
                          Due(DriveDelays[d], since'[d][b], now[b], val[b]))
    <3> DEFINE due == Due(DriveDelays[d], since'[d][b], now[b], val[b])
    <3>1. Exact(events, "DriveBits", d, b, next[b], val[b], now[b])
          /\ OnTime(events, "DriveBits", d, b, next[b], due)
      BY <2>6, <2>9
    <3>2. \A ev : ev.kind = "DriveBits" /\ ev.id = d => (ev \in timed' <=> ev \in events)
      BY <1>1, <2>7, <2>8, StageHeap
    <3> HIDE DEF events, due
    <3>3. Exact(timed', "DriveBits", d, b, next[b], val[b], now[b])
          /\ OnTime(timed', "DriveBits", d, b, next[b], due)
      BY <3>1, <3>2, ExactSame
    <3>. QED BY <3>3 DEF due
  <2>12. DriverOK(d)'
    BY <1>1, <2>9, <2>11 DEF DriverOK
  <2> HIDE DEF events
  <2>. QED BY <1>1, <2>7, <2>8, <2>9, <2>10, <2>12, DriverStage
<1>. QED BY <1>2, <1>3

-----------------------------------------------------------------------------
(* Time *)

\* Taking an entry from the heap that has no live update.
LEMMA Discarded ==
  ASSUME DriveInv, NEW ev \in timed, IsStale(ev) \/ ev.kind = "Resume",
         timed' = timed \ {ev}, UNCHANGED <<time, driverVars, netVars>>
  PROVE  DriveInv'
<1> USE DEF driverVars, netVars
<1>1. \A u \in ev.updates : ~IsLive(ev, u)
  BY DEF IsStale, LiveUpdates, DriveInv, HeapInv, EventOK
<1>2. ASSUME NEW d \in Drivers PROVE DriverOK(d)'
  <2>1. DriverOK(d)
    BY DEF DriveInv, DriverInv
  <2>2. ASSUME Form[d] = "single", NEW b \in Bits
        PROVE  Exact(timed', "Drive", d, b, generation[d], driver_requests[d][b],
                     driver_values[d][b])
    <3>1. \A u \in ev.updates : ~(Hits(ev, u, "Drive", d, b) /\ u.gen = generation[d])
      BY <1>1 DEF Hits, IsLive
    <3>. QED BY <2>1, <2>2, <3>1, ExactDiscard DEF DriverOK
  <2>3. ASSUME Form[d] = "transitions", NEW b \in Bits
        PROVE  /\ Exact(timed', "DriveBits", d, b, driver_bit_generations[d][b],
                        driver_requests[d][b], driver_values[d][b])
               /\ OnTime(timed', "DriveBits", d, b, driver_bit_generations[d][b],
                         Due(DriveDelays[d], since[d][b], driver_values[d][b],
                             driver_requests[d][b]))
    <3> DEFINE gen == driver_bit_generations[d][b]
               req == driver_requests[d][b]
               cur == driver_values[d][b]
               due == Due(DriveDelays[d], since[d][b], cur, req)
    <3>1. Exact(timed, "DriveBits", d, b, gen, req, cur) /\ OnTime(timed, "DriveBits", d, b, gen, due)
      BY <2>1, <2>3 DEF DriverOK
    <3>2. \A u \in ev.updates : ~(Hits(ev, u, "DriveBits", d, b) /\ u.gen = gen)
      BY <1>1 DEF Hits, IsLive
    <3> HIDE DEF gen, req, cur, due
    <3>3. Exact(timed', "DriveBits", d, b, gen, req, cur) /\ OnTime(timed', "DriveBits", d, b, gen, due)
      BY <3>1, <3>2, ExactDiscard
    <3>. QED BY <3>3 DEF gen, req, cur, due
  <2>. QED BY <2>1, <2>2, <2>3 DEF DriverOK
<1>3. ASSUME NEW n \in DelayedNets PROVE NetOK(n)'
  <2> SUFFICES ASSUME NEW b \in Bits
               PROVE  /\ Exact(timed', "NetBits", n, b, delay_generations[n][b],
                               delay_request[n][b], value[n][b])
                      /\ OnTime(timed', "NetBits", n, b, delay_generations[n][b],
                                Due(NetDelays[n], net_since[n][b], value[n][b],
                                    delay_request[n][b]))
    BY DEF NetOK
  <2> DEFINE gen == delay_generations[n][b]
             req == delay_request[n][b]
             cur == value[n][b]
             due == Due(NetDelays[n], net_since[n][b], cur, req)
  <2>1. Exact(timed, "NetBits", n, b, gen, req, cur) /\ OnTime(timed, "NetBits", n, b, gen, due)
    BY DEF DriveInv, NetInv, NetOK
  <2>2. \A u \in ev.updates : ~(Hits(ev, u, "NetBits", n, b) /\ u.gen = gen)
    BY <1>1 DEF Hits, IsLive
  <2> HIDE DEF gen, req, cur, due
  <2>3. Exact(timed', "NetBits", n, b, gen, req, cur) /\ OnTime(timed', "NetBits", n, b, gen, due)
    BY <2>1, <2>2, ExactDiscard
  <2>. QED BY <2>3 DEF gen, req, cur, due
<1>4. DriverInv' /\ NetInv'
  BY <1>2, <1>3 DEF DriverInv, NetInv
<1>5. HeapInv'
  BY DEF DriveInv, HeapInv
<1>6. Types'
  BY DEF DriveInv, Types
<1>7. NetResolved'
  BY DEF DriveInv, NetResolved, Resolved
<1>. QED BY <1>4, <1>5, <1>6, <1>7 DEF DriveInv

\* A step that leaves drivers and nets alone, and adds to the heap at most a
\* wake-up of the client.
LEMMA Idle ==
  ASSUME DriveInv, UNCHANGED <<time, driverVars, netVars>>,
         \A ev \in timed : ev \in timed',
         \A ev \in timed' : ev \in timed \/ (ev.kind = "Resume" /\ EventOK(ev) /\ time <= ev.time)
  PROVE  DriveInv'
<1> USE DEF driverVars, netVars
<1>1. \A ev : ev.kind # "Resume" => (ev \in timed' <=> ev \in timed)
  OBVIOUS
<1>2. ASSUME NEW d \in Drivers PROVE DriverOK(d)'
  BY <1>1, DriverKept DEF DriveInv, DriverInv
<1>3. ASSUME NEW n \in DelayedNets PROVE NetOK(n)'
  BY <1>1, NetKept DEF DriveInv, NetInv
<1>4. DriverInv' /\ NetInv'
  BY <1>2, <1>3 DEF DriverInv, NetInv
<1>5. HeapInv'
  BY DEF DriveInv, HeapInv
<1>6. Types'
  BY DEF DriveInv, Types
<1>7. NetResolved'
  BY DEF DriveInv, NetResolved, Resolved
<1>. QED BY <1>4, <1>5, <1>6, <1>7 DEF DriveInv

\* The client's delay.
LEMMA SleepStep ==
  ASSUME DriveInv, NEW k \in SleepDelays, Sleep(k)
  PROVE  DriveInv'
<1> DEFINE ev == [time |-> SaturatingAdd(time, k), seq |-> seq + 1,
                  kind |-> "Resume", id |-> 0, updates |-> {}]
<1>1. timed' = timed \cup {ev} /\ UNCHANGED <<time, driverVars, netVars>>
  BY DEF Sleep
<1>2. SaturatingAdd(time, k) \in Nat /\ SaturatingAdd(time, k) <= TimeMax
      /\ time <= SaturatingAdd(time, k)
  BY SaturatingTime, DelayAssumption DEF DriveInv, Types
<1>3. ev.kind = "Resume" /\ EventOK(ev) /\ time <= ev.time
  BY <1>2 DEF EventOK
<1> HIDE DEF ev
<1>. QED BY <1>1, <1>3, Idle

\* Time advances to the next entry: no entry is left behind.
LEMMA AdvanceTimeStep ==
  ASSUME DriveInv, AdvanceTime
  PROVE  DriveInv' /\ time <= time'
<1> USE DEF driverVars, netVars
<1>1. PICK ev \in timed : IsNext(ev) /\ ~IsStale(ev) /\ time' = ev.time
  BY DEF AdvanceTime
<1>2. UNCHANGED <<timed, driverVars, netVars>>
  BY DEF AdvanceTime
<1>3. \A o \in timed : EventOK(o) /\ time <= o.time /\ o.time \in Nat /\ ev.time <= o.time
  BY <1>1 DEF IsNext, DriveInv, HeapInv, EventOK
<1>4. Types'
  BY <1>1, <1>2, <1>3 DEF DriveInv, Types, HeapInv, EventOK
<1>5. HeapInv'
  BY <1>1, <1>2, <1>3 DEF HeapInv
<1>6. ASSUME NEW d \in Drivers PROVE DriverOK(d)'
  BY <1>2, DriverKept DEF DriveInv, DriverInv
<1>7. ASSUME NEW n \in DelayedNets PROVE NetOK(n)'
  BY <1>2, NetKept DEF DriveInv, NetInv
<1>8. NetResolved'
  BY <1>2 DEF DriveInv, NetResolved, Resolved
<1>. QED BY <1>1, <1>3, <1>4, <1>5, <1>6, <1>7, <1>8 DEF DriveInv, DriverInv, NetInv


\* dispatch_time_slot applies an entry of a driver.
LEMMA DispatchDriver ==
  ASSUME DriveInv, NEW ev \in timed, ev.kind \in {"Drive", "DriveBits"},
         ApplyDrive(ev.id, Overwrite(driver_values[ev.id], LiveUpdates(ev)), timed \ {ev}),
         UNCHANGED <<time, driver_requests, generation, driver_bit_generations, since>>
  PROVE  DriveInv'
<1> DEFINE d == ev.id
           L == LiveUpdates(ev)
           new == Overwrite(driver_values[d], L)
           events == timed \ {ev}
<1>1. EventOK(ev) /\ d \in Drivers
  BY DEF DriveInv, HeapInv, EventOK
<1>2. L \in SUBSET ev.updates
  BY DEF LiveUpdates
<1>3. new \in Vec
  <2>1. driver_values[d] \in Vec
    BY <1>1 DEF DriveInv, Types
  <2>. QED BY <1>1, <1>2, <2>1, OverwriteType DEF EventOK
<1>4. NetStage(events) /\ driver_values' \in [Drivers -> Vec]
  <2>1. \A o : o.kind = "NetBits" => (o \in events <=> o \in timed)
    OBVIOUS
  <2>2. ApplyDrive(d, new, events)
    OBVIOUS
  <2> HIDE DEF d, new, events
  <2>. QED BY <1>1, <1>3, <2>1, <2>2, ApplyDriveNets
<1>5. driver_values' = [driver_values EXCEPT ![d] = new]
  BY DEF ApplyDrive
<1>6. \A o \in events : EventOK(o) /\ time <= o.time
  BY DEF DriveInv, HeapInv
<1>7. \A o : o.kind \in {"Drive", "DriveBits"} => (o \in timed' <=> o \in events)
  BY <1>4, <1>6, StageHeap
<1>8. driver_values'[d] = new
  BY <1>1, <1>5 DEF DriveInv, Types
<1>9. DriverOK(d)
  BY <1>1 DEF DriveInv, DriverInv
<1>10. CASE ev.kind = "Drive"
  <2>1. Form[d] = "single"
    BY <1>1, <1>10 DEF EventOK
  <2>2. ASSUME NEW b \in Bits
        PROVE  Exact(timed', "Drive", d, b, generation[d], driver_requests[d][b], new[b])
    <3>1. \A u \in ev.updates : u.bit = b => (u \in L <=> u.gen = generation[d])
      BY <1>10 DEF LiveUpdates, IsLive
    <3>2. Exact(timed, ev.kind, d, b, generation[d], driver_requests[d][b], driver_values[d][b])
      BY <1>9, <1>10, <2>1 DEF DriverOK
    <3> HIDE DEF L
    <3>3. Exact(timed \ {ev}, ev.kind, d, b, generation[d], driver_requests[d][b], new[b])
      BY <1>2, <3>1, <3>2, ExactDispatch
    <3>. QED BY <1>7, <1>10, <3>3, ExactSame
  <2>. QED BY <1>8, <2>1, <2>2, DriverStage, <1>1, <1>4, <1>5, <1>6 DEF DriverOK, DriveInv, Types
<1>11. CASE ev.kind = "DriveBits"
  <2>1. Form[d] = "transitions"
    BY <1>1, <1>11 DEF EventOK
  <2>2. ASSUME NEW b \in Bits
        PROVE  /\ Exact(timed', "DriveBits", d, b, driver_bit_generations[d][b],
                        driver_requests[d][b], new[b])
               /\ OnTime(timed', "DriveBits", d, b, driver_bit_generations[d][b],
                         Due(DriveDelays[d], since[d][b], new[b], driver_requests[d][b]))
    <3> DEFINE gen == driver_bit_generations[d][b]
               req == driver_requests[d][b]
               due == Due(DriveDelays[d], since[d][b], new[b], req)
    <3>1. \A u \in ev.updates : u.bit = b => (u \in L <=> u.gen = gen)
      BY <1>11 DEF LiveUpdates, IsLive
    <3>2. /\ Exact(timed, ev.kind, d, b, gen, req, driver_values[d][b])
          /\ OnTime(timed, ev.kind, d, b, gen,
                    Due(DriveDelays[d], since[d][b], driver_values[d][b], req))
      BY <1>9, <1>11, <2>1 DEF DriverOK
    <3> HIDE DEF L, gen, req
    <3>3. Exact(timed \ {ev}, ev.kind, d, b, gen, req, new[b])
          /\ OnTime(timed \ {ev}, ev.kind, d, b, gen, due)
      BY <1>2, <3>1, <3>2, ExactDispatch
    <3>4. \A o : o.kind = "DriveBits" /\ o.id = d => (o \in timed' <=> o \in events)
      BY <1>7
    <3>5. Exact(events, "DriveBits", d, b, gen, req, new[b])
          /\ OnTime(events, "DriveBits", d, b, gen, due)
      BY <1>11, <3>3
    <3> HIDE DEF due, new, d, events
    <3>6. Exact(timed', "DriveBits", d, b, gen, req, new[b])
          /\ OnTime(timed', "DriveBits", d, b, gen, due)
      BY <3>4, <3>5, ExactSame
    <3>. QED BY <3>6 DEF gen, req, due
  <2>. QED BY <1>8, <2>1, <2>2, DriverStage, <1>1, <1>4, <1>5, <1>6 DEF DriverOK, DriveInv, Types
<1>. QED BY <1>10, <1>11

\* dispatch_time_slot applies an entry of a net with a delay.
LEMMA DispatchNet ==
  ASSUME DriveInv, NEW ev \in timed, ev.kind = "NetBits", timed' = timed \ {ev},
         value' = [value EXCEPT ![ev.id] = Overwrite(@, LiveUpdates(ev))],
         UNCHANGED <<time, driverVars, delay_request, delay_generations, net_since>>
  PROVE  DriveInv'
<1> USE DEF driverVars
<1> DEFINE n == ev.id
           L == LiveUpdates(ev)
           new == Overwrite(value[n], L)
<1>1. EventOK(ev) /\ n \in DelayedNets /\ n \in DrivenNets
  BY DriverAssumption DEF DriveInv, HeapInv, EventOK
<1>2. L \in SUBSET ev.updates
  BY DEF LiveUpdates
<1>3. new \in Vec
  <2>1. value[n] \in Vec
    BY <1>1 DEF DriveInv, Types
  <2>. QED BY <1>1, <1>2, <2>1, OverwriteType DEF EventOK
<1>4. value' \in [DrivenNets -> Vec] /\ value'[n] = new
      /\ \A m \in DrivenNets : m # n => value'[m] = value[m]
  BY <1>1, <1>3 DEF DriveInv, Types
<1>5. NetOK(n)'
  <2> SUFFICES ASSUME NEW b \in Bits
               PROVE  /\ Exact(timed', "NetBits", n, b, delay_generations[n][b],
                               delay_request[n][b], new[b])
                      /\ OnTime(timed', "NetBits", n, b, delay_generations[n][b],
                                Due(NetDelays[n], net_since[n][b], new[b],
                                    delay_request[n][b]))
    BY <1>4 DEF NetOK
  <2> DEFINE gen == delay_generations[n][b]
             req == delay_request[n][b]
             due == Due(NetDelays[n], net_since[n][b], new[b], req)
  <2>1. \A u \in ev.updates : u.bit = b => (u \in L <=> u.gen = gen)
    BY DEF LiveUpdates, IsLive
  <2>2. /\ Exact(timed, ev.kind, n, b, gen, req, value[n][b])
        /\ OnTime(timed, ev.kind, n, b, gen, Due(NetDelays[n], net_since[n][b], value[n][b], req))
    BY <1>1 DEF DriveInv, NetInv, NetOK
  <2> HIDE DEF L, gen, req
  <2>3. Exact(timed \ {ev}, ev.kind, n, b, gen, req, new[b])
        /\ OnTime(timed \ {ev}, ev.kind, n, b, gen, due)
    BY <1>2, <2>1, <2>2, ExactDispatch
  <2>. QED BY <2>3 DEF gen, req
<1>6. ASSUME NEW m \in DelayedNets, m # n PROVE NetOK(m)'
  <2>1. m \in DrivenNets /\ NetOK(m)
    BY DriverAssumption DEF DriveInv, NetInv
  <2>2. \A o : o.kind = "NetBits" /\ o.id = m => (o \in timed' <=> o \in timed)
    BY <1>6
  <2>. QED BY <1>4, <1>6, <2>1, <2>2, NetKept
<1>7. ASSUME NEW d \in Drivers PROVE DriverOK(d)'
  <2>1. \A o : o.kind \in {"Drive", "DriveBits"} /\ o.id = d => (o \in timed' <=> o \in timed)
    OBVIOUS
  <2>. QED BY <2>1, DriverKept DEF DriveInv, DriverInv
<1>8. NetResolved'
  BY <1>1, <1>4 DEF DriveInv, NetResolved, Resolved
<1>9. HeapInv'
  BY DEF DriveInv, HeapInv
<1>10. Types'
  BY <1>4 DEF DriveInv, Types
<1>. QED BY <1>5, <1>6, <1>7, <1>8, <1>9, <1>10 DEF DriveInv, DriverInv, NetInv

\* The cases of dispatch_time_slot.
LEMMA DispatchCases ==
  ASSUME Dispatch
  PROVE  \E ev \in timed :
           /\ IsNext(ev) /\ ev.time = time
           /\ UNCHANGED <<time, driver_requests, generation, driver_bit_generations, since>>
           /\ \/ (IsStale(ev) \/ ev.kind = "Resume") /\ NoDrive(timed \ {ev})
              \/ /\ ev.kind \in {"Drive", "DriveBits"}
                 /\ ApplyDrive(ev.id, Overwrite(driver_values[ev.id], LiveUpdates(ev)),
                               timed \ {ev})
              \/ /\ ev.kind = "NetBits" /\ timed' = timed \ {ev}
                 /\ value' = [value EXCEPT ![ev.id] = Overwrite(@, LiveUpdates(ev))]
                 /\ UNCHANGED <<driver_values, delay_request, delay_generations, net_since>>
BY DEF Dispatch

\* Every pop of the heap keeps the invariant.
LEMMA DispatchStep ==
  ASSUME DriveInv, Dispatch
  PROVE  DriveInv'
<1>1. PICK ev \in timed :
           /\ UNCHANGED <<time, driver_requests, generation, driver_bit_generations, since>>
           /\ \/ (IsStale(ev) \/ ev.kind = "Resume") /\ NoDrive(timed \ {ev})
              \/ /\ ev.kind \in {"Drive", "DriveBits"}
                 /\ ApplyDrive(ev.id, Overwrite(driver_values[ev.id], LiveUpdates(ev)),
                               timed \ {ev})
              \/ /\ ev.kind = "NetBits" /\ timed' = timed \ {ev}
                 /\ value' = [value EXCEPT ![ev.id] = Overwrite(@, LiveUpdates(ev))]
                 /\ UNCHANGED <<driver_values, delay_request, delay_generations, net_since>>
  BY DispatchCases
<1>2. CASE (IsStale(ev) \/ ev.kind = "Resume") /\ NoDrive(timed \ {ev})
  BY <1>1, <1>2, Discarded DEF NoDrive, driverVars, netVars
<1>3. CASE /\ ev.kind \in {"Drive", "DriveBits"}
           /\ ApplyDrive(ev.id, Overwrite(driver_values[ev.id], LiveUpdates(ev)), timed \ {ev})
  BY <1>1, <1>3, DispatchDriver
<1>4. CASE /\ ev.kind = "NetBits" /\ timed' = timed \ {ev}
           /\ value' = [value EXCEPT ![ev.id] = Overwrite(@, LiveUpdates(ev))]
           /\ UNCHANGED <<driver_values, delay_request, delay_generations, net_since>>
  BY <1>1, <1>4, DispatchNet DEF driverVars
<1>. QED BY <1>1, <1>2, <1>3, <1>4

-----------------------------------------------------------------------------
(* The invariant *)

\* Requested values are vectors.
LEMMA RequestedVec ==
  ASSUME NEW d \in Drivers, NEW v \in [Bits -> DriveVals[d]]
  PROVE  v \in Vec
BY DriverAssumption DEF Vec

\* Nothing is driven or requested at time 0.
LEMMA DriveInit == Init => DriveInv
<1> SUFFICES ASSUME Init PROVE DriveInv
  OBVIOUS
<1>1. Types
  BY DelayAssumption DEF Init, Types, Vec, Bit4
<1>2. HeapInv
  BY DEF Init, HeapInv
<1>3. DriverInv
  BY DEF Init, DriverInv, DriverOK, Exact, OnTime
<1>4. NetInv
  BY DriverAssumption DEF Init, NetInv, NetOK, Exact, OnTime
<1>5. ASSUME NEW n \in DrivenNets PROVE Resolved(n, driver_values) = [b \in Bits |-> "z"]
  <2>1. DriversOf(n) \in SUBSET Drivers
    BY DEF DriversOf
  <2>2. ASSUME NEW b \in Bits
        PROVE  [d \in DriversOf(n) |-> driver_values[d][b]] = [d \in DriversOf(n) |-> "z"]
    BY <2>1 DEF Init
  <2>3. Resolve([d \in DriversOf(n) |-> "z"]) = "z"
    BY <2>1, ResolveAssumption
  <2>. QED BY <2>2, <2>3 DEF Resolved
<1>6. NetResolved
  BY <1>5 DEF Init, NetResolved
<1>. QED BY <1>1, <1>2, <1>3, <1>4, <1>6 DEF DriveInv

\* DriveInv is inductive.
LEMMA DriveStep == DriveInv /\ [Next]_vars => DriveInv'
<1> SUFFICES ASSUME DriveInv, [Next]_vars PROVE DriveInv'
  OBVIOUS
<1>1. ASSUME NEW d \in Drivers, NEW v \in [Bits -> DriveVals[d]], DriveNet(d, v)
      PROVE  DriveInv'
  BY <1>1, RequestedVec, DriveNetStep
<1>2. ASSUME NEW d \in Drivers, NEW v \in [Bits -> DriveVals[d]], ScheduleDrive(d, v)
      PROVE  DriveInv'
  BY <1>2, RequestedVec, ScheduleDriveStep
<1>3. ASSUME NEW d \in Drivers, NEW v \in [Bits -> DriveVals[d]], ScheduleDriveTransitions(d, v)
      PROVE  DriveInv'
  BY <1>3, RequestedVec, ScheduleDriveTransitionsStep
<1>4. ASSUME NEW k \in SleepDelays, Sleep(k) PROVE DriveInv'
  BY <1>4, SleepStep
<1>5. CASE WaitForNets
  BY <1>5, Idle DEF WaitForNets, timeVars
<1>6. CASE DiscardStale
  BY <1>6, Discarded DEF DiscardStale
<1>7. CASE AdvanceTime
  BY <1>7, AdvanceTimeStep
<1>8. CASE Dispatch
  BY <1>8, DispatchStep
<1>9. CASE EndDispatch
  BY <1>9, Idle DEF EndDispatch, timeVars
<1>10. CASE UNCHANGED vars
  BY <1>10, Idle DEF vars, timeVars
<1>. QED
  BY <1>1, <1>2, <1>3, <1>4, <1>5, <1>6, <1>7, <1>8, <1>9, <1>10
     DEF Next, Requests, ClientWaits, KernelStep

\* For any drivers, nets and delays, the invariant holds.
LEMMA DriveInvariant == Spec => []DriveInv
BY DriveInit, DriveStep, PTL DEF Spec

\* Whatever mixture of immediate and delayed drivers a net has, and whatever
\* the resolution function, the net has the resolved value of its drivers or
\* has requested it from its delay stage (kernel.rs apply_drive).
THEOREM NetsResolved == Spec => []NetResolved
<1>1. DriveInv => NetResolved
  BY DEF DriveInv
<1>. QED BY <1>1, DriveInvariant, PTL


\* For any drivers, nets and delays: no requested value is lost, and no
\* superseded one can still be applied (kernel.rs schedule_drive,
\* schedule_drive_transitions, apply_resolved_net and their generations).
THEOREM UpdatesExact == Spec => []PendingExact
<1>1. ASSUME DriveInv PROVE PendingExact
  <2>1. \A ev \in timed : EventOK(ev)
    BY <1>1 DEF DriveInv, HeapInv
  <2>2. ASSUME NEW ev \in DriverEvents, NEW u \in LiveUpdates(ev)
        PROVE  /\ ev \in timed /\ u \in ev.updates /\ u.bit \in Bits /\ ev.id \in Drivers
               /\ \/ /\ ev.kind = "Drive" /\ Form[ev.id] = "single"
                     /\ u.gen = generation[ev.id] /\ Hits(ev, u, "Drive", ev.id, u.bit)
                  \/ /\ ev.kind = "DriveBits" /\ Form[ev.id] = "transitions"
                     /\ u.gen = driver_bit_generations[ev.id][u.bit]
                     /\ Hits(ev, u, "DriveBits", ev.id, u.bit)
    BY <2>1 DEF DriverEvents, LiveUpdates, IsLive, EventOK, Hits
  <2>3. ASSUME NEW ev \in NetEvents, NEW u \in LiveUpdates(ev)
        PROVE  /\ ev \in timed /\ u \in ev.updates /\ u.bit \in Bits /\ ev.id \in DelayedNets
               /\ u.gen = delay_generations[ev.id][u.bit]
               /\ Hits(ev, u, "NetBits", ev.id, u.bit)
    BY <2>1 DEF NetEvents, LiveUpdates, IsLive, EventOK, Hits
  <2>4. \A d \in Drivers : DriverOK(d)
    BY <1>1 DEF DriveInv, DriverInv
  <2>5. \A n \in DelayedNets, b \in Bits :
          Exact(timed, "NetBits", n, b, delay_generations[n][b], delay_request[n][b], value[n][b])
    BY <1>1 DEF DriveInv, NetInv, NetOK
  <2>6. CarryRequest(DriverEvents, driver_requests)
    <3>1. ASSUME NEW ev \in DriverEvents, NEW u \in LiveUpdates(ev)
          PROVE  u.value = driver_requests[ev.id][u.bit]
      BY <2>2, <2>4 DEF DriverOK, Exact
    <3>. QED BY <3>1 DEF CarryRequest
  <2>7. CarryRequest(NetEvents, delay_request)
    <3>1. ASSUME NEW ev \in NetEvents, NEW u \in LiveUpdates(ev)
          PROVE  u.value = delay_request[ev.id][u.bit]
      BY <2>3, <2>5 DEF Exact
    <3>. QED BY <3>1 DEF CarryRequest
  <2>8. OnePerBit(DriverEvents)
    <3>1. ASSUME NEW ev \in DriverEvents, NEW o \in DriverEvents,
                 NEW u \in LiveUpdates(ev), NEW v \in LiveUpdates(o),
                 ev.id = o.id, u.bit = v.bit
          PROVE  ev = o /\ u = v
      <4> DEFINE d == ev.id
                 b == u.bit
      <4>1. d \in Drivers /\ b \in Bits /\ ev \in timed /\ o \in timed
            /\ u \in ev.updates /\ v \in o.updates
        BY <2>2
      <4>2. CASE Form[d] = "single"
        <5>1. /\ Hits(ev, u, "Drive", d, b) /\ u.gen = generation[d]
              /\ Hits(o, v, "Drive", d, b) /\ v.gen = generation[d]
          BY <2>2, <3>1, <4>2
        <5>2. Exact(timed, "Drive", d, b, generation[d], driver_requests[d][b],
                    driver_values[d][b])
          BY <2>4, <4>1, <4>2 DEF DriverOK
        <5>. QED BY <4>1, <5>1, <5>2 DEF Exact
      <4>3. CASE Form[d] = "transitions"
        <5>1. /\ Hits(ev, u, "DriveBits", d, b) /\ u.gen = driver_bit_generations[d][b]
              /\ Hits(o, v, "DriveBits", d, b) /\ v.gen = driver_bit_generations[d][b]
          BY <2>2, <3>1, <4>3
        <5>2. Exact(timed, "DriveBits", d, b, driver_bit_generations[d][b],
                    driver_requests[d][b], driver_values[d][b])
          BY <2>4, <4>1, <4>3 DEF DriverOK
        <5>. QED BY <4>1, <5>1, <5>2 DEF Exact
      <4>. QED BY <2>2, <4>2, <4>3
    <3>. QED BY <3>1 DEF OnePerBit
  <2>9. OnePerBit(NetEvents)
    <3>1. ASSUME NEW ev \in NetEvents, NEW o \in NetEvents,
                 NEW u \in LiveUpdates(ev), NEW v \in LiveUpdates(o),
                 ev.id = o.id, u.bit = v.bit
          PROVE  ev = o /\ u = v
      <4> DEFINE n == ev.id
                 b == u.bit
      <4>1. /\ Hits(ev, u, "NetBits", n, b) /\ u.gen = delay_generations[n][b]
            /\ Hits(o, v, "NetBits", n, b) /\ v.gen = delay_generations[n][b]
        BY <2>3, <3>1
      <4>2. ev \in timed /\ o \in timed /\ u \in ev.updates /\ v \in o.updates
            /\ n \in DelayedNets /\ b \in Bits
        BY <2>3
      <4>. QED BY <2>5, <4>1, <4>2 DEF Exact
    <3>. QED BY <3>1 DEF OnePerBit
  <2>10. NoneMissing(DriverEvents, Drivers, driver_requests, driver_values)
    <3> SUFFICES ASSUME NEW d \in Drivers, NEW b \in Bits,
                        driver_requests[d][b] # driver_values[d][b]
                 PROVE  \E ev \in DriverEvents :
                          ev.id = d /\ \E u \in LiveUpdates(ev) : u.bit = b
      BY DEF NoneMissing
    <3>1. CASE Form[d] = "single"
      <4>1. PICK ev \in timed : \E u \in ev.updates :
              Hits(ev, u, "Drive", d, b) /\ u.gen = generation[d]
        BY <2>4, <3>1 DEF DriverOK, Exact
      <4>. QED BY <4>1 DEF Hits, DriverEvents, LiveUpdates, IsLive
    <3>2. CASE Form[d] = "transitions"
      <4>1. PICK ev \in timed : \E u \in ev.updates :
              Hits(ev, u, "DriveBits", d, b) /\ u.gen = driver_bit_generations[d][b]
        BY <2>4, <3>2 DEF DriverOK, Exact
      <4>. QED BY <4>1 DEF Hits, DriverEvents, LiveUpdates, IsLive
    <3>3. Form[d] # "immediate"
      BY <2>4 DEF DriverOK
    <3>. QED BY <3>1, <3>2, <3>3, DriverAssumption
  <2>11. NoneMissing(NetEvents, DelayedNets, delay_request, value)
    <3> SUFFICES ASSUME NEW n \in DelayedNets, NEW b \in Bits,
                        delay_request[n][b] # value[n][b]
                 PROVE  \E ev \in NetEvents :
                          ev.id = n /\ \E u \in LiveUpdates(ev) : u.bit = b
      BY DEF NoneMissing
    <3>1. PICK ev \in timed : \E u \in ev.updates :
            Hits(ev, u, "NetBits", n, b) /\ u.gen = delay_generations[n][b]
      BY <2>5 DEF Exact
    <3>. QED BY <3>1 DEF Hits, NetEvents, LiveUpdates, IsLive
  <2>. QED BY <2>6, <2>7, <2>8, <2>9, <2>10, <2>11 DEF PendingExact
<1>. QED BY <1>1, DriveInvariant, PTL

-----------------------------------------------------------------------------
(* Steps *)

\* Time moves forward only, and only to a wake-up or to an update that is still
\* wanted (kernel.rs discard_stale_timed_actions before the slot is chosen).
THEOREM SlotsWanted == Spec => NoPhantomSlot
<1>1. DriveInv /\ [Next]_vars =>
        [time' # time => time' > time /\ \E ev \in timed : ev.time = time' /\ ~IsStale(ev)]_vars
  <2> SUFFICES ASSUME DriveInv, Next, time' # time
               PROVE  time' > time /\ \E ev \in timed : ev.time = time' /\ ~IsStale(ev)
    OBVIOUS
  <2>1. AdvanceTime
    BY DEF Next, Requests, ClientWaits, KernelStep, DriveNet, ScheduleDrive,
           ScheduleDriveTransitions, Call, Sleep, WaitForNets, DiscardStale, Dispatch,
           EndDispatch, timeVars
  <2>2. PICK ev \in timed : ~IsStale(ev) /\ time' = ev.time
    BY <2>1 DEF AdvanceTime
  <2>3. time <= time' /\ time \in Nat /\ time' \in Nat
    BY <2>1, AdvanceTimeStep DEF DriveInv, Types
  <2>. QED BY <2>2, <2>3
<1>. QED BY <1>1, DriveInvariant, PTL DEF Spec, NoPhantomSlot

\* A bit of a driver that schedule_drive_transitions changes at once has a
\* transition without delay.
LEMMA RequestedAtOnce ==
  ASSUME DriveInv, NEW e \in Drivers, NEW val \in Vec, ScheduleDriveTransitions(e, val),
         NEW d \in Drivers, NEW b \in Bits, driver_values'[d][b] # driver_values[d][b]
  PROVE  /\ driver_values'[d][b] = driver_requests'[d][b]
         /\ time = Due(DriveDelays[d], since'[d][b], driver_values[d][b],
                       driver_requests'[d][b])
<1> DEFINE previous == driver_requests[e]
           current == driver_values[e]
           now == Immediate(previous, current, val, DriveDelays[e])
<1>1. /\ Request(e, val) /\ NextDriver(e) /\ NextBits(e, Rerequested(previous, val))
      /\ driver_values' = [driver_values EXCEPT ![e] = now]
  BY DEF ScheduleDriveTransitions, ApplyDrive, NoDrive
<1>2. d = e /\ driver_values'[d] = now
  BY <1>1 DEF DriveInv, Types
<1>3. /\ driver_requests'[d] = val
      /\ since'[d][b] = IF b \in Rerequested(previous, val) THEN time ELSE since[d][b]
  BY <1>1, <1>2, RequestVars DEF DriveInv
<1>4. b \in Moving(previous, current, val) /\ DelayOf(DriveDelays[e], current, val, b) = 0
      /\ now[b] = val[b]
  <2>1. now[b] # current[b]
    BY <1>2
  <2>2. now[b] = IF /\ b \in Moving(previous, current, val)
                    /\ DelayOf(DriveDelays[e], current, val, b) = 0
                 THEN val[b] ELSE current[b]
    BY DEF Immediate
  <2>. QED BY <2>1, <2>2
<1>5. since'[d][b] = time
  BY <1>3, <1>4 DEF Moving
<1>6. SaturatingAdd(time, 0) = time
  BY SaturatingTime DEF DriveInv, Types
<1>7. TransitionDelay(DriveDelays[d], driver_values[d][b], val[b]) = 0
  BY <1>2, <1>4 DEF DelayOf
<1> HIDE DEF now
<1>. QED BY <1>2, <1>3, <1>4, <1>5, <1>6, <1>7 DEF Due

\* A bit of a driver with two or three delays changes exactly when its request
\* has been stable for the delay of the transition, at the request or in a slot
\* of dispatch_time_slot (kernel.rs schedule_drive_transitions).
THEOREM DriversInertial == Spec => InertialExact
<1>1. DriveInv /\ [Next]_vars =>
        [\A d \in {e \in Drivers : Form[e] = "transitions"}, b \in Bits :
           driver_values'[d][b] # driver_values[d][b] =>
             /\ driver_values'[d][b] = driver_requests'[d][b]
             /\ time = SaturatingAdd(since'[d][b],
                         TransitionDelay(DriveDelays[d], driver_values[d][b],
                                         driver_requests'[d][b]))]_vars
  <2> SUFFICES ASSUME DriveInv, Next,
                      NEW d \in {e \in Drivers : Form[e] = "transitions"}, NEW b \in Bits,
                      driver_values'[d][b] # driver_values[d][b]
               PROVE  /\ driver_values'[d][b] = driver_requests'[d][b]
                      /\ time = Due(DriveDelays[d], since'[d][b], driver_values[d][b],
                                    driver_requests'[d][b])
    BY DEF Due
  <2>1. CASE Dispatch
    <3>1. PICK ev \in timed :
            /\ ev.time = time
            /\ ev.kind \in {"Drive", "DriveBits"}
            /\ driver_values' =
                 [driver_values EXCEPT ![ev.id] = Overwrite(driver_values[ev.id], LiveUpdates(ev))]
      BY <2>1, DispatchCases DEF ApplyDrive, NoDrive
    <3>2. d = ev.id
      BY <3>1 DEF DriveInv, Types
    <3>3. ev.kind = "DriveBits"
      BY <3>1, <3>2 DEF DriveInv, HeapInv, EventOK
    <3> DEFINE L == LiveUpdates(ev)
               gen == driver_bit_generations[d][b]
               req == driver_requests[d][b]
               due == Due(DriveDelays[d], since[d][b], driver_values[d][b], req)
    <3>4. driver_values'[d] = Overwrite(driver_values[d], L)
      BY <3>1, <3>2 DEF DriveInv, Types
    <3>5. \A u \in L : u \in ev.updates /\ (u.bit = b => u.gen = gen)
      BY <3>2, <3>3 DEF LiveUpdates, IsLive
    <3>6. /\ Exact(timed, ev.kind, ev.id, b, gen, req, driver_values[d][b])
          /\ OnTime(timed, ev.kind, ev.id, b, gen, due)
      BY <3>2, <3>3 DEF DriveInv, DriverInv, DriverOK
    <3> DEFINE vec == driver_values[d]
    <3> HIDE DEF L, gen, req, due
    <3>7. Exact(timed, ev.kind, ev.id, b, gen, req, vec[b]) /\ Overwrite(vec, L)[b] # vec[b]
      BY <3>4, <3>6
    <3> HIDE DEF vec
    <3>8. Overwrite(vec, L)[b] = req /\ ev.time = due
      <4>1. PICK u \in L : u.bit = b /\ Overwrite(vec, L)[b] = u.value
        BY <3>7, BitOverwritten
      <4>2. u \in ev.updates /\ Hits(ev, u, ev.kind, ev.id, b) /\ u.gen = gen
        BY <3>5, <4>1 DEF Hits
      <4>. QED BY <3>6, <4>1, <4>2 DEF Exact, OnTime
    <3>9. UNCHANGED <<driver_requests, since>>
      BY <2>1 DEF Dispatch
    <3>. QED BY <3>1, <3>4, <3>8, <3>9 DEF req, due, vec
  <2>2. CASE ~Dispatch
    <3>1. Requests
      BY <2>2 DEF Next, ClientWaits, KernelStep, Sleep, WaitForNets, DiscardStale,
                  AdvanceTime, EndDispatch, driverVars
    <3>2. PICK e \in Drivers : \E v \in [Bits -> DriveVals[e]] :
            DriveNet(e, v) \/ ScheduleDrive(e, v) \/ ScheduleDriveTransitions(e, v)
      BY <3>1 DEF Requests
    <3>3. PICK v \in [Bits -> DriveVals[e]] :
            DriveNet(e, v) \/ ScheduleDrive(e, v) \/ ScheduleDriveTransitions(e, v)
      BY <3>2
    <3>4. e = d
      <4>1. driver_values' = driver_values \/ \E w : driver_values' = [driver_values EXCEPT ![e] = w]
        BY <3>3 DEF DriveNet, ScheduleDrive, ScheduleDriveTransitions, ApplyDrive, NoDrive
      <4>. QED BY <4>1 DEF DriveInv, Types
    <3>5. ScheduleDriveTransitions(e, v)
      BY <3>3, <3>4 DEF DriveNet, ScheduleDrive, Call
    <3>6. v \in Vec
      BY RequestedVec
    <3>. QED BY <3>5, <3>6, RequestedAtOnce
  <2>. QED BY <2>1, <2>2
<1>. QED BY <1>1, DriveInvariant, PTL DEF Spec, InertialExact

\* A bit of a net with a delay that apply_resolved_net changes at once has a
\* transition without delay.
LEMMA AppliedAtOnce ==
  ASSUME DriveInv, NEW d \in Drivers, NEW val, NEW events, ApplyDrive(d, val, events),
         NEW n \in DelayedNets, NEW b \in Bits, value'[n][b] # value[n][b]
  PROVE  /\ value'[n][b] = delay_request'[n][b]
         /\ time = Due(NetDelays[n], net_since'[n][b], value[n][b], delay_request'[n][b])
<1> DEFINE res == Resolved(NetOf[d], driver_values')
<1>1. ApplyResolvedNet(NetOf[d], res, events) /\ n \in DrivenNets
  BY DriverAssumption DEF ApplyDrive
<1> HIDE DEF res
<1>2. n = NetOf[d]
  BY <1>1 DEF ApplyResolvedNet, DriveInv, Types
<1> DEFINE previous == delay_request[n]
           current == value[n]
           now == Immediate(previous, current, res, NetDelays[n])
<1>3. /\ value'[n] = now /\ delay_request'[n] = res
      /\ net_since'[n][b] = IF b \in Rerequested(previous, res) THEN time ELSE net_since[n][b]
  BY <1>1, <1>2 DEF ApplyResolvedNet, DriveInv, Types
<1>4. b \in Moving(previous, current, res) /\ DelayOf(NetDelays[n], current, res, b) = 0
      /\ now[b] = res[b]
  <2>1. now[b] # current[b]
    BY <1>3
  <2>2. now[b] = IF /\ b \in Moving(previous, current, res)
                    /\ DelayOf(NetDelays[n], current, res, b) = 0
                 THEN res[b] ELSE current[b]
    BY DEF Immediate
  <2>. QED BY <2>1, <2>2
<1>5. net_since'[n][b] = time
  BY <1>3, <1>4 DEF Moving
<1>6. SaturatingAdd(time, 0) = time
  BY SaturatingTime DEF DriveInv, Types
<1>7. TransitionDelay(NetDelays[n], value[n][b], res[b]) = 0
  BY <1>4 DEF DelayOf
<1> HIDE DEF now
<1>. QED BY <1>3, <1>4, <1>5, <1>6, <1>7 DEF Due

\* A bit of a net with a declared delay changes exactly when its resolved value
\* has been stable for the delay of the transition (kernel.rs
\* apply_resolved_net, dispatch_time_slot).
THEOREM NetsInertial == Spec => NetInertialExact
<1>1. DriveInv /\ [Next]_vars =>
        [\A n \in DelayedNets, b \in Bits :
           value'[n][b] # value[n][b] =>
             /\ value'[n][b] = delay_request'[n][b]
             /\ time = SaturatingAdd(net_since'[n][b],
                         TransitionDelay(NetDelays[n], value[n][b], delay_request'[n][b]))]_vars
  <2> SUFFICES ASSUME DriveInv, Next, NEW n \in DelayedNets, NEW b \in Bits,
                      value'[n][b] # value[n][b]
               PROVE  /\ value'[n][b] = delay_request'[n][b]
                      /\ time = Due(NetDelays[n], net_since'[n][b], value[n][b],
                                    delay_request'[n][b])
    BY DEF Due
  <2>1. CASE \E d \in Drivers : \E val : \E events : ApplyDrive(d, val, events)
    BY <2>1, AppliedAtOnce
  <2>2. CASE Dispatch
    <3>1. PICK ev \in timed :
            /\ ev.time = time
            /\ \/ NoDrive(timed \ {ev})
               \/ /\ ev.kind \in {"Drive", "DriveBits"}
                  /\ ApplyDrive(ev.id, Overwrite(driver_values[ev.id], LiveUpdates(ev)),
                                timed \ {ev})
               \/ /\ ev.kind = "NetBits"
                  /\ value' = [value EXCEPT ![ev.id] = Overwrite(@, LiveUpdates(ev))]
                  /\ UNCHANGED <<delay_request, net_since>>
      BY <2>2, DispatchCases
    <3>2. CASE /\ ev.kind \in {"Drive", "DriveBits"}
               /\ ApplyDrive(ev.id, Overwrite(driver_values[ev.id], LiveUpdates(ev)), timed \ {ev})
      <4>1. ev.id \in Drivers
        BY <3>2 DEF DriveInv, HeapInv, EventOK
      <4>. QED BY <2>1, <3>2, <4>1
    <3>3. CASE /\ ev.kind = "NetBits"
               /\ value' = [value EXCEPT ![ev.id] = Overwrite(@, LiveUpdates(ev))]
               /\ UNCHANGED <<delay_request, net_since>>
      <4>1. n = ev.id
        BY <3>3, DriverAssumption DEF DriveInv, Types
      <4> DEFINE L == LiveUpdates(ev)
                 gen == delay_generations[n][b]
                 req == delay_request[n][b]
                 due == Due(NetDelays[n], net_since[n][b], value[n][b], req)
      <4>2. value'[n] = Overwrite(value[n], L)
        BY <3>3, <4>1, DriverAssumption DEF DriveInv, Types
      <4>3. \A u \in L : u \in ev.updates /\ (u.bit = b => u.gen = gen)
        BY <3>3, <4>1 DEF LiveUpdates, IsLive
      <4>4. /\ Exact(timed, ev.kind, ev.id, b, gen, req, value[n][b])
            /\ OnTime(timed, ev.kind, ev.id, b, gen, due)
        BY <3>3, <4>1 DEF DriveInv, NetInv, NetOK
      <4> DEFINE vec == value[n]
      <4> HIDE DEF L, gen, req, due
      <4>5. Exact(timed, ev.kind, ev.id, b, gen, req, vec[b]) /\ Overwrite(vec, L)[b] # vec[b]
        BY <4>2, <4>4
      <4> HIDE DEF vec
      <4>6. Overwrite(vec, L)[b] = req /\ ev.time = due
        <5>1. PICK u \in L : u.bit = b /\ Overwrite(vec, L)[b] = u.value
          BY <4>5, BitOverwritten
        <5>2. u \in ev.updates /\ Hits(ev, u, ev.kind, ev.id, b) /\ u.gen = gen
          BY <4>3, <5>1 DEF Hits
        <5>. QED BY <4>4, <5>1, <5>2 DEF Exact, OnTime
      <4>. QED BY <3>1, <3>3, <4>2, <4>6 DEF req, due, vec
    <3>. QED BY <3>1, <3>2, <3>3 DEF NoDrive
  <2>3. ASSUME NEW d \in Drivers, NEW v,
               DriveNet(d, v) \/ ScheduleDrive(d, v) \/ ScheduleDriveTransitions(d, v)
        PROVE  \E val : \E events : ApplyDrive(d, val, events)
    BY <2>3 DEF DriveNet, ScheduleDrive, ScheduleDriveTransitions, NoDrive
  <2>. QED
    BY <2>1, <2>2, <2>3
       DEF Next, Requests, ClientWaits, KernelStep, Sleep, WaitForNets, DiscardStale,
           AdvanceTime, EndDispatch, netVars
<1>. QED BY <1>1, DriveInvariant, PTL DEF Spec, NetInertialExact

=============================================================================
