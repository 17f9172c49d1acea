------------------------------ MODULE Strength ------------------------------
(***************************************************************************)
(* Net resolution: the strengths and resolution functions of kernel.rs     *)
(* (resolve_drivers and below) for one bit of one net, and the driver list *)
(* they run on (new_driver_with_strengths, drive_net).                     *)
(***************************************************************************)
EXTENDS Integers, FiniteSets, Sequences, SequencesExt

CONSTANTS
  Strengths,     \* DriveStrength as u8, a set of <<zero, one>>
  Bits,          \* bit values that are driven
  Resolutions,   \* NetResolutions of the net
  MaxDrivers     \* bound on the drivers of the net

Bit4 == {"0", "1", "x", "z"}
Level == 0..7    \* HighZ = 0, Weak = 3, Pull = 5, Strong = 6, Supply = 7

ASSUME StrengthAssumption ==
  /\ Strengths \subseteq Level \X Level
  /\ Bits \subseteq Bit4
  /\ Resolutions \subseteq {"Wire", "Wand", "Wor"}
  /\ MaxDrivers \in Nat

VARIABLES resolution, \* Net::resolution
          drivers,  \* Net::driver_values and driver_strengths, in slot order
          value     \* Net::value

vars == <<resolution, drivers, value>>

-----------------------------------------------------------------------------
(* StrengthPoint and StrengthValue *)

Point(one, strength) == [one |-> one, strength |-> strength]

Coordinate(p) == IF p.one THEN p.strength ELSE -p.strength

FromCoordinate(c) == Point(c > 0, IF c < 0 THEN -c ELSE c)

Interval(zero, one) == [toward_zero |-> zero, toward_one |-> one]

HighZ == Interval(Point(FALSE, 0), Point(FALSE, 0))

\* StrengthValue::new
StrengthValue(d) ==
  LET zero == Point(FALSE, d.zero)
      one == Point(TRUE, d.one)
  IN IF d.zero = 0 /\ d.one = 0 THEN HighZ
     ELSE CASE d.bit = "0" -> Interval(zero, zero)
            [] d.bit = "1" -> Interval(one, one)
            [] d.bit = "x" -> Interval(zero, one)
            [] d.bit = "z" -> HighZ

IsHighZ(s) == s.toward_zero.strength = 0 /\ s.toward_one.strength = 0

IsUnambiguous(s) == s.toward_zero = s.toward_one

\* StrengthValue::bit
BitOf(s) ==
  IF IsHighZ(s) THEN "z"
  ELSE IF s.toward_zero.one # s.toward_one.one THEN "x"
  ELSE IF s.toward_zero.one THEN "1" ELSE "0"

Stronger(p, q) == IF p.strength > q.strength THEN p ELSE q

\* Both known: the stronger wins, equal strengths span the interval.
ResolveKnown(s, o) ==
  LET mine == s.toward_zero.strength
      theirs == o.toward_zero.strength
  IN CASE theirs > mine -> o
       [] theirs < mine -> s
       [] theirs = mine -> IF s.toward_zero.one
                           THEN Interval(o.toward_zero, s.toward_one)
                           ELSE Interval(s.toward_zero, o.toward_one)

\* A known value k against an ambiguous one.
ResolveMixed(k, a) ==
  Interval(Stronger(k.toward_zero, a.toward_zero),
           Stronger(k.toward_one, a.toward_one))

Least(a, b) == IF a <= b THEN a ELSE b
Most(a, b) == IF a >= b THEN a ELSE b

\* Both ambiguous: the interval that covers both.
ResolveAmbiguous(s, o) ==
  Interval(
    FromCoordinate(Least(Least(Coordinate(s.toward_zero), Coordinate(s.toward_one)),
                         Least(Coordinate(o.toward_zero), Coordinate(o.toward_one)))),
    FromCoordinate(Most(Most(Coordinate(s.toward_zero), Coordinate(s.toward_one)),
                        Most(Coordinate(o.toward_zero), Coordinate(o.toward_one)))))

\* Mutant: equal strengths keep the first value.
ResolveStrength_FirstWins(s, o) ==
  IF IsHighZ(s) THEN o
  ELSE IF IsHighZ(o) THEN s
  ELSE IF o.toward_zero.strength > s.toward_zero.strength THEN o ELSE s

\* Mutant: a known value never yields to, nor overrides, an ambiguous one.
ResolveStrength_Cover(s, o) ==
  IF IsHighZ(s) THEN o
  ELSE IF IsHighZ(o) \/ s = o THEN s
  ELSE IF IsUnambiguous(s) /\ IsUnambiguous(o) THEN ResolveKnown(s, o)
  ELSE ResolveAmbiguous(s, o)

\* StrengthValue::resolve
ResolveStrength(s, o) ==
  IF IsHighZ(s) THEN o
  ELSE IF IsHighZ(o) \/ s = o THEN s
  ELSE IF IsUnambiguous(s) /\ IsUnambiguous(o) THEN ResolveKnown(s, o)
  ELSE IF IsUnambiguous(s) THEN ResolveMixed(s, o)
  ELSE IF IsUnambiguous(o) THEN ResolveMixed(o, s)
  ELSE ResolveAmbiguous(s, o)

-----------------------------------------------------------------------------
(* The resolution functions, over a list of drivers *)

ResolveWire(ds) ==
  BitOf(FoldLeft(LAMBDA s, d : ResolveStrength(s, StrengthValue(d)), HighZ, ds))

\* The loops of resolve_wand_bit and resolve_wor_bit: dominant ends them.
WiredStep(acc, bit, dominant, weak) ==
  IF dominant \in {acc, bit} THEN dominant
  ELSE IF bit = "x" \/ (bit = weak /\ acc = "z") THEN bit ELSE acc

ResolveWand(ds) == FoldLeft(LAMBDA acc, d : WiredStep(acc, d.bit, "0", "1"), "z", ds)

ResolveWor(ds) == FoldLeft(LAMBDA acc, d : WiredStep(acc, d.bit, "1", "0"), "z", ds)

ResolveDrivers(ds) ==
  CASE resolution = "Wire" -> ResolveWire(ds)
    [] resolution = "Wand" -> ResolveWand(ds)
    [] resolution = "Wor"  -> ResolveWor(ds)

-----------------------------------------------------------------------------
\* new_net_with_resolution
Init == resolution \in Resolutions /\ drivers = <<>> /\ value = "z"

\* new_driver_with_strengths: a driver is Z until first driven.
NewDriver(strengths) ==
  /\ Len(drivers) < MaxDrivers
  /\ resolution = "Wire" \/ strengths = <<6, 6>>
  /\ drivers' = Append(drivers, [bit |-> "z", zero |-> strengths[1],
                                 one |-> strengths[2]])
  /\ UNCHANGED <<resolution, value>>

\* drive_net on a net without delay.
DriveNet(slot, bit) ==
  /\ drivers' = [drivers EXCEPT ![slot].bit = bit]
  /\ value' = ResolveDrivers(drivers')
  /\ UNCHANGED resolution

Next ==
  \/ \E s \in Strengths : NewDriver(s)
  \/ \E slot \in DOMAIN drivers, bit \in Bits : DriveNet(slot, bit)

Spec == Init /\ [][Next]_vars

-----------------------------------------------------------------------------
(* Properties *)

\* The strength at which a driver contributes now.
Contribution(d) ==
  CASE d.bit = "0" -> d.zero [] d.bit = "1" -> d.one
    [] d.bit = "x" -> Most(d.zero, d.one) [] d.bit = "z" -> 0

Contributing == {i \in DOMAIN drivers : Contribution(drivers[i]) > 0}

\* On a wire whose drivers have one strength for both values the strongest
\* contributors decide, and the net is X when they disagree or one of them is X.
SymmetricWire ==
  LET top == {i \in Contributing : \A j \in Contributing :
                Contribution(drivers[j]) <= Contribution(drivers[i])}
      bits == {drivers[i].bit : i \in top}
  IN IF bits = {} THEN "z"
     ELSE IF Cardinality(bits) = 1 THEN CHOOSE b \in bits : TRUE ELSE "x"

\* Wired logic: a driven 1 (wor) or 0 (wand) decides, otherwise X, otherwise
\* the other value, otherwise Z.
Wired ==
  LET bits == {drivers[i].bit : i \in DOMAIN drivers}
      dominant == IF resolution = "Wand" THEN "0" ELSE "1"
  IN IF dominant \in bits THEN dominant
     ELSE IF "x" \in bits THEN "x"
     ELSE IF bits \ {"z"} # {} THEN CHOOSE b \in bits \ {"z"} : TRUE
     ELSE "z"

\* ResolvedAsDefined: on wired nets, and on wires with symmetric strengths, the fold
\* of resolve_drivers gives the value defined above from the set of the drivers,
\* so the order in which it meets them does not matter.
ResolvedAsDefined ==
  IF resolution # "Wire" THEN value = Wired
  ELSE (\A i \in DOMAIN drivers : drivers[i].zero = drivers[i].one) => value = SymmetricWire

\* The drivers that drive something.
Driving(ds) == FoldLeft(LAMBDA on, d : IF d.bit = "z" THEN on ELSE Append(on, d), <<>>, ds)

\* StrongestDecides: with any mixture of strengths on a wire, a 0 or 1 stronger than
\* everything the other drivers can contribute decides the net, wherever it is in
\* the list; and a driver that withdraws to Z leaves the net as if it did not exist.
StrongestDecides ==
  /\ \A i \in DOMAIN drivers :
       /\ resolution = "Wire"
       /\ drivers[i].bit \in {"0", "1"} /\ i \in Contributing
       /\ \A j \in DOMAIN drivers \ {i} :
            Contribution(drivers[j]) < Contribution(drivers[i])
       => value = drivers[i].bit
  /\ value = ResolveDrivers(Driving(drivers))
=============================================================================
