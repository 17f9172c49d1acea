--------------------------- MODULE StrengthProofs ---------------------------
(***************************************************************************)
(* Theorems about Strength.  Each loop of resolve_drivers is a fold; the   *)
(* lemmas WireFold, WiredFold and DrivingFold say what one more driver     *)
(* does to it, and what holds of the result follows by induction on the    *)
(* list of drivers.                                                        *)
(***************************************************************************)
EXTENDS Strength, FoldProofs, FiniteSetTheorems, TLAPS

Driver == [bit : Bit4, zero : Level, one : Level]

-----------------------------------------------------------------------------
(* The loops of resolve_wand_bit and resolve_wor_bit *)

WiredOf(ds, dom, weak) ==
  FoldLeft(LAMBDA acc, d : WiredStep(acc, d.bit, dom, weak), "z", ds)

WiredStepOf(ds, dom, weak) ==
  [a \in Bit4 \X (1..Len(ds)) |-> WiredStep(a[1], ds[a[2]].bit, dom, weak)]

\* A step of the loop yields a bit.
LEMMA WiredStepType ==
  ASSUME NEW acc \in Bit4, NEW bit \in Bit4, NEW dom \in Bit4, NEW weak \in Bit4
  PROVE  WiredStep(acc, bit, dom, weak) \in Bit4
  BY DEF WiredStep, Bit4

\* The loop as a fold over the positions of the list.
LEMMA WiredIsFold ==
  ASSUME NEW ds \in Seq(Driver), NEW dom \in Bit4, NEW weak \in Bit4
  PROVE  \E g : /\ IsFold(g, Len(ds), Bit4, "z", WiredStepOf(ds, dom, weak))
                /\ WiredOf(ds, dom, weak) = g[1..Len(ds)]
<1> DEFINE n == Len(ds)
           f == WiredStepOf(ds, dom, weak)
           Body(c) == [s \in SUBSET (1..n) |->
                         IF s = {} THEN "z"
                         ELSE WiredStep(c[s \ {Max(s)}], ds[Max(s)].bit, dom, weak)]
<1>1. n \in Nat /\ DOMAIN ds = 1..n /\ "z" \in Bit4
  BY DEF Bit4
<1>2. f \in [Bit4 \X (1..n) -> Bit4]
  <2>1. ASSUME NEW a \in Bit4 \X (1..n)
        PROVE  WiredStep(a[1], ds[a[2]].bit, dom, weak) \in Bit4
    <3>1. a[1] \in Bit4 /\ ds[a[2]] \in Driver
      BY <1>1
    <3>. QED BY <3>1, WiredStepType DEF Driver
  <2>. QED BY <2>1 DEF WiredStepOf
<1> HIDE DEF f
<1>3. PICK g : IsFold(g, n, Bit4, "z", f)
  BY <1>1, <1>2, FoldExists
<1>4. ASSUME NEW s \in SUBSET (1..n), s # {}
      PROVE  f[<<g[s \ {Max(s)}], Max(s)>>]
               = WiredStep(g[s \ {Max(s)}], ds[Max(s)].bit, dom, weak)
  <2>1. Max(s) \in 1..n /\ s \ {Max(s)} \in SUBSET (1..n)
    BY <1>1, <1>4, SegmentMax
  <2>2. g[s \ {Max(s)}] \in Bit4
    BY <1>3, <2>1 DEF IsFold
  <2>. QED BY <2>1, <2>2 DEF f, WiredStepOf
<1>5. g = Body(g)
  BY <1>3, <1>4 DEF IsFold
<1> DEFINE c == CHOOSE h : h = Body(h)
<1>6. c = Body(c)
  BY <1>5
<1>7. WiredOf(ds, dom, weak) = c[1..n]
  BY <1>1 DEF WiredOf, FoldLeft, MapThenFoldSet
<1> HIDE DEF c, n
<1>8. StepAlike(c, g, n)
  BY <1>5, <1>6 DEF StepAlike
<1>9. c[1..n] = g[1..n]
  BY <1>1, <1>8, FoldUnique
<1>. QED BY <1>3, <1>7, <1>9 DEF f, n

\* What one more driver does to the loop.
LEMMA WiredFold ==
  ASSUME NEW ds \in Seq(Driver), NEW d \in Driver, NEW dom \in Bit4, NEW weak \in Bit4
  PROVE  /\ WiredOf(<<>>, dom, weak) = "z"
         /\ WiredOf(ds, dom, weak) \in Bit4
         /\ WiredOf(Append(ds, d), dom, weak)
              = WiredStep(WiredOf(ds, dom, weak), d.bit, dom, weak)
<1> DEFINE n == Len(ds)
           more == Append(ds, d)
           f == WiredStepOf(more, dom, weak)
           e == WiredStepOf(ds, dom, weak)
<1>1. n \in Nat /\ more \in Seq(Driver) /\ Len(more) = n + 1 /\ more[n + 1] = d
  OBVIOUS
<1>2. \A i \in 1..n : more[i] = ds[i]
  OBVIOUS
<1>3. PICK h : IsFold(h, n, Bit4, "z", e) /\ WiredOf(ds, dom, weak) = h[1..n]
  BY WiredIsFold
<1>4. PICK g : /\ IsFold(g, Len(more), Bit4, "z", f)
               /\ WiredOf(more, dom, weak) = g[1..Len(more)]
  BY <1>1, WiredIsFold
<1>5. h[1..n] \in Bit4
  BY <1>3 DEF IsFold
<1>6. SameSteps(f, e, n, Bit4)
  BY <1>1, <1>2 DEF WiredStepOf, SameSteps
<1>7. f[<<h[1..n], n + 1>>] = WiredStep(h[1..n], d.bit, dom, weak)
  BY <1>1, <1>5 DEF WiredStepOf
<1> HIDE DEF n, more, f, e
<1>8. WiredOf(more, dom, weak) = WiredStep(WiredOf(ds, dom, weak), d.bit, dom, weak)
  BY <1>1, <1>3, <1>4, <1>6, <1>7, FoldLast
<1>9. WiredOf(<<>>, dom, weak) = "z"
  <2>1. <<>> \in Seq(Driver) /\ Len(<<>>) = 0 /\ 1..0 = {}
    OBVIOUS
  <2>2. PICK k : /\ IsFold(k, Len(<<>>), Bit4, "z", WiredStepOf(<<>>, dom, weak))
                 /\ WiredOf(<<>>, dom, weak) = k[1..Len(<<>>)]
    BY <2>1, WiredIsFold
  <2>. QED BY <2>1, <2>2 DEF IsFold
<1>. QED BY <1>3, <1>5, <1>8, <1>9 DEF more

\* What the loop has found: a dominant bit, else X, else the other bit, else Z.
WiredFound(ds, v, dom, weak) ==
  LET some(b) == \E i \in DOMAIN ds : ds[i].bit = b
  IN v = IF some(dom) THEN dom
         ELSE IF some("x") THEN "x"
         ELSE IF some(weak) THEN weak ELSE "z"

\* The loop finds what is in the list, in whatever order it meets it.
LEMMA WiredFinds ==
  ASSUME NEW dom \in {"0", "1"}, NEW weak \in {"0", "1"}, dom # weak
  PROVE  \A ds \in Seq(Driver) : WiredFound(ds, WiredOf(ds, dom, weak), dom, weak)
<1> DEFINE T == {ds \in Seq(Driver) : WiredFound(ds, WiredOf(ds, dom, weak), dom, weak)}
<1>1. dom \in Bit4 /\ weak \in Bit4 /\ <<>> \in Seq(Driver)
  BY DEF Bit4
<1>2. ASSUME NEW ds \in T, NEW d \in Driver PROVE Append(ds, d) \in T
  <2> DEFINE some(b) == \E i \in DOMAIN ds : ds[i].bit = b
             acc == WiredOf(ds, dom, weak)
             more == Append(ds, d)
             any(b) == \E i \in DOMAIN more : more[i].bit = b
  <2>1. more \in Seq(Driver) /\ d.bit \in Bit4
    BY DEF Driver
  <2>2. WiredOf(more, dom, weak) = WiredStep(acc, d.bit, dom, weak)
    BY <1>1, WiredFold
  <2>3. acc = IF some(dom) THEN dom
              ELSE IF some("x") THEN "x" ELSE IF some(weak) THEN weak ELSE "z"
    BY DEF WiredFound
  <2>4. \A b : any(b) <=> some(b) \/ d.bit = b
    <3>1. /\ DOMAIN more = 1..(Len(ds) + 1) /\ DOMAIN ds = 1..Len(ds) /\ Len(ds) \in Nat
          /\ more[Len(ds) + 1] = d /\ \A i \in 1..Len(ds) : more[i] = ds[i]
      OBVIOUS
    <3> HIDE DEF more
    <3>. QED BY <3>1
  <2> HIDE DEF some, any, acc, more
  <2>5. WiredStep(acc, d.bit, dom, weak)
          = IF any(dom) THEN dom
            ELSE IF any("x") THEN "x" ELSE IF any(weak) THEN weak ELSE "z"
    BY <2>1, <2>3, <2>4 DEF WiredStep, Bit4
  <2>6. WiredFound(more, WiredOf(more, dom, weak), dom, weak)
    BY <2>2, <2>5 DEF WiredFound, any
  <2>. QED BY <2>1, <2>6 DEF more
<1>3. <<>> \in T
  <2>1. WiredOf(<<>>, dom, weak) = "z"
    <3>1. [bit |-> "z", zero |-> 6, one |-> 6] \in Driver
      BY DEF Driver, Bit4, Level
    <3>. QED BY <1>1, <3>1, WiredFold
  <2>. QED BY <1>1, <2>1 DEF WiredFound
<1> HIDE DEF T
<1>4. \A ds \in Seq(Driver) : ds \in T
  BY <1>2, <1>3, SequenceInduction
<1>. QED BY <1>4 DEF T

-----------------------------------------------------------------------------
(* The loop of resolve_wire_bit *)

Points == [one : BOOLEAN, strength : Level]
StrengthValues == [toward_zero : Points, toward_one : Points]

WireOf(ds) == FoldLeft(LAMBDA s, d : ResolveStrength(s, StrengthValue(d)), HighZ, ds)

WireStepOf(ds) ==
  [a \in StrengthValues \X (1..Len(ds)) |-> ResolveStrength(a[1], StrengthValue(ds[a[2]]))]

\* What a driver contributes is an interval of strengths.
LEMMA ValueType ==
  ASSUME NEW d \in Driver
  PROVE  StrengthValue(d) \in StrengthValues
  BY DEF StrengthValue, HighZ, Interval, Point, StrengthValues, Points, Driver, Level, Bit4

\* The end points of the interval that covers two others.
LEMMA CoverType ==
  ASSUME NEW s \in StrengthValues, NEW o \in StrengthValues
  PROVE  ResolveAmbiguous(s, o) \in StrengthValues
<1>1. ASSUME NEW p \in Points PROVE Coordinate(p) \in -7..7
  BY DEF Points, Coordinate, Level
<1>2. ASSUME NEW a \in -7..7, NEW b \in -7..7
      PROVE  Least(a, b) \in -7..7 /\ Most(a, b) \in -7..7
  BY DEF Least, Most
<1>3. ASSUME NEW c \in -7..7 PROVE FromCoordinate(c) \in Points
  BY DEF FromCoordinate, Point, Points, Level
<1>4. /\ Coordinate(s.toward_zero) \in -7..7 /\ Coordinate(s.toward_one) \in -7..7
      /\ Coordinate(o.toward_zero) \in -7..7 /\ Coordinate(o.toward_one) \in -7..7
  BY <1>1 DEF StrengthValues
<1>. QED BY <1>2, <1>3, <1>4 DEF ResolveAmbiguous, Interval, StrengthValues

\* Two intervals resolve to an interval.
LEMMA ResolveType ==
  ASSUME NEW s \in StrengthValues, NEW o \in StrengthValues
  PROVE  ResolveStrength(s, o) \in StrengthValues
<1>1. ResolveKnown(s, o) \in StrengthValues
  BY DEF ResolveKnown, Interval, StrengthValues, Points, Level
<1>2. ResolveMixed(s, o) \in StrengthValues /\ ResolveMixed(o, s) \in StrengthValues
  BY DEF ResolveMixed, Stronger, Interval, StrengthValues
<1>. QED BY <1>1, <1>2, CoverType DEF ResolveStrength

\* The loop as a fold.
LEMMA WireIsFold ==
  ASSUME NEW ds \in Seq(Driver)
  PROVE  \E g : /\ IsFold(g, Len(ds), StrengthValues, HighZ, WireStepOf(ds))
                /\ WireOf(ds) = g[1..Len(ds)]
<1> DEFINE n == Len(ds)
           f == WireStepOf(ds)
           Body(c) == [s \in SUBSET (1..n) |->
                         IF s = {} THEN HighZ
                         ELSE ResolveStrength(c[s \ {Max(s)}], StrengthValue(ds[Max(s)]))]
<1>1. n \in Nat /\ DOMAIN ds = 1..n /\ HighZ \in StrengthValues
  BY DEF StrengthValues, Points, Level, HighZ, Interval, Point
<1>2. f \in [StrengthValues \X (1..n) -> StrengthValues]
  <2>1. ASSUME NEW a \in StrengthValues \X (1..n)
        PROVE  ResolveStrength(a[1], StrengthValue(ds[a[2]])) \in StrengthValues
    <3>1. a[1] \in StrengthValues /\ ds[a[2]] \in Driver
      BY <1>1
    <3>. QED BY <3>1, ValueType, ResolveType
  <2>. QED BY <2>1 DEF WireStepOf
<1> HIDE DEF f
<1>3. PICK g : IsFold(g, n, StrengthValues, HighZ, f)
  BY <1>1, <1>2, FoldExists
<1>4. ASSUME NEW s \in SUBSET (1..n), s # {}
      PROVE  f[<<g[s \ {Max(s)}], Max(s)>>]
               = ResolveStrength(g[s \ {Max(s)}], StrengthValue(ds[Max(s)]))
  <2>1. Max(s) \in 1..n /\ s \ {Max(s)} \in SUBSET (1..n)
    BY <1>1, <1>4, SegmentMax
  <2>2. g[s \ {Max(s)}] \in StrengthValues
    BY <1>3, <2>1 DEF IsFold
  <2>. QED BY <2>1, <2>2 DEF f, WireStepOf
<1>5. g = Body(g)
  BY <1>3, <1>4 DEF IsFold
<1> DEFINE c == CHOOSE h : h = Body(h)
<1>6. c = Body(c)
  BY <1>5
<1>7. WireOf(ds) = c[1..n]
  BY <1>1 DEF WireOf, FoldLeft, MapThenFoldSet
<1> HIDE DEF c, n
<1>8. StepAlike(c, g, n)
  BY <1>5, <1>6 DEF StepAlike
<1>9. c[1..n] = g[1..n]
  BY <1>1, <1>8, FoldUnique
<1>. QED BY <1>3, <1>7, <1>9 DEF f, n

\* What one more driver does to a wire.
LEMMA WireFold ==
  ASSUME NEW ds \in Seq(Driver), NEW d \in Driver
  PROVE  /\ WireOf(<<>>) = HighZ
         /\ WireOf(ds) \in StrengthValues
         /\ WireOf(Append(ds, d))
              = ResolveStrength(WireOf(ds), StrengthValue(d))
<1> DEFINE n == Len(ds)
           more == Append(ds, d)
           f == WireStepOf(more)
           e == WireStepOf(ds)
<1>1. n \in Nat /\ more \in Seq(Driver) /\ Len(more) = n + 1 /\ more[n + 1] = d
  OBVIOUS
<1>2. \A i \in 1..n : more[i] = ds[i]
  OBVIOUS
<1>3. PICK h : IsFold(h, n, StrengthValues, HighZ, e) /\ WireOf(ds) = h[1..n]
  BY WireIsFold
<1>4. PICK g : /\ IsFold(g, Len(more), StrengthValues, HighZ, f)
               /\ WireOf(more) = g[1..Len(more)]
  BY <1>1, WireIsFold
<1>5. h[1..n] \in StrengthValues
  BY <1>3 DEF IsFold
<1>6. SameSteps(f, e, n, StrengthValues)
  BY <1>1, <1>2 DEF WireStepOf, SameSteps
<1>7. f[<<h[1..n], n + 1>>] = ResolveStrength(h[1..n], StrengthValue(d))
  BY <1>1, <1>5 DEF WireStepOf
<1> HIDE DEF n, more, f, e
<1>8. WireOf(more) = ResolveStrength(WireOf(ds), StrengthValue(d))
  BY <1>1, <1>3, <1>4, <1>6, <1>7, FoldLast
<1>9. WireOf(<<>>) = HighZ
  <2>1. <<>> \in Seq(Driver) /\ Len(<<>>) = 0 /\ 1..0 = {}
    OBVIOUS
  <2>2. PICK k : /\ IsFold(k, Len(<<>>), StrengthValues, HighZ, WireStepOf(<<>>))
                 /\ WireOf(<<>>) = k[1..Len(<<>>)]
    BY <2>1, WireIsFold
  <2>. QED BY <2>1, <2>2 DEF IsFold
<1>. QED BY <1>3, <1>5, <1>8, <1>9 DEF more

-----------------------------------------------------------------------------
(* The drivers that drive something *)

Kept(on, d) == IF d.bit = "z" THEN on ELSE Append(on, d)

DrivingStepOf(ds) == [a \in Seq(Driver) \X (1..Len(ds)) |-> Kept(a[1], ds[a[2]])]

\* The selection as a fold.
LEMMA DrivingIsFold ==
  ASSUME NEW ds \in Seq(Driver)
  PROVE  \E g : /\ IsFold(g, Len(ds), Seq(Driver), <<>>, DrivingStepOf(ds))
                /\ Driving(ds) = g[1..Len(ds)]
<1> DEFINE n == Len(ds)
           f == DrivingStepOf(ds)
           Body(c) == [s \in SUBSET (1..n) |->
                         IF s = {} THEN <<>>
                         ELSE Kept(c[s \ {Max(s)}], ds[Max(s)])]
<1>1. n \in Nat /\ DOMAIN ds = 1..n /\ <<>> \in Seq(Driver)
  OBVIOUS
<1>2. f \in [Seq(Driver) \X (1..n) -> Seq(Driver)]
  <2>1. ASSUME NEW a \in Seq(Driver) \X (1..n)
        PROVE  Kept(a[1], ds[a[2]]) \in Seq(Driver)
    <3>1. a[1] \in Seq(Driver) /\ ds[a[2]] \in Driver
      BY <1>1
    <3>. QED BY <3>1 DEF Kept
  <2>. QED BY <2>1 DEF DrivingStepOf
<1> HIDE DEF f
<1>3. PICK g : IsFold(g, n, Seq(Driver), <<>>, f)
  BY <1>1, <1>2, FoldExists
<1>4. ASSUME NEW s \in SUBSET (1..n), s # {}
      PROVE  f[<<g[s \ {Max(s)}], Max(s)>>]
               = Kept(g[s \ {Max(s)}], ds[Max(s)])
  <2>1. Max(s) \in 1..n /\ s \ {Max(s)} \in SUBSET (1..n)
    BY <1>1, <1>4, SegmentMax
  <2>2. g[s \ {Max(s)}] \in Seq(Driver)
    BY <1>3, <2>1 DEF IsFold
  <2>. QED BY <2>1, <2>2 DEF f, DrivingStepOf
<1>5. g = Body(g)
  BY <1>3, <1>4 DEF IsFold
<1> DEFINE c == CHOOSE h : h = Body(h)
<1>6. c = Body(c)
  BY <1>5
<1>7. Driving(ds) = c[1..n]
  BY <1>1 DEF Driving, Kept, FoldLeft, MapThenFoldSet
<1> HIDE DEF c, n
<1>8. StepAlike(c, g, n)
  BY <1>5, <1>6 DEF StepAlike
<1>9. c[1..n] = g[1..n]
  BY <1>1, <1>8, FoldUnique
<1>. QED BY <1>3, <1>7, <1>9 DEF f, n

\* What one more driver does to the selection.
LEMMA DrivingFold ==
  ASSUME NEW ds \in Seq(Driver), NEW d \in Driver
  PROVE  /\ Driving(<<>>) = <<>>
         /\ Driving(ds) \in Seq(Driver)
         /\ Driving(Append(ds, d))
              = Kept(Driving(ds), d)
<1> DEFINE n == Len(ds)
           more == Append(ds, d)
           f == DrivingStepOf(more)
           e == DrivingStepOf(ds)
<1>1. n \in Nat /\ more \in Seq(Driver) /\ Len(more) = n + 1 /\ more[n + 1] = d
  OBVIOUS
<1>2. \A i \in 1..n : more[i] = ds[i]
  OBVIOUS
<1>3. PICK h : IsFold(h, n, Seq(Driver), <<>>, e) /\ Driving(ds) = h[1..n]
  BY DrivingIsFold
<1>4. PICK g : /\ IsFold(g, Len(more), Seq(Driver), <<>>, f)
               /\ Driving(more) = g[1..Len(more)]
  BY <1>1, DrivingIsFold
<1>5. h[1..n] \in Seq(Driver)
  BY <1>3 DEF IsFold
<1>6. SameSteps(f, e, n, Seq(Driver))
  BY <1>1, <1>2 DEF DrivingStepOf, SameSteps
<1>7. f[<<h[1..n], n + 1>>] = Kept(h[1..n], d)
  BY <1>1, <1>5 DEF DrivingStepOf
<1> HIDE DEF n, more, f, e
<1>8. Driving(more) = Kept(Driving(ds), d)
  BY <1>1, <1>3, <1>4, <1>6, <1>7, FoldLast
<1>9. Driving(<<>>) = <<>>
  <2>1. <<>> \in Seq(Driver) /\ Len(<<>>) = 0 /\ 1..0 = {}
    OBVIOUS
  <2>2. PICK k : /\ IsFold(k, Len(<<>>), Seq(Driver), <<>>, DrivingStepOf(<<>>))
                 /\ Driving(<<>>) = k[1..Len(<<>>)]
    BY <2>1, DrivingIsFold
  <2>. QED BY <2>1, <2>2 DEF IsFold
<1>. QED BY <1>3, <1>5, <1>8, <1>9 DEF more

\* A driver that drives nothing.
LEMMA ResolveNothing ==
  ASSUME NEW s
  PROVE  /\ IsHighZ(HighZ)
         /\ IsHighZ(s) => ResolveStrength(s, HighZ) = HighZ
         /\ ~IsHighZ(s) => ResolveStrength(s, HighZ) = s
<1>1. IsHighZ(HighZ)
  BY DEF IsHighZ, HighZ, Interval, Point
<1>2. IsHighZ(s) => ResolveStrength(s, HighZ) = HighZ
  BY Zenon DEF ResolveStrength
<1>3. ~IsHighZ(s) => ResolveStrength(s, HighZ) = s
  BY <1>1, Zenon DEF ResolveStrength
<1>. QED BY <1>1, <1>2, <1>3

\* resolve_drivers on what is driven, for the three loops.
LEMMA DrivingDecides ==
  ASSUME NEW ds \in Seq(Driver)
  PROVE  /\ Driving(ds) \in Seq(Driver)
         /\ BitOf(WireOf(Driving(ds))) = BitOf(WireOf(ds))
         /\ WiredOf(Driving(ds), "0", "1") = WiredOf(ds, "0", "1")
         /\ WiredOf(Driving(ds), "1", "0") = WiredOf(ds, "1", "0")
<1> DEFINE P(q) == /\ Driving(q) \in Seq(Driver)
                   /\ \/ WireOf(Driving(q)) = WireOf(q)
                      \/ IsHighZ(WireOf(Driving(q))) /\ IsHighZ(WireOf(q))
                   /\ WiredOf(Driving(q), "0", "1") = WiredOf(q, "0", "1")
                   /\ WiredOf(Driving(q), "1", "0") = WiredOf(q, "1", "0")
           T == {q \in Seq(Driver) : P(q)}
<1>1. "0" \in Bit4 /\ "1" \in Bit4 /\ <<>> \in Seq(Driver)
  BY DEF Bit4
<1>2. <<>> \in T
  <2>1. [bit |-> "z", zero |-> 6, one |-> 6] \in Driver
    BY DEF Driver, Bit4, Level
  <2>2. Driving(<<>>) = <<>>
    BY <1>1, <2>1, DrivingFold
  <2>. QED BY <1>1, <2>2
<1>3. ASSUME NEW q \in Seq(Driver), P(q), NEW d \in Driver PROVE P(Append(q, d))
  <2> DEFINE on == Driving(q)
             more == Append(q, d)
  <2>1. on \in Seq(Driver) /\ more \in Seq(Driver)
    BY <1>3
  <2>2. Driving(more) = Kept(on, d)
    BY DrivingFold
  <2>3. /\ WireOf(more) = ResolveStrength(WireOf(q), StrengthValue(d))
        /\ WiredOf(more, "0", "1") = WiredStep(WiredOf(q, "0", "1"), d.bit, "0", "1")
        /\ WiredOf(more, "1", "0") = WiredStep(WiredOf(q, "1", "0"), d.bit, "1", "0")
    BY <1>1, WireFold, WiredFold
  <2>4. CASE d.bit = "z"
    <3>1. Driving(more) = on
      BY <2>2, <2>4 DEF Kept
    <3>2. StrengthValue(d) = HighZ
      BY <2>4 DEF StrengthValue
    <3>3. WireOf(more) = WireOf(q) \/ (IsHighZ(WireOf(q)) /\ IsHighZ(WireOf(more)))
      <4>1. WireOf(more) = ResolveStrength(WireOf(q), HighZ)
        BY <2>3, <3>2
      <4>2. CASE IsHighZ(WireOf(q))
        BY <4>1, <4>2, ResolveNothing
      <4>3. CASE ~IsHighZ(WireOf(q))
        BY <4>1, <4>3, ResolveNothing
      <4>. QED BY <4>2, <4>3
    <3>4. /\ WiredOf(more, "0", "1") = WiredOf(q, "0", "1")
          /\ WiredOf(more, "1", "0") = WiredOf(q, "1", "0")
      BY <2>3, <2>4 DEF WiredStep
    <3>5. /\ on \in Seq(Driver)
          /\ WireOf(on) = WireOf(q) \/ (IsHighZ(WireOf(on)) /\ IsHighZ(WireOf(q)))
          /\ WiredOf(on, "0", "1") = WiredOf(q, "0", "1")
          /\ WiredOf(on, "1", "0") = WiredOf(q, "1", "0")
      BY <1>3
    <3> HIDE DEF on, more
    <3>6. \/ WireOf(Driving(more)) = WireOf(more)
          \/ IsHighZ(WireOf(Driving(more))) /\ IsHighZ(WireOf(more))
      BY <3>1, <3>3, <3>5
    <3>7. P(more)
      BY <3>1, <3>4, <3>5, <3>6
    <3>. QED BY <3>7 DEF more
  <2>5. CASE d.bit # "z"
    <3>1. Driving(more) = Append(on, d) /\ Append(on, d) \in Seq(Driver)
      BY <2>1, <2>2, <2>5 DEF Kept
    <3>2. /\ WireOf(Append(on, d)) = ResolveStrength(WireOf(on), StrengthValue(d))
          /\ WiredOf(Append(on, d), "0", "1") = WiredStep(WiredOf(on, "0", "1"), d.bit, "0", "1")
          /\ WiredOf(Append(on, d), "1", "0") = WiredStep(WiredOf(on, "1", "0"), d.bit, "1", "0")
      BY <1>1, <2>1, WireFold, WiredFold
    <3>3. WireOf(Append(on, d)) = WireOf(more)
      BY <1>3, <2>3, <3>2 DEF ResolveStrength
    <3>4. /\ WiredOf(Append(on, d), "0", "1") = WiredOf(more, "0", "1")
          /\ WiredOf(Append(on, d), "1", "0") = WiredOf(more, "1", "0")
      BY <1>3, <2>3, <3>2
    <3> HIDE DEF on, more
    <3>5. P(more)
      BY <3>1, <3>3, <3>4
    <3>. QED BY <3>5 DEF more
  <2>. QED BY <2>4, <2>5
<1> HIDE DEF P
<1>4. \A q \in Seq(Driver), d \in Driver : q \in T => Append(q, d) \in T
  BY <1>3
<1> HIDE DEF T
<1>5. ds \in T
  BY <1>2, <1>4, SequenceInduction
<1>6. P(ds)
  BY <1>5 DEF T
<1>. QED BY <1>6 DEF P, BitOf

-----------------------------------------------------------------------------
(* The strongest driver *)

Known(one, level) == Interval(Point(one, level), Point(one, level))
Unknown(level) == Interval(Point(FALSE, level), Point(TRUE, level))

\* Every strength of the interval is below level.
Below(s, level) == s.toward_zero.strength < level /\ s.toward_one.strength < level

\* What resolves below a level stays below it.
LEMMA BelowResolved ==
  ASSUME NEW s \in StrengthValues, NEW o \in StrengthValues, NEW level \in 1..7,
         Below(s, level), Below(o, level)
  PROVE  Below(ResolveStrength(s, o), level)
<1>1. Below(ResolveKnown(s, o), level)
  BY DEF ResolveKnown, Interval, Below, StrengthValues, Points, Level
<1>2. Below(ResolveMixed(s, o), level) /\ Below(ResolveMixed(o, s), level)
  BY DEF ResolveMixed, Stronger, Interval, Below
<1>3. Below(ResolveAmbiguous(s, o), level)
  <2> DEFINE I == (1 - level)..(level - 1)
  <2>1. ASSUME NEW p \in Points, p.strength < level PROVE Coordinate(p) \in I
    BY <2>1 DEF Points, Coordinate, Level
  <2>2. ASSUME NEW a \in I, NEW b \in I PROVE Least(a, b) \in I /\ Most(a, b) \in I
    BY DEF Least, Most
  <2>3. ASSUME NEW c \in I PROVE FromCoordinate(c).strength < level
    BY DEF FromCoordinate, Point
  <2>4. /\ Coordinate(s.toward_zero) \in I /\ Coordinate(s.toward_one) \in I
        /\ Coordinate(o.toward_zero) \in I /\ Coordinate(o.toward_one) \in I
    BY <2>1 DEF StrengthValues, Below
  <2> HIDE DEF I
  <2>. QED BY <2>2, <2>3, <2>4 DEF ResolveAmbiguous, Interval, Below
<1>. QED BY <1>1, <1>2, <1>3 DEF ResolveStrength

\* A known value above everything else prevails, first or second.
LEMMA KnownPrevails ==
  ASSUME NEW s \in StrengthValues, NEW level \in 1..7, NEW one \in BOOLEAN, Below(s, level)
  PROVE  /\ ResolveStrength(s, Known(one, level)) = Known(one, level)
         /\ ResolveStrength(Known(one, level), s) = Known(one, level)
<1> DEFINE k == Known(one, level)
<1>1. /\ k \in StrengthValues /\ ~IsHighZ(k) /\ IsUnambiguous(k) /\ k # s
      /\ k.toward_zero = Point(one, level) /\ k.toward_one = Point(one, level)
      /\ Point(one, level).strength = level
  BY DEF Known, Interval, Point, IsHighZ, IsUnambiguous, StrengthValues, Points, Level, Below
<1>2. s.toward_zero.strength \in Int /\ s.toward_one.strength \in Int
  BY DEF StrengthValues, Points, Level
<1>3. k = Interval(Point(one, level), Point(one, level))
  BY DEF Known
<1> HIDE DEF k
<1>4. ResolveKnown(s, k) = k /\ ResolveKnown(k, s) = k
  BY <1>1, <1>2 DEF ResolveKnown, Below
<1>5. ResolveMixed(k, s) = k
  BY <1>1, <1>2, <1>3 DEF ResolveMixed, Stronger, Below
<1>6. ResolveStrength(s, k) = k
  BY <1>1, <1>4, <1>5 DEF ResolveStrength
<1>7. ResolveStrength(k, s) = k
  BY <1>1, <1>4, <1>5 DEF ResolveStrength
<1>. QED BY <1>6, <1>7 DEF k

\* A driver contributes no more than its contribution; a driven 0 or 1 just that.
LEMMA ContributionBound ==
  ASSUME NEW d \in Driver, NEW level \in 1..7
  PROVE  /\ Contribution(d) \in Level
         /\ Contribution(d) < level => Below(StrengthValue(d), level)
         /\ d.bit = "0" /\ Contribution(d) = level => StrengthValue(d) = Known(FALSE, level)
         /\ d.bit = "1" /\ Contribution(d) = level => StrengthValue(d) = Known(TRUE, level)
<1>1. d.zero \in 0..7 /\ d.one \in 0..7 /\ d.bit \in {"0", "1", "x", "z"}
  BY DEF Driver, Level, Bit4
<1>2. CASE d.bit = "0"
  BY <1>1, <1>2 DEF Contribution, StrengthValue, Below, Known, HighZ, Interval, Point, Level
<1>3. CASE d.bit = "1"
  <2>1. Contribution(d) = d.one
    BY <1>3 DEF Contribution
  <2>2. \/ d.one = 0 /\ StrengthValue(d) = HighZ
        \/ StrengthValue(d) = Known(TRUE, d.one)
    BY <1>3 DEF StrengthValue, Known
  <2>. QED BY <1>1, <1>3, <2>1, <2>2 DEF Below, Known, HighZ, Interval, Point, Level
<1>4. CASE d.bit = "x"
  BY <1>1, <1>4 DEF Contribution, Most, StrengthValue, Below, HighZ, Interval, Point, Level
<1>5. CASE d.bit = "z"
  BY <1>1, <1>5 DEF Contribution, StrengthValue, Below, HighZ, Interval, Point, Level
<1>. QED BY <1>1, <1>2, <1>3, <1>4, <1>5

\* The strongest contributor of a list, if it alone is that strong and drives
\* 0 or 1, is what the loop ends with.
LEMMA StrongestPrevails ==
  ASSUME NEW level \in 1..7
  PROVE  \A ds \in Seq(Driver) :
           /\ (\A i \in DOMAIN ds : Contribution(ds[i]) < level) => Below(WireOf(ds), level)
           /\ \A i \in DOMAIN ds :
                /\ ds[i].bit \in {"0", "1"} /\ Contribution(ds[i]) = level
                /\ \A j \in DOMAIN ds \ {i} : Contribution(ds[j]) < level
                => WireOf(ds) = Known(ds[i].bit = "1", level)
<1> DEFINE Weak(q) == \A i \in DOMAIN q : Contribution(q[i]) < level
           Only(q, i) == /\ q[i].bit \in {"0", "1"} /\ Contribution(q[i]) = level
                         /\ \A j \in DOMAIN q \ {i} : Contribution(q[j]) < level
           P(q) == /\ Weak(q) => Below(WireOf(q), level)
                   /\ \A i \in DOMAIN q : Only(q, i) => WireOf(q) = Known(q[i].bit = "1", level)
           T == {q \in Seq(Driver) : P(q)}
<1>1. <<>> \in T
  <2>1. [bit |-> "z", zero |-> 6, one |-> 6] \in Driver
    BY DEF Driver, Bit4, Level
  <2>2. <<>> \in Seq(Driver) /\ DOMAIN <<>> = {}
    OBVIOUS
  <2>3. WireOf(<<>>) = HighZ
    BY <2>1, <2>2, WireFold
  <2>4. Below(HighZ, level)
    BY DEF Below, HighZ, Interval, Point
  <2>. QED BY <2>2, <2>3, <2>4
<1>2. ASSUME NEW q \in Seq(Driver), P(q), NEW d \in Driver PROVE P(Append(q, d))
  <2> DEFINE more == Append(q, d)
             n == Len(q)
  <2>1. WireOf(more) = ResolveStrength(WireOf(q), StrengthValue(d)) /\ WireOf(q) \in StrengthValues
    BY WireFold
  <2>2. /\ DOMAIN more = 1..(n + 1) /\ DOMAIN q = 1..n /\ n \in Nat /\ more[n + 1] = d
        /\ \A i \in 1..n : more[i] = q[i]
    OBVIOUS
  <2>3. StrengthValue(d) \in StrengthValues
    BY ValueType
  <2> HIDE DEF more, n
  <2>4. ASSUME Weak(more) PROVE Below(WireOf(more), level)
    <3>1. Weak(q) /\ Contribution(d) < level
      BY <2>2, <2>4
    <3>2. Below(WireOf(q), level) /\ Below(StrengthValue(d), level)
      BY <1>2, <3>1, ContributionBound
    <3>. QED BY <2>1, <2>3, <3>2, BelowResolved
  <2>5. ASSUME NEW i \in DOMAIN more, Only(more, i)
        PROVE  WireOf(more) = Known(more[i].bit = "1", level)
    <3>1. CASE i = n + 1
      <4>1. Weak(q) /\ d.bit \in {"0", "1"} /\ Contribution(d) = level
        BY <2>2, <2>5, <3>1
      <4>2. Below(WireOf(q), level)
        BY <1>2, <4>1
      <4>3. StrengthValue(d) = Known(d.bit = "1", level)
        <5>1. CASE d.bit = "0"
          BY <4>1, <5>1, ContributionBound DEF Known, Interval, Point
        <5>2. CASE d.bit = "1"
          BY <4>1, <5>2, ContributionBound DEF Known, Interval, Point
        <5>. QED BY <4>1, <5>1, <5>2
      <4>. QED BY <2>1, <2>2, <3>1, <4>2, <4>3, KnownPrevails
    <3>2. CASE i \in 1..n
      <4>1. Only(q, i) /\ Contribution(d) < level /\ more[i] = q[i]
        BY <2>2, <2>5, <3>2
      <4>2. WireOf(q) = Known(q[i].bit = "1", level)
        BY <1>2, <2>2, <3>2, <4>1
      <4>3. Below(StrengthValue(d), level)
        BY <4>1, ContributionBound
      <4>. QED BY <2>1, <2>3, <4>1, <4>2, <4>3, KnownPrevails
    <3>. QED BY <2>2, <3>1, <3>2
  <2>6. P(more)
    BY <2>4, <2>5
  <2>. QED BY <2>6 DEF more
<1> HIDE DEF P
<1>3. \A q \in Seq(Driver), d \in Driver : q \in T => Append(q, d) \in T
  BY <1>2
<1> HIDE DEF T
<1>4. \A q \in Seq(Driver) : q \in T
  BY <1>1, <1>3, SequenceInduction
<1>. QED BY <1>4 DEF T, P

-----------------------------------------------------------------------------
(* Drivers with one strength for both values *)

\* The parts of these values.
LEMMA LevelParts ==
  ASSUME NEW l \in 1..7, NEW a \in BOOLEAN
  PROVE  /\ Point(a, l).strength = l /\ Point(a, l).one = a
         /\ Known(a, l).toward_zero = Point(a, l) /\ Known(a, l).toward_one = Point(a, l)
         /\ Unknown(l).toward_zero = Point(FALSE, l) /\ Unknown(l).toward_one = Point(TRUE, l)
         /\ ~IsHighZ(Known(a, l)) /\ IsUnambiguous(Known(a, l))
         /\ ~IsHighZ(Unknown(l)) /\ ~IsUnambiguous(Unknown(l))
<1>1. Point(a, l).strength = l /\ Point(a, l).one = a
  BY DEF Point
<1>2. Point(FALSE, l) # Point(TRUE, l) /\ Point(FALSE, l).strength = l /\ Point(TRUE, l).strength = l
  <2>1. Point(FALSE, l).one = FALSE /\ Point(TRUE, l).one = TRUE
    BY DEF Point
  <2>2. Point(FALSE, l).strength = l /\ Point(TRUE, l).strength = l
    BY DEF Point
  <2>. QED BY <2>1, <2>2, Zenon
<1>3. /\ Known(a, l).toward_zero = Point(a, l) /\ Known(a, l).toward_one = Point(a, l)
      /\ Unknown(l).toward_zero = Point(FALSE, l) /\ Unknown(l).toward_one = Point(TRUE, l)
  BY DEF Known, Unknown, Interval
<1>4. l # 0
  OBVIOUS
<1>5. ~IsHighZ(Known(a, l)) /\ ~IsHighZ(Unknown(l))
  BY <1>1, <1>2, <1>3, <1>4 DEF IsHighZ
<1>6. IsUnambiguous(Known(a, l)) /\ ~IsUnambiguous(Unknown(l))
  BY <1>2, <1>3, Zenon DEF IsUnambiguous
<1>. QED BY <1>1, <1>3, <1>5, <1>6

\* Equal strengths, or one of them greater.
LEMMA KnownLevels ==
  ASSUME NEW l \in 1..7, NEW m \in 1..7, NEW a \in BOOLEAN, NEW b \in BOOLEAN
  PROVE  /\ m < l => ResolveStrength(Known(a, l), Known(b, m)) = Known(a, l)
         /\ m > l => ResolveStrength(Known(a, l), Known(b, m)) = Known(b, m)
         /\ m = l => ResolveStrength(Known(a, l), Known(b, m))
                       = IF a = b THEN Known(a, l) ELSE Unknown(l)
<1> DEFINE s == Known(a, l)
           o == Known(b, m)
<1>1. /\ ~IsHighZ(s) /\ ~IsHighZ(o) /\ IsUnambiguous(s) /\ IsUnambiguous(o)
      /\ s.toward_zero = Point(a, l) /\ s.toward_one = Point(a, l)
      /\ o.toward_zero = Point(b, m) /\ o.toward_one = Point(b, m)
      /\ Point(a, l).strength = l /\ Point(b, m).strength = m
      /\ Point(a, l).one = a /\ Point(b, m).one = b
  BY LevelParts
<1> HIDE DEF s, o
<1>2. ResolveStrength(s, o) = IF s = o THEN s ELSE ResolveKnown(s, o)
  BY <1>1 DEF ResolveStrength
<1>3. CASE m # l
  BY <1>1, <1>2, <1>3 DEF ResolveKnown, s, o
<1>4. CASE m = l /\ a = b
  BY <1>2, <1>4 DEF s, o
<1>5. CASE m = l /\ a # b
  <2>1. s # o
    BY <1>1, <1>5
  <2>2. ResolveKnown(s, o) = IF a THEN Interval(Point(b, m), Point(a, l))
                             ELSE Interval(Point(a, l), Point(b, m))
    BY <1>1, <1>5 DEF ResolveKnown
  <2>3. ResolveKnown(s, o) = Unknown(l)
    <3>1. CASE a
      <4>1. a = TRUE /\ b = FALSE
        BY <1>5, <3>1, Zenon
      <4>. QED BY <1>5, <2>2, <4>1, Zenon DEF Unknown
    <3>2. CASE ~a
      <4>1. a = FALSE /\ b = TRUE
        BY <1>5, <3>2, Zenon
      <4>. QED BY <1>5, <2>2, <4>1, Zenon DEF Unknown
    <3>. QED BY <3>1, <3>2
  <2>4. ResolveStrength(s, o) = Unknown(l)
    BY <1>2, <2>1, <2>3, Zenon
  <2>. QED BY <1>5, <2>4 DEF s, o
<1>. QED BY <1>3, <1>4, <1>5 DEF s, o

\* A 0 or 1 and an X, whichever comes first.
LEMMA MixedLevels ==
  ASSUME NEW l \in 1..7, NEW m \in 1..7, NEW a \in BOOLEAN
  PROVE  /\ ResolveStrength(Known(a, l), Unknown(m)) = IF m < l THEN Known(a, l) ELSE Unknown(m)
         /\ ResolveStrength(Unknown(m), Known(a, l)) = IF m < l THEN Known(a, l) ELSE Unknown(m)
<1> DEFINE s == Known(a, l)
           o == Unknown(m)
<1>1. /\ ~IsHighZ(s) /\ ~IsHighZ(o) /\ IsUnambiguous(s) /\ ~IsUnambiguous(o)
      /\ s.toward_zero = Point(a, l) /\ s.toward_one = Point(a, l)
      /\ o.toward_zero = Point(FALSE, m) /\ o.toward_one = Point(TRUE, m)
      /\ Point(a, l).strength = l /\ Point(FALSE, m).strength = m /\ Point(TRUE, m).strength = m
  BY LevelParts
<1>2. ResolveMixed(s, o) = IF m < l THEN s ELSE o
  <2> HIDE DEF s, o
  <2>1. CASE m < l
    BY <1>1, <2>1 DEF ResolveMixed, Stronger, s, Known
  <2>2. CASE ~(m < l)
    BY <1>1, <2>2 DEF ResolveMixed, Stronger, o, Unknown
  <2>. QED BY <2>1, <2>2
<1> HIDE DEF s, o
<1>3. s # o
  BY <1>1
<1>4. ResolveStrength(s, o) = ResolveMixed(s, o) /\ ResolveStrength(o, s) = ResolveMixed(s, o)
  BY <1>1, <1>3 DEF ResolveStrength
<1>. QED BY <1>2, <1>4 DEF s, o

\* Two X.
LEMMA UnknownLevels ==
  ASSUME NEW l \in 1..7, NEW m \in 1..7
  PROVE  ResolveStrength(Unknown(l), Unknown(m)) = IF m < l THEN Unknown(l) ELSE Unknown(m)
<1> DEFINE s == Unknown(l)
           o == Unknown(m)
<1>1. /\ ~IsHighZ(s) /\ ~IsHighZ(o) /\ ~IsUnambiguous(s) /\ ~IsUnambiguous(o)
      /\ s.toward_zero = Point(FALSE, l) /\ s.toward_one = Point(TRUE, l)
      /\ o.toward_zero = Point(FALSE, m) /\ o.toward_one = Point(TRUE, m)
  BY LevelParts
<1>2. ASSUME NEW k \in 1..7
      PROVE  /\ Coordinate(Point(FALSE, k)) = -k /\ Coordinate(Point(TRUE, k)) = k
             /\ FromCoordinate(-k) = Point(FALSE, k) /\ FromCoordinate(k) = Point(TRUE, k)
  <2>1. Coordinate(Point(FALSE, k)) = -k /\ Coordinate(Point(TRUE, k)) = k
    BY DEF Coordinate, Point
  <2>2. (-k > 0) = FALSE /\ (k > 0) = TRUE /\ -k < 0 /\ ~(k < 0) /\ -(-k) = k
    OBVIOUS
  <2>. QED BY <2>1, <2>2 DEF FromCoordinate
<1>3. /\ Least(-l, l) = -l /\ Most(-l, l) = l /\ Least(-m, m) = -m /\ Most(-m, m) = m
      /\ Least(-l, -m) = IF m < l THEN -l ELSE -m
      /\ Most(l, m) = IF m < l THEN l ELSE m
  BY DEF Least, Most
<1> HIDE DEF s, o
<1>4. ResolveAmbiguous(s, o)
        = Interval(FromCoordinate(Least(-l, -m)), FromCoordinate(Most(l, m)))
  BY <1>1, <1>2, <1>3 DEF ResolveAmbiguous
<1>5. ResolveAmbiguous(s, o) = IF m < l THEN s ELSE o
  BY <1>2, <1>3, <1>4 DEF s, o, Unknown
<1>6. ResolveStrength(s, o) = IF s = o THEN s ELSE ResolveAmbiguous(s, o)
  BY <1>1 DEF ResolveStrength
<1>. QED BY <1>5, <1>6 DEF s, o

\* What such a driver contributes.
LEMMA ContributionLevel ==
  ASSUME NEW d \in Driver, d.zero = d.one
  PROVE  /\ Contribution(d) \in Level
         /\ Contribution(d) = 0 => StrengthValue(d) = HighZ
         /\ Contribution(d) # 0 =>
              /\ d.bit \in {"0", "1", "x"}
              /\ StrengthValue(d) = IF d.bit = "x" THEN Unknown(Contribution(d))
                                    ELSE Known(d.bit = "1", Contribution(d))
<1>1. d.zero \in 0..7 /\ d.one \in 0..7 /\ d.bit \in {"0", "1", "x", "z"}
  BY DEF Driver, Level, Bit4
<1>2. CASE d.bit = "0"
  BY <1>1, <1>2 DEF Contribution, StrengthValue, Known, HighZ, Interval, Point, Level
<1>3. CASE d.bit = "1"
  BY <1>1, <1>3 DEF Contribution, StrengthValue, Known, HighZ, Interval, Point, Level
<1>4. CASE d.bit = "x"
  BY <1>1, <1>4 DEF Contribution, Most, StrengthValue, Unknown, HighZ, Interval, Point, Level
<1>5. CASE d.bit = "z"
  BY <1>1, <1>5 DEF Contribution, StrengthValue, HighZ, Level
<1>. QED BY <1>1, <1>2, <1>3, <1>4, <1>5

\* The values of such drivers at one level.
AtLevel(level) == {Known(FALSE, level), Known(TRUE, level), Unknown(level)}

\* The stronger of two values prevails.
LEMMA OtherLevels ==
  ASSUME NEW l \in 1..7, NEW m \in 1..7, NEW s \in AtLevel(l), NEW o \in AtLevel(m)
  PROVE  /\ m < l => ResolveStrength(s, o) = s
         /\ m > l => ResolveStrength(s, o) = o
<1>1. ASSUME NEW a \in BOOLEAN, NEW b \in BOOLEAN, s = Known(a, l), o = Known(b, m)
      PROVE  (m < l => ResolveStrength(s, o) = s) /\ (m > l => ResolveStrength(s, o) = o)
  BY <1>1, KnownLevels
<1>2. ASSUME NEW a \in BOOLEAN, s = Known(a, l), o = Unknown(m)
      PROVE  (m < l => ResolveStrength(s, o) = s) /\ (m > l => ResolveStrength(s, o) = o)
  BY <1>2, MixedLevels
<1>3. ASSUME NEW b \in BOOLEAN, s = Unknown(l), o = Known(b, m)
      PROVE  (m < l => ResolveStrength(s, o) = s) /\ (m > l => ResolveStrength(s, o) = o)
  BY <1>3, MixedLevels
<1>4. ASSUME s = Unknown(l), o = Unknown(m)
      PROVE  (m < l => ResolveStrength(s, o) = s) /\ (m > l => ResolveStrength(s, o) = o)
  BY <1>4, UnknownLevels
<1>5. TRUE \in BOOLEAN /\ FALSE \in BOOLEAN
  OBVIOUS
<1>6. CASE s = Unknown(l)
  BY <1>3, <1>4, <1>5, <1>6, Zenon DEF AtLevel
<1>7. CASE s = Known(FALSE, l)
  BY <1>1, <1>2, <1>5, <1>7, Zenon DEF AtLevel
<1>8. CASE s = Known(TRUE, l)
  BY <1>1, <1>2, <1>5, <1>8, Zenon DEF AtLevel
<1>. QED BY <1>6, <1>7, <1>8 DEF AtLevel

\* Equally strong values that differ, or X, make X.
LEMMA EqualLevels ==
  ASSUME NEW level \in 1..7
  PROVE  /\ ResolveStrength(Known(FALSE, level), Known(FALSE, level)) = Known(FALSE, level)
         /\ ResolveStrength(Known(TRUE, level), Known(TRUE, level)) = Known(TRUE, level)
         /\ ResolveStrength(Known(FALSE, level), Known(TRUE, level)) = Unknown(level)
         /\ ResolveStrength(Known(TRUE, level), Known(FALSE, level)) = Unknown(level)
         /\ ResolveStrength(Known(FALSE, level), Unknown(level)) = Unknown(level)
         /\ ResolveStrength(Known(TRUE, level), Unknown(level)) = Unknown(level)
         /\ ResolveStrength(Unknown(level), Known(FALSE, level)) = Unknown(level)
         /\ ResolveStrength(Unknown(level), Known(TRUE, level)) = Unknown(level)
         /\ ResolveStrength(Unknown(level), Unknown(level)) = Unknown(level)
<1>1. /\ FALSE \in BOOLEAN /\ TRUE \in BOOLEAN /\ FALSE # TRUE /\ level = level /\ ~(level < level)
  OBVIOUS
<1>2. ASSUME NEW a \in BOOLEAN
      PROVE  /\ ResolveStrength(Known(a, level), Known(a, level)) = Known(a, level)
             /\ ResolveStrength(Known(a, level), Unknown(level)) = Unknown(level)
             /\ ResolveStrength(Unknown(level), Known(a, level)) = Unknown(level)
  BY KnownLevels, MixedLevels
<1>3. ASSUME NEW a \in BOOLEAN, NEW b \in BOOLEAN, a # b
      PROVE  ResolveStrength(Known(a, level), Known(b, level)) = Unknown(level)
  BY <1>3, KnownLevels
<1>4. ResolveStrength(Unknown(level), Unknown(level)) = Unknown(level)
  BY UnknownLevels
<1>. QED BY <1>1, <1>2, <1>3, <1>4, Zenon

Symmetric(ds) == \A i \in DOMAIN ds : ds[i].zero = ds[i].one

\* A driver of the list contributes bit at this level.
At(ds, level, bit) == \E i \in DOMAIN ds : Contribution(ds[i]) = level /\ ds[i].bit = bit

\* v stands for the contributions of the list at level, and none is stronger.
TopIs(ds, v, level) ==
  /\ \A i \in DOMAIN ds : Contribution(ds[i]) <= level
  /\ \/ v = Known(FALSE, level) /\ At(ds, level, "0") /\ ~At(ds, level, "1") /\ ~At(ds, level, "x")
     \/ v = Known(TRUE, level) /\ At(ds, level, "1") /\ ~At(ds, level, "0") /\ ~At(ds, level, "x")
     \/ v = Unknown(level) /\ (At(ds, level, "x") \/ (At(ds, level, "0") /\ At(ds, level, "1")))

\* v stands for the list.
Stands(ds, v) ==
  \/ IsHighZ(v) /\ \A i \in DOMAIN ds : Contribution(ds[i]) = 0
  \/ \E level \in 1..7 : TopIs(ds, v, level)

\* A contribution stronger than all before.
LEMMA TakesOver ==
  ASSUME NEW q \in Seq(Driver), NEW d \in Driver, d.zero = d.one, Contribution(d) # 0,
         \A i \in DOMAIN q : Contribution(q[i]) \in Level /\ Contribution(q[i]) < Contribution(d)
  PROVE  TopIs(Append(q, d), StrengthValue(d), Contribution(d))
<1> DEFINE c == Contribution(d)
           more == Append(q, d)
           n == Len(q)
<1>1. /\ DOMAIN more = 1..(n + 1) /\ DOMAIN q = 1..n /\ n \in Nat /\ more[n + 1] = d
      /\ \A i \in 1..n : more[i] = q[i]
  OBVIOUS
<1>2. /\ c \in Level /\ d.bit \in {"0", "1", "x"}
      /\ StrengthValue(d) = IF d.bit = "x" THEN Unknown(c) ELSE Known(d.bit = "1", c)
  BY ContributionLevel
<1> HIDE DEF more, n
<1>3. \A i \in DOMAIN q : Contribution(q[i]) \in Int /\ Contribution(q[i]) < c
  BY DEF Level
<1> HIDE DEF c
<1>4. c \in Int /\ Contribution(d) = c
  BY <1>2 DEF Level, c
<1>5. \A i \in DOMAIN more : Contribution(more[i]) <= c /\ (Contribution(more[i]) = c => i = n + 1)
  BY <1>1, <1>3, <1>4
<1>6. \A b : At(more, c, b) <=> d.bit = b
  BY <1>1, <1>4, <1>5 DEF At
<1>7. (d.bit = "0" => StrengthValue(d) = Known(FALSE, c)) /\ (d.bit = "1" => StrengthValue(d) = Known(TRUE, c))
  <2>1. ("0" = "1") = FALSE /\ ("1" = "1") = TRUE
    OBVIOUS
  <2>. QED BY <1>2, <2>1, Zenon
<1>8. TopIs(more, StrengthValue(d), c)
  <2>1. \A i \in DOMAIN more : Contribution(more[i]) <= c
    BY <1>5
  <2>2. CASE d.bit = "0"
    BY <1>6, <1>7, <2>1, <2>2, "0" # "1", "0" # "x", Zenon DEF TopIs
  <2>3. CASE d.bit = "1"
    BY <1>6, <1>7, <2>1, <2>3, "0" # "1", "1" # "x", Zenon DEF TopIs
  <2>4. CASE d.bit = "x"
    BY <1>2, <1>6, <2>1, <2>4, Zenon DEF TopIs
  <2>. QED BY <1>2, <2>2, <2>3, <2>4
<1>. QED BY <1>8 DEF c, more

\* A contribution that is not the strongest.
LEMMA YieldsTo ==
  ASSUME NEW q \in Seq(Driver), NEW d \in Driver, NEW level \in 1..7, NEW v,
         Contribution(d) \in Level, Contribution(d) < level, TopIs(q, v, level)
  PROVE  TopIs(Append(q, d), v, level)
<1> DEFINE more == Append(q, d)
           n == Len(q)
<1>1. /\ DOMAIN more = 1..(n + 1) /\ DOMAIN q = 1..n /\ n \in Nat /\ more[n + 1] = d
      /\ \A i \in 1..n : more[i] = q[i]
  OBVIOUS
<1>2. Contribution(d) \in Int
  BY DEF Level
<1> HIDE DEF more, n
<1>3. \A b : At(more, level, b) <=> At(q, level, b)
  <2>1. Contribution(d) # level
    BY <1>2
  <2>. QED BY <1>1, <2>1 DEF At
<1>4. \A i \in DOMAIN more : Contribution(more[i]) <= level
  BY <1>1, <1>2 DEF TopIs
<1>. QED BY <1>3, <1>4 DEF TopIs, more

\* A contribution as strong as the strongest.
LEMMA Joins ==
  ASSUME NEW q \in Seq(Driver), NEW d \in Driver, d.zero = d.one, NEW level \in 1..7, NEW v,
         Contribution(d) = level, TopIs(q, v, level)
  PROVE  TopIs(Append(q, d), ResolveStrength(v, StrengthValue(d)), level)
<1> DEFINE more == Append(q, d)
           n == Len(q)
           w == StrengthValue(d)
           r == ResolveStrength(v, w)
<1>1. /\ DOMAIN more = 1..(n + 1) /\ DOMAIN q = 1..n /\ n \in Nat /\ more[n + 1] = d
      /\ \A i \in 1..n : more[i] = q[i]
  OBVIOUS
<1>2. /\ d.bit \in {"0", "1", "x"}
      /\ w = IF d.bit = "x" THEN Unknown(level) ELSE Known(d.bit = "1", level)
  BY ContributionLevel
<1>3. /\ ResolveStrength(Known(FALSE, level), Known(FALSE, level)) = Known(FALSE, level)
      /\ ResolveStrength(Known(TRUE, level), Known(TRUE, level)) = Known(TRUE, level)
      /\ ResolveStrength(Known(FALSE, level), Known(TRUE, level)) = Unknown(level)
      /\ ResolveStrength(Known(TRUE, level), Known(FALSE, level)) = Unknown(level)
      /\ ResolveStrength(Known(FALSE, level), Unknown(level)) = Unknown(level)
      /\ ResolveStrength(Known(TRUE, level), Unknown(level)) = Unknown(level)
      /\ ResolveStrength(Unknown(level), Known(FALSE, level)) = Unknown(level)
      /\ ResolveStrength(Unknown(level), Known(TRUE, level)) = Unknown(level)
      /\ ResolveStrength(Unknown(level), Unknown(level)) = Unknown(level)
  BY EqualLevels
<1> HIDE DEF more, n, w, r
<1>4. \A b : At(more, level, b) <=> At(q, level, b) \/ d.bit = b
  BY <1>1 DEF At
<1>5. \A i \in DOMAIN more : Contribution(more[i]) <= level
  BY <1>1 DEF TopIs
<1>6. (d.bit = "0" => w = Known(FALSE, level)) /\ (d.bit = "1" => w = Known(TRUE, level))
  <2>1. ("0" = "1") = FALSE /\ ("1" = "1") = TRUE
    OBVIOUS
  <2>. QED BY <1>2, <2>1, Zenon
<1>7. CASE v = Known(FALSE, level) /\ At(q, level, "0") /\ ~At(q, level, "1") /\ ~At(q, level, "x")
  BY <1>2, <1>3, <1>4, <1>5, <1>6, <1>7 DEF TopIs, r, w, more
<1>8. CASE v = Known(TRUE, level) /\ At(q, level, "1") /\ ~At(q, level, "0") /\ ~At(q, level, "x")
  BY <1>2, <1>3, <1>4, <1>5, <1>6, <1>8 DEF TopIs, r, w, more
<1>9. CASE v = Unknown(level) /\ (At(q, level, "x") \/ (At(q, level, "0") /\ At(q, level, "1")))
  <2>1. r = Unknown(level)
    BY <1>2, <1>3, <1>6, <1>9 DEF r
  <2>. QED BY <1>4, <1>5, <1>9, <2>1 DEF TopIs, r, w, more
<1>. QED BY <1>7, <1>8, <1>9 DEF TopIs

\* The loop ends with a value that stands for the list.
LEMMA WireStands ==
  \A ds \in Seq(Driver) : Symmetric(ds) => Stands(ds, WireOf(ds))
<1> DEFINE P(q) == Symmetric(q) => Stands(q, WireOf(q))
           T == {q \in Seq(Driver) : P(q)}
<1>1. <<>> \in T
  <2>1. [bit |-> "z", zero |-> 6, one |-> 6] \in Driver
    BY DEF Driver, Bit4, Level
  <2>2. <<>> \in Seq(Driver) /\ DOMAIN <<>> = {}
    OBVIOUS
  <2>3. WireOf(<<>>) = HighZ
    BY <2>1, <2>2, WireFold
  <2>. QED BY <2>2, <2>3, ResolveNothing DEF Stands
<1>2. ASSUME NEW q \in Seq(Driver), P(q), NEW d \in Driver, Symmetric(Append(q, d))
      PROVE  Stands(Append(q, d), WireOf(Append(q, d)))
  <2> DEFINE more == Append(q, d)
             n == Len(q)
             v == WireOf(q)
             w == StrengthValue(d)
  <2>1. WireOf(more) = ResolveStrength(v, w)
    BY WireFold
  <2>2. /\ DOMAIN more = 1..(n + 1) /\ DOMAIN q = 1..n /\ n \in Nat /\ more[n + 1] = d
        /\ \A i \in 1..n : more[i] = q[i] /\ q[i] \in Driver
    OBVIOUS
  <2>3. Symmetric(q) /\ d.zero = d.one
    BY <1>2, <2>2 DEF Symmetric
  <2>4. /\ Contribution(d) \in Level /\ (Contribution(d) = 0 => w = HighZ)
        /\ \A i \in DOMAIN q : Contribution(q[i]) \in Level
    BY <2>2, <2>3, ContributionLevel DEF Symmetric
  <2> HIDE DEF v, w
  <2>5. CASE IsHighZ(v) /\ \A i \in DOMAIN q : Contribution(q[i]) = 0
    <3>1. WireOf(more) = w
      BY <2>1, <2>5 DEF ResolveStrength
    <3>2. CASE Contribution(d) = 0
      <4>1. IsHighZ(w)
        BY <2>4, <3>2, ResolveNothing
      <4>. QED BY <2>2, <2>5, <3>1, <3>2, <4>1 DEF Stands
    <3>3. CASE Contribution(d) # 0
      <4>1. /\ \A i \in DOMAIN q : Contribution(q[i]) \in Level /\ Contribution(q[i]) < Contribution(d)
            /\ Contribution(d) \in 1..7
        BY <2>4, <2>5, <3>3 DEF Level
      <4>2. TopIs(more, w, Contribution(d))
        BY <2>3, <3>3, <4>1, TakesOver DEF w
      <4>. QED BY <3>1, <4>1, <4>2 DEF Stands
    <3>. QED BY <3>2, <3>3
  <2>6. ASSUME NEW level \in 1..7, TopIs(q, v, level)
        PROVE  Stands(more, WireOf(more))
    <3>1. \/ v = Known(FALSE, level) \/ v = Known(TRUE, level) \/ v = Unknown(level)
      BY <2>6 DEF TopIs
    <3>2. ~IsHighZ(v)
      BY <3>1, LevelParts
    <3>3. Contribution(d) # 0 =>
            /\ Contribution(d) \in 1..7
            /\ \/ w = Known(FALSE, Contribution(d)) \/ w = Known(TRUE, Contribution(d))
               \/ w = Unknown(Contribution(d))
      <4> SUFFICES ASSUME Contribution(d) # 0
                   PROVE  /\ Contribution(d) \in 1..7
                          /\ \/ w = Known(FALSE, Contribution(d)) \/ w = Known(TRUE, Contribution(d))
                             \/ w = Unknown(Contribution(d))
        OBVIOUS
      <4>1. /\ d.bit \in {"0", "1", "x"}
            /\ w = IF d.bit = "x" THEN Unknown(Contribution(d)) ELSE Known(d.bit = "1", Contribution(d))
        BY <2>3, ContributionLevel DEF w
      <4>2. (d.bit = "1") = TRUE \/ (d.bit = "1") = FALSE
        OBVIOUS
      <4>3. \/ w = Known(FALSE, Contribution(d)) \/ w = Known(TRUE, Contribution(d))
            \/ w = Unknown(Contribution(d))
        BY <4>1, <4>2, Zenon
      <4>4. Contribution(d) \in 1..7
        BY <2>4 DEF Level
      <4>. QED BY <4>3, <4>4, Zenon
    <3>4. CASE Contribution(d) < level
      <4>1. WireOf(more) = v
        <5>1. CASE Contribution(d) = 0
          BY <2>1, <2>4, <3>2, <5>1, ResolveNothing
        <5>2. CASE Contribution(d) # 0
          <6>1. v \in AtLevel(level) /\ w \in AtLevel(Contribution(d)) /\ Contribution(d) \in 1..7
            BY <3>1, <3>3, <5>2, Zenon DEF AtLevel
          <6>. QED BY <2>1, <3>4, <6>1, OtherLevels
        <5>. QED BY <5>1, <5>2
      <4>2. TopIs(more, v, level)
        BY <2>4, <2>6, <3>4, YieldsTo
      <4>. QED BY <4>1, <4>2 DEF Stands
    <3>5. CASE Contribution(d) = level
      <4>1. TopIs(more, WireOf(more), level)
        BY <2>1, <2>3, <2>6, <3>5, Joins DEF w
      <4>. QED BY <4>1 DEF Stands
    <3>6. CASE Contribution(d) > level
      <4>1. /\ Contribution(d) # 0 /\ Contribution(d) \in 1..7
            /\ \A i \in DOMAIN q : Contribution(q[i]) \in Level /\ Contribution(q[i]) < Contribution(d)
        BY <2>4, <2>6, <3>6 DEF Level, TopIs
      <4>2. WireOf(more) = w
        <5>1. v \in AtLevel(level) /\ w \in AtLevel(Contribution(d))
          BY <3>1, <3>3, <4>1, Zenon DEF AtLevel
        <5>. QED BY <2>1, <3>6, <4>1, <5>1, OtherLevels
      <4>3. TopIs(more, w, Contribution(d))
        BY <2>3, <4>1, TakesOver DEF w
      <4>. QED BY <4>1, <4>2, <4>3 DEF Stands
    <3>7. Contribution(d) \in Int
      BY <2>4 DEF Level
    <3>. QED BY <3>4, <3>5, <3>6, <3>7
  <2>7. Stands(q, v)
    BY <1>2, <2>3 DEF v
  <2>. QED BY <2>5, <2>6, <2>7 DEF Stands
<1>3. ASSUME NEW q \in Seq(Driver), P(q), NEW d \in Driver PROVE P(Append(q, d))
  BY <1>2, <1>3
<1> HIDE DEF P
<1>4. \A q \in Seq(Driver), d \in Driver : q \in T => Append(q, d) \in T
  BY <1>3
<1> HIDE DEF T
<1>5. \A q \in Seq(Driver) : q \in T
  BY <1>1, <1>4, SequenceInduction
<1>. QED BY <1>5 DEF T, P

-----------------------------------------------------------------------------
(* The net *)

StrengthInv ==
  /\ resolution \in {"Wire", "Wand", "Wor"}
  /\ drivers \in Seq(Driver)
  /\ value = ResolveDrivers(drivers)

\* resolve_drivers in terms of the three loops.
LEMMA ResolveLoops ==
  ASSUME NEW ds
  PROVE  /\ resolution = "Wire" => ResolveDrivers(ds) = BitOf(WireOf(ds))
         /\ resolution = "Wand" => ResolveDrivers(ds) = WiredOf(ds, "0", "1")
         /\ resolution = "Wor" => ResolveDrivers(ds) = WiredOf(ds, "1", "0")
<1>1. ResolveWire(ds) = BitOf(WireOf(ds))
  BY DEF ResolveWire, WireOf
<1>2. ResolveWand(ds) = WiredOf(ds, "0", "1") /\ ResolveWor(ds) = WiredOf(ds, "1", "0")
  BY DEF ResolveWand, ResolveWor, WiredOf
<1>. QED BY <1>1, <1>2 DEF ResolveDrivers

\* A new driver drives nothing yet and leaves the net as it is.
LEMMA NewDriverSilent ==
  ASSUME StrengthInv, NEW d \in Driver, d.bit = "z"
  PROVE  ResolveDrivers(Append(drivers, d)) = ResolveDrivers(drivers)
<1> DEFINE ds == drivers
           more == Append(drivers, d)
<1>1. ds \in Seq(Driver) /\ "0" \in Bit4 /\ "1" \in Bit4
  BY DEF StrengthInv, Bit4
<1>2. /\ WireOf(more) = ResolveStrength(WireOf(ds), StrengthValue(d))
      /\ WiredOf(more, "0", "1") = WiredStep(WiredOf(ds, "0", "1"), d.bit, "0", "1")
      /\ WiredOf(more, "1", "0") = WiredStep(WiredOf(ds, "1", "0"), d.bit, "1", "0")
  BY <1>1, WireFold, WiredFold
<1>3. /\ WiredOf(more, "0", "1") = WiredOf(ds, "0", "1")
      /\ WiredOf(more, "1", "0") = WiredOf(ds, "1", "0")
  BY <1>2 DEF WiredStep
<1>4. BitOf(WireOf(more)) = BitOf(WireOf(ds))
  <2>1. StrengthValue(d) = HighZ
    BY DEF StrengthValue
  <2>2. CASE IsHighZ(WireOf(ds))
    <3>1. WireOf(more) = HighZ /\ IsHighZ(HighZ)
      BY <1>2, <2>1, <2>2, ResolveNothing
    <3>. QED BY <2>2, <3>1, Zenon DEF BitOf
  <2>3. CASE ~IsHighZ(WireOf(ds))
    BY <1>2, <2>1, <2>3, ResolveNothing
  <2>. QED BY <2>2, <2>3
<1>5. resolution \in {"Wire", "Wand", "Wor"}
  BY DEF StrengthInv
<1> HIDE DEF ds, more
<1>6. ResolveDrivers(more) = ResolveDrivers(ds)
  BY <1>3, <1>4, <1>5, ResolveLoops
<1>. QED BY <1>6 DEF ds, more

\* The value of the net is the resolution of what its drivers drive now.
LEMMA ValueResolved == Spec => []StrengthInv
<1>1. Init => StrengthInv
  <2> SUFFICES ASSUME Init PROVE StrengthInv
    OBVIOUS
  <2>1. [bit |-> "z", zero |-> 6, one |-> 6] \in Driver /\ "0" \in Bit4 /\ "1" \in Bit4
    BY DEF Driver, Bit4, Level
  <2>2. <<>> \in Seq(Driver)
    OBVIOUS
  <2>3. WireOf(<<>>) = HighZ /\ WiredOf(<<>>, "0", "1") = "z" /\ WiredOf(<<>>, "1", "0") = "z"
    BY <2>1, <2>2, WireFold, WiredFold
  <2>4. BitOf(HighZ) = "z"
    BY ResolveNothing, Zenon DEF BitOf
  <2>5. resolution \in {"Wire", "Wand", "Wor"} /\ drivers = <<>> /\ value = "z"
    BY StrengthAssumption DEF Init
  <2>6. ResolveDrivers(<<>>) = "z"
    BY <2>3, <2>4, <2>5, ResolveLoops
  <2>. QED BY <2>2, <2>5, <2>6 DEF StrengthInv
<1>2. StrengthInv /\ [Next]_vars => StrengthInv'
  <2> SUFFICES ASSUME StrengthInv, [Next]_vars PROVE StrengthInv'
    OBVIOUS
  <2>1. ASSUME NEW s \in Strengths, NewDriver(s) PROVE StrengthInv'
    <3> DEFINE d == [bit |-> "z", zero |-> s[1], one |-> s[2]]
    <3>1. d \in Driver /\ d.bit = "z"
      BY StrengthAssumption DEF Driver, Bit4
    <3>2. drivers' = Append(drivers, d) /\ value' = value /\ resolution' = resolution
      BY <2>1 DEF NewDriver
    <3> HIDE DEF d
    <3>3. drivers' \in Seq(Driver)
      BY <3>1, <3>2 DEF StrengthInv
    <3>4. value' = ResolveDrivers(drivers')
      BY <3>1, <3>2, NewDriverSilent DEF StrengthInv
    <3>. QED BY <3>2, <3>3, <3>4 DEF StrengthInv, ResolveDrivers
  <2>2. ASSUME NEW slot \in DOMAIN drivers, NEW bit \in Bits, DriveNet(slot, bit)
        PROVE  StrengthInv'
    <3>1. /\ drivers' = [drivers EXCEPT ![slot] = [@ EXCEPT !.bit = bit]]
          /\ value' = ResolveDrivers(drivers') /\ resolution' = resolution
      BY <2>2 DEF DriveNet
    <3>2. bit \in Bit4
      BY StrengthAssumption
    <3>3. drivers' \in Seq(Driver)
      <4>1. drivers \in Seq(Driver) /\ drivers[slot] \in Driver
        BY DEF StrengthInv
      <4>2. [drivers[slot] EXCEPT !.bit = bit] \in Driver
        BY <3>2, <4>1 DEF Driver
      <4>. QED BY <3>1, <4>1, <4>2
    <3>. QED BY <3>1, <3>3 DEF StrengthInv, ResolveDrivers
  <2>3. CASE UNCHANGED vars
    BY <2>3 DEF vars, StrengthInv, ResolveDrivers
  <2>. QED BY <2>1, <2>2, <2>3 DEF Next
<1>. QED BY <1>1, <1>2, PTL DEF Spec

\* What the loops of wired nets find is what Wired says of the set of bits.
LEMMA WiredAsDefined ==
  ASSUME StrengthInv, resolution # "Wire"
  PROVE  value = Wired
<1> DEFINE bits == {drivers[i].bit : i \in DOMAIN drivers}
           dom == IF resolution = "Wand" THEN "0" ELSE "1"
           weak == IF resolution = "Wand" THEN "1" ELSE "0"
<1>1. \A b : b \in bits <=> \E i \in DOMAIN drivers : drivers[i].bit = b
  OBVIOUS
<1>2. bits \subseteq {dom, weak, "x", "z"}
  <2>1. \A i \in DOMAIN drivers : drivers[i] \in Driver
    BY DEF StrengthInv
  <2>2. \A d \in Driver : d.bit \in Bit4
    BY DEF Driver
  <2>. QED BY <2>1, <2>2 DEF Bit4
<1>3. dom \in {"0", "1"} /\ weak \in {"0", "1"} /\ dom # weak
  OBVIOUS
<1>4. value = WiredOf(drivers, dom, weak) /\ drivers \in Seq(Driver)
  BY ResolveLoops DEF StrengthInv
<1>5. Wired = IF dom \in bits THEN dom
              ELSE IF "x" \in bits THEN "x"
              ELSE IF bits \ {"z"} # {} THEN CHOOSE b \in bits \ {"z"} : TRUE ELSE "z"
  BY DEF Wired
<1> HIDE DEF dom, weak
<1>6. WiredFound(drivers, value, dom, weak)
  BY <1>3, <1>4, WiredFinds
<1>7. value = IF dom \in bits THEN dom
              ELSE IF "x" \in bits THEN "x" ELSE IF weak \in bits THEN weak ELSE "z"
  BY <1>1, <1>6, Zenon DEF WiredFound
<1> HIDE DEF bits
<1>8. ASSUME dom \notin bits, "x" \notin bits
      PROVE  (IF bits \ {"z"} # {} THEN CHOOSE b \in bits \ {"z"} : TRUE ELSE "z")
               = IF weak \in bits THEN weak ELSE "z"
  <2>1. CASE weak \in bits
    <3>1. bits \ {"z"} = {weak}
      BY <1>2, <1>3, <1>8, <2>1
    <3>2. (CHOOSE b \in {weak} : TRUE) = weak
      OBVIOUS
    <3>. QED BY <2>1, <3>1, <3>2
  <2>2. CASE weak \notin bits
    <3>1. bits \ {"z"} = {}
      BY <1>2, <1>8, <2>2
    <3>. QED BY <2>2, <3>1
  <2>. QED BY <2>1, <2>2
<1>. QED BY <1>5, <1>7, <1>8

\* What the loop of a wire finds is what SymmetricWire says of the set of drivers.
LEMMA SymmetricAsDefined ==
  ASSUME StrengthInv, resolution = "Wire", Symmetric(drivers)
  PROVE  value = SymmetricWire
<1> DEFINE top == {i \in Contributing : \A j \in Contributing :
                     Contribution(drivers[j]) <= Contribution(drivers[i])}
           bits == {drivers[i].bit : i \in top}
           v == WireOf(drivers)
<1>1. value = BitOf(v) /\ drivers \in Seq(Driver)
  BY ResolveLoops DEF StrengthInv
<1>2. Stands(drivers, v)
  BY <1>1, WireStands
<1>3. SymmetricWire = IF bits = {} THEN "z"
                      ELSE IF Cardinality(bits) = 1 THEN CHOOSE b \in bits : TRUE ELSE "x"
  BY DEF SymmetricWire
<1>4. \A i \in DOMAIN drivers : Contribution(drivers[i]) \in Level /\ drivers[i] \in Driver
  BY <1>1, ContributionLevel DEF Symmetric
<1> HIDE DEF v
<1>5. CASE IsHighZ(v) /\ \A i \in DOMAIN drivers : Contribution(drivers[i]) = 0
  <2>1. Contributing = {}
    BY <1>5 DEF Contributing
  <2>2. bits = {}
    BY <2>1
  <2>3. BitOf(v) = "z"
    BY <1>5, Zenon DEF BitOf
  <2>. QED BY <1>1, <1>3, <2>2, <2>3
<1>6. ASSUME NEW level \in 1..7, TopIs(drivers, v, level) PROVE value = SymmetricWire
  <2>1. PICK k \in DOMAIN drivers : Contribution(drivers[k]) = level
    BY <1>6 DEF TopIs, At
  <2>2. \A i \in DOMAIN drivers : Contribution(drivers[i]) \in Int /\ Contribution(drivers[i]) <= level
    BY <1>4, <1>6 DEF Level, TopIs
  <2>3. k \in Contributing
    BY <2>1 DEF Contributing
  <2>4. \A i : i \in top <=> i \in DOMAIN drivers /\ Contribution(drivers[i]) = level
    <3>1. ASSUME NEW i \in top PROVE i \in DOMAIN drivers /\ Contribution(drivers[i]) = level
      <4>1. i \in DOMAIN drivers /\ Contribution(drivers[k]) <= Contribution(drivers[i])
        BY <2>3 DEF Contributing
      <4>. QED BY <2>1, <2>2, <4>1
    <3>2. ASSUME NEW i \in DOMAIN drivers, Contribution(drivers[i]) = level PROVE i \in top
      <4>1. i \in Contributing
        BY <3>2 DEF Contributing
      <4>2. \A j \in Contributing : Contribution(drivers[j]) <= Contribution(drivers[i])
        BY <2>2, <3>2 DEF Contributing
      <4>. QED BY <4>1, <4>2
    <3>. QED BY <3>1, <3>2
  <2> HIDE DEF top
  <2>5. \A b : b \in bits <=> At(drivers, level, b)
    BY <2>4 DEF At
  <2>6. bits \subseteq {"0", "1", "x"}
    <3>1. ASSUME NEW i \in top PROVE drivers[i].bit \in {"0", "1", "x"}
      <4>1. drivers[i] \in Driver /\ Contribution(drivers[i]) # 0 /\ drivers[i].zero = drivers[i].one
        BY <1>4, <2>4 DEF Symmetric
      <4>. QED BY <4>1, ContributionLevel
    <3>. QED BY <3>1
  <2> HIDE DEF bits
  <2>7. ASSUME NEW b, bits = {b} PROVE SymmetricWire = b
    <3>1. Cardinality(bits) = 1
      BY <2>7, FS_Singleton
    <3>2. bits # {} /\ (CHOOSE c \in {b} : TRUE) = b
      BY <2>7
    <3>. QED BY <1>3, <2>7, <3>1, <3>2
  <2>8. CASE v = Known(FALSE, level) /\ ~At(drivers, level, "1") /\ ~At(drivers, level, "x")
             /\ At(drivers, level, "0")
    <3>1. bits = {"0"}
      BY <2>5, <2>6, <2>8
    <3>2. BitOf(v) = "0"
      BY <2>8 DEF BitOf, IsHighZ, Known, Interval, Point
    <3>. QED BY <1>1, <2>7, <3>1, <3>2
  <2>9. CASE v = Known(TRUE, level) /\ ~At(drivers, level, "0") /\ ~At(drivers, level, "x")
             /\ At(drivers, level, "1")
    <3>1. bits = {"1"}
      BY <2>5, <2>6, <2>9
    <3>2. BitOf(v) = "1"
      BY <2>9 DEF BitOf, IsHighZ, Known, Interval, Point
    <3>. QED BY <1>1, <2>7, <3>1, <3>2
  <2>10. CASE /\ v = Unknown(level)
              /\ At(drivers, level, "x") \/ (At(drivers, level, "0") /\ At(drivers, level, "1"))
    <3>1. BitOf(v) = "x"
      BY <2>10 DEF BitOf, IsHighZ, Unknown, Interval, Point
    <3>2. CASE \E b : bits = {b}
      <4>1. bits = {"x"}
        BY <2>5, <2>10, <3>2
      <4>. QED BY <1>1, <2>7, <3>1, <4>1
    <3>3. CASE ~\E b : bits = {b}
      <4>1. IsFiniteSet({"0", "1", "x"})
        <5>1. IsFiniteSet({"0"})
          BY FS_Singleton
        <5>2. IsFiniteSet({"0"} \cup {"1"})
          BY <5>1, FS_AddElement
        <5>3. IsFiniteSet(({"0"} \cup {"1"}) \cup {"x"})
          BY <5>2, FS_AddElement
        <5>4. ({"0"} \cup {"1"}) \cup {"x"} = {"0", "1", "x"}
          OBVIOUS
        <5>. QED BY <5>3, <5>4
      <4>2. IsFiniteSet(bits)
        BY <2>6, <4>1, FS_Subset
      <4>3. Cardinality(bits) # 1
        BY <3>3, <4>2, FS_Singleton
      <4>4. bits # {}
        BY <2>5, <2>10
      <4>. QED BY <1>1, <1>3, <3>1, <4>3, <4>4
    <3>. QED BY <3>2, <3>3
  <2>. QED BY <1>6, <2>8, <2>9, <2>10 DEF TopIs
<1>. QED BY <1>2, <1>5, <1>6 DEF Stands

\* On wired nets, and on wires with symmetric strengths, resolve_drivers gives the
\* value defined from the set of the drivers, whatever their number and order.
THEOREM ResolutionDefined == Spec => []ResolvedAsDefined
<1>1. StrengthInv => ResolvedAsDefined
  <2> SUFFICES ASSUME StrengthInv PROVE ResolvedAsDefined
    OBVIOUS
  <2>1. resolution # "Wire" => value = Wired
    BY WiredAsDefined
  <2>2. resolution = "Wire" /\ Symmetric(drivers) => value = SymmetricWire
    BY SymmetricAsDefined
  <2>. QED BY <2>1, <2>2 DEF ResolvedAsDefined, Symmetric
<1>. QED BY <1>1, ValueResolved, PTL

\* With any mixture of strengths, a 0 or 1 stronger than everything else that
\* is driven decides a wire wherever it stands in the driver list, and a driver
\* that withdraws to Z leaves any net as if it did not exist.
THEOREM StrongestWins == Spec => []StrongestDecides
<1>1. StrengthInv => StrongestDecides
  <2> SUFFICES ASSUME StrengthInv PROVE StrongestDecides
    OBVIOUS
  <2>1. drivers \in Seq(Driver) /\ value = ResolveDrivers(drivers)
        /\ resolution \in {"Wire", "Wand", "Wor"}
    BY DEF StrengthInv
  <2>2. ASSUME NEW i \in DOMAIN drivers, resolution = "Wire",
               drivers[i].bit \in {"0", "1"}, i \in Contributing,
               \A j \in DOMAIN drivers \ {i} :
                 Contribution(drivers[j]) < Contribution(drivers[i])
        PROVE  value = drivers[i].bit
    <3> DEFINE level == Contribution(drivers[i])
    <3>1. level \in 1..7
      <4>1. drivers[i] \in Driver
        BY <2>1
      <4>2. level \in 0..7
        BY <2>2, <4>1 DEF Contribution, Driver, Level
      <4>. QED BY <2>2, <4>2 DEF Contributing
    <3> HIDE DEF level
    <3>2. WireOf(drivers) = Known(drivers[i].bit = "1", level)
      BY <2>1, <2>2, <3>1, StrongestPrevails DEF level
    <3>3. value = BitOf(Known(drivers[i].bit = "1", level))
      BY <2>1, <2>2, <3>2, ResolveLoops
    <3>4. CASE drivers[i].bit = "0"
      <4>1. (drivers[i].bit = "1") = FALSE
        BY <3>4
      <4>2. BitOf(Known(FALSE, level)) = "0"
        BY <3>1 DEF BitOf, IsHighZ, Known, Interval, Point
      <4>. QED BY <3>3, <3>4, <4>1, <4>2, Zenon
    <3>5. CASE drivers[i].bit = "1"
      <4>1. (drivers[i].bit = "1") = TRUE
        BY <3>5
      <4>2. BitOf(Known(TRUE, level)) = "1"
        BY <3>1 DEF BitOf, IsHighZ, Known, Interval, Point
      <4>. QED BY <3>3, <3>5, <4>1, <4>2, Zenon
    <3>. QED BY <2>2, <3>4, <3>5
  <2>3. value = ResolveDrivers(Driving(drivers))
    BY <2>1, DrivingDecides, ResolveLoops
  <2>. QED BY <2>2, <2>3 DEF StrongestDecides
<1>. QED BY <1>1, ValueResolved, PTL
=============================================================================
