---------------------------- MODULE VectorProofs ----------------------------
(***************************************************************************)
(* Vectors of any width on words of any size: no operation leaves a bit    *)
(* above the width in a word, and the word-parallel operations compute the *)
(* four-state tables of single bits.                                       *)
(***************************************************************************)
EXTENDS Vectors, TLAPS

-----------------------------------------------------------------------------
(* Positions of bits *)

LEMMA DivFacts ==
  ASSUME NEW a \in Nat, NEW b \in Nat \ {0}
  PROVE  a \div b \in Nat /\ a % b \in 0..(b - 1) /\ a = (a \div b) * b + (a % b)
  OBVIOUS

\* Positions in words are ordered by word, then by bit.
LEMMA PositionOrder ==
  ASSUME NEW b \in Nat \ {0}, NEW l \in Int, NEW m \in Int, NEW p \in 0..(b - 1), NEW q \in 0..(b - 1)
  PROVE  l * b + p < m * b + q <=> l < m \/ (l = m /\ p < q)
<1>1. CASE l < m
  <2>1. l * b + b <= m * b
    <3>1. (l + 1) * b <= m * b
      BY <1>1
    <3>. QED BY <3>1
  <2>. QED BY <1>1, <2>1
<1>2. CASE l = m
  BY <1>2
<1>3. CASE m < l
  <2>1. m * b + b <= l * b
    <3>1. (m + 1) * b <= l * b
      BY <1>3
    <3>. QED BY <3>1
  <2>. QED BY <1>3, <2>1
<1>. QED BY <1>1, <1>2, <1>3

\* A vector of positive width has the words that its bits need and no more.
LEMMA LimbFacts ==
  ASSUME NEW w \in Nat \ {0}
  PROVE  /\ LimbsFor(w) \in Nat \ {0}
         /\ w <= Word => LimbsFor(w) = 1
         /\ (w % Word = 0) => \A l \in 0..(LimbsFor(w) - 1), p \in Positions : l * Word + p < w
         /\ (w % Word # 0) => \A l \in 0..(LimbsFor(w) - 1), p \in Positions :
                                l * Word + p < w <=> l < LimbsFor(w) - 1 \/ p < w % Word
         /\ \A i \in Nat : i < w => i \div Word \in 0..(LimbsFor(w) - 1)
<1> DEFINE n == w \div Word
           r == w % Word
<1>1. Word \in Nat \ {0}
  BY WordAssumption
<1>2. n \in Nat /\ r \in 0..(Word - 1) /\ w = n * Word + r
  BY <1>1, DivFacts
<1>3. LimbsFor(w) = IF r = 0 THEN n ELSE n + 1
  <2> DEFINE a == w + Word - 1
             k == a \div Word
             s == a % Word
  <2>1. LimbsFor(w) = k /\ a \in Nat
    BY <1>1 DEF LimbsFor
  <2>2. k \in Nat /\ s \in 0..(Word - 1) /\ a = k * Word + s
    BY <1>1, <2>1, DivFacts
  <2>3. a = w + Word - 1
    OBVIOUS
  <2> HIDE DEF n, r, a, k, s
  <2>4. CASE r = 0
    <3>1. k * Word + s = n * Word + (Word - 1)
      BY <1>1, <1>2, <2>2, <2>3, <2>4
    <3>2. k = n
      BY <1>1, <1>2, <2>2, <3>1, PositionOrder
    <3>. QED BY <2>1, <2>4, <3>2
  <2>5. CASE r # 0
    <3>1. k * Word + s = (n + 1) * Word + (r - 1)
      BY <1>1, <1>2, <2>2, <2>3, <2>5
    <3>2. k = n + 1
      BY <1>1, <1>2, <2>2, <2>5, <3>1, PositionOrder
    <3>. QED BY <2>1, <2>5, <3>2
  <2>. QED BY <2>4, <2>5
<1>4. ASSUME NEW l \in Nat, NEW p \in Positions
      PROVE  l * Word + p < w <=> l < n \/ (l = n /\ p < r)
  <2> HIDE DEF n, r
  <2>. QED BY <1>1, <1>2, PositionOrder DEF Positions
<1>5. ASSUME NEW i \in Nat, i < w
      PROVE  i \div Word \in 0..(LimbsFor(w) - 1)
  <2> DEFINE l == i \div Word
             p == i % Word
  <2>1. l \in Nat /\ p \in Positions /\ i = l * Word + p
    BY <1>1, DivFacts DEF Positions
  <2> HIDE DEF l, p, n, r
  <2>2. l < n \/ (l = n /\ p < r)
    BY <1>4, <1>5, <2>1
  <2>3. l \in 0..(LimbsFor(w) - 1)
    BY <1>1, <1>2, <1>3, <2>1, <2>2 DEF Positions
  <2>. QED BY <2>3 DEF l
<1>6. LimbsFor(w) \in Nat \ {0} /\ (w <= Word => LimbsFor(w) = 1)
  <2> HIDE DEF n, r
  <2>1. n # 0 \/ r # 0
    BY <1>1, <1>2
  <2>2. ASSUME w <= Word PROVE (n = 1 /\ r = 0) \/ n = 0
    <3>1. CASE n >= 1
      <4>1. n * Word >= Word
        BY <1>1, <1>2, <3>1
      <4>2. r = 0 /\ n * Word = 1 * Word + 0
        BY <1>1, <1>2, <2>2, <4>1
      <4>. QED BY <1>1, <1>2, <4>2, PositionOrder
    <3>. QED BY <1>2, <3>1
  <2>. QED BY <1>2, <1>3, <2>1, <2>2
<1> HIDE DEF n
<1>7. r = 0 => \A l \in 0..(LimbsFor(w) - 1), p \in Positions : l * Word + p < w
  <2> HIDE DEF r
  <2>. QED BY <1>2, <1>3, <1>4
<1>8. r # 0 => \A l \in 0..(LimbsFor(w) - 1), p \in Positions :
                 l * Word + p < w <=> l < LimbsFor(w) - 1 \/ p < r
  <2> HIDE DEF r
  <2>. QED BY <1>2, <1>3, <1>4 DEF Positions
<1>. QED BY <1>5, <1>6, <1>7, <1>8

\* Where a bit of a vector is.
LEMMA PlaceFacts ==
  ASSUME NEW w \in Nat \ {0}, NEW i \in 0..(w - 1)
  PROVE  /\ i \div Word \in 0..(LimbsFor(w) - 1) /\ i % Word \in Positions
         /\ (i \div Word) * Word + (i % Word) = i
<1>1. i \in Nat /\ i < w /\ Word \in Nat \ {0}
  BY WordAssumption
<1>2. i \div Word \in 0..(LimbsFor(w) - 1)
  BY <1>1, LimbFacts
<1>. QED BY <1>1, <1>2, DivFacts DEF Positions

\* Masking takes away the bits above the width and no others.
LEMMA MaskedFacts ==
  ASSUME NEW w \in Nat \ {0}, NEW a \in [0..(LimbsFor(w) - 1) -> SUBSET Positions]
  PROVE  /\ Masked(w, a) \in [0..(LimbsFor(w) - 1) -> SUBSET Positions]
         /\ \A l \in 0..(LimbsFor(w) - 1), p \in Positions :
              p \in Masked(w, a)[l] <=> p \in a[l] /\ l * Word + p < w
<1> DEFINE n == LimbsFor(w)
           m == Masked(w, a)
           r == w % Word
<1>0. Word \in Nat \ {0} /\ n \in Nat \ {0}
  BY WordAssumption, LimbFacts
<1>1. CASE w <= Word
  <2>1. n = 1 /\ 0..(n - 1) = {0}
    BY <1>1, LimbFacts
  <2>2. m = [i \in {0} |-> a[0] \cap WordMask(w)]
    BY <1>1 DEF Masked
  <2> HIDE DEF n, m
  <2>3. m[0] = a[0] \cap WordMask(w) /\ DOMAIN m = {0} /\ a[0] \subseteq Positions
    BY <2>1, <2>2 DEF n
  <2>4. \A p \in Positions : 0 * Word + p = p
    BY <1>0 DEF Positions
  <2>5. m \in [{0} -> SUBSET Positions]
    BY <2>2, <2>3
  <2>6. \A p \in Positions : p \in m[0] <=> p \in a[0] /\ 0 * Word + p < w
    BY <2>3, <2>4 DEF WordMask
  <2>. QED BY <2>1, <2>5, <2>6 DEF n, m
<1>2. CASE ~(w <= Word)
  <2>0. m = MaskTop(w, a)
    BY <1>2 DEF Masked
  <2>1. CASE r = 0
    <3>1. m = a
      BY <2>0, <2>1 DEF MaskTop
    <3>. QED BY <2>1, <3>1, LimbFacts
  <2>2. CASE r # 0
    <3>1. m = [a EXCEPT ![n - 1] = a[n - 1] \cap WordMask(r)]
      BY <2>0, <2>2 DEF MaskTop
    <3>2. \A l \in 0..(n - 1), p \in Positions : l * Word + p < w <=> l < n - 1 \/ p < r
      BY <2>2, LimbFacts
    <3> HIDE DEF n, r, m
    <3>3. /\ m \in [0..(n - 1) -> SUBSET Positions]
          /\ \A l \in 0..(n - 1) : m[l] = IF l = n - 1 THEN a[l] \cap WordMask(r) ELSE a[l]
      BY <1>0, <3>1 DEF n
    <3>4. \A l \in 0..(n - 1), p \in Positions : p \in m[l] <=> p \in a[l] /\ l * Word + p < w
      BY <1>0, <3>2, <3>3 DEF WordMask
    <3>. QED BY <3>3, <3>4 DEF n, m
  <2>. QED BY <2>1, <2>2
<1>. QED BY <1>1, <1>2

-----------------------------------------------------------------------------
(* Vectors are well-formed *)

Planes(w) == [0..(LimbsFor(w) - 1) -> SUBSET Positions]
Made(w, a, b) == [width |-> w, aval |-> a, bval |-> b]

LEMMA MadeFacts ==
  ASSUME NEW w, NEW a, NEW b
  PROVE  /\ Made(w, a, b).width = w /\ Made(w, a, b).aval = a /\ Made(w, a, b).bval = b
  BY DEF Made

LEMMA MadeWellFormed ==
  ASSUME NEW w \in Nat \ {0}, NEW a \in Planes(w), NEW b \in Planes(w),
         \A l \in 0..(LimbsFor(w) - 1) : \A p \in a[l] \cup b[l] : l * Word + p < w
  PROVE  WellFormed(Made(w, a, b)) /\ Made(w, a, b).width = w
<1> DEFINE v == Made(w, a, b)
<1>1. v.width = w /\ v.aval = a /\ v.bval = b
  BY MadeFacts
<1>2. v = [width |-> v.width, aval |-> v.aval, bval |-> v.bval]
  BY DEF Made
<1> HIDE DEF v
<1>3. Normalized(v)
  BY <1>1 DEF Normalized, Planes
<1>4. WellFormed(v)
  BY <1>1, <1>2, <1>3 DEF WellFormed, Planes
<1>. QED BY <1>1, <1>4 DEF v

\* What is known of a vector, without the record.
LEMMA FormFacts ==
  ASSUME NEW v, WellFormed(v)
  PROVE  /\ v.width \in Nat \ {0} /\ v.aval \in Planes(v.width) /\ v.bval \in Planes(v.width)
         /\ \A l \in 0..(LimbsFor(v.width) - 1) :
              \A p \in v.aval[l] \cup v.bval[l] : l * Word + p < v.width
         /\ v = Made(v.width, v.aval, v.bval)
  BY DEF WellFormed, Normalized, Planes, Made

\* A vector from computed words.
LEMMA VectorFacts ==
  ASSUME NEW w \in Nat \ {0}, NEW a \in Planes(w), NEW b \in Planes(w)
  PROVE  /\ WellFormed(Vector(w, a, b)) /\ Vector(w, a, b).width = w
         /\ \A i \in 0..(w - 1) :
              GetBit(Vector(w, a, b), i) =
                FromPlanes(i % Word \in a[i \div Word], i % Word \in b[i \div Word])
<1> DEFINE c == Masked(w, a)
           d == Masked(w, b)
           v == Made(w, c, d)
<1>1. Vector(w, a, b) = v
  BY DEF Vector, Made
<1>2. /\ c \in Planes(w) /\ d \in Planes(w)
      /\ \A l \in 0..(LimbsFor(w) - 1), p \in Positions :
           /\ p \in c[l] <=> p \in a[l] /\ l * Word + p < w
           /\ p \in d[l] <=> p \in b[l] /\ l * Word + p < w
  BY MaskedFacts DEF Planes
<1> HIDE DEF c, d
<1>3. WellFormed(v) /\ v.width = w /\ v.aval = c /\ v.bval = d
  <2>1. \A l \in 0..(LimbsFor(w) - 1) : \A p \in c[l] \cup d[l] : l * Word + p < w
    BY <1>2 DEF Planes
  <2>. QED BY <1>2, <2>1, MadeWellFormed, MadeFacts
<1> HIDE DEF v
<1>4. ASSUME NEW i \in 0..(w - 1)
      PROVE  GetBit(v, i) = FromPlanes(i % Word \in a[i \div Word], i % Word \in b[i \div Word])
  <2> DEFINE l == i \div Word
             p == i % Word
  <2>1. GetBit(v, i) = FromPlanes(p \in c[l], p \in d[l])
    BY <1>3 DEF GetBit
  <2>2. l \in 0..(LimbsFor(w) - 1) /\ p \in Positions /\ i = l * Word + p
    BY PlaceFacts
  <2> HIDE DEF l, p
  <2>3. (p \in c[l] <=> p \in a[l]) /\ (p \in d[l] <=> p \in b[l])
    BY <1>2, <2>2
  <2>4. GetBit(v, i) = FromPlanes(p \in a[l], p \in b[l])
    BY <2>1, <2>3 DEF FromPlanes
  <2>. QED BY <2>4 DEF l, p
<1>. QED BY <1>1, <1>3, <1>4

LEMMA LimbsType ==
  ASSUME NEW w \in Nat \ {0}, NEW f \in [0..(LimbsFor(w) - 1) -> SUBSET Positions]
  PROVE  f \in Planes(w)
  BY DEF Planes

\* The constructors.
LEMMA FilledFacts ==
  ASSUME NEW w \in Nat \ {0}, NEW bit
  PROVE  WellFormed(Filled(bit, w)) /\ Filled(bit, w).width = w
<1> DEFINE a == [l \in 0..(LimbsFor(w) - 1) |-> IF AvalOf(bit) THEN Positions ELSE {}]
           b == [l \in 0..(LimbsFor(w) - 1) |-> IF BvalOf(bit) THEN Positions ELSE {}]
<1>1. Filled(bit, w) = Vector(w, a, b)
  BY DEF Filled, Limbs
<1>2. a \in Planes(w) /\ b \in Planes(w)
  BY DEF Planes
<1> HIDE DEF a, b
<1>. QED BY <1>1, <1>2, VectorFacts

LEMMA FromU64Facts ==
  ASSUME NEW w \in Nat \ {0}, NEW n
  PROVE  WellFormed(FromU64(n, w)) /\ FromU64(n, w).width = w
<1> DEFINE a == [l \in 0..(LimbsFor(w) - 1) |-> IF l = 0 THEN ToWord(n) ELSE {}]
           b == [l \in 0..(LimbsFor(w) - 1) |-> {}]
<1>1. FromU64(n, w) = Vector(w, a, b)
  BY DEF FromU64, Limbs
<1>2. ToWord(n) \subseteq Positions
  BY DEF ToWord
<1>3. a \in Planes(w) /\ b \in Planes(w)
  BY <1>2 DEF Planes
<1> HIDE DEF a, b
<1>. QED BY <1>1, <1>3, VectorFacts

LEMMA OneBitFacts ==
  ASSUME NEW x
  PROVE  /\ WellFormed(FromBit(x)) /\ FromBit(x).width = 1
         /\ WellFormed(OneBit(x)) /\ OneBit(x).width = 1
         /\ WellFormed(X(1)) /\ X(1).width = 1
<1>1. 1 \in Nat \ {0}
  OBVIOUS
<1>2. WellFormed(X(1)) /\ X(1).width = 1
  BY <1>1, FilledFacts DEF X
<1>. QED BY <1>1, <1>2, FromU64Facts DEF FromBit, OneBit

\* A vector set bit by bit: a and b are the planes of its bits.
BitPlane(w, f, of(_)) ==
  [l \in 0..(LimbsFor(w) - 1) |-> {p \in Positions : l * Word + p < w /\ of(f[l * Word + p])}]
Assembled(w, f) == Made(w, BitPlane(w, f, AvalOf), BitPlane(w, f, BvalOf))

LEMMA AssembledFacts ==
  ASSUME NEW w \in Nat \ {0}, NEW f
  PROVE  /\ WellFormed(Assembled(w, f)) /\ Assembled(w, f).width = w
         /\ \A i \in 0..(w - 1) : f[i] \in Bit => GetBit(Assembled(w, f), i) = f[i]
<1> DEFINE a == BitPlane(w, f, AvalOf)
           b == BitPlane(w, f, BvalOf)
           v == Made(w, a, b)
<1>0. v = Assembled(w, f)
  BY DEF Assembled
<1>1. a \in Planes(w) /\ b \in Planes(w)
  BY DEF BitPlane, Planes
<1>2. \A l \in 0..(LimbsFor(w) - 1) : \A p \in a[l] \cup b[l] : l * Word + p < w
  BY DEF BitPlane
<1>3. \A l \in 0..(LimbsFor(w) - 1), p \in Positions : l * Word + p < w =>
        (p \in a[l] <=> AvalOf(f[l * Word + p])) /\ (p \in b[l] <=> BvalOf(f[l * Word + p]))
  BY DEF BitPlane
<1> HIDE DEF a, b
<1>4. WellFormed(v) /\ v.width = w /\ v.aval = a /\ v.bval = b
  BY <1>1, <1>2, MadeWellFormed, MadeFacts
<1> HIDE DEF v
<1>5. ASSUME NEW i \in 0..(w - 1), f[i] \in Bit
      PROVE  GetBit(v, i) = f[i]
  <2> DEFINE l == i \div Word
             p == i % Word
  <2>1. l \in 0..(LimbsFor(w) - 1) /\ p \in Positions /\ l * Word + p = i
    BY PlaceFacts
  <2>2. GetBit(v, i) = FromPlanes(p \in a[l], p \in b[l])
    BY <1>4 DEF GetBit
  <2> HIDE DEF l, p
  <2>3. (p \in a[l] <=> AvalOf(f[i])) /\ (p \in b[l] <=> BvalOf(f[i]))
    BY <1>3, <2>1
  <2>. QED BY <1>5, <2>2, <2>3 DEF FromPlanes, AvalOf, BvalOf, Bit
<1>. QED BY <1>0, <1>4, <1>5

\* A bit is one of four.
LEMMA BitType ==
  ASSUME NEW v, NEW i
  PROVE  GetBit(v, i) \in Bit
  BY DEF GetBit, FromPlanes, Bit

\* The bits it is assembled from are all below its width.
LEMMA BitsBelow ==
  ASSUME NEW w \in Nat \ {0}, NEW l \in 0..(LimbsFor(w) - 1), NEW p \in Positions, l * Word + p < w
  PROVE  l * Word + p \in 0..(w - 1)
<1>1. Word \in Nat /\ l \in Nat /\ p \in Nat
  BY WordAssumption, LimbFacts DEF Positions
<1>2. l * Word \in Nat
  BY <1>1
<1>. QED BY <1>1, <1>2

-----------------------------------------------------------------------------
(* Operations that move bits *)

LEMMA ResizeFacts ==
  ASSUME NEW v, WellFormed(v), NEW w \in Nat \ {0}, NEW signed
  PROVE  /\ WellFormed(Resize(v, w, signed)) /\ Resize(v, w, signed).width = w
         /\ ~signed => \A i \in 0..(w - 1) : GetBit(Resize(v, w, signed), i) = BitAt(v, i)
<1> DEFINE f == [i \in 0..(w - 1) |-> IF i < v.width THEN GetBit(v, i) ELSE SignFill(v, signed)]
<1>1. CASE w # v.width
  <2>1. Resize(v, w, signed) =
          FromBits(w, LAMBDA i : IF i < v.width THEN GetBit(v, i) ELSE SignFill(v, signed))
    BY <1>1 DEF Resize
  <2>2. Resize(v, w, signed) = Assembled(w, f)
    BY <2>1, BitsBelow DEF FromBits, Assembled, BitPlane, Limbs, Made
  <2>3. ASSUME ~signed, NEW i \in 0..(w - 1)
        PROVE  f[i] = BitAt(v, i) /\ f[i] \in Bit
    BY <2>3, BitType DEF BitAt, SignFill, Bit
  <2> HIDE DEF f
  <2>. QED BY <2>2, <2>3, AssembledFacts
<1>2. CASE w = v.width
  BY <1>2, FormFacts DEF Resize, BitAt
<1>. QED BY <1>1, <1>2

LEMMA WiderFacts ==
  ASSUME NEW v, WellFormed(v), NEW w, WellFormed(w)
  PROVE  Wider(v, w) \in Nat \ {0} /\ v.width <= Wider(v, w) /\ w.width <= Wider(v, w)
  BY FormFacts DEF Wider

LEMMA ConditionalFacts ==
  ASSUME NEW c, NEW v, WellFormed(v), NEW w, WellFormed(w)
  PROVE  /\ WellFormed(Conditional(c, v, w)) /\ Conditional(c, v, w).width = Wider(v, w)
         /\ \A i \in 0..(Wider(v, w) - 1) :
              GetBit(Conditional(c, v, w), i) =
                IF IsTrue(c) THEN BitAt(v, i) ELSE IF IsKnown(c) THEN BitAt(w, i)
                ELSE IF BitAt(v, i) = BitAt(w, i) THEN BitAt(v, i) ELSE "x"
<1> DEFINE n == Wider(v, w)
           t == Resize(v, n, FALSE)
           u == Resize(w, n, FALSE)
           f == [i \in 0..(n - 1) |-> IF GetBit(t, i) = GetBit(u, i) THEN GetBit(t, i) ELSE "x"]
<1>1. n \in Nat \ {0}
  BY WiderFacts
<1>2. /\ WellFormed(t) /\ t.width = n
      /\ WellFormed(u) /\ u.width = n
      /\ \A i \in 0..(n - 1) : GetBit(t, i) = BitAt(v, i) /\ GetBit(u, i) = BitAt(w, i)
  BY <1>1, ResizeFacts
<1>3. Conditional(c, v, w) =
        IF IsTrue(c) THEN t ELSE IF IsKnown(c) THEN u
        ELSE FromBits(n, LAMBDA i : IF GetBit(t, i) = GetBit(u, i) THEN GetBit(t, i) ELSE "x")
  BY DEF Conditional
<1> HIDE DEF n, t, u
<1>4. FromBits(n, LAMBDA i : IF GetBit(t, i) = GetBit(u, i) THEN GetBit(t, i) ELSE "x") = Assembled(n, f)
  BY <1>1, BitsBelow DEF FromBits, Assembled, BitPlane, Limbs, Made
<1>5. \A i \in 0..(n - 1) :
        f[i] = (IF GetBit(t, i) = GetBit(u, i) THEN GetBit(t, i) ELSE "x") /\ f[i] \in Bit
  BY BitType DEF Bit
<1> HIDE DEF f
<1>6. WellFormed(Conditional(c, v, w)) /\ Conditional(c, v, w).width = n
  <2>1. WellFormed(Assembled(n, f)) /\ Assembled(n, f).width = n
    BY <1>1, AssembledFacts
  <2>. QED BY <1>2, <1>3, <1>4, <2>1
<1>7. ASSUME NEW i \in 0..(n - 1)
      PROVE  GetBit(Conditional(c, v, w), i) =
               IF IsTrue(c) THEN BitAt(v, i) ELSE IF IsKnown(c) THEN BitAt(w, i)
               ELSE IF BitAt(v, i) = BitAt(w, i) THEN BitAt(v, i) ELSE "x"
  <2>1. GetBit(Assembled(n, f), i) = f[i]
    BY <1>1, <1>5, AssembledFacts
  <2>. QED BY <1>2, <1>3, <1>4, <1>5, <2>1
<1>. QED BY <1>6, <1>7 DEF n

LEMMA SmallShift ==
  ASSUME NEW w \in Nat \ {0}, w <= Word, NEW a \in SUBSET Positions, NEW b \in SUBSET Positions
  PROVE  /\ WellFormed(Vector(w, [l \in {0} |-> a], [l \in {0} |-> b]))
         /\ Vector(w, [l \in {0} |-> a], [l \in {0} |-> b]).width = w
<1>1. LimbsFor(w) = 1 /\ 0..(LimbsFor(w) - 1) = {0}
  BY LimbFacts
<1>2. [l \in {0} |-> a] \in Planes(w) /\ [l \in {0} |-> b] \in Planes(w)
  BY <1>1 DEF Planes
<1>. QED BY <1>2, VectorFacts

LEMMA ShlFacts ==
  ASSUME NEW v, WellFormed(v), NEW amt
  PROVE  WellFormed(Shl(v, amt)) /\ Shl(v, amt).width = v.width
<1> DEFINE w == v.width
           up(word) == {p \in Positions : p - amt \in word}
           f == [i \in 0..(w - 1) |-> IF i >= amt THEN GetBit(v, i - amt) ELSE "0"]
<1>1. w \in Nat \ {0}
  BY FormFacts
<1>2. CASE w <= Word
  <2> DEFINE a == up(v.aval[0])
             b == up(v.bval[0])
             r == Vector(w, [l \in {0} |-> a], [l \in {0} |-> b])
  <2>1. Shl(v, amt) = IF amt >= w THEN Zero(w) ELSE r
    BY <1>2 DEF Shl
  <2>2. a \in SUBSET Positions /\ b \in SUBSET Positions
    OBVIOUS
  <2> HIDE DEF a, b
  <2>3. WellFormed(r) /\ r.width = w
    <3> HIDE DEF w
    <3>. QED BY <1>1, <1>2, <2>2, SmallShift
  <2>4. WellFormed(Zero(w)) /\ Zero(w).width = w
    <3> HIDE DEF w
    <3>. QED BY <1>1, FilledFacts DEF Zero
  <2> HIDE DEF r
  <2>. QED BY <2>1, <2>3, <2>4
<1>3. CASE ~(w <= Word)
  <2>1. Shl(v, amt) = FromBits(w, LAMBDA i : IF i >= amt THEN GetBit(v, i - amt) ELSE "0")
    BY <1>3 DEF Shl
  <2>2. Shl(v, amt) = Assembled(w, f)
    BY <1>1, <2>1, BitsBelow DEF FromBits, Assembled, BitPlane, Limbs, Made
  <2>. QED BY <1>1, <2>2, AssembledFacts
<1>. QED BY <1>2, <1>3

LEMMA ShrFacts ==
  ASSUME NEW v, WellFormed(v), NEW amt
  PROVE  WellFormed(Shr(v, amt)) /\ Shr(v, amt).width = v.width
<1> DEFINE w == v.width
           down(word) == {p \in Positions : p + amt \in word}
           f == [i \in 0..(w - 1) |-> IF Index(i, amt) < w THEN GetBit(v, Index(i, amt)) ELSE "0"]
<1>1. w \in Nat \ {0}
  BY FormFacts
<1>2. CASE w <= Word
  <2> DEFINE a == down(v.aval[0])
             b == down(v.bval[0])
             r == Vector(w, [l \in {0} |-> a], [l \in {0} |-> b])
  <2>1. Shr(v, amt) = IF amt >= w THEN Zero(w) ELSE r
    BY <1>2 DEF Shr
  <2>2. a \in SUBSET Positions /\ b \in SUBSET Positions
    OBVIOUS
  <2> HIDE DEF a, b
  <2>3. WellFormed(r) /\ r.width = w
    <3> HIDE DEF w
    <3>. QED BY <1>1, <1>2, <2>2, SmallShift
  <2>4. WellFormed(Zero(w)) /\ Zero(w).width = w
    <3> HIDE DEF w
    <3>. QED BY <1>1, FilledFacts DEF Zero
  <2> HIDE DEF r
  <2>. QED BY <2>1, <2>3, <2>4
<1>3. CASE ~(w <= Word)
  <2>1. Shr(v, amt) = FromBits(w, LAMBDA i : IF Index(i, amt) < w THEN GetBit(v, Index(i, amt)) ELSE "0")
    BY <1>3 DEF Shr
  <2>2. Shr(v, amt) = Assembled(w, f)
    BY <1>1, <2>1, BitsBelow DEF FromBits, Assembled, BitPlane, Limbs, Made
  <2>. QED BY <1>1, <2>2, AssembledFacts
<1>. QED BY <1>2, <1>3

LEMMA AshrFacts ==
  ASSUME NEW v, WellFormed(v), NEW amt
  PROVE  WellFormed(Ashr(v, amt)) /\ Ashr(v, amt).width = v.width
<1> DEFINE w == v.width
           f == [i \in 0..(w - 1) |-> IF Index(i, amt) < w THEN GetBit(v, Index(i, amt))
                                      ELSE SignFill(v, TRUE)]
<1>1. w \in Nat \ {0}
  BY FormFacts
<1>2. Ashr(v, amt) = FromBits(w, LAMBDA i : IF Index(i, amt) < w THEN GetBit(v, Index(i, amt))
                                            ELSE SignFill(v, TRUE))
  BY DEF Ashr
<1>3. Ashr(v, amt) = Assembled(w, f)
  BY <1>1, <1>2, BitsBelow DEF FromBits, Assembled, BitPlane, Limbs, Made
<1>. QED BY <1>1, <1>3, AssembledFacts

\* A bit is written below the width only.
LEMMA SetBitFacts ==
  ASSUME NEW v, WellFormed(v), NEW i \in Nat, NEW bit
  PROVE  WellFormed(SetBit(v, i, bit)) /\ SetBit(v, i, bit).width = v.width
<1> DEFINE w == v.width
           a == v.aval
           b == v.bval
           l == i \div Word
           p == i % Word
           c == [a EXCEPT ![l] = PutIn(a[l], p, AvalOf(bit))]
           d == [b EXCEPT ![l] = PutIn(b[l], p, BvalOf(bit))]
<1>1. /\ w \in Nat \ {0} /\ a \in Planes(w) /\ b \in Planes(w) /\ v = Made(w, a, b)
      /\ \A k \in 0..(LimbsFor(w) - 1) : \A q \in a[k] \cup b[k] : k * Word + q < w
  BY FormFacts
<1>2. CASE i < w
  <2>1. SetBit(v, i, bit) = [v EXCEPT !.aval = c, !.bval = d]
    BY <1>1, <1>2 DEF SetBit
  <2> HIDE DEF w, a, b
  <2>2. SetBit(v, i, bit) = Made(w, c, d)
    BY <1>1, <2>1 DEF Made
  <2>3. i \in 0..(w - 1)
    BY <1>1, <1>2
  <2>4. l \in 0..(LimbsFor(w) - 1) /\ p \in Positions /\ l * Word + p < w
    BY <1>1, <1>2, <2>3, PlaceFacts
  <2> HIDE DEF l, p
  <2>5. c \in Planes(w) /\ d \in Planes(w)
    BY <1>1, <2>4 DEF Planes, PutIn
  <2>6. \A k \in 0..(LimbsFor(w) - 1) : \A q \in c[k] \cup d[k] : k * Word + q < w
    BY <1>1, <2>4 DEF Planes, PutIn
  <2> HIDE DEF c, d
  <2>7. WellFormed(SetBit(v, i, bit)) /\ SetBit(v, i, bit).width = w
    BY <1>1, <2>2, <2>5, <2>6, MadeWellFormed
  <2>. QED BY <2>7 DEF w
<1>3. CASE ~(i < w)
  BY <1>1, <1>3 DEF SetBit
<1>. QED BY <1>2, <1>3

-----------------------------------------------------------------------------
(* The word-parallel operations *)

\* A bit, with zeros above the width, in the words of a vector; that they are
\* clear above the width is needed here.
LEMMA LimbBit ==
  ASSUME NEW v, WellFormed(v), NEW i \in Nat
  PROVE  /\ \A l : Limb(v.aval, l) \subseteq Positions /\ Limb(v.bval, l) \subseteq Positions
         /\ BitAt(v, i) = FromPlanes(i % Word \in Limb(v.aval, i \div Word),
                                     i % Word \in Limb(v.bval, i \div Word))
<1> DEFINE w == v.width
           a == v.aval
           b == v.bval
           l == i \div Word
           p == i % Word
           n == LimbsFor(w)
<1>1. /\ w \in Nat \ {0} /\ a \in Planes(w) /\ b \in Planes(w)
      /\ \A k \in 0..(n - 1) : \A q \in a[k] \cup b[k] : k * Word + q < w
  BY FormFacts
<1>2. DOMAIN a = 0..(n - 1) /\ DOMAIN b = 0..(n - 1)
  BY <1>1 DEF Planes
<1>3. \A k : Limb(a, k) \subseteq Positions /\ Limb(b, k) \subseteq Positions
  <2> HIDE DEF w, a, b
  <2>. QED BY <1>1, <1>2 DEF Planes, Limb
<1>4. l \in Nat /\ p \in Positions /\ i = l * Word + p
  BY WordAssumption, DivFacts DEF Positions
<1>5. CASE i < w
  <2>1. l \in 0..(n - 1)
    BY <1>1, <1>5, PlaceFacts
  <2>2. Limb(a, l) = a[l] /\ Limb(b, l) = b[l]
    <3> HIDE DEF a, b, l
    <3>. QED BY <1>2, <2>1 DEF Limb
  <2>3. BitAt(v, i) = FromPlanes(p \in a[l], p \in b[l])
    BY <1>1, <1>5 DEF BitAt, GetBit
  <2>. QED BY <1>3, <2>2, <2>3
<1>6. CASE ~(i < w)
  <2>1. BitAt(v, i) = "0"
    BY <1>6 DEF BitAt
  <2>2. p \notin Limb(a, l) /\ p \notin Limb(b, l)
    <3> HIDE DEF w, a, b, l, p, n
    <3>. QED BY <1>1, <1>2, <1>4, <1>6 DEF Limb
  <2>3. FromPlanes(p \in Limb(a, l), p \in Limb(b, l)) = "0"
    BY <2>2 DEF FromPlanes
  <2>. QED BY <1>3, <2>1, <2>3
<1>. QED BY <1>5, <1>6

LEMMA AndFacts ==
  ASSUME NEW v, WellFormed(v), NEW w, WellFormed(w)
  PROVE  /\ WellFormed(BitAnd(v, w))
         /\ \A i \in 0..(Wider(v, w) - 1) : GetBit(BitAnd(v, w), i) = And1(BitAt(v, i), BitAt(w, i))
<1> DEFINE n == Wider(v, w)
           A(l) == Limb(v.aval, l)
           B(l) == Limb(v.bval, l)
           C(l) == Limb(w.aval, l)
           D(l) == Limb(w.bval, l)
           one(l) == Ones(A(l), B(l)) \cap Ones(C(l), D(l))
           other(l) == Complement(Zeros(A(l), B(l)) \cup Zeros(C(l), D(l))) \ (Ones(A(l), B(l)) \cap Ones(C(l), D(l)))
           a == [l \in 0..(LimbsFor(n) - 1) |-> one(l)]
           b == [l \in 0..(LimbsFor(n) - 1) |-> other(l)]
<1>1. BitAnd(v, w) = Vector(n, a, b)
  BY DEF BitAnd, ZipWord, Limbs
<1>2. n \in Nat \ {0}
  BY WiderFacts
<1>3. \A l : /\ A(l) \in SUBSET Positions /\ B(l) \in SUBSET Positions
             /\ C(l) \in SUBSET Positions /\ D(l) \in SUBSET Positions
  BY LimbBit, 0 \in Nat
<1> HIDE DEF n, A, B, C, D
<1>4. a \in Planes(n) /\ b \in Planes(n)
  BY <1>3 DEF Planes, Ones, Complement
<1>5. \A l \in 0..(LimbsFor(n) - 1) : a[l] = one(l) /\ b[l] = other(l)
  OBVIOUS
<1>6. ASSUME NEW l, NEW p \in Positions
      PROVE  And1(FromPlanes(p \in A(l), p \in B(l)), FromPlanes(p \in C(l), p \in D(l)))
               = FromPlanes(p \in one(l), p \in other(l))
  <2> DEFINE x == FromPlanes(p \in A(l), p \in B(l))
             y == FromPlanes(p \in C(l), p \in D(l))
  <2>1. /\ x = IF p \in B(l) THEN IF p \in A(l) THEN "z" ELSE "x" ELSE IF p \in A(l) THEN "1" ELSE "0"
        /\ y = IF p \in D(l) THEN IF p \in C(l) THEN "z" ELSE "x" ELSE IF p \in C(l) THEN "1" ELSE "0"
    BY DEF FromPlanes
  <2> HIDE DEF x, y
  <2>2. And1(x, y) = FromPlanes(p \in one(l), p \in other(l))
    BY <2>1 DEF And1, FromPlanes, Ones, Zeros, Complement
  <2>. QED BY <2>2 DEF x, y
<1> HIDE DEF a, b, one, other
<1>7. ASSUME NEW i \in 0..(n - 1)
      PROVE  GetBit(BitAnd(v, w), i) = And1(BitAt(v, i), BitAt(w, i))
  <2> DEFINE l == i \div Word
             p == i % Word
  <2>1. l \in 0..(LimbsFor(n) - 1) /\ p \in Positions
    BY <1>2, PlaceFacts
  <2>2. GetBit(BitAnd(v, w), i) = FromPlanes(p \in a[l], p \in b[l])
    BY <1>1, <1>2, <1>4, VectorFacts
  <2>3. BitAt(v, i) = FromPlanes(p \in A(l), p \in B(l)) /\ BitAt(w, i) = FromPlanes(p \in C(l), p \in D(l))
    BY <1>2, LimbBit DEF A, B, C, D
  <2> HIDE DEF l, p
  <2>4. GetBit(BitAnd(v, w), i) = FromPlanes(p \in one(l), p \in other(l))
    BY <1>5, <2>1, <2>2
  <2>. QED BY <1>6, <2>1, <2>3, <2>4
<1>. QED BY <1>1, <1>2, <1>4, <1>7, VectorFacts DEF n

LEMMA OrFacts ==
  ASSUME NEW v, WellFormed(v), NEW w, WellFormed(w)
  PROVE  /\ WellFormed(BitOr(v, w))
         /\ \A i \in 0..(Wider(v, w) - 1) : GetBit(BitOr(v, w), i) = Or1(BitAt(v, i), BitAt(w, i))
<1> DEFINE n == Wider(v, w)
           A(l) == Limb(v.aval, l)
           B(l) == Limb(v.bval, l)
           C(l) == Limb(w.aval, l)
           D(l) == Limb(w.bval, l)
           one(l) == Ones(A(l), B(l)) \cup Ones(C(l), D(l))
           other(l) == Complement(Zeros(A(l), B(l)) \cap Zeros(C(l), D(l))) \ (Ones(A(l), B(l)) \cup Ones(C(l), D(l)))
           a == [l \in 0..(LimbsFor(n) - 1) |-> one(l)]
           b == [l \in 0..(LimbsFor(n) - 1) |-> other(l)]
<1>1. BitOr(v, w) = Vector(n, a, b)
  BY DEF BitOr, ZipWord, Limbs
<1>2. n \in Nat \ {0}
  BY WiderFacts
<1>3. \A l : /\ A(l) \in SUBSET Positions /\ B(l) \in SUBSET Positions
             /\ C(l) \in SUBSET Positions /\ D(l) \in SUBSET Positions
  BY LimbBit, 0 \in Nat
<1> HIDE DEF n, A, B, C, D
<1>4. a \in Planes(n) /\ b \in Planes(n)
  BY <1>3 DEF Planes, Ones, Complement
<1>5. \A l \in 0..(LimbsFor(n) - 1) : a[l] = one(l) /\ b[l] = other(l)
  OBVIOUS
<1>6. ASSUME NEW l, NEW p \in Positions
      PROVE  Or1(FromPlanes(p \in A(l), p \in B(l)), FromPlanes(p \in C(l), p \in D(l)))
               = FromPlanes(p \in one(l), p \in other(l))
  <2> DEFINE x == FromPlanes(p \in A(l), p \in B(l))
             y == FromPlanes(p \in C(l), p \in D(l))
  <2>1. /\ x = IF p \in B(l) THEN IF p \in A(l) THEN "z" ELSE "x" ELSE IF p \in A(l) THEN "1" ELSE "0"
        /\ y = IF p \in D(l) THEN IF p \in C(l) THEN "z" ELSE "x" ELSE IF p \in C(l) THEN "1" ELSE "0"
    BY DEF FromPlanes
  <2> HIDE DEF x, y
  <2>2. Or1(x, y) = FromPlanes(p \in one(l), p \in other(l))
    BY <2>1 DEF Or1, FromPlanes, Ones, Zeros, Complement
  <2>. QED BY <2>2 DEF x, y
<1> HIDE DEF a, b, one, other
<1>7. ASSUME NEW i \in 0..(n - 1)
      PROVE  GetBit(BitOr(v, w), i) = Or1(BitAt(v, i), BitAt(w, i))
  <2> DEFINE l == i \div Word
             p == i % Word
  <2>1. l \in 0..(LimbsFor(n) - 1) /\ p \in Positions
    BY <1>2, PlaceFacts
  <2>2. GetBit(BitOr(v, w), i) = FromPlanes(p \in a[l], p \in b[l])
    BY <1>1, <1>2, <1>4, VectorFacts
  <2>3. BitAt(v, i) = FromPlanes(p \in A(l), p \in B(l)) /\ BitAt(w, i) = FromPlanes(p \in C(l), p \in D(l))
    BY <1>2, LimbBit DEF A, B, C, D
  <2> HIDE DEF l, p
  <2>4. GetBit(BitOr(v, w), i) = FromPlanes(p \in one(l), p \in other(l))
    BY <1>5, <2>1, <2>2
  <2>. QED BY <1>6, <2>1, <2>3, <2>4
<1>. QED BY <1>1, <1>2, <1>4, <1>7, VectorFacts DEF n

LEMMA XorFacts ==
  ASSUME NEW v, WellFormed(v), NEW w, WellFormed(w)
  PROVE  /\ WellFormed(BitXor(v, w))
         /\ \A i \in 0..(Wider(v, w) - 1) : GetBit(BitXor(v, w), i) = Xor1(BitAt(v, i), BitAt(w, i))
<1> DEFINE n == Wider(v, w)
           A(l) == Limb(v.aval, l)
           B(l) == Limb(v.bval, l)
           C(l) == Limb(w.aval, l)
           D(l) == Limb(w.bval, l)
           one(l) == SymDiff(A(l), C(l)) \ (B(l) \cup D(l))
           other(l) == B(l) \cup D(l)
           a == [l \in 0..(LimbsFor(n) - 1) |-> one(l)]
           b == [l \in 0..(LimbsFor(n) - 1) |-> other(l)]
<1>1. BitXor(v, w) = Vector(n, a, b)
  BY DEF BitXor, ZipWord, Limbs
<1>2. n \in Nat \ {0}
  BY WiderFacts
<1>3. \A l : /\ A(l) \in SUBSET Positions /\ B(l) \in SUBSET Positions
             /\ C(l) \in SUBSET Positions /\ D(l) \in SUBSET Positions
  BY LimbBit, 0 \in Nat
<1> HIDE DEF n, A, B, C, D
<1>4. a \in Planes(n) /\ b \in Planes(n)
  BY <1>3 DEF Planes, SymDiff
<1>5. \A l \in 0..(LimbsFor(n) - 1) : a[l] = one(l) /\ b[l] = other(l)
  OBVIOUS
<1>6. ASSUME NEW l, NEW p \in Positions
      PROVE  Xor1(FromPlanes(p \in A(l), p \in B(l)), FromPlanes(p \in C(l), p \in D(l)))
               = FromPlanes(p \in one(l), p \in other(l))
  <2> DEFINE x == FromPlanes(p \in A(l), p \in B(l))
             y == FromPlanes(p \in C(l), p \in D(l))
  <2>1. /\ x = IF p \in B(l) THEN IF p \in A(l) THEN "z" ELSE "x" ELSE IF p \in A(l) THEN "1" ELSE "0"
        /\ y = IF p \in D(l) THEN IF p \in C(l) THEN "z" ELSE "x" ELSE IF p \in C(l) THEN "1" ELSE "0"
    BY DEF FromPlanes
  <2> HIDE DEF x, y
  <2>2. Xor1(x, y) = FromPlanes(p \in one(l), p \in other(l))
    BY <2>1 DEF Xor1, IsUnknown, FromPlanes, SymDiff
  <2>. QED BY <2>2 DEF x, y
<1> HIDE DEF a, b, one, other
<1>7. ASSUME NEW i \in 0..(n - 1)
      PROVE  GetBit(BitXor(v, w), i) = Xor1(BitAt(v, i), BitAt(w, i))
  <2> DEFINE l == i \div Word
             p == i % Word
  <2>1. l \in 0..(LimbsFor(n) - 1) /\ p \in Positions
    BY <1>2, PlaceFacts
  <2>2. GetBit(BitXor(v, w), i) = FromPlanes(p \in a[l], p \in b[l])
    BY <1>1, <1>2, <1>4, VectorFacts
  <2>3. BitAt(v, i) = FromPlanes(p \in A(l), p \in B(l)) /\ BitAt(w, i) = FromPlanes(p \in C(l), p \in D(l))
    BY <1>2, LimbBit DEF A, B, C, D
  <2> HIDE DEF l, p
  <2>4. GetBit(BitXor(v, w), i) = FromPlanes(p \in one(l), p \in other(l))
    BY <1>5, <2>1, <2>2
  <2>. QED BY <1>6, <2>1, <2>3, <2>4
<1>. QED BY <1>1, <1>2, <1>4, <1>7, VectorFacts DEF n

LEMMA NotFacts ==
  ASSUME NEW v, WellFormed(v)
  PROVE  /\ WellFormed(BitNot(v))
         /\ \A i \in 0..(v.width - 1) : GetBit(BitNot(v), i) = Not1(GetBit(v, i))
<1> DEFINE n == v.width
           c == v.aval
           d == v.bval
           a == [l \in DOMAIN c |-> Complement(c[l]) \cap Complement(d[l])]
           b == [l \in DOMAIN c |-> d[l]]
<1>1. BitNot(v) = Vector(n, a, b)
  BY DEF BitNot, MapWord
<1>2. n \in Nat \ {0} /\ c \in Planes(n) /\ d \in Planes(n)
  BY FormFacts
<1>3. \A i \in 0..(n - 1) : GetBit(v, i) = FromPlanes(i % Word \in c[i \div Word], i % Word \in d[i \div Word])
  BY <1>2 DEF GetBit
<1> HIDE DEF n, c, d
<1>4. a \in Planes(n) /\ b \in Planes(n)
  BY <1>2 DEF Planes, Complement
<1>5. \A l \in 0..(LimbsFor(n) - 1) :
        /\ a[l] = Complement(c[l]) \cap Complement(d[l]) /\ b[l] = d[l]
        /\ c[l] \in SUBSET Positions /\ d[l] \in SUBSET Positions
  BY <1>2 DEF Planes
<1> HIDE DEF a, b
<1>6. ASSUME NEW i \in 0..(n - 1)
      PROVE  GetBit(BitNot(v), i) = Not1(GetBit(v, i))
  <2> DEFINE l == i \div Word
             p == i % Word
  <2>1. l \in 0..(LimbsFor(n) - 1) /\ p \in Positions
    BY <1>2, PlaceFacts
  <2>2. GetBit(BitNot(v), i) = FromPlanes(p \in a[l], p \in b[l])
    BY <1>1, <1>2, <1>4, VectorFacts
  <2>3. GetBit(v, i) = FromPlanes(p \in c[l], p \in d[l])
    BY <1>3
  <2> HIDE DEF l, p
  <2>4. Not1(FromPlanes(p \in c[l], p \in d[l])) = FromPlanes(p \in Complement(c[l]) \cap Complement(d[l]), p \in d[l])
    <3> DEFINE x == FromPlanes(p \in c[l], p \in d[l])
    <3>1. x = IF p \in d[l] THEN IF p \in c[l] THEN "z" ELSE "x" ELSE IF p \in c[l] THEN "1" ELSE "0"
      BY DEF FromPlanes
    <3> HIDE DEF x
    <3>2. Not1(x) = FromPlanes(p \in Complement(c[l]) \cap Complement(d[l]), p \in d[l])
      BY <2>1, <3>1 DEF Not1, FromPlanes, Complement
    <3>. QED BY <3>2 DEF x
  <2>. QED BY <1>5, <2>1, <2>2, <2>3, <2>4
<1>. QED BY <1>1, <1>2, <1>4, <1>6, VectorFacts DEF n

-----------------------------------------------------------------------------
(* The instructions *)

LEMMA AddSubFacts ==
  ASSUME NEW v, WellFormed(v), NEW w, WellFormed(w), NEW sub
  PROVE  WellFormed(AddSub(v, w, sub))
<1> DEFINE n == Wider(v, w)
<1>1. n \in Nat \ {0}
  BY WiderFacts
<1>2. WellFormed(X(n)) /\ \A m : WellFormed(FromU64(m, n))
  BY <1>1, FilledFacts, FromU64Facts DEF X
<1>3. WellFormed(WideAddSub(v, w, sub, n))
  <2> DEFINE addend(l) == IF sub THEN Complement(Limb(w.aval, l)) ELSE Limb(w.aval, l)
             sum[l \in 0..(LimbsFor(n) - 1)] ==
               ToNumber(Limb(v.aval, l)) + ToNumber(addend(l)) +
               (IF l = 0 THEN (IF sub THEN 1 ELSE 0) ELSE sum[l - 1] \div WordMax)
             a == [l \in 0..(LimbsFor(n) - 1) |-> ToWord(sum[l] % WordMax)]
             b == [l \in 0..(LimbsFor(n) - 1) |-> {}]
  <2>1. WideAddSub(v, w, sub, n) = Vector(n, a, b)
    BY DEF WideAddSub, Limbs
  <2> HIDE DEF sum, n
  <2>2. a \in Planes(n) /\ b \in Planes(n)
    BY DEF Planes, ToWord
  <2> HIDE DEF a, b
  <2>. QED BY <1>1, <2>1, <2>2, VectorFacts
<1> HIDE DEF n
<1>4. /\ AnyUnknown(v, w) => AddSub(v, w, sub) = X(n)
      /\ ~AnyUnknown(v, w) /\ n <= Word => \E m : AddSub(v, w, sub) = FromU64(m, n)
      /\ ~AnyUnknown(v, w) /\ ~(n <= Word) => AddSub(v, w, sub) = WideAddSub(v, w, sub, n)
  BY DEF AddSub, n
<1>. QED BY <1>2, <1>3, <1>4

LEMMA UnaryWellFormed ==
  ASSUME NEW v, WellFormed(v), NEW op \in Unary
  PROVE  WellFormed(Apply1(op, v))
<1>1. WellFormed(BitNot(v))
  BY NotFacts
<1>2. WellFormed(Neg(v))
  <2>1. WellFormed(Zero(v.width))
    BY FormFacts, FilledFacts DEF Zero
  <2>. QED BY <2>1, AddSubFacts DEF Neg
<1>3. WellFormed(LogNot(v))
  BY OneBitFacts DEF LogNot
<1>4. /\ WellFormed(OneBit(IsKnown(v))) /\ WellFormed(FromBit(ReduceAnd(v)))
      /\ WellFormed(FromBit(ReduceOr(v))) /\ WellFormed(FromBit(ReduceXor(v)))
  BY OneBitFacts
<1>. QED BY <1>1, <1>2, <1>3, <1>4 DEF Unary, Apply1

LEMMA BinaryWellFormed ==
  ASSUME NEW v, WellFormed(v), NEW w, WellFormed(w), NEW op \in Binary
  PROVE  WellFormed(Apply2(op, v, w))
<1>1. WellFormed(AddSub(v, w, FALSE)) /\ WellFormed(AddSub(v, w, TRUE))
  BY AddSubFacts
<1>2. WellFormed(Mul(v, w))
  BY WiderFacts, FilledFacts, FromU64Facts DEF Mul, X
<1>3. WellFormed(BitAnd(v, w)) /\ WellFormed(BitOr(v, w)) /\ WellFormed(BitXor(v, w))
  BY AndFacts, OrFacts, XorFacts
<1>4. WellFormed(EqLogical(v, w)) /\ \A u : WellFormed(LogNot(u))
  BY OneBitFacts DEF EqLogical, LogNot
<1>5. \A signed, orders : WellFormed(Rel(v, w, signed, orders))
  BY OneBitFacts DEF Rel
<1>6. WellFormed(Shl(v, Amount(w))) /\ WellFormed(Shr(v, Amount(w))) /\ WellFormed(Ashr(v, Amount(w)))
  BY ShlFacts, ShrFacts, AshrFacts
<1>7. WellFormed(OneBit(IsTrue(v) /\ IsTrue(w))) /\ WellFormed(OneBit(IsTrue(v) \/ IsTrue(w)))
  BY OneBitFacts
<1>. QED BY <1>1, <1>2, <1>3, <1>4, <1>5, <1>6, <1>7 DEF Binary, Apply2

LEMMA BitWellFormed ==
  ASSUME NEW v, WellFormed(v), NEW idx, NEW src, InRange(v, idx) => ToU64(idx) \in Nat
  PROVE  WellFormed(SelectBit(v, idx)) /\ WellFormed(WriteBit(v, idx, src))
<1>1. WellFormed(SelectBit(v, idx))
  BY OneBitFacts DEF SelectBit
<1>2. WellFormed(WriteBit(v, idx, src))
  BY SetBitFacts DEF WriteBit
<1>. QED BY <1>1, <1>2

\* A condition of one bit is true, known or unknown as its bit is.
LEMMA ConditionBit ==
  ASSUME NEW c, WellFormed(c), c.width = 1
  PROVE  /\ IsTrue(c) <=> GetBit(c, 0) = "1"
         /\ IsKnown(c) <=> GetBit(c, 0) \in {"0", "1"}
<1> DEFINE a == c.aval
           b == c.bval
<1>1. Word \in Nat \ {0} /\ 1 <= Word /\ LimbsFor(1) = 1
  BY WordAssumption, LimbFacts
<1>2. /\ a \in [{0} -> SUBSET Positions] /\ b \in [{0} -> SUBSET Positions]
      /\ \A p \in a[0] \cup b[0] : 0 * Word + p < 1
  <2>1. 0..(LimbsFor(1) - 1) = {0}
    BY <1>1
  <2>. QED BY <2>1, FormFacts DEF Planes
<1>3. GetBit(c, 0) = FromPlanes(0 \in a[0], 0 \in b[0])
  <2>1. 0 \div Word = 0 /\ 0 % Word = 0
    BY <1>1
  <2>. QED BY <2>1 DEF GetBit
<1>4. IsTrue(c) <=> a[0] \ b[0] # {}
  BY <1>2 DEF IsTrue
<1>5. IsKnown(c) <=> b[0] = {}
  BY <1>2 DEF IsKnown
<1> HIDE DEF a, b
<1>6. a[0] \subseteq {0} /\ b[0] \subseteq {0}
  <2>1. \A p \in Positions : 0 * Word + p < 1 => p = 0
    BY <1>1 DEF Positions
  <2>. QED BY <1>2, <2>1
<1>. QED BY <1>3, <1>4, <1>5, <1>6 DEF FromPlanes

LEMMA MergesExact ==
  ASSUME NEW c, WellFormed(c), c.width = 1, NEW v, WellFormed(v), NEW w, WellFormed(w)
  PROVE  MergeExactOf(c, v, w)
<1>1. GetBit(c, 0) \in Bit
  BY BitType
<1>. QED BY <1>1, ConditionBit, ConditionalFacts DEF MergeExactOf, Bit

\* Two vectors of one width with the same bits have the same words, since nothing
\* is above the width.
LEMMA SameBits ==
  ASSUME NEW v, WellFormed(v), NEW w, WellFormed(w), v.width = w.width,
         \A i \in 0..(v.width - 1) : GetBit(v, i) = GetBit(w, i)
  PROVE  v.aval = w.aval /\ v.bval = w.bval
<1> DEFINE n == v.width
           a == v.aval
           b == v.bval
           c == w.aval
           d == w.bval
<1>1. /\ n \in Nat \ {0} /\ a \in Planes(n) /\ b \in Planes(n) /\ c \in Planes(n) /\ d \in Planes(n)
      /\ \A l \in 0..(LimbsFor(n) - 1) : \A p \in a[l] \cup b[l] \cup c[l] \cup d[l] : l * Word + p < n
  BY FormFacts
<1>2. ASSUME NEW l \in 0..(LimbsFor(n) - 1), NEW p \in Positions, l * Word + p < n
      PROVE  (p \in a[l] <=> p \in c[l]) /\ (p \in b[l] <=> p \in d[l])
  <2> DEFINE i == l * Word + p
             k == i \div Word
             q == i % Word
  <2>1. i \in 0..(n - 1)
    BY <1>1, <1>2, BitsBelow
  <2>2. k = l /\ q = p
    <3>1. k \in 0..(LimbsFor(n) - 1) /\ q \in Positions /\ k * Word + q = i
      BY <1>1, <2>1, PlaceFacts
    <3>2. Word \in Nat \ {0} /\ LimbsFor(n) \in Nat
      BY <1>1, WordAssumption, LimbFacts
    <3>3. k * Word + q = l * Word + p
      BY <3>1
    <3> HIDE DEF k, q, i, n
    <3>. QED BY <3>1, <3>2, <3>3, PositionOrder DEF Positions
  <2>3. GetBit(v, i) = FromPlanes(q \in a[k], q \in b[k]) /\ GetBit(w, i) = FromPlanes(q \in c[k], q \in d[k])
    BY <1>1, <2>1 DEF GetBit
  <2>4. GetBit(v, i) = GetBit(w, i)
    BY <2>1
  <2> HIDE DEF i, k, q, a, b, c, d
  <2>. QED BY <2>2, <2>3, <2>4 DEF FromPlanes
<1> HIDE DEF a, b, c, d, n
<1>3. \A l \in 0..(LimbsFor(n) - 1) : a[l] = c[l] /\ b[l] = d[l]
  BY <1>1, <1>2 DEF Planes
<1>4. a = c /\ b = d
  <2> DEFINE P == 0..(LimbsFor(n) - 1)
             R == SUBSET Positions
  <2>1. a \in [P -> R] /\ b \in [P -> R] /\ c \in [P -> R] /\ d \in [P -> R]
    BY <1>1 DEF Planes
  <2>2. (\A l \in P : a[l] = c[l]) /\ (\A l \in P : b[l] = d[l])
    BY <1>3
  <2> HIDE DEF P, R
  <2>3. a = c
    BY <2>1, <2>2
  <2>4. b = d
    BY <2>1, <2>2
  <2>. QED BY <2>3, <2>4
<1>. QED BY <1>4 DEF a, b, c, d

LEMMA EqCaseFacts ==
  ASSUME NEW v, WellFormed(v), NEW w, WellFormed(w)
  PROVE  EqCase(v, w) <=> v.width = w.width /\ \A i \in 0..(v.width - 1) : GetBit(v, i) = GetBit(w, i)
<1>1. ASSUME v.width = w.width, v.aval = w.aval, v.bval = w.bval
      PROVE  \A i \in 0..(v.width - 1) : GetBit(v, i) = GetBit(w, i)
  BY <1>1 DEF GetBit
<1>. QED BY <1>1, SameBits DEF EqCase

LEMMA WrittenBit ==
  ASSUME NEW v, WellFormed(v), NEW i \in 0..(v.width - 1), NEW j \in 0..(v.width - 1), NEW bit \in Bit
  PROVE  GetBit(SetBit(v, i, bit), j) = IF i = j THEN bit ELSE GetBit(v, j)
<1> DEFINE w == v.width
           a == v.aval
           b == v.bval
           l == i \div Word
           p == i % Word
           k == j \div Word
           q == j % Word
           c == [a EXCEPT ![l] = PutIn(a[l], p, AvalOf(bit))]
           d == [b EXCEPT ![l] = PutIn(b[l], p, BvalOf(bit))]
           u == SetBit(v, i, bit)
<1>1. w \in Nat \ {0} /\ a \in Planes(w) /\ b \in Planes(w) /\ v = Made(w, a, b)
  BY FormFacts
<1>2. /\ l \in 0..(LimbsFor(w) - 1) /\ p \in Positions /\ l * Word + p = i
      /\ k \in 0..(LimbsFor(w) - 1) /\ q \in Positions /\ k * Word + q = j
  BY <1>1, PlaceFacts
<1>3. u = [v EXCEPT !.aval = c, !.bval = d]
  BY <1>1 DEF SetBit
<1>4. u = Made(w, c, d)
  <2> HIDE DEF w, a, b, c, d, u
  <2>. QED BY <1>1, <1>3 DEF Made
<1>5. GetBit(v, j) = FromPlanes(q \in a[k], q \in b[k])
  BY <1>1 DEF GetBit
<1>6. GetBit(u, j) = FromPlanes(q \in c[k], q \in d[k])
  <2>1. u.width = w /\ u.aval = c /\ u.bval = d
    BY <1>4, MadeFacts
  <2> HIDE DEF u, c, d
  <2>. QED BY <1>1, <2>1 DEF GetBit
<1>7. i = j <=> l = k /\ p = q
  BY <1>2
<1> HIDE DEF w, a, b, l, p, k, q, u
<1>8. /\ DOMAIN a = 0..(LimbsFor(w) - 1) /\ DOMAIN b = 0..(LimbsFor(w) - 1)
  BY <1>1 DEF Planes
<1>9. CASE k # l
  <2>1. c[k] = a[k] /\ d[k] = b[k]
    BY <1>2, <1>8, <1>9
  <2>. QED BY <1>5, <1>6, <1>7, <1>9, <2>1 DEF u
<1>10. CASE k = l
  <2>1. c[k] = PutIn(a[k], p, AvalOf(bit)) /\ d[k] = PutIn(b[k], p, BvalOf(bit))
    BY <1>2, <1>8, <1>10
  <2> HIDE DEF c, d
  <2>2. CASE p = q
    BY <1>6, <1>7, <1>10, <2>1, <2>2 DEF FromPlanes, PutIn, AvalOf, BvalOf, Bit, u
  <2>3. CASE p # q
    <3>1. (q \in c[k] <=> q \in a[k]) /\ (q \in d[k] <=> q \in b[k])
      BY <2>1, <2>3 DEF PutIn
    <3>. QED BY <1>5, <1>6, <1>7, <1>10, <2>3, <3>1 DEF FromPlanes, u
  <2>. QED BY <2>2, <2>3
<1>. QED BY <1>9, <1>10

\* The four-state tables of single bits, for operands of any widths (LimbBit gives
\* the zeros above the shorter one), equality and writing of bits.
LEMMA BitsExactly ==
  ASSUME NEW v, WellFormed(v), NEW w, WellFormed(w)
  PROVE  BitwiseExactOf(v, w)
  BY AndFacts, OrFacts, XorFacts, EqCaseFacts DEF BitwiseExactOf

LEMMA OneBitExactly ==
  ASSUME NEW v, WellFormed(v)
  PROVE  OneBitExactOf(v)
  BY NotFacts, WrittenBit DEF OneBitExactOf

-----------------------------------------------------------------------------
(* Bits move *)

\* A vector is its width and its bits.
LEMMA SameVector ==
  ASSUME NEW v, WellFormed(v), NEW w, WellFormed(w), v.width = w.width,
         \A i \in 0..(v.width - 1) : GetBit(v, i) = GetBit(w, i)
  PROVE  v = w
<1>1. v.aval = w.aval /\ v.bval = w.bval
  BY SameBits
<1>2. v = Made(v.width, v.aval, v.bval) /\ w = Made(w.width, w.aval, w.bval)
  BY FormFacts
<1>. QED BY <1>1, <1>2

\* A vector of the bits of a function is v when v has those bits.
LEMMA AssembledAs ==
  ASSUME NEW v, WellFormed(v), NEW f, \A i \in 0..(v.width - 1) : f[i] = GetBit(v, i)
  PROVE  Assembled(v.width, f) = v
<1> DEFINE n == v.width
           u == Assembled(n, f)
<1>1. n \in Nat \ {0}
  BY FormFacts
<1>2. \A i \in 0..(n - 1) : f[i] \in Bit
  BY BitType
<1>3. WellFormed(u) /\ u.width = n /\ \A i \in 0..(n - 1) : GetBit(u, i) = f[i]
  <2> HIDE DEF n
  <2>. QED BY <1>1, <1>2, AssembledFacts
<1> HIDE DEF u
<1>4. u = v
  BY <1>3, SameVector
<1>. QED BY <1>4 DEF u

LEMMA SliceFacts ==
  ASSUME NEW v, NEW lo \in Nat, NEW hi \in Nat, lo <= hi
  PROVE  /\ WellFormed(Slice(v, hi, lo)) /\ Slice(v, hi, lo).width = hi - lo + 1
         /\ \A i \in 0..(hi - lo) : GetBit(Slice(v, hi, lo), i) = GetBit(v, lo + i)
<1> DEFINE n == hi - lo + 1
           f == [i \in 0..(n - 1) |-> GetBit(v, lo + i)]
<1>1. n \in Nat \ {0} /\ n - 1 = hi - lo
  OBVIOUS
<1>2. Slice(v, hi, lo) = FromBits(n, LAMBDA i : GetBit(v, lo + i))
  BY DEF Slice
<1>3. \A i \in 0..(n - 1) : f[i] = GetBit(v, lo + i) /\ f[i] \in Bit
  BY BitType
<1> HIDE DEF n
<1>4. Slice(v, hi, lo) = Assembled(n, f)
  BY <1>1, <1>2, BitsBelow DEF FromBits, Assembled, BitPlane, Limbs, Made
<1> HIDE DEF f
<1>5. WellFormed(Assembled(n, f)) /\ Assembled(n, f).width = n
      /\ \A i \in 0..(n - 1) : GetBit(Assembled(n, f), i) = f[i]
  BY <1>1, <1>3, AssembledFacts
<1>. QED BY <1>1, <1>3, <1>4, <1>5 DEF n

LEMMA ConcatFacts ==
  ASSUME NEW v, NEW w, v.width \in Nat \ {0}, w.width \in Nat \ {0}
  PROVE  /\ WellFormed(Concat(v, w)) /\ Concat(v, w).width = v.width + w.width
         /\ \A i \in 0..(v.width + w.width - 1) :
              GetBit(Concat(v, w), i) = IF i < w.width THEN GetBit(w, i) ELSE GetBit(v, i - w.width)
<1> DEFINE n == v.width + w.width
           f == [i \in 0..(n - 1) |-> IF i < w.width THEN GetBit(w, i) ELSE GetBit(v, i - w.width)]
<1>1. n \in Nat \ {0}
  OBVIOUS
<1>2. Concat(v, w) = FromBits(n, LAMBDA i : IF i < w.width THEN GetBit(w, i) ELSE GetBit(v, i - w.width))
  BY DEF Concat
<1>3. \A i \in 0..(n - 1) :
        /\ f[i] = IF i < w.width THEN GetBit(w, i) ELSE GetBit(v, i - w.width)
        /\ f[i] \in Bit
  BY BitType
<1> HIDE DEF n
<1>4. Concat(v, w) = Assembled(n, f)
  BY <1>1, <1>2, BitsBelow DEF FromBits, Assembled, BitPlane, Limbs, Made
<1> HIDE DEF f
<1>5. WellFormed(Assembled(n, f)) /\ Assembled(n, f).width = n
      /\ \A i \in 0..(n - 1) : GetBit(Assembled(n, f), i) = f[i]
  BY <1>1, <1>3, AssembledFacts
<1>. QED BY <1>3, <1>4, <1>5 DEF n

\* A vector is the concatenation of its two parts.
LEMMA CutFacts ==
  ASSUME NEW v, WellFormed(v), NEW cut \in 1..(v.width - 1)
  PROVE  Concat(Slice(v, v.width - 1, cut), Slice(v, cut - 1, 0)) = v
<1> DEFINE n == v.width
           high == Slice(v, n - 1, cut)
           low == Slice(v, cut - 1, 0)
           u == Concat(high, low)
<1>1. n \in Nat \ {0} /\ cut \in 1..(n - 1)
  BY FormFacts
<1> HIDE DEF n
<1>2. high.width = n - cut /\ \A i \in 0..(n - 1 - cut) : GetBit(high, i) = GetBit(v, cut + i)
  <2>1. cut \in Nat /\ n - 1 \in Nat /\ cut <= n - 1 /\ (n - 1) - cut + 1 = n - cut
    BY <1>1
  <2>. QED BY <2>1, SliceFacts
<1>3. low.width = cut /\ \A i \in 0..(cut - 1) : GetBit(low, i) = GetBit(v, i)
  <2>1. 0 \in Nat /\ cut - 1 \in Nat /\ 0 <= cut - 1 /\ (cut - 1) - 0 + 1 = cut /\ (cut - 1) - 0 = cut - 1
    BY <1>1
  <2>2. low.width = cut /\ \A i \in 0..(cut - 1) : GetBit(low, i) = GetBit(v, 0 + i)
    <3>1. low.width = (cut - 1) - 0 + 1 /\ \A i \in 0..((cut - 1) - 0) : GetBit(low, i) = GetBit(v, 0 + i)
      BY <2>1, SliceFacts
    <3> HIDE DEF low
    <3>. QED BY <2>1, <3>1
  <2>3. \A i \in 0..(cut - 1) : 0 + i = i
    BY <2>1
  <2> HIDE DEF low
  <2>. QED BY <2>2, <2>3
<1> HIDE DEF high, low
<1>4. high.width \in Nat \ {0} /\ low.width \in Nat \ {0} /\ high.width + low.width = n
  BY <1>1, <1>2, <1>3
<1>5. WellFormed(u) /\ u.width = n
      /\ \A i \in 0..(n - 1) : GetBit(u, i) = IF i < cut THEN GetBit(low, i) ELSE GetBit(high, i - cut)
  BY <1>3, <1>4, ConcatFacts
<1> HIDE DEF u
<1>6. ASSUME NEW i \in 0..(n - 1)
      PROVE  GetBit(u, i) = GetBit(v, i)
  <2>1. CASE i < cut
    BY <2>1, <1>1, <1>3, <1>5
  <2>2. CASE ~(i < cut)
    <3>1. i - cut \in 0..(n - 1 - cut) /\ cut + (i - cut) = i
      BY <2>2, <1>1
    <3>2. GetBit(high, i - cut) = GetBit(v, cut + (i - cut))
      BY <1>2, <3>1
    <3>. QED BY <2>2, <1>5, <3>1, <3>2
  <2>. QED BY <2>1, <2>2
<1>7. u = v
  BY <1>5, <1>6, SameVector DEF n
<1>. QED BY <1>7 DEF u, high, low, n

LEMMA PartSelectFacts ==
  ASSUME NEW v, NEW right \in Nat, NEW left \in Nat, right <= left, NEW i \in 0..(left - right)
  PROVE  /\ GetBit(PartSelect(v, left, right), i) = GetBit(v, right + i)
         /\ GetBit(PartSelect(v, right, left), i) = GetBit(v, left - i)
<1>1. GetBit(PartSelect(v, left, right), i) = GetBit(v, right + i)
  BY SliceFacts DEF PartSelect
<1>2. CASE left = right
  <2>1. left - i = right + i
    BY <1>2
  <2>. QED BY <1>1, <1>2, <2>1
<1>3. CASE right < left
  <2> DEFINE n == left - right + 1
             f == [j \in 0..(n - 1) |-> GetBit(v, left - j)]
  <2>1. n \in Nat \ {0} /\ i \in 0..(n - 1)
    OBVIOUS
  <2>2. PartSelect(v, right, left) = FromBits(n, LAMBDA j : GetBit(v, left - j))
    BY <1>3 DEF PartSelect
  <2>3. f[i] = GetBit(v, left - i) /\ f[i] \in Bit
    BY <2>1, BitType
  <2> HIDE DEF n
  <2>4. PartSelect(v, right, left) = Assembled(n, f)
    BY <2>1, <2>2, BitsBelow DEF FromBits, Assembled, BitPlane, Limbs, Made
  <2> HIDE DEF f
  <2>5. GetBit(Assembled(n, f), i) = f[i]
    BY <2>1, <2>3, AssembledFacts
  <2>. QED BY <1>1, <2>3, <2>4, <2>5
<1>. QED BY <1>2, <1>3

\* A narrower vector is the low part.
LEMMA NarrowFacts ==
  ASSUME NEW v, WellFormed(v), NEW n \in 1..v.width
  PROVE  Resize(v, n, TRUE) = Slice(v, n - 1, 0)
<1> DEFINE r == Resize(v, n, TRUE)
           u == Slice(v, n - 1, 0)
           f == [i \in 0..(n - 1) |-> IF i < v.width THEN GetBit(v, i) ELSE SignFill(v, TRUE)]
<1>1. v.width \in Nat \ {0} /\ n \in Nat \ {0} /\ n <= v.width
  BY FormFacts
<1>2. WellFormed(u) /\ u.width = n /\ \A i \in 0..(n - 1) : GetBit(u, i) = GetBit(v, i)
  <2>1. 0 \in Nat /\ n - 1 \in Nat /\ 0 <= n - 1 /\ (n - 1) - 0 + 1 = n /\ (n - 1) - 0 = n - 1
    BY <1>1
  <2>2. /\ WellFormed(u) /\ u.width = (n - 1) - 0 + 1
        /\ \A i \in 0..((n - 1) - 0) : GetBit(u, i) = GetBit(v, 0 + i)
    BY <2>1, SliceFacts
  <2>3. \A i \in 0..(n - 1) : 0 + i = i
    BY <2>1
  <2> HIDE DEF u
  <2>. QED BY <2>1, <2>2, <2>3
<1> HIDE DEF u
<1>3. CASE n = v.width
  <2>1. r = v
    BY <1>3 DEF Resize
  <2>. QED BY <2>1, <1>2, <1>3, SameVector DEF u
<1>4. CASE n # v.width
  <2>1. r = Assembled(n, f)
    BY <1>1, <1>4, BitsBelow DEF Resize, FromBits, Assembled, BitPlane, Limbs, Made
  <2>2. ASSUME NEW i \in 0..(n - 1)
        PROVE  f[i] = GetBit(u, i)
    <3>1. i < v.width
      BY <1>1
    <3>2. f[i] = GetBit(v, i)
      BY <3>1
    <3>. QED BY <1>2, <3>2
  <2> HIDE DEF f
  <2>3. Assembled(u.width, f) = u
    BY <1>2, <2>2, AssembledAs
  <2>. QED BY <1>2, <2>1, <2>3 DEF u
<1>. QED BY <1>3, <1>4

\* The positions of a small word are those of its bits.
LEMMA SmallPlace ==
  ASSUME NEW w \in Nat \ {0}, w <= Word, NEW i \in 0..(w - 1)
  PROVE  i \div Word = 0 /\ i % Word = i /\ i \in Positions
<1>1. Word \in Nat \ {0} /\ i \in Nat /\ i < Word
  BY WordAssumption
<1>. QED BY <1>1 DEF Positions

LEMMA SmallBit ==
  ASSUME NEW v, WellFormed(v), v.width <= Word, NEW i \in 0..(v.width - 1)
  PROVE  GetBit(v, i) = FromPlanes(i \in v.aval[0], i \in v.bval[0])
<1>1. v.width \in Nat \ {0}
  BY FormFacts
<1>. QED BY <1>1, SmallPlace DEF GetBit

\* Nothing else is in a small word.
LEMMA SmallWord ==
  ASSUME NEW v, WellFormed(v), v.width <= Word
  PROVE  \A p \in v.aval[0] \cup v.bval[0] : p \in 0..(v.width - 1)
<1>1. v.width \in Nat \ {0} /\ 0 \in 0..(LimbsFor(v.width) - 1) /\ Word \in Nat
  BY FormFacts, LimbFacts, WordAssumption
<1>2. /\ v.aval[0] \subseteq Positions /\ v.bval[0] \subseteq Positions
      /\ \A p \in v.aval[0] \cup v.bval[0] : 0 * Word + p < v.width
  BY <1>1, FormFacts DEF Planes
<1>. QED BY <1>1, <1>2 DEF Positions

LEMMA SmallShiftBits ==
  ASSUME NEW w \in Nat \ {0}, w <= Word, NEW a \in SUBSET Positions, NEW b \in SUBSET Positions
  PROVE  \A i \in 0..(w - 1) :
           GetBit(Vector(w, [l \in {0} |-> a], [l \in {0} |-> b]), i) = FromPlanes(i \in a, i \in b)
<1> DEFINE c == [l \in {0} |-> a]
           d == [l \in {0} |-> b]
<1>1. LimbsFor(w) = 1 /\ 0..(LimbsFor(w) - 1) = {0}
  BY LimbFacts
<1>2. c \in Planes(w) /\ d \in Planes(w)
  BY <1>1 DEF Planes
<1>3. c[0] = a /\ d[0] = b
  OBVIOUS
<1> HIDE DEF c, d
<1>4. \A i \in 0..(w - 1) :
        GetBit(Vector(w, c, d), i) = FromPlanes(i % Word \in c[i \div Word], i % Word \in d[i \div Word])
  BY <1>2, VectorFacts
<1>5. \A i \in 0..(w - 1) : GetBit(Vector(w, c, d), i) = FromPlanes(i \in a, i \in b)
  BY <1>3, <1>4, SmallPlace
<1>. QED BY <1>5 DEF c, d

LEMMA ZeroBits ==
  ASSUME NEW w \in Nat \ {0}
  PROVE  /\ WellFormed(Zero(w)) /\ Zero(w).width = w
         /\ \A i \in 0..(w - 1) : GetBit(Zero(w), i) = "0"
<1> DEFINE a == [l \in 0..(LimbsFor(w) - 1) |-> {}]
<1>1. Zero(w) = Vector(w, a, a)
  BY DEF Zero, Filled, Limbs, AvalOf, BvalOf
<1>2. a \in Planes(w)
  BY DEF Planes
<1>3. \A i \in 0..(w - 1) : a[i \div Word] = {}
  BY PlaceFacts
<1> HIDE DEF a
<1>4. \A i \in 0..(w - 1) : GetBit(Vector(w, a, a), i) = "0"
  BY <1>2, <1>3, VectorFacts DEF FromPlanes
<1>. QED BY <1>1, <1>4, FilledFacts DEF Zero

\* A vector set from bits, one by one.
LEMMA ShlBits ==
  ASSUME NEW v, WellFormed(v), NEW amt \in Nat, NEW i \in 0..(v.width - 1)
  PROVE  GetBit(Shl(v, amt), i) = IF i < amt THEN "0" ELSE GetBit(v, i - amt)
<1> DEFINE w == v.width
           want(j) == IF j < amt THEN "0" ELSE GetBit(v, j - amt)
<1>1. w \in Nat \ {0} /\ i \in 0..(w - 1)
  BY FormFacts
<1>2. CASE w <= Word
  <2>1. CASE amt >= w
    <3>1. Shl(v, amt) = Zero(w)
      BY <1>2, <2>1 DEF Shl
    <3> HIDE DEF w
    <3>2. i < amt
      BY <1>1, <2>1
    <3>. QED BY <1>1, <3>1, <3>2, ZeroBits
  <2>2. CASE ~(amt >= w)
    <3> DEFINE a == {p \in Positions : p - amt \in v.aval[0]}
               b == {p \in Positions : p - amt \in v.bval[0]}
    <3>1. Shl(v, amt) = Vector(w, [l \in {0} |-> a], [l \in {0} |-> b])
      BY <1>2, <2>2 DEF Shl
    <3>2. a \in SUBSET Positions /\ b \in SUBSET Positions
      OBVIOUS
    <3>3. (i \in a <=> i - amt \in v.aval[0]) /\ (i \in b <=> i - amt \in v.bval[0])
      BY <1>1, <1>2, SmallPlace
    <3> HIDE DEF a, b
    <3>4. GetBit(Vector(w, [l \in {0} |-> a], [l \in {0} |-> b]), i) = FromPlanes(i \in a, i \in b)
      <4> HIDE DEF w
      <4>. QED BY <1>1, <1>2, <3>2, SmallShiftBits
    <3>5. CASE i < amt
      <4>1. i - amt \notin v.aval[0] /\ i - amt \notin v.bval[0]
        BY <1>1, <1>2, <3>5, SmallWord
      <4>. QED BY <3>1, <3>3, <3>4, <3>5, <4>1 DEF FromPlanes
    <3>6. CASE ~(i < amt)
      <4>1. i - amt \in 0..(v.width - 1)
        BY <1>1, <3>6
      <4>2. GetBit(v, i - amt) = FromPlanes(i - amt \in v.aval[0], i - amt \in v.bval[0])
        BY <1>2, <4>1, SmallBit
      <4>. QED BY <3>1, <3>3, <3>4, <3>6, <4>2 DEF FromPlanes
    <3>. QED BY <3>5, <3>6
  <2>. QED BY <2>1, <2>2
<1>3. CASE ~(w <= Word)
  <2> DEFINE f == [j \in 0..(w - 1) |-> IF j >= amt THEN GetBit(v, j - amt) ELSE "0"]
  <2>1. Shl(v, amt) = FromBits(w, LAMBDA j : IF j >= amt THEN GetBit(v, j - amt) ELSE "0")
    BY <1>3 DEF Shl
  <2>2. Shl(v, amt) = Assembled(w, f)
    BY <1>1, <2>1, BitsBelow DEF FromBits, Assembled, BitPlane, Limbs, Made
  <2>3. f[i] = want(i) /\ f[i] \in Bit
    BY <1>1, BitType DEF Bit
  <2> HIDE DEF f, w
  <2>. QED BY <1>1, <2>2, <2>3, AssembledFacts
<1>. QED BY <1>2, <1>3

LEMMA ShlExact ==
  ASSUME NEW v, WellFormed(v), NEW amt \in Nat
  PROVE  Shl(v, amt) = MovedUp(v, amt)
<1> DEFINE w == v.width
           f == [i \in 0..(w - 1) |-> IF i < amt THEN "0" ELSE GetBit(v, i - amt)]
<1>1. w \in Nat \ {0}
  BY FormFacts
<1>2. MovedUp(v, amt) = Assembled(w, f)
  BY <1>1, BitsBelow DEF MovedUp, FromBits, Assembled, BitPlane, Limbs, Made
<1>3. \A i \in 0..(w - 1) : f[i] = GetBit(Shl(v, amt), i)
  BY ShlBits
<1>4. WellFormed(Shl(v, amt)) /\ Shl(v, amt).width = w
  BY ShlFacts
<1> HIDE DEF f
<1>. QED BY <1>2, <1>3, <1>4, AssembledAs

\* The code adds index and amount in AmtBits bits.
LEMMA IndexFits ==
  ASSUME NEW w \in Nat \ {0}, NEW i \in 0..(w - 1), NEW amt \in 0..(2^AmtBits - w)
  PROVE  amt \in Nat /\ Index(i, amt) = i + amt
<1>1. AmtBits \in Nat /\ 2^AmtBits \in Int
  BY WordAssumption
<1> DEFINE m == 2^AmtBits
<1>2. m \in Int /\ amt \in 0..(m - w) /\ Index(i, amt) = (i + amt) % m
  BY <1>1 DEF Index
<1> HIDE DEF m
<1>3. amt \in Nat /\ i + amt \in Nat /\ i + amt < m
  BY <1>2
<1>4. (i + amt) % m = i + amt
  BY <1>2, <1>3
<1>. QED BY <1>2, <1>3, <1>4

LEMMA ShrBits ==
  ASSUME NEW v, WellFormed(v), NEW amt \in 0..(2^AmtBits - v.width), NEW i \in 0..(v.width - 1)
  PROVE  GetBit(Shr(v, amt), i) = BitAt(v, i + amt)
<1> DEFINE w == v.width
<1>1. w \in Nat \ {0} /\ i \in 0..(w - 1)
  BY FormFacts
<1>2. amt \in Nat /\ \A j \in 0..(w - 1) : Index(j, amt) = j + amt
  BY <1>1, IndexFits
<1>3. CASE w <= Word
  <2>1. CASE amt >= w
    <3>1. Shr(v, amt) = Zero(w)
      BY <1>3, <2>1 DEF Shr
    <3>2. ~(i + amt < v.width)
      BY <1>1, <1>2, <2>1
    <3>3. BitAt(v, i + amt) = "0"
      BY <3>2 DEF BitAt
    <3> HIDE DEF w
    <3>. QED BY <1>1, <3>1, <3>3, ZeroBits
  <2>2. CASE ~(amt >= w)
    <3> DEFINE a == {p \in Positions : p + amt \in v.aval[0]}
               b == {p \in Positions : p + amt \in v.bval[0]}
    <3>1. Shr(v, amt) = Vector(w, [l \in {0} |-> a], [l \in {0} |-> b])
      BY <1>3, <2>2 DEF Shr
    <3>2. a \in SUBSET Positions /\ b \in SUBSET Positions
      OBVIOUS
    <3>3. (i \in a <=> i + amt \in v.aval[0]) /\ (i \in b <=> i + amt \in v.bval[0])
      BY <1>1, <1>3, SmallPlace
    <3> HIDE DEF a, b
    <3>4. GetBit(Vector(w, [l \in {0} |-> a], [l \in {0} |-> b]), i) = FromPlanes(i \in a, i \in b)
      <4> HIDE DEF w
      <4>. QED BY <1>1, <1>3, <3>2, SmallShiftBits
    <3>5. CASE i + amt < w
      <4>1. i + amt \in 0..(v.width - 1)
        BY <1>1, <1>2, <3>5
      <4>2. GetBit(v, i + amt) = FromPlanes(i + amt \in v.aval[0], i + amt \in v.bval[0])
        BY <1>3, <4>1, SmallBit
      <4>. QED BY <3>1, <3>3, <3>4, <3>5, <4>2 DEF FromPlanes, BitAt
    <3>6. CASE ~(i + amt < w)
      <4>1. i + amt \notin v.aval[0] /\ i + amt \notin v.bval[0]
        BY <1>1, <1>2, <1>3, <3>6, SmallWord
      <4>. QED BY <3>1, <3>3, <3>4, <3>6, <4>1 DEF FromPlanes, BitAt
    <3>. QED BY <3>5, <3>6
  <2>. QED BY <2>1, <2>2
<1>4. CASE ~(w <= Word)
  <2> DEFINE f == [j \in 0..(w - 1) |-> IF Index(j, amt) < w THEN GetBit(v, Index(j, amt)) ELSE "0"]
  <2>1. Shr(v, amt) = FromBits(w, LAMBDA j : IF Index(j, amt) < w THEN GetBit(v, Index(j, amt)) ELSE "0")
    BY <1>4 DEF Shr
  <2>2. Shr(v, amt) = Assembled(w, f)
    BY <1>1, <2>1, BitsBelow DEF FromBits, Assembled, BitPlane, Limbs, Made
  <2>3. f[i] = BitAt(v, i + amt) /\ f[i] \in Bit
    BY <1>1, <1>2, BitType DEF Bit, BitAt
  <2> HIDE DEF f, w
  <2>. QED BY <1>1, <2>2, <2>3, AssembledFacts
<1>. QED BY <1>3, <1>4

LEMMA ShrExact ==
  ASSUME NEW v, WellFormed(v), NEW amt \in 0..(2^AmtBits - v.width)
  PROVE  Shr(v, amt) = MovedDown(v, amt)
<1> DEFINE w == v.width
           f == [i \in 0..(w - 1) |-> BitAt(v, i + amt)]
<1>1. w \in Nat \ {0}
  BY FormFacts
<1>2. MovedDown(v, amt) = Assembled(w, f)
  BY <1>1, BitsBelow DEF MovedDown, FromBits, Assembled, BitPlane, Limbs, Made
<1>3. \A i \in 0..(w - 1) : f[i] = GetBit(Shr(v, amt), i)
  BY ShrBits
<1>4. WellFormed(Shr(v, amt)) /\ Shr(v, amt).width = w
  BY ShrFacts
<1> HIDE DEF f
<1>. QED BY <1>2, <1>3, <1>4, AssembledAs

\* A binary literal of the digits that Display writes.
LEMMA ReadBack ==
  ASSUME NEW v, WellFormed(v)
  PROVE  ParseSized(v.width, 1, Display(v)) = v
<1> DEFINE w == v.width
           digit(bit) == IF IsUnknown(bit) THEN <<bit, 0>> ELSE <<"n", IF bit = "1" THEN 1 ELSE 0>>
           digits == [i \in 1..w |-> digit(GetBit(v, w - i))]
           of(d, pos) == IF d[1] # "n" THEN d[1] ELSE IF (d[2] \div 2^(pos % 1)) % 2 = 1 THEN "1" ELSE "0"
           ds == Display(v)
           at(pos) == IF pos \div 1 < Len(ds) THEN ds[Len(ds) - (pos \div 1)] ELSE <<"n", 0>>
           f == [pos \in 0..(w - 1) |-> of(at(pos), pos)]
<1>1. w \in Nat \ {0}
  BY FormFacts
<1>2. ds = digits
  BY DEF Display
<1> HIDE DEF ds
<1>3. ParseSized(w, 1, ds) = Assembled(w, f)
  BY <1>1, BitsBelow DEF ParseSized, FromBits, Assembled, BitPlane, Limbs, Made
<1>4. ASSUME NEW pos \in 0..(w - 1)
      PROVE  at(pos) = digit(GetBit(v, pos))
  <2>1. pos \div 1 = pos /\ pos \in Nat /\ pos < w
    BY <1>1
  <2>2. Len(ds) = w
    BY <1>1, <1>2
  <2>3. w - pos \in 1..w /\ w - (w - pos) = pos
    BY <1>1, <2>1
  <2>4. ds[w - pos] = digit(GetBit(v, w - (w - pos)))
    BY <1>2, <2>3
  <2> HIDE DEF digits, digit, w
  <2>. QED BY <2>1, <2>2, <2>3, <2>4
<1>5. ASSUME NEW pos \in 0..(w - 1), NEW bit \in Bit
      PROVE  of(digit(bit), pos) = bit
  <2>1. pos % 1 = 0 /\ 2^0 = 1
    BY <1>1
  <2>2. 2^(pos % 1) = 1
    BY <2>1
  <2>3. CASE IsUnknown(bit)
    <3>1. digit(bit) = <<bit, 0>> /\ bit # "n"
      BY <2>3 DEF IsUnknown
    <3>. QED BY <3>1
  <2>4. CASE ~IsUnknown(bit)
    <3>1. digit(bit)[1] = "n" /\ digit(bit)[2] = (IF bit = "1" THEN 1 ELSE 0) /\ bit \in {"0", "1"}
      BY <2>4 DEF IsUnknown, Bit
    <3>2. (1 \div 1) % 2 = 1 /\ (0 \div 1) % 2 = 0
      OBVIOUS
    <3>. QED BY <2>2, <3>1, <3>2
  <2>. QED BY <2>3, <2>4
<1>6. \A pos \in 0..(w - 1) : of(at(pos), pos) = GetBit(v, pos)
  <2> HIDE DEF of, at, digit, digits, w
  <2>. QED BY <1>4, <1>5, BitType
<1> HIDE DEF of, at
<1>7. \A pos \in 0..(w - 1) : f[pos] = GetBit(v, pos)
  BY <1>6
<1> HIDE DEF f
<1>. QED BY <1>3, <1>7, AssembledAs DEF ds

LEMMA MovesExactly ==
  ASSUME NEW v, WellFormed(v)
  PROVE  MovesExactOf(v)
<1>1. v.width \in Nat \ {0}
  BY FormFacts
<1>2. ASSUME NEW amt \in 0..(2^AmtBits - v.width)
      PROVE  Shl(v, amt) = MovedUp(v, amt) /\ Shr(v, amt) = MovedDown(v, amt)
  <2>1. 0 \in 0..(v.width - 1)
    BY <1>1
  <2>2. amt \in Nat
    BY <1>1, <2>1, IndexFits
  <2>. QED BY <2>2, ShlExact, ShrExact
<1>3. ASSUME NEW right \in 0..(v.width - 1), NEW left \in right..(v.width - 1), NEW i \in 0..(left - right)
      PROVE  GetBit(PartSelect(v, right, left), i) = GetBit(PartSelect(v, left, right), left - right - i)
  <2> DEFINE j == left - right - i
  <2>1. /\ right \in Nat /\ left \in Nat /\ right <= left /\ j \in 0..(left - right)
        /\ right + j = left - i
    BY <1>1
  <2> HIDE DEF j
  <2>2. GetBit(PartSelect(v, right, left), i) = GetBit(v, left - i)
    BY <2>1, PartSelectFacts
  <2>3. GetBit(PartSelect(v, left, right), j) = GetBit(v, right + j)
    BY <2>1, PartSelectFacts
  <2>. QED BY <2>1, <2>2, <2>3 DEF j
<1>. QED BY <1>2, <1>3, CutFacts, NarrowFacts, ReadBack DEF MovesExactOf

\* from_bit, and its bit.
LEMMA FromBitFacts ==
  ASSUME NEW bit \in Bit
  PROVE  /\ GetBit(FromBit(bit), 0) = (IF IsUnknown(bit) THEN "x" ELSE bit)
         /\ FromBit(GetBit(FromBit(bit), 0)) = FromBit(bit)
<1>1. /\ 1 \in Nat \ {0} /\ 0 \in 0..(1 - 1) /\ Word \in Nat \ {0} /\ 1 <= Word
      /\ LimbsFor(1) = 1 /\ 0..(LimbsFor(1) - 1) = {0} /\ 0 \div Word = 0 /\ 0 % Word = 0 /\ 0 \in Positions
  BY WordAssumption, LimbFacts, SmallPlace DEF Positions
<1>2. GetBit(X(1), 0) = "x"
  <2> DEFINE a == [l \in 0..(LimbsFor(1) - 1) |-> {}]
             b == [l \in 0..(LimbsFor(1) - 1) |-> Positions]
  <2>1. X(1) = Vector(1, a, b)
    BY DEF X, Filled, Limbs, AvalOf, BvalOf
  <2>2. a \in Planes(1) /\ b \in Planes(1) /\ a[0] = {} /\ b[0] = Positions
    BY <1>1 DEF Planes
  <2> HIDE DEF a, b
  <2>3. GetBit(Vector(1, a, b), 0) = FromPlanes(0 % Word \in a[0 \div Word], 0 % Word \in b[0 \div Word])
    BY <1>1, <2>2, VectorFacts
  <2>. QED BY <1>1, <2>1, <2>2, <2>3 DEF FromPlanes
<1>3. ASSUME NEW n \in {0, 1}
      PROVE  GetBit(FromU64(n, 1), 0) = IF n = 1 THEN "1" ELSE "0"
  <2> DEFINE a == [l \in 0..(LimbsFor(1) - 1) |-> IF l = 0 THEN ToWord(n) ELSE {}]
             b == [l \in 0..(LimbsFor(1) - 1) |-> {}]
  <2>1. FromU64(n, 1) = Vector(1, a, b)
    BY DEF FromU64, Limbs
  <2>2. ToWord(n) \subseteq Positions
    BY DEF ToWord
  <2>3. 0 \in ToWord(n) <=> n = 1
    <3>1. 2^0 = 1
      OBVIOUS
    <3>2. (n \div 1) % 2 = n
      OBVIOUS
    <3>. QED BY <1>1, <3>1, <3>2 DEF ToWord
  <2>4. a \in Planes(1) /\ b \in Planes(1) /\ a[0] = ToWord(n) /\ b[0] = {}
    BY <1>1, <2>2 DEF Planes
  <2> HIDE DEF a, b
  <2>5. GetBit(Vector(1, a, b), 0) = FromPlanes(0 % Word \in a[0 \div Word], 0 % Word \in b[0 \div Word])
    BY <1>1, <2>4, VectorFacts
  <2>. QED BY <1>1, <2>1, <2>3, <2>4, <2>5 DEF FromPlanes
<1>4. GetBit(FromBit(bit), 0) = IF IsUnknown(bit) THEN "x" ELSE bit
  BY <1>2, <1>3 DEF FromBit, IsUnknown, Bit
<1>. QED BY <1>4 DEF FromBit, IsUnknown, Bit

LEMMA WritesReadBack ==
  ASSUME NEW v, WellFormed(v), NEW w, ToU64(w) \in Nat
  PROVE  WriteReadExactOf(v, w)
<1> SUFFICES ASSUME NEW bit \in Bit
             PROVE  SelectBit(WriteBit(v, w, FromBit(bit)), w) = IF InRange(v, w) THEN FromBit(bit) ELSE X(1)
  BY DEF WriteReadExactOf
<1> DEFINE k == ToU64(w)
           new == GetBit(FromBit(bit), 0)
           u == SetBit(v, k, new)
<1>1. CASE ~InRange(v, w)
  BY <1>1 DEF WriteBit, SelectBit
<1>2. CASE InRange(v, w)
  <2>1. v.width \in Nat \ {0} /\ k \in 0..(v.width - 1) /\ new \in Bit
    BY <1>2, FormFacts, BitType DEF InRange
  <2>2. WriteBit(v, w, FromBit(bit)) = u
    BY <1>2 DEF WriteBit
  <2>3. u.width = v.width /\ GetBit(u, k) = new
    <3> HIDE DEF k, new
    <3>. QED BY <2>1, SetBitFacts, WrittenBit
  <2>4. InRange(u, w)
    BY <1>2, <2>3 DEF InRange
  <2>5. SelectBit(u, w) = FromBit(new)
    BY <2>3, <2>4 DEF SelectBit
  <2>. QED BY <1>2, <2>2, <2>5, FromBitFacts
<1>. QED BY <1>1, <1>2
=============================================================================
