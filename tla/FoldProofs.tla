----------------------------- MODULE FoldProofs -----------------------------
(***************************************************************************)
(* Loops over lists.  A loop of the code that folds a list of any length   *)
(* is MapThenFoldSet of the community modules, a CHOOSE of a function on   *)
(* the sets of indices: these lemmas show that such a function exists when *)
(* the loop body stays in a set A (FoldExists), that there is only one     *)
(* (FoldUnique), and what it does with the last element (FoldLast) or at   *)
(* each prefix (FoldAlong).  The provers cannot instantiate induction over *)
(* a predicate, so it is stated over a set of numbers, or of sequences.    *)
(***************************************************************************)
EXTENDS Integers, Sequences, SequencesExt, WellFoundedInduction, TLAPS

\* Induction, for a set of numbers.
LEMMA Induction ==
  ASSUME NEW S, 0 \in S, \A n \in Nat : n \in S => n + 1 \in S
  PROVE  \A n \in Nat : n \in S
<1> SUFFICES ASSUME NEW m \in Nat, m \notin S PROVE FALSE
  OBVIOUS
<1> DEFINE T == {n \in Nat : n \notin S}
           R == OpToRel(<, Nat)
<1>1. IsWellFoundedOn(R, Nat)
  BY NatLessThanWellFounded
<1>2. T \subseteq Nat /\ T # {}
  OBVIOUS
<1> HIDE DEF R
<1>3. PICK x \in T : \A y \in T : ~(<<y, x>> \in R)
  BY <1>1, <1>2, WFMin
<1>4. x # 0 /\ x \in Nat /\ x - 1 \in Nat
  OBVIOUS
<1>5. <<x - 1, x>> \in R
  BY <1>4 DEF R, OpToRel
<1>6. x - 1 \in S
  BY <1>3, <1>4, <1>5
<1>. QED BY <1>4, <1>6

\* The largest of the first numbers.
LEMMA Segment ==
  ASSUME NEW m \in Nat
  PROVE  /\ Max(1..(m + 1)) = m + 1
         /\ (1..(m + 1)) \ {m + 1} = 1..m
         /\ \A s \in SUBSET (1..(m + 1)) : m + 1 \in s => Max(s) = m + 1 /\ s \ {m + 1} \in SUBSET (1..m)
         /\ \A s \in SUBSET (1..(m + 1)) : m + 1 \notin s => s \in SUBSET (1..m)
<1>1. ASSUME NEW s \in SUBSET (1..(m + 1)), m + 1 \in s
      PROVE  Max(s) = m + 1
  <2>1. \A y \in s : y \in Int /\ m + 1 >= y
    BY <1>1
  <2>2. Max(s) \in s /\ \A y \in s : Max(s) >= y
    BY <1>1, <2>1 DEF Max
  <2>3. Max(s) >= m + 1 /\ m + 1 >= Max(s) /\ Max(s) \in Int
    BY <1>1, <2>1, <2>2
  <2>. QED BY <2>3
<1>2. \A i \in 1..(m + 1) : i # m + 1 => i \in 1..m
  OBVIOUS
<1>3. \A i \in 1..m : i \in 1..(m + 1) /\ i # m + 1
  OBVIOUS
<1>4. m + 1 \in 1..(m + 1)
  OBVIOUS
<1>. QED BY <1>1, <1>2, <1>3, <1>4

\* A set of first numbers has its largest one.
LEMMA SegmentMax ==
  ASSUME NEW n \in Nat, NEW s \in SUBSET (1..n), s # {}
  PROVE  Max(s) \in s
<1> DEFINE P(m) == \A t \in SUBSET (1..m) : t # {} => Max(t) \in t
           S == {m \in Nat : P(m)}
<1>1. P(0)
  <2>1. \A t \in SUBSET (1..0) : t = {}
    OBVIOUS
  <2>. QED BY <2>1
<1>2. ASSUME NEW m \in Nat, P(m) PROVE P(m + 1)
  <2> SUFFICES ASSUME NEW t \in SUBSET (1..(m + 1)), t # {} PROVE Max(t) \in t
    OBVIOUS
  <2>1. CASE m + 1 \in t
    BY <2>1, Segment
  <2>2. CASE m + 1 \notin t
    <3>1. t \in SUBSET (1..m)
      BY <2>2, Segment
    <3>. QED BY <1>2, <3>1
  <2>. QED BY <2>1, <2>2
<1> HIDE DEF P
<1>3. 0 \in S /\ \A m \in Nat : m \in S => m + 1 \in S
  BY <1>1, <1>2
<1> HIDE DEF S
<1>4. n \in S
  BY <1>3, Induction
<1>5. P(n)
  BY <1>4 DEF S
<1>. QED BY <1>5 DEF P

\* g folds f over sets of the numbers up to n, the smaller ones first, with
\* values in A.
IsFold(g, n, A, base, f) ==
  /\ g \in [SUBSET (1..n) -> A]
  /\ \A s \in SUBSET (1..n) :
       g[s] = IF s = {} THEN base ELSE f[<<g[s \ {Max(s)}], Max(s)>>]

\* A fold whose values stay in A exists.
LEMMA FoldExists ==
  ASSUME NEW n \in Nat, NEW A, NEW base \in A, NEW f \in [A \X (1..n) -> A]
  PROVE  \E g : IsFold(g, n, A, base, f)
<1> DEFINE P(m) == \E g : IsFold(g, m, A, base, f)
           S == {m \in Nat : m <= n => P(m)}
<1>1. P(0)
  <2> DEFINE g == [s \in SUBSET (1..0) |-> base]
  <2>1. g \in [SUBSET (1..0) -> A]
    OBVIOUS
  <2>2. \A s \in SUBSET (1..0) : s = {}
    OBVIOUS
  <2>3. IsFold(g, 0, A, base, f)
    BY <2>1, <2>2 DEF IsFold
  <2>. QED BY <2>3
<1>2. ASSUME NEW m \in Nat, m + 1 <= n, P(m) PROVE P(m + 1)
  <2>1. PICK g : IsFold(g, m, A, base, f)
    BY <1>2
  <2> DEFINE h == [s \in SUBSET (1..(m + 1)) |->
                     IF m + 1 \in s THEN f[<<g[s \ {m + 1}], m + 1>>] ELSE g[s]]
  <2>2. h \in [SUBSET (1..(m + 1)) -> A]
    <3>1. ASSUME NEW s \in SUBSET (1..(m + 1)) PROVE h[s] \in A
      <4>1. CASE m + 1 \in s
        <5>1. g[s \ {m + 1}] \in A
          BY <2>1, <4>1, Segment DEF IsFold
        <5>2. <<g[s \ {m + 1}], m + 1>> \in A \X (1..n)
          BY <1>2, <5>1
        <5>. QED BY <4>1, <5>2
      <4>2. CASE m + 1 \notin s
        BY <2>1, <4>2, Segment DEF IsFold
      <4>. QED BY <4>1, <4>2
    <3>. QED BY <3>1
  <2>3. ASSUME NEW s \in SUBSET (1..(m + 1))
        PROVE  h[s] = IF s = {} THEN base ELSE f[<<h[s \ {Max(s)}], Max(s)>>]
    <3>1. CASE m + 1 \in s
      <4>1. Max(s) = m + 1 /\ s \ {m + 1} \in SUBSET (1..m) /\ s # {}
        BY <3>1, Segment
      <4>2. s \ {m + 1} \in SUBSET (1..(m + 1)) /\ m + 1 \notin s \ {m + 1}
        OBVIOUS
      <4>3. h[s \ {m + 1}] = g[s \ {m + 1}]
        BY <4>2
      <4>4. h[s] = f[<<g[s \ {m + 1}], m + 1>>]
        BY <3>1
      <4>. QED BY <4>1, <4>3, <4>4
    <3>2. CASE m + 1 \notin s
      <4>1. s \in SUBSET (1..m) /\ h[s] = g[s]
        BY <3>2, Segment
      <4>2. h[s \ {Max(s)}] = g[s \ {Max(s)}]
        <5>1. s \ {Max(s)} \in SUBSET (1..(m + 1)) /\ m + 1 \notin s \ {Max(s)}
          BY <3>2
        <5>. QED BY <5>1
      <4>. QED BY <2>1, <4>1, <4>2 DEF IsFold
    <3>. QED BY <3>1, <3>2
  <2> HIDE DEF h
  <2>4. IsFold(h, m + 1, A, base, f)
    BY <2>2, <2>3 DEF IsFold
  <2>. QED BY <2>4
<1> HIDE DEF P
<1>3. 0 \in S /\ \A m \in Nat : m \in S => m + 1 \in S
  BY <1>1, <1>2
<1> HIDE DEF S
<1>4. n \in S
  BY <1>3, Induction
<1>5. P(n)
  BY <1>4 DEF S
<1>. QED BY <1>5 DEF P

\* g and h start alike and take alike steps.
StepAlike(g, h, n) ==
  /\ g[{}] = h[{}]
  /\ \A s \in SUBSET (1..n) : s # {} /\ g[s \ {Max(s)}] = h[s \ {Max(s)}] => g[s] = h[s]

\* Two functions that start alike and take alike steps are alike.
LEMMA FoldUnique ==
  ASSUME NEW n \in Nat, NEW g, NEW h, StepAlike(g, h, n)
  PROVE  \A s \in SUBSET (1..n) : g[s] = h[s]
<1> DEFINE P(m) == \A s \in SUBSET (1..m) : g[s] = h[s]
           S == {m \in Nat : m <= n => P(m)}
<1>1. P(0)
  <2>1. \A s \in SUBSET (1..0) : s = {}
    OBVIOUS
  <2>. QED BY <2>1 DEF StepAlike
<1>2. ASSUME NEW m \in Nat, m + 1 <= n, P(m) PROVE P(m + 1)
  <2> SUFFICES ASSUME NEW s \in SUBSET (1..(m + 1)) PROVE g[s] = h[s]
    OBVIOUS
  <2>1. CASE m + 1 \in s
    <3>1. Max(s) = m + 1 /\ s \ {m + 1} \in SUBSET (1..m) /\ s # {}
      BY <2>1, Segment
    <3>2. s \in SUBSET (1..n)
      BY <1>2
    <3>. QED BY <1>2, <3>1, <3>2 DEF StepAlike
  <2>2. CASE m + 1 \notin s
    BY <1>2, <2>2, Segment
  <2>. QED BY <2>1, <2>2
<1> HIDE DEF P
<1>3. 0 \in S /\ \A m \in Nat : m \in S => m + 1 \in S
  BY <1>1, <1>2
<1> HIDE DEF S
<1>4. n \in S
  BY <1>3, Induction
<1>5. P(n)
  BY <1>4 DEF S
<1>. QED BY <1>5 DEF P

\* A fold along the first numbers.
LEMMA FoldAlong ==
  ASSUME NEW n \in Nat, NEW A, NEW base, NEW f, NEW g, IsFold(g, n, A, base, f)
  PROVE  /\ g[1..0] = base
         /\ \A k \in 0..n : g[1..k] \in A
         /\ \A k \in 1..n : g[1..k] = f[<<g[1..(k - 1)], k>>]
<1>1. 1..0 = {} /\ {} \in SUBSET (1..n)
  OBVIOUS
<1>2. \A k \in 0..n : 1..k \in SUBSET (1..n)
  OBVIOUS
<1>3. ASSUME NEW k \in 1..n PROVE g[1..k] = f[<<g[1..(k - 1)], k>>]
  <2>1. k - 1 \in Nat /\ (k - 1) + 1 = k /\ k \in 1..k /\ 1..k \in SUBSET (1..n)
    OBVIOUS
  <2>2. Max(1..k) = k /\ (1..k) \ {k} = 1..(k - 1)
    BY <2>1, Segment
  <2>3. 1..k # {}
    BY <2>1, Zenon
  <2>. QED BY <2>1, <2>2, <2>3 DEF IsFold
<1>. QED BY <1>1, <1>2, <1>3 DEF IsFold

\* f and e are the same on the numbers up to n.
SameSteps(f, e, n, A) == \A a \in A, i \in 1..n : f[<<a, i>>] = e[<<a, i>>]

\* A fold over one number more.
LEMMA FoldLast ==
  ASSUME NEW n \in Nat, NEW A, NEW base, NEW f, NEW e, NEW g, NEW h,
         IsFold(g, n + 1, A, base, f), IsFold(h, n, A, base, e), SameSteps(f, e, n, A)
  PROVE  g[1..(n + 1)] = f[<<h[1..n], n + 1>>]
<1>1. \A s \in SUBSET (1..n) : s \in SUBSET (1..(n + 1))
  OBVIOUS
<1>2. g[{}] = h[{}]
  BY DEF IsFold
<1>3. ASSUME NEW s \in SUBSET (1..n), s # {}, g[s \ {Max(s)}] = h[s \ {Max(s)}]
      PROVE  g[s] = h[s]
  <2>1. Max(s) \in 1..n /\ s \ {Max(s)} \in SUBSET (1..n)
    BY <1>3, SegmentMax
  <2>2. h[s \ {Max(s)}] \in A
    BY <2>1 DEF IsFold
  <2>. QED BY <1>1, <1>3, <2>1, <2>2 DEF IsFold, SameSteps
<1>4. \A s \in SUBSET (1..n) : g[s] = h[s]
  <2>1. StepAlike(g, h, n)
    BY <1>2, <1>3 DEF StepAlike
  <2>. QED BY <2>1, FoldUnique
<1>5. g[1..n] = h[1..n]
  BY <1>4
<1>6. Max(1..(n + 1)) = n + 1 /\ (1..(n + 1)) \ {n + 1} = 1..n
  BY Segment
<1>7. n + 1 \in 1..(n + 1)
  OBVIOUS
<1>8. 1..(n + 1) # {} /\ 1..(n + 1) \in SUBSET (1..(n + 1))
  BY <1>7, Zenon
<1>9. g[1..(n + 1)] = f[<<g[1..n], n + 1>>]
  BY <1>6, <1>8 DEF IsFold
<1>. QED BY <1>5, <1>9

\* Induction, for a set of sequences.
LEMMA SequenceInduction ==
  ASSUME NEW D, NEW T, <<>> \in T,
         \A q \in Seq(D), d \in D : q \in T => Append(q, d) \in T
  PROVE  \A q \in Seq(D) : q \in T
<1> DEFINE P(n) == \A q \in Seq(D) : Len(q) = n => q \in T
           S == {n \in Nat : P(n)}
<1>1. P(0)
  <2>1. \A q \in Seq(D) : Len(q) = 0 => q = <<>>
    OBVIOUS
  <2>. QED BY <2>1
<1>2. ASSUME NEW n \in Nat, P(n) PROVE P(n + 1)
  <2> SUFFICES ASSUME NEW q \in Seq(D), Len(q) = n + 1 PROVE q \in T
    OBVIOUS
  <2> DEFINE front == SubSeq(q, 1, n)
  <2>1. front \in Seq(D) /\ Len(front) = n /\ q[n + 1] \in D
    OBVIOUS
  <2>2. q = Append(front, q[n + 1])
    OBVIOUS
  <2> HIDE DEF front
  <2>3. front \in T
    BY <1>2, <2>1
  <2>. QED BY <2>1, <2>2, <2>3
<1> HIDE DEF P
<1>3. 0 \in S /\ \A n \in Nat : n \in S => n + 1 \in S
  BY <1>1, <1>2
<1> HIDE DEF S
<1>4. \A n \in Nat : n \in S
  BY <1>3, Induction
<1>5. \A n \in Nat : P(n)
  BY <1>4 DEF S
<1>. QED BY <1>5 DEF P

\* The states X of a scanner that goes through n positions, with the position of
\* each in its field "at".
ScannerStates(X, n) == \A x \in X : x.at \in 1..(n + 1)

\* From every state before the end the scanner goes on at a later position.
MovesOn(next, X, n) ==
  /\ next \in [X -> X]
  /\ \A x \in X : x.at <= n => next[x].at > x.at

\* g is the result of a scanner: base at the end, elsewhere what its turn f makes
\* of the result from the next state.
IsScan(g, X, n, A, base, next, f) ==
  /\ g \in [X -> A]
  /\ \A x \in X : g[x] = IF x.at > n THEN base[x] ELSE f[<<x, g[next[x]]>>]

\* A scanner that moves ahead with every turn has a result.
LEMMA ScanExists ==
  ASSUME NEW n \in Nat, NEW X, ScannerStates(X, n),
         NEW next, MovesOn(next, X, n),
         NEW A, NEW base \in [X -> A], NEW f \in [X \X A -> A]
  PROVE  \E g : IsScan(g, X, n, A, base, next, f)
<1> DEFINE From(m) == {x \in X : x.at >= m}
           Scans(g, m) == /\ g \in [From(m) -> A]
                          /\ \A x \in From(m) :
                               g[x] = IF x.at > n THEN base[x] ELSE f[<<x, g[next[x]]>>]
           P(k) == \E g : Scans(g, n + 1 - k)
           S == {k \in Nat : k <= n => P(k)}
<1>0. \A x \in X : x.at \in 1..(n + 1) /\ next[x] \in X /\ (x.at <= n => next[x].at > x.at)
  BY DEF ScannerStates, MovesOn
<1>1. P(0)
  <2> DEFINE g == [x \in From(n + 1) |-> base[x]]
  <2>1. g \in [From(n + 1) -> A]
    OBVIOUS
  <2>2. \A x \in From(n + 1) : x.at > n
    BY <1>0
  <2>3. Scans(g, n + 1)
    BY <2>1, <2>2
  <2> HIDE DEF g, Scans
  <2>4. n + 1 - 0 = n + 1
    OBVIOUS
  <2>. QED BY <2>3, <2>4
<1>2. ASSUME NEW k \in Nat, k + 1 <= n, P(k) PROVE P(k + 1)
  <2> DEFINE m == n - k
  <2>1. m \in 1..n /\ n + 1 - k = m + 1 /\ n + 1 - (k + 1) = m
    BY <1>2
  <2>2. PICK g : Scans(g, m + 1)
    BY <1>2, <2>1
  <2> HIDE DEF m
  <2> DEFINE h == [x \in From(m) |-> IF x.at = m THEN f[<<x, g[next[x]]>>] ELSE g[x]]
  <2>3. ASSUME NEW x \in From(m), x.at <= n PROVE next[x] \in From(m + 1)
    <3>1. next[x].at \in 1..(n + 1) /\ x.at \in 1..(n + 1) /\ x.at >= m /\ next[x].at > x.at
      BY <1>0, <2>3
    <3>. QED BY <1>0, <2>1, <3>1
  <2>4. \A x \in From(m + 1) : x \in From(m) /\ x.at # m /\ h[x] = g[x]
    <3>1. ASSUME NEW x \in From(m + 1) PROVE x \in From(m) /\ x.at # m
      <4>1. x \in X /\ x.at \in 1..(n + 1) /\ x.at >= m + 1
        BY <1>0
      <4>. QED BY <2>1, <4>1
    <3>. QED BY <3>1
  <2>5. \A x \in From(m) : x.at # m => x \in From(m + 1)
    <3>1. ASSUME NEW x \in From(m), x.at # m PROVE x \in From(m + 1)
      <4>1. x \in X /\ x.at \in 1..(n + 1) /\ x.at >= m
        BY <1>0
      <4>. QED BY <2>1, <3>1, <4>1
    <3>. QED BY <3>1
  <2>6. \A x \in From(m) : x.at = m => f[<<x, g[next[x]]>>] \in A
    <3>1. ASSUME NEW x \in From(m), x.at = m PROVE <<x, g[next[x]]>> \in X \X A
      <4>1. next[x] \in From(m + 1)
        BY <2>1, <2>3, <3>1
      <4>2. g[next[x]] \in A
        BY <2>2, <4>1
      <4>. QED BY <4>2
    <3>. QED BY <3>1
  <2>7. h \in [From(m) -> A]
    <3>1. \A x \in From(m) : h[x] \in A
      BY <2>2, <2>4, <2>5, <2>6
    <3>. QED BY <3>1
  <2>8. ASSUME NEW x \in From(m)
        PROVE  h[x] = IF x.at > n THEN base[x] ELSE f[<<x, h[next[x]]>>]
    <3>1. CASE x.at > n
      <4>1. x.at # m /\ x \in From(m + 1)
        BY <2>1, <2>5, <3>1
      <4>. QED BY <2>2, <2>4, <3>1, <4>1
    <3>2. CASE ~(x.at > n)
      <4>1. x.at <= n
        BY <1>0, <3>2
      <4>2. h[next[x]] = g[next[x]]
        BY <2>3, <2>4, <4>1
      <4>3. CASE x.at = m
        BY <3>2, <4>2, <4>3
      <4>4. CASE x.at # m
        <5>1. x \in From(m + 1)
          BY <2>5, <4>4
        <5>2. g[x] = f[<<x, g[next[x]]>>]
          BY <2>2, <3>2, <5>1
        <5>3. h[x] = g[x]
          BY <2>4, <5>1
        <5>. QED BY <3>2, <4>2, <5>2, <5>3
      <4>. QED BY <4>3, <4>4
    <3>. QED BY <3>1, <3>2
  <2> HIDE DEF h, From
  <2>9. Scans(h, m)
    BY <2>7, <2>8
  <2> HIDE DEF Scans
  <2>10. Scans(h, n + 1 - (k + 1))
    BY <2>1, <2>9
  <2>. QED BY <2>10
<1> HIDE DEF P
<1>3. 0 \in S /\ \A k \in Nat : k \in S => k + 1 \in S
  BY <1>1, <1>2
<1> HIDE DEF S
<1>4. n \in S
  BY <1>3, Induction
<1>5. P(n)
  BY <1>4 DEF S
<1>6. PICK g : Scans(g, n + 1 - n)
  BY <1>5 DEF P
<1>7. From(n + 1 - n) = X
  BY <1>0
<1> HIDE DEF From
<1>8. g \in [X -> A] /\ \A x \in X : g[x] = IF x.at > n THEN base[x] ELSE f[<<x, g[next[x]]>>]
  BY <1>6, <1>7
<1>. QED BY <1>8 DEF IsScan

\* Induction from the end of the first numbers, for a set of numbers.
LEMMA BackInduction ==
  ASSUME NEW n \in Nat, NEW S, n + 1 \in S,
         \A i \in 1..n : (\A j \in (i + 1)..(n + 1) : j \in S) => i \in S
  PROVE  \A i \in 1..(n + 1) : i \in S
<1> DEFINE P(k) == \A j \in (n + 1 - k)..(n + 1) : j \in S
           T == {k \in Nat : k <= n => P(k)}
<1>1. P(0)
  OBVIOUS
<1>2. ASSUME NEW k \in Nat, k + 1 <= n, P(k) PROVE P(k + 1)
  <2>1. n - k \in 1..n /\ (n - k) + 1 = n + 1 - k /\ n + 1 - (k + 1) = n - k
    BY <1>2
  <2>2. n - k \in S
    BY <1>2, <2>1
  <2>3. \A j \in (n - k)..(n + 1) : j = n - k \/ j \in (n + 1 - k)..(n + 1)
    BY <2>1
  <2>. QED BY <1>2, <2>1, <2>2, <2>3
<1> HIDE DEF P
<1>3. 0 \in T /\ \A k \in Nat : k \in T => k + 1 \in T
  BY <1>1, <1>2
<1> HIDE DEF T
<1>4. n \in T
  BY <1>3, Induction
<1>5. P(n)
  BY <1>4 DEF T
<1>6. n + 1 - n = 1
  OBVIOUS
<1>. QED BY <1>5, <1>6 DEF P

\* What holds at the end, and in a state when it does in the next one, always holds.
LEMMA ScanInduction ==
  ASSUME NEW n \in Nat, NEW X, ScannerStates(X, n),
         NEW next, MovesOn(next, X, n),
         NEW T,
         \A x \in X : x.at > n \/ next[x] \in T => x \in T
  PROVE  \A x \in X : x \in T
<1> DEFINE S == {i \in 1..(n + 1) : \A x \in X : x.at = i => x \in T}
<1>0. \A x \in X : x.at \in 1..(n + 1) /\ next[x] \in X /\ (x.at <= n => next[x].at > x.at)
  BY DEF ScannerStates, MovesOn
<1>1. n + 1 \in S
  OBVIOUS
<1>2. ASSUME NEW i \in 1..n, \A j \in (i + 1)..(n + 1) : j \in S PROVE i \in S
  <2>1. ASSUME NEW x \in X, x.at = i PROVE x \in T
    <3>1. next[x] \in X /\ next[x].at \in (i + 1)..(n + 1)
      BY <1>0, <2>1
    <3>2. next[x] \in T
      BY <1>2, <3>1
    <3>. QED BY <3>2
  <2>. QED BY <2>1
<1> HIDE DEF S
<1>3. \A i \in 1..(n + 1) : i \in S
  BY <1>1, <1>2, BackInduction
<1>. QED BY <1>0, <1>3 DEF S

\* There is only one.
LEMMA ScanUnique ==
  ASSUME NEW n \in Nat, NEW X, ScannerStates(X, n),
         NEW next, MovesOn(next, X, n),
         NEW g, NEW h,
         \A x \in X : x.at > n \/ h[next[x]] = g[next[x]] => h[x] = g[x]
  PROVE  \A x \in X : h[x] = g[x]
<1> DEFINE T == {x \in X : h[x] = g[x]}
<1>1. \A x \in X : x.at > n \/ next[x] \in T => x \in T
  OBVIOUS
<1> HIDE DEF T
<1>2. \A x \in X : x \in T
  BY <1>1, ScanInduction
<1>. QED BY <1>2 DEF T
=============================================================================
