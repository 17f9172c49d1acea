-------------------------- MODULE PreprocessProofs --------------------------
(***************************************************************************)
(* What the preprocessor guarantees for files of any length, conditionals  *)
(* and includes of any depth: lines are emitted in the first branch that   *)
(* held, and an included file is processed once at a time.  What its       *)
(* scanners do with a text of any length over any characters: comments     *)
(* outside strings become blanks in place, the text around them is kept and *)
(* none is left, a parenthesis is matched by                               *)
(* the one that closes it, and arguments are the text between the commas   *)
(* outside strings and brackets.                                           *)
(***************************************************************************)
EXTENDS Preprocess, FoldProofs, FiniteSetTheorems, SequenceTheorems, TLAPS

Level == [parent : BOOLEAN, taken : BOOLEAN, active : BOOLEAN]

\* A conditional in the history of a file.
Note == [dir : Conditionals, held : BOOLEAN]

-----------------------------------------------------------------------------
(* One more conditional in the history of a file.                          *)

\* What a conditional adds to the number of open levels.
Step(note) == IF IsIf(note) THEN 1 ELSE IF note.dir = "endif" THEN -1 ELSE 0

\* A part of a history is finite, and longer by its last conditional.
LEMMA Counted ==
  ASSUME NEW chain \in Seq(Note), NEW note \in Note, NEW i \in 1..(Len(chain) + 1)
  PROVE  LET new == Append(chain, note)
             n == Len(chain)
         IN /\ \A j \in i..n : Net(new, i, j) = Net(chain, i, j) /\ Net(chain, i, j) \in Int
            /\ Net(chain, i, n) \in Int
            /\ Net(new, i, n + 1) = Net(chain, i, n) + Step(note)
<1> DEFINE new == Append(chain, note)
           n == Len(chain)
           Ifs(c, j) == {k \in i..j : IsIf(c[k])}
           Ends(c, j) == {k \in i..j : c[k].dir = "endif"}
<1>1. n \in Nat /\ new[n + 1] = note /\ \A k \in 1..n : new[k] = chain[k]
  OBVIOUS
<1> HIDE DEF new
<1>2. ASSUME NEW j \in Int, j <= n
      PROVE  /\ Ifs(new, j) = Ifs(chain, j) /\ Ends(new, j) = Ends(chain, j)
             /\ IsFiniteSet(Ifs(chain, j)) /\ IsFiniteSet(Ends(chain, j))
             /\ Net(new, i, j) = Net(chain, i, j) /\ Net(chain, i, j) \in Int
  <2>1. \A k \in i..j : new[k] = chain[k]
    BY <1>1, <1>2
  <2>2. Ifs(new, j) = Ifs(chain, j) /\ Ends(new, j) = Ends(chain, j)
    BY <2>1
  <2>3. IsFiniteSet(i..j)
    BY <1>2, FS_Interval
  <2>4. IsFiniteSet(Ifs(chain, j)) /\ IsFiniteSet(Ends(chain, j))
    BY <2>3, FS_Subset
  <2>5. Cardinality(Ifs(chain, j)) \in Nat /\ Cardinality(Ends(chain, j)) \in Nat
    BY <2>4, FS_CardinalityType
  <2>6. /\ Net(new, i, j) = Cardinality(Ifs(new, j)) - Cardinality(Ends(new, j))
        /\ Net(chain, i, j) = Cardinality(Ifs(chain, j)) - Cardinality(Ends(chain, j))
    BY DEF Net
  <2> HIDE DEF Ifs, Ends
  <2>. QED BY <2>2, <2>4, <2>5, <2>6
<1>3. \A k : k \in i..(n + 1) <=> k \in i..n \/ k = n + 1
  BY <1>1
<1>4. n + 1 \notin Ifs(chain, n) /\ n + 1 \notin Ends(chain, n)
  BY <1>1
<1>5. /\ Ifs(new, n + 1) = IF IsIf(note) THEN Ifs(chain, n) \cup {n + 1} ELSE Ifs(chain, n)
      /\ Ends(new, n + 1) = IF note.dir = "endif" THEN Ends(chain, n) \cup {n + 1} ELSE Ends(chain, n)
  <2>1. \A k \in i..n : new[k] = chain[k]
    BY <1>1
  <2>. QED BY <1>1, <1>3, <2>1
<1>6. /\ IsFiniteSet(Ifs(chain, n)) /\ IsFiniteSet(Ends(chain, n)) /\ Net(chain, i, n) \in Int
  <2>1. n \in Int /\ n <= n
    BY <1>1
  <2> HIDE DEF n, Ifs, Ends
  <2>. QED BY <1>2, <2>1
<1>7. /\ Cardinality(Ifs(chain, n)) \in Nat /\ Cardinality(Ends(chain, n)) \in Nat
      /\ Cardinality(Ifs(chain, n) \cup {n + 1}) = Cardinality(Ifs(chain, n)) + 1
      /\ Cardinality(Ends(chain, n) \cup {n + 1}) = Cardinality(Ends(chain, n)) + 1
  BY <1>4, <1>6, FS_CardinalityType, FS_AddElement
<1>8. /\ Net(new, i, n + 1) = Cardinality(Ifs(new, n + 1)) - Cardinality(Ends(new, n + 1))
      /\ Net(chain, i, n) = Cardinality(Ifs(chain, n)) - Cardinality(Ends(chain, n))
  BY DEF Net
<1>9. ~(IsIf(note) /\ note.dir = "endif")
  BY DEF IsIf
<1> HIDE DEF Ifs, Ends
<1>10. Net(new, i, n + 1) = Net(chain, i, n) + Step(note)
  BY <1>5, <1>7, <1>8, <1>9 DEF Step
<1>11. \A j \in i..n : Net(new, i, j) = Net(chain, i, j) /\ Net(chain, i, j) \in Int
  BY <1>1, <1>2
<1>. QED BY <1>6, <1>10, <1>11 DEF new

\* The conditionals that are open after one more.
LEMMA OpenAfter ==
  ASSUME NEW chain \in Seq(Note), NEW note \in Note
  PROVE  OpenIfs(Append(chain, note)) =
           {i \in OpenIfs(chain) : Net(chain, i, Len(chain)) + Step(note) > 0}
             \cup (IF IsIf(note) THEN {Len(chain) + 1} ELSE {})
<1> DEFINE new == Append(chain, note)
           n == Len(chain)
<1>1. /\ n \in Nat /\ Len(new) = n + 1 /\ DOMAIN chain = 1..n /\ DOMAIN new = 1..(n + 1)
      /\ new[n + 1] = note /\ \A k \in 1..n : new[k] = chain[k]
  OBVIOUS
<1>2. \A i \in 1..(n + 1) :
        /\ \A j \in i..n : Net(new, i, j) = Net(chain, i, j) /\ Net(chain, i, j) \in Int
        /\ Net(chain, i, n) \in Int /\ Net(new, i, n + 1) = Net(chain, i, n) + Step(note)
  BY Counted
<1> HIDE DEF new
<1>3. ASSUME NEW i \in 1..n
      PROVE  i \in OpenIfs(new) <=> i \in OpenIfs(chain) /\ Net(chain, i, n) + Step(note) > 0
  <2>1. \A j : j \in i..(n + 1) <=> j \in i..n \/ j = n + 1
    BY <1>1
  <2>2. n \in i..n /\ i \in 1..(n + 1)
    BY <1>1
  <2>. QED BY <1>1, <1>2, <2>1, <2>2 DEF OpenIfs
<1>4. n + 1 \in OpenIfs(new) <=> IsIf(note)
  <2>1. \A j \in (n + 1)..(n + 1) : j = n + 1
    BY <1>1
  <2>2. Net(new, n + 1, n + 1) = Net(chain, n + 1, n) + Step(note)
    BY <1>1, <1>2
  <2>3. Net(chain, n + 1, n) = 0
    <3>1. (n + 1)..n = {}
      BY <1>1
    <3> DEFINE A == {k \in (n + 1)..n : IsIf(chain[k])}
               B == {k \in (n + 1)..n : chain[k].dir = "endif"}
    <3>2. Net(chain, n + 1, n) = Cardinality(A) - Cardinality(B)
      BY DEF Net
    <3>3. A = {} /\ B = {}
      BY <3>1
    <3> HIDE DEF A, B
    <3>4. Cardinality(A) = 0 /\ Cardinality(B) = 0
      BY <3>3, FS_EmptySet
    <3>. QED BY <3>2, <3>4
  <2>. QED BY <1>1, <2>1, <2>2, <2>3 DEF OpenIfs, Step
<1>5. \A i \in OpenIfs(new) : i \in 1..n \/ i = n + 1
  BY <1>1 DEF OpenIfs
<1>6. \A i \in OpenIfs(chain) : i \in 1..n
  BY <1>1 DEF OpenIfs
<1>7. n + 1 \notin OpenIfs(chain)
  BY <1>1, <1>6
<1>. QED BY <1>1, <1>3, <1>4, <1>5, <1>6, <1>7 DEF new

-----------------------------------------------------------------------------
(* Branches *)

\* A branch of the conditional at i held; the last one is the first that did.
HeldAt(chain, i) == \E b \in BranchesOf(chain, i) : chain[b].held
FirstHeld(chain, i) ==
  \E b \in BranchesOf(chain, i) :
    /\ \A c \in BranchesOf(chain, i) : c <= b
    /\ chain[b].held /\ \A c \in BranchesOf(chain, i) : c < b => ~chain[c].held

\* note is a further branch of the conditional at i.
Branches(chain, i, note) == note.dir \in {"elsif", "else"} /\ Net(chain, i, Len(chain)) = 1

\* The branches of a conditional after one more.
LEMMA BranchesAfter ==
  ASSUME NEW chain \in Seq(Note), NEW note \in Note, NEW i \in 1..Len(chain)
  PROVE  BranchesOf(Append(chain, note), i) =
           BranchesOf(chain, i) \cup (IF Branches(chain, i, note) THEN {Len(chain) + 1} ELSE {})
<1> DEFINE new == Append(chain, note)
           n == Len(chain)
<1>1. /\ n \in Nat /\ Len(new) = n + 1
      /\ new[n + 1] = note /\ \A k \in 1..n : new[k] = chain[k]
  OBVIOUS
<1>2. /\ \A j \in i..n : Net(new, i, j) = Net(chain, i, j)
      /\ Net(chain, i, n) \in Int /\ Net(new, i, n + 1) = Net(chain, i, n) + Step(note)
  BY Counted, i \in 1..(n + 1)
<1> HIDE DEF new
<1>3. \A j : j \in i..(n + 1) <=> j \in i..n \/ j = n + 1
  BY <1>1
<1>4. \A j \in i..n : j \in BranchesOf(new, i) <=> j \in BranchesOf(chain, i)
  <2>1. \A j \in i..n : new[j] = chain[j] /\ j \in i..(n + 1)
    BY <1>1
  <2>. QED BY <1>1, <1>2, <2>1 DEF BranchesOf
<1>5. n + 1 \in BranchesOf(new, i) <=> Branches(chain, i, note)
  <2>1. n + 1 # i /\ n + 1 \in i..(n + 1)
    BY <1>1
  <2>2. note.dir \in {"elsif", "else"} => Step(note) = 0
    BY DEF Step, IsIf
  <2>. QED BY <1>1, <1>2, <2>1, <2>2 DEF BranchesOf, Branches
<1>6. /\ \A j \in BranchesOf(new, i) : j \in i..(n + 1)
      /\ \A j \in BranchesOf(chain, i) : j \in i..n
  BY <1>1 DEF BranchesOf
<1>. QED BY <1>3, <1>4, <1>5, <1>6 DEF new

\* One more conditional is a further branch of the conditional at i, or changes
\* nothing for it.
LEMMA HeldAfter ==
  ASSUME NEW chain \in Seq(Note), NEW note \in Note, NEW i \in 1..Len(chain)
  PROVE  LET new == Append(chain, note) IN
         IF Branches(chain, i, note)
         THEN /\ HeldAt(new, i) <=> HeldAt(chain, i) \/ note.held
              /\ FirstHeld(new, i) <=> note.held /\ ~HeldAt(chain, i)
         ELSE /\ HeldAt(new, i) <=> HeldAt(chain, i)
              /\ FirstHeld(new, i) <=> FirstHeld(chain, i)
<1> DEFINE new == Append(chain, note)
           n == Len(chain)
           B == BranchesOf(chain, i)
           D == BranchesOf(new, i)
<1>1. n \in Nat /\ new[n + 1] = note /\ \A k \in 1..n : new[k] = chain[k]
  OBVIOUS
<1>2. D = B \cup (IF Branches(chain, i, note) THEN {n + 1} ELSE {})
  BY BranchesAfter
<1>3. \A j \in B : j \in 1..n /\ j \in Nat /\ j < n + 1 /\ new[j] = chain[j]
  BY <1>1 DEF BranchesOf
<1>4. /\ HeldAt(chain, i) <=> \E b \in B : chain[b].held
      /\ HeldAt(new, i) <=> \E b \in D : new[b].held
      /\ FirstHeld(chain, i) <=> \E b \in B : /\ \A c \in B : c <= b
                                              /\ chain[b].held /\ \A c \in B : c < b => ~chain[c].held
      /\ FirstHeld(new, i) <=> \E b \in D : /\ \A c \in D : c <= b
                                            /\ new[b].held /\ \A c \in D : c < b => ~new[c].held
  BY DEF HeldAt, FirstHeld
<1> HIDE DEF new, B, D
<1>5. CASE Branches(chain, i, note)
  <2>1. n + 1 \in D /\ \A b \in D : b \in B \/ b = n + 1
    BY <1>2, <1>5
  <2>2. \A b \in B : b \in D
    BY <1>2
  <2>3. HeldAt(new, i) <=> HeldAt(chain, i) \/ note.held
    BY <1>1, <1>3, <1>4, <2>1, <2>2
  <2>4. FirstHeld(new, i) => note.held /\ ~HeldAt(chain, i)
    <3> SUFFICES ASSUME FirstHeld(new, i) PROVE note.held /\ ~HeldAt(chain, i)
      OBVIOUS
    <3>1. PICK b \in D : /\ \A c \in D : c <= b
                         /\ new[b].held /\ \A c \in D : c < b => ~new[c].held
      BY <1>4
    <3>2. b = n + 1
      BY <1>1, <1>3, <2>1, <3>1
    <3>. QED BY <1>1, <1>3, <1>4, <2>2, <3>1, <3>2
  <2>5. note.held /\ ~HeldAt(chain, i) => FirstHeld(new, i)
    <3> SUFFICES ASSUME note.held, ~HeldAt(chain, i) PROVE FirstHeld(new, i)
      OBVIOUS
    <3>1. \A c \in D : c <= n + 1
      BY <1>1, <1>3, <2>1
    <3>2. \A c \in D : c < n + 1 => ~new[c].held
      BY <1>1, <1>3, <1>4, <2>1
    <3>. QED BY <1>1, <1>4, <2>1, <3>1, <3>2
  <2>. QED BY <1>5, <2>3, <2>4, <2>5 DEF new
<1>6. CASE ~Branches(chain, i, note)
  <2>1. D = B
    BY <1>2, <1>6
  <2>2. HeldAt(new, i) <=> HeldAt(chain, i)
    BY <1>3, <1>4, <2>1
  <2>3. FirstHeld(new, i) <=> FirstHeld(chain, i)
    BY <1>3, <1>4, <2>1
  <2>. QED BY <1>6, <2>2, <2>3 DEF new
<1>. QED BY <1>5, <1>6

\* A new conditional has one branch.
LEMMA HeldFirst ==
  ASSUME NEW chain \in Seq(Note), NEW note \in Note, IsIf(note)
  PROVE  LET new == Append(chain, note)
             i == Len(chain) + 1
         IN (HeldAt(new, i) <=> note.held) /\ (FirstHeld(new, i) <=> note.held)
<1> DEFINE new == Append(chain, note)
           i == Len(chain) + 1
<1>1. i \in Nat /\ Len(new) = i /\ new[i] = note
  OBVIOUS
<1> HIDE DEF new, i
<1>2. \A j : j \in i..i <=> j = i
  BY <1>1
<1>3. BranchesOf(new, i) = {i}
  BY <1>1, <1>2 DEF BranchesOf
<1>. QED BY <1>1, <1>3 DEF HeldAt, FirstHeld, new, i

\* The first branch that held is a branch that held.
LEMMA FirstHolds ==
  ASSUME NEW chain, NEW i, FirstHeld(chain, i)
  PROVE  HeldAt(chain, i)
BY DEF FirstHeld, HeldAt

-----------------------------------------------------------------------------
(* The stack of levels is what the history says.                           *)

\* Level l belongs to the conditional at pos[l].  Its last fact says nothing of
\* a level inside skipped text: there a branch is not taken when it holds.
Matched(cond, chain, pos) ==
  /\ pos \in [1..Len(cond) -> 1..Len(chain)]
  /\ OpenIfs(chain) = {pos[l] : l \in 1..Len(cond)}
  /\ \A l \in 1..Len(cond) :
       /\ Net(chain, pos[l], Len(chain)) = Len(cond) - l + 1
       /\ cond[l].parent <=> \A k \in 1..(l - 1) : FirstHeld(chain, pos[k])
       /\ cond[l].active <=> \A k \in 1..l : FirstHeld(chain, pos[k])
       /\ cond[l].parent => (cond[l].taken <=> HeldAt(chain, pos[l]))

\* The line being read is emitted if every open conditional is in its branch.
LEMMA EmitsFirst ==
  ASSUME NEW cond \in Seq(Level), NEW chain \in Seq(Note), NEW pos, Matched(cond, chain, pos)
  PROVE  /\ Emitting(cond) \in BOOLEAN
         /\ Emitting(cond) <=> \A k \in 1..Len(cond) : FirstHeld(chain, pos[k])
<1>1. CASE cond = <<>>
  <2>1. \A k : k \notin 1..Len(cond)
    BY <1>1
  <2>. QED BY <1>1, <2>1 DEF Emitting
<1>2. CASE cond # <<>>
  <2>1. Len(cond) \in 1..Len(cond) /\ cond[Len(cond)] \in Level
    BY <1>2
  <2>2. Emitting(cond) = cond[Len(cond)].active
    BY <1>2 DEF Emitting
  <2>3. cond[Len(cond)].active \in BOOLEAN
    BY <2>1 DEF Level
  <2>. QED BY <2>1, <2>2, <2>3 DEF Matched
<1>. QED BY <1>1, <1>2

\* What Matched says about the frame's conditionals, in terms of its history.
LEMMA MatchedExact ==
  ASSUME NEW cond \in Seq(Level), NEW chain \in Seq(Note), NEW pos, Matched(cond, chain, pos)
  PROVE  /\ Emitting(cond) <=> InFirstBranches(chain)
         /\ \A l \in DOMAIN cond :
              /\ cond[l].active => cond[l].parent /\ cond[l].taken
              /\ cond[l].parent = Emitting(SubSeq(cond, 1, l - 1))
<1>1. InFirstBranches(chain) <=> \A i \in OpenIfs(chain) : FirstHeld(chain, i)
  BY DEF InFirstBranches, FirstHeld
<1>2. (\A i \in OpenIfs(chain) : FirstHeld(chain, i))
        <=> \A l \in 1..Len(cond) : FirstHeld(chain, pos[l])
  BY DEF Matched
<1>3. Emitting(cond) <=> InFirstBranches(chain)
  BY <1>1, <1>2, EmitsFirst
<1>4. ASSUME NEW l \in DOMAIN cond
      PROVE  /\ cond[l].active => cond[l].parent /\ cond[l].taken
             /\ cond[l].parent = Emitting(SubSeq(cond, 1, l - 1))
  <2>1. l \in 1..Len(cond) /\ l \in 1..l /\ \A k \in 1..(l - 1) : k \in 1..l
    OBVIOUS
  <2>2. cond[l] \in Level
    OBVIOUS
  <2>3. cond[l].active => cond[l].parent /\ cond[l].taken
    BY <2>1, FirstHolds DEF Matched
  <2>4. cond[l].parent \in BOOLEAN
    BY <2>2 DEF Level
  <2>5. CASE l = 1
    <3>1. Emitting(SubSeq(cond, 1, l - 1)) = TRUE
      BY <2>5 DEF Emitting
    <3>2. \A k : k \notin 1..(l - 1)
      BY <2>5
    <3>. QED BY <2>1, <2>3, <2>4, <3>1, <3>2 DEF Matched
  <2>6. CASE l # 1
    <3> DEFINE s == SubSeq(cond, 1, l - 1)
    <3>1. l - 1 \in 1..Len(cond) /\ cond[l - 1] \in Level
      BY <2>6
    <3>2. s # <<>> /\ Len(s) = l - 1 /\ s[l - 1] = cond[l - 1]
      BY <2>6
    <3>3. Emitting(s) = cond[l - 1].active
      BY <3>2 DEF Emitting
    <3>4. cond[l - 1].active \in BOOLEAN
      BY <3>1 DEF Level
    <3>5. cond[l - 1].active <=> cond[l].parent
      BY <2>1, <3>1 DEF Matched
    <3>. QED BY <2>3, <2>4, <3>3, <3>4, <3>5
  <2>. QED BY <2>5, <2>6
<1>. QED BY <1>3, <1>4

\* The conditionals of the levels are in the history, and further in come later.
LEMMA Places ==
  ASSUME NEW cond \in Seq(Level), NEW chain \in Seq(Note), NEW pos, Matched(cond, chain, pos)
  PROVE  /\ Len(cond) \in Nat /\ Len(chain) \in Nat
         /\ \A l \in 1..Len(cond) : pos[l] \in 1..Len(chain) /\ pos[l] \in OpenIfs(chain)
         /\ \A i \in OpenIfs(chain) : \E l \in 1..Len(cond) : i = pos[l]
<1>1. Len(cond) \in Nat /\ Len(chain) \in Nat
  OBVIOUS
<1>2. /\ pos \in [1..Len(cond) -> 1..Len(chain)]
      /\ OpenIfs(chain) = {pos[l] : l \in 1..Len(cond)}
  BY DEF Matched
<1>. QED BY <1>1, <1>2

\* `ifdef and `ifndef open a level.
LEMMA MatchedIf ==
  ASSUME NEW cond \in Seq(Level), NEW chain \in Seq(Note), NEW pos, Matched(cond, chain, pos),
         NEW note \in Note, IsIf(note), NEW level \in Level,
         level.parent = Emitting(cond), level.taken = note.held,
         level.active <=> Emitting(cond) /\ note.held
  PROVE  \E q : Matched(Append(cond, level), Append(chain, note), q)
<1> DEFINE c == Append(cond, level)
           h == Append(chain, note)
           m == Len(cond)
           n == Len(chain)
           q == [l \in 1..(m + 1) |-> IF l = m + 1 THEN n + 1 ELSE pos[l]]
<1>1. /\ m \in Nat /\ n \in Nat
      /\ \A l \in 1..m : pos[l] \in 1..n /\ pos[l] \in OpenIfs(chain)
      /\ \A i \in OpenIfs(chain) : \E l \in 1..m : i = pos[l]
  BY Places
<1>2. /\ Len(c) = m + 1 /\ Len(h) = n + 1 /\ c[m + 1] = level
      /\ \A l \in 1..m : c[l] = cond[l]
  OBVIOUS
<1>3. /\ m + 1 \in 1..(m + 1) /\ n + 1 \in 1..(n + 1) /\ \A i \in 1..n : i \in 1..(n + 1)
      /\ \A l \in 1..(m + 1) : l = m + 1 \/ l \in 1..m
      /\ \A l \in 1..m : l \in 1..(m + 1) /\ l # m + 1
  BY <1>1
<1>4. q[m + 1] = n + 1 /\ \A l \in 1..m : q[l] = pos[l]
  BY <1>3
<1>5. q \in [1..(m + 1) -> 1..(n + 1)]
  BY <1>1, <1>3
<1>6. Step(note) = 1
  BY DEF Step
<1>7. /\ \A i \in 1..(n + 1) : Net(h, i, n + 1) = Net(chain, i, n) + 1
      /\ Net(h, n + 1, n + 1) = 1
  <2>1. \A i \in 1..(n + 1) : Net(h, i, n + 1) = Net(chain, i, n) + 1
    BY <1>6, Counted
  <2>2. Net(chain, n + 1, n) = 0
    <3> DEFINE A == {k \in (n + 1)..n : IsIf(chain[k])}
               B == {k \in (n + 1)..n : chain[k].dir = "endif"}
    <3>1. (n + 1)..n = {}
      BY <1>1
    <3>2. Net(chain, n + 1, n) = Cardinality(A) - Cardinality(B)
      BY DEF Net
    <3>3. A = {} /\ B = {}
      BY <3>1
    <3> HIDE DEF A, B
    <3>4. Cardinality(A) = 0 /\ Cardinality(B) = 0
      BY <3>3, FS_EmptySet
    <3>. QED BY <3>2, <3>4
  <2>. QED BY <1>3, <2>1, <2>2
<1>8. \A l \in 1..m : Net(chain, pos[l], n) = m - l + 1
  BY DEF Matched
<1>9. OpenIfs(h) = {q[l] : l \in 1..(m + 1)}
  <2>1. OpenIfs(h) = {i \in OpenIfs(chain) : Net(chain, i, n) + 1 > 0} \cup {n + 1}
    BY <1>6, OpenAfter
  <2>2. \A i \in OpenIfs(chain) : Net(chain, i, n) + 1 > 0
    BY <1>1, <1>8
  <2>3. OpenIfs(h) = OpenIfs(chain) \cup {n + 1}
    BY <2>1, <2>2
  <2> HIDE DEF q, h
  <2>4. \A i \in OpenIfs(h) : \E l \in 1..(m + 1) : i = q[l]
    BY <1>1, <1>3, <1>4, <2>3
  <2>5. \A l \in 1..(m + 1) : q[l] \in OpenIfs(h)
    BY <1>1, <1>3, <1>4, <2>3
  <2>. QED BY <2>4, <2>5
<1>10. /\ \A l \in 1..m : /\ HeldAt(h, pos[l]) <=> HeldAt(chain, pos[l])
                          /\ FirstHeld(h, pos[l]) <=> FirstHeld(chain, pos[l])
       /\ HeldAt(h, n + 1) <=> note.held
       /\ FirstHeld(h, n + 1) <=> note.held
  <2>1. \A i : ~Branches(chain, i, note)
    BY DEF Branches, IsIf
  <2>. QED BY <1>1, <2>1, HeldAfter, HeldFirst
<1>11. Emitting(cond) <=> \A k \in 1..m : FirstHeld(chain, pos[k])
  BY EmitsFirst
<1> HIDE DEF q, h, c
<1>12. ASSUME NEW l \in 1..(m + 1)
       PROVE  /\ Net(h, q[l], n + 1) = (m + 1) - l + 1
              /\ c[l].parent <=> \A k \in 1..(l - 1) : FirstHeld(h, q[k])
              /\ c[l].active <=> \A k \in 1..l : FirstHeld(h, q[k])
              /\ c[l].parent => (c[l].taken <=> HeldAt(h, q[l]))
  <2>1. CASE l = m + 1
    <3>1. \A k : k \in 1..(l - 1) <=> k \in 1..m
      BY <1>1, <2>1
    <3>2. \A k : k \in 1..l <=> k \in 1..m \/ k = m + 1
      BY <1>1, <2>1
    <3>3. Net(h, q[l], n + 1) = (m + 1) - l + 1
      BY <1>1, <1>4, <1>7, <2>1
    <3>4. /\ (\A k \in 1..(l - 1) : FirstHeld(h, q[k])) <=> Emitting(cond)
          /\ (\A k \in 1..l : FirstHeld(h, q[k])) <=> Emitting(cond) /\ note.held
      BY <1>4, <1>10, <1>11, <3>1, <3>2
    <3>. QED BY <1>2, <1>4, <1>10, <2>1, <3>3, <3>4
  <2>2. CASE l # m + 1
    <3>1. l \in 1..m /\ (\A k \in 1..l : k \in 1..m) /\ \A k \in 1..(l - 1) : k \in 1..m
      BY <1>1, <2>2
    <3>2. Net(h, q[l], n + 1) = (m + 1) - l + 1
      BY <1>1, <1>3, <1>4, <1>7, <1>8, <3>1
    <3>3. \A k \in 1..m : FirstHeld(h, q[k]) <=> FirstHeld(chain, pos[k])
      BY <1>4, <1>10
    <3>4. HeldAt(h, q[l]) <=> HeldAt(chain, pos[l])
      BY <1>4, <1>10, <3>1
    <3>. QED BY <1>2, <3>1, <3>2, <3>3, <3>4 DEF Matched
  <2>. QED BY <2>1, <2>2
<1>13. Matched(c, h, q)
  BY <1>2, <1>5, <1>9, <1>12 DEF Matched
<1>. QED BY <1>13 DEF c, h

\* A sequence without its last elements.
LEMMA Shorter ==
  ASSUME NEW S, NEW s \in Seq(S), NEW n \in Nat, n <= Len(s)
  PROVE  /\ SubSeq(s, 1, n) \in Seq(S) /\ Len(SubSeq(s, 1, n)) = n
         /\ \A i \in 1..n : SubSeq(s, 1, n)[i] = s[i]
<1>1. \A i \in 1..n : s[i] \in S
  OBVIOUS
<1>2. /\ SubSeq(s, 1, n) \in Seq(S)
      /\ Len(SubSeq(s, 1, n)) = IF 1 <= n THEN n - 1 + 1 ELSE 0
      /\ \A i \in 1..(n - 1 + 1) : SubSeq(s, 1, n)[i] = s[1 + i - 1]
  BY <1>1, SubSeqProperties
<1>. QED BY <1>2

\* What becomes of a level in a further branch.
LEMMA BranchLevel ==
  ASSUME NEW level \in Level, NEW holds \in BOOLEAN
  PROVE  /\ Branch(level, holds) \in Level
         /\ Branch(level, holds).parent = level.parent
         /\ Branch(level, holds).active <=> ~level.taken /\ level.parent /\ holds
         /\ Branch(level, holds).taken <=> level.taken \/ (level.parent /\ holds)
<1> DEFINE new == Branch(level, holds)
<1>1. level.parent \in BOOLEAN /\ level.taken \in BOOLEAN /\ level.active \in BOOLEAN
  BY DEF Level
<1>2. level = [parent |-> level.parent, taken |-> level.taken, active |-> level.active]
  BY DEF Level
<1>3. CASE ~level.taken /\ level.parent /\ holds
  <2>1. new = [level EXCEPT !.active = TRUE, !.taken = TRUE]
    BY <1>3 DEF Branch
  <2>2. new = [parent |-> level.parent, taken |-> TRUE, active |-> TRUE]
    BY <1>2, <2>1
  <2> HIDE DEF new
  <2>3. new.parent = level.parent /\ new.taken = TRUE /\ new.active = TRUE
    BY <2>2
  <2>4. new \in Level
    BY <1>1, <2>2 DEF Level
  <2>. QED BY <1>3, <2>3, <2>4 DEF new
<1>4. CASE ~(~level.taken /\ level.parent /\ holds)
  <2>1. new = [level EXCEPT !.active = FALSE]
    BY <1>4 DEF Branch
  <2>2. new = [parent |-> level.parent, taken |-> level.taken, active |-> FALSE]
    BY <1>2, <2>1
  <2> HIDE DEF new
  <2>3. new.parent = level.parent /\ new.taken = level.taken /\ new.active = FALSE
    BY <2>2
  <2>4. new \in Level
    BY <1>1, <2>2 DEF Level
  <2>. QED BY <1>4, <2>3, <2>4 DEF new
<1>. QED BY <1>3, <1>4

\* `elsif and `else: a further branch of the innermost level.
LEMMA MatchedBranch ==
  ASSUME NEW cond \in Seq(Level), NEW chain \in Seq(Note), NEW pos, Matched(cond, chain, pos),
         NEW note \in Note, note.dir \in {"elsif", "else"}, NEW c \in Seq(Level),
         c = IF Len(cond) = 0 THEN <<>> ELSE [cond EXCEPT ![Len(cond)] = Branch(@, note.held)]
  PROVE  Matched(c, Append(chain, note), pos)
<1> DEFINE h == Append(chain, note)
           m == Len(cond)
           n == Len(chain)
<1>1. /\ m \in Nat /\ n \in Nat
      /\ \A l \in 1..m : pos[l] \in 1..n /\ pos[l] \in OpenIfs(chain)
      /\ \A i \in OpenIfs(chain) : \E l \in 1..m : i = pos[l]
  BY Places
<1>2. Len(h) = n + 1 /\ \A i \in 1..n : i \in 1..(n + 1)
  BY <1>1
<1>3. Len(c) = m
  <2>1. CASE m = 0
    BY <2>1
  <2>2. CASE m # 0
    BY <2>2
  <2>. QED BY <2>1, <2>2
<1>4. pos \in [1..m -> 1..(n + 1)]
  <2>1. pos \in [1..m -> 1..n]
    BY DEF Matched
  <2>. QED BY <1>2, <2>1
<1>5. Step(note) = 0 /\ ~IsIf(note)
  BY DEF Step, IsIf
<1>6. \A l \in 1..m : Net(chain, pos[l], n) = m - l + 1
  BY DEF Matched
<1>7. \A l \in 1..m : Net(h, pos[l], n + 1) = m - l + 1
  <2>1. \A i \in 1..(n + 1) : Net(h, i, n + 1) = Net(chain, i, n) + 0
    BY <1>5, Counted
  <2> HIDE DEF h
  <2>. QED BY <1>1, <1>2, <1>6, <2>1
<1>8. OpenIfs(h) = OpenIfs(chain)
  <2>1. OpenIfs(h) = {i \in OpenIfs(chain) : Net(chain, i, n) + 0 > 0}
    BY <1>5, OpenAfter
  <2>2. \A i \in OpenIfs(chain) : Net(chain, i, n) + 0 > 0
    BY <1>1, <1>6
  <2>. QED BY <2>1, <2>2
<1>9. \A l \in 1..m : Branches(chain, pos[l], note) <=> l = m
  BY <1>1, <1>6 DEF Branches
<1>10. \A l \in 1..m : l # m => /\ HeldAt(h, pos[l]) <=> HeldAt(chain, pos[l])
                                /\ FirstHeld(h, pos[l]) <=> FirstHeld(chain, pos[l])
  BY <1>1, <1>9, HeldAfter
<1>11. m \in 1..m => /\ HeldAt(h, pos[m]) <=> HeldAt(chain, pos[m]) \/ note.held
                     /\ FirstHeld(h, pos[m]) <=> note.held /\ ~HeldAt(chain, pos[m])
  BY <1>1, <1>9, HeldAfter
<1> HIDE DEF h
<1>12. ASSUME NEW l \in 1..m
       PROVE  /\ Net(h, pos[l], n + 1) = m - l + 1
              /\ c[l].parent <=> \A k \in 1..(l - 1) : FirstHeld(h, pos[k])
              /\ c[l].active <=> \A k \in 1..l : FirstHeld(h, pos[k])
              /\ c[l].parent => (c[l].taken <=> HeldAt(h, pos[l]))
  <2>1. /\ (\A k \in 1..l : k \in 1..m) /\ \A k \in 1..(l - 1) : k \in 1..m /\ k # m
        /\ m # 0 /\ m \in 1..m /\ l \in 1..l
        /\ \A k \in 1..l : k = l \/ k \in 1..(l - 1)
        /\ \A k \in 1..(l - 1) : k \in 1..l
    BY <1>1
  <2>2. c = [cond EXCEPT ![m] = Branch(cond[m], note.held)]
    BY <2>1
  <2>3. (\A k \in 1..(l - 1) : FirstHeld(h, pos[k])) <=> \A k \in 1..(l - 1) : FirstHeld(chain, pos[k])
    BY <1>10, <2>1
  <2>4. CASE l # m
    <3>1. c[l] = cond[l]
      BY <2>2, <2>4
    <3>2. (\A k \in 1..l : FirstHeld(h, pos[k])) <=> \A k \in 1..l : FirstHeld(chain, pos[k])
      BY <1>10, <2>1, <2>3, <2>4
    <3>. QED BY <1>7, <1>10, <2>3, <2>4, <3>1, <3>2 DEF Matched
  <2>5. CASE l = m
    <3> DEFINE old == cond[m]
    <3>1. old \in Level
      BY <2>1
    <3>2. c[l] = Branch(old, note.held)
      BY <2>1, <2>2, <2>5
    <3>3. /\ old.parent <=> \A k \in 1..(l - 1) : FirstHeld(h, pos[k])
          /\ old.parent => (old.taken <=> HeldAt(chain, pos[m]))
      BY <2>1, <2>3, <2>5 DEF Matched
    <3>4. (\A k \in 1..l : FirstHeld(h, pos[k]))
            <=> old.parent /\ note.held /\ ~HeldAt(chain, pos[m])
      BY <1>11, <2>1, <2>5, <3>3
    <3> HIDE DEF old
    <3>5. /\ c[l].parent = old.parent
          /\ c[l].active <=> ~old.taken /\ old.parent /\ note.held
          /\ c[l].taken <=> old.taken \/ (old.parent /\ note.held)
      BY <3>1, <3>2, BranchLevel, note.held \in BOOLEAN DEF Note
    <3>. QED BY <1>7, <1>11, <2>1, <2>5, <3>3, <3>4, <3>5
  <2>. QED BY <2>4, <2>5
<1>13. OpenIfs(h) = {pos[l] : l \in 1..m}
  BY <1>8 DEF Matched
<1>14. Matched(c, h, pos)
  BY <1>2, <1>3, <1>4, <1>12, <1>13 DEF Matched
<1>. QED BY <1>14 DEF h

\* `endif closes the innermost level, if there is one.
LEMMA MatchedEnd ==
  ASSUME NEW cond \in Seq(Level), NEW chain \in Seq(Note), NEW pos, Matched(cond, chain, pos),
         NEW note \in Note, note.dir = "endif", NEW c,
         c = IF cond = <<>> THEN <<>> ELSE SubSeq(cond, 1, Len(cond) - 1)
  PROVE  c \in Seq(Level) /\ \E q : Matched(c, Append(chain, note), q)
<1> DEFINE h == Append(chain, note)
           m == Len(cond)
           n == Len(chain)
           b == Len(c)
           q == [l \in 1..b |-> pos[l]]
<1>1. /\ m \in Nat /\ n \in Nat
      /\ \A l \in 1..m : pos[l] \in 1..n /\ pos[l] \in OpenIfs(chain)
      /\ \A i \in OpenIfs(chain) : \E l \in 1..m : i = pos[l]
  BY Places
<1>2. Len(h) = n + 1 /\ \A i \in 1..n : i \in 1..(n + 1)
  BY <1>1
<1>3. /\ c \in Seq(Level) /\ b \in Nat /\ \A l \in 1..b : c[l] = cond[l]
      /\ \A l : l \in 1..b <=> l \in 1..m /\ l # m
      /\ m # 0 => b = m - 1
  <2>1. CASE cond = <<>>
    BY <2>1
  <2>2. CASE cond # <<>>
    <3>1. m # 0 /\ c = SubSeq(cond, 1, m - 1)
      BY <2>2
    <3>2. c \in Seq(Level) /\ b = m - 1 /\ \A l \in 1..(m - 1) : c[l] = cond[l]
      <4>1. m - 1 \in Nat /\ m - 1 <= Len(cond)
        BY <1>1, <3>1
      <4> DEFINE k == m - 1
      <4>2. k \in Nat /\ k <= Len(cond)
        BY <4>1
      <4> HIDE DEF k
      <4>3. /\ SubSeq(cond, 1, k) \in Seq(Level) /\ Len(SubSeq(cond, 1, k)) = k
            /\ \A l \in 1..k : SubSeq(cond, 1, k)[l] = cond[l]
        BY <4>2, Shorter
      <4>4. c = SubSeq(cond, 1, k)
        BY <3>1 DEF k
      <4>5. c \in Seq(Level) /\ Len(c) = k /\ \A l \in 1..k : c[l] = cond[l]
        BY <4>3, <4>4
      <4>. QED BY <4>5 DEF k, b
    <3> HIDE DEF b
    <3>. QED BY <1>1, <3>1, <3>2
  <2>. QED BY <2>1, <2>2
<1> HIDE DEF b
<1>4. \A l \in 1..b : q[l] = pos[l] /\ l \in 1..m /\ l # m
  BY <1>3
<1>5. q \in [1..b -> 1..(n + 1)]
  BY <1>1, <1>2, <1>3
<1> HIDE DEF q
<1>6. Step(note) = -1 /\ ~IsIf(note)
  BY DEF Step, IsIf
<1>7. \A l \in 1..m : Net(chain, pos[l], n) = m - l + 1
  BY DEF Matched
<1>8. \A l \in 1..b : Net(h, q[l], n + 1) = b - l + 1
  <2>1. \A i \in 1..(n + 1) : Net(h, i, n + 1) = Net(chain, i, n) + (-1)
    BY <1>6, Counted
  <2> HIDE DEF h
  <2> SUFFICES ASSUME NEW l \in 1..b PROVE Net(h, q[l], n + 1) = b - l + 1
    OBVIOUS
  <2>2. q[l] = pos[l] /\ l \in 1..m /\ l # m /\ m # 0 /\ pos[l] \in 1..n
    BY <1>1, <1>4
  <2>3. Net(h, q[l], n + 1) = (m - l + 1) + (-1)
    BY <1>2, <1>7, <2>1, <2>2
  <2>. QED BY <1>1, <1>3, <2>2, <2>3
<1>9. OpenIfs(h) = {q[l] : l \in 1..b}
  <2>1. OpenIfs(h) = {i \in OpenIfs(chain) : Net(chain, i, n) + (-1) > 0}
    BY <1>6, OpenAfter
  <2> HIDE DEF h
  <2>2. ASSUME NEW l \in 1..m PROVE Net(chain, pos[l], n) + (-1) > 0 <=> l # m
    BY <1>1, <1>7
  <2>3. \A i \in OpenIfs(h) : \E l \in 1..b : i = q[l]
    <3> SUFFICES ASSUME NEW i \in OpenIfs(h) PROVE \E l \in 1..b : i = q[l]
      OBVIOUS
    <3>1. PICK l \in 1..m : i = pos[l]
      BY <1>1, <2>1
    <3>2. l # m
      BY <2>1, <2>2, <3>1
    <3>3. l \in 1..b
      BY <1>3, <3>2
    <3>. QED BY <1>4, <3>1, <3>3
  <2>4. \A l \in 1..b : q[l] \in OpenIfs(h)
    <3> SUFFICES ASSUME NEW l \in 1..b PROVE q[l] \in OpenIfs(h)
      OBVIOUS
    <3>1. q[l] = pos[l] /\ l \in 1..m /\ l # m
      BY <1>4
    <3>. QED BY <1>1, <2>1, <2>2, <3>1
  <2>. QED BY <2>3, <2>4
<1>10. \A l \in 1..b : /\ HeldAt(h, q[l]) <=> HeldAt(chain, pos[l])
                       /\ FirstHeld(h, q[l]) <=> FirstHeld(chain, pos[l])
  <2>1. \A i : ~Branches(chain, i, note)
    BY DEF Branches
  <2>. QED BY <1>1, <1>4, <2>1, HeldAfter
<1> HIDE DEF h
<1>11. ASSUME NEW l \in 1..b
       PROVE  /\ c[l].parent <=> \A k \in 1..(l - 1) : FirstHeld(h, q[k])
              /\ c[l].active <=> \A k \in 1..l : FirstHeld(h, q[k])
              /\ c[l].parent => (c[l].taken <=> HeldAt(h, q[l]))
  <2>1. (\A k \in 1..l : k \in 1..b) /\ (\A k \in 1..(l - 1) : k \in 1..b) /\ l \in 1..m
    BY <1>3, <1>4
  <2>. QED BY <1>3, <1>10, <2>1 DEF Matched
<1>12. Matched(c, h, q)
  BY <1>2, <1>5, <1>8, <1>9, <1>11 DEF Matched, b
<1>. QED BY <1>3, <1>12 DEF h

-----------------------------------------------------------------------------
(* The include stack *)

Frame == [path : DOMAIN FileAt, at : Nat, rest : Seq(AllLines),
          cond : Seq(Level), chain : Seq(Note)]

\* The levels of a frame are what its history says.
InStep(f) == \E pos : Matched(f.cond, f.chain, pos)

\* The files being processed, each once, within the limit.
StackInv ==
  /\ frames \in Seq(Frame)
  /\ Len(frames) \in 1..MaxIncludeDepth
  /\ \A i \in 1..Len(frames) : InStep(frames[i])
  /\ frames[1].path = MainPath
  /\ \A i, j \in 1..Len(frames) : frames[i].path = frames[j].path => i = j
  /\ currentFile = Top.path

\* The lines of a file are lines.
LEMMA FileLines ==
  ASSUME NEW path \in DOMAIN FileAt
  PROVE  FileAt[path] \in Seq(AllLines)
<1>1. FileAt[path] \in Seq(Range(FileAt[path]))
  BY FileAssumption
<1>2. \A line \in Range(FileAt[path]) : line \in AllLines
  BY DEF AllLines
<1>. QED BY <1>1, <1>2

\* The frame at the top.
LEMMA TopFrame ==
  ASSUME StackInv
  PROVE  /\ Len(frames) \in Nat /\ Len(frames) >= 1 /\ Len(frames) \in 1..Len(frames)
         /\ Top \in Frame /\ InStep(Top)
<1>1. Len(frames) \in Nat /\ Len(frames) >= 1
  BY DEF StackInv
<1>2. Len(frames) \in 1..Len(frames)
  BY <1>1
<1>. QED BY <1>1, <1>2 DEF StackInv, Top

\* The lines that can be read are lines; in an included file it is the next one.
LEMMA LineRead ==
  ASSUME StackInv, NEW line \in NextLines
  PROVE  /\ line \in AllLines
         /\ Len(frames) > 1 => Top.rest # <<>> /\ line = Head(Top.rest)
<1>1. Top.rest \in Seq(AllLines)
  BY TopFrame DEF Frame
<1>2. CASE Len(frames) = 1
  <2>1. line \in Lines
    BY <1>2 DEF NextLines
  <2>. QED BY <1>2, <2>1 DEF AllLines
<1>3. CASE Len(frames) # 1
  <2>1. Top.rest # <<>> /\ line = Head(Top.rest)
    BY <1>3 DEF NextLines
  <2>. QED BY <1>1, <2>1
<1>. QED BY <1>2, <1>3

\* The current frame after a line.
LEMMA AfterLine ==
  ASSUME StackInv, NEW c \in Seq(Level), NEW h \in Seq(Note)
  PROVE  /\ After(c, h) \in Frame
         /\ After(c, h).path = Top.path /\ After(c, h).at = Top.at + 1
         /\ After(c, h).rest = IF Top.rest = <<>> THEN Top.rest ELSE Tail(Top.rest)
         /\ After(c, h).cond = c /\ After(c, h).chain = h
<1> DEFINE rest == IF Top.rest = <<>> THEN Top.rest ELSE Tail(Top.rest)
<1>1. Top \in Frame
  BY TopFrame
<1>2. /\ Top.path \in DOMAIN FileAt /\ Top.at \in Nat /\ Top.rest \in Seq(AllLines)
      /\ Top = [path |-> Top.path, at |-> Top.at, rest |-> Top.rest,
                cond |-> Top.cond, chain |-> Top.chain]
  BY <1>1 DEF Frame
<1>3. rest \in Seq(AllLines)
  BY <1>2
<1> HIDE DEF rest
<1>4. After(c, h) = [Top EXCEPT !.at = Top.at + 1, !.rest = rest, !.cond = c, !.chain = h]
  BY DEF After, rest
<1>5. After(c, h) = [path |-> Top.path, at |-> Top.at + 1, rest |-> rest, cond |-> c, chain |-> h]
  BY <1>2, <1>4
<1>6. After(c, h) \in Frame
  BY <1>2, <1>3, <1>5 DEF Frame
<1>. QED BY <1>5, <1>6 DEF rest

\* A step that replaces the frame at the top by one in step.
LEMMA TopReplaced ==
  ASSUME StackInv, NEW f \in Frame, f.path = Top.path, InStep(f),
         frames' = [frames EXCEPT ![Len(frames)] = f], UNCHANGED currentFile
  PROVE  StackInv'
<1> DEFINE n == Len(frames)
<1>1. n \in Nat /\ n >= 1 /\ n \in 1..n /\ DOMAIN frames = 1..n /\ frames \in Seq(Frame)
  BY TopFrame DEF StackInv
<1>2. /\ frames' \in Seq(Frame) /\ Len(frames') = n /\ frames'[n] = f
      /\ \A i \in 1..n : i # n => frames'[i] = frames[i]
  <2>1. frames' = [frames EXCEPT ![n] = f]
    OBVIOUS
  <2>2. frames \in [1..n -> Frame]
    BY <1>1
  <2> HIDE DEF n
  <2>3. frames' \in [1..n -> Frame] /\ frames'[n] = f
        /\ \A i \in 1..n : i # n => frames'[i] = frames[i]
    BY <1>1, <2>1, <2>2
  <2>. QED BY <1>1, <2>3
<1>3. frames[n] = Top
  BY DEF Top
<1>4. \A i \in 1..n : frames'[i].path = frames[i].path
  BY <1>2, <1>3
<1>5. \A i \in 1..n : InStep(frames'[i])
  BY <1>2 DEF StackInv
<1>6. \A i \in 1..n : InStep(frames[i])'
  BY <1>5 DEF InStep
<1>7. Top' = f
  BY <1>2 DEF Top
<1>8. 1 \in 1..n
  BY <1>1
<1> HIDE DEF n
<1>9. n = Len(frames)
  BY DEF n
<1>. QED BY <1>2, <1>4, <1>6, <1>7, <1>8, <1>9 DEF StackInv

\* A line that leaves the frame in step.
LEMMA ConsumedLine ==
  ASSUME StackInv, NEW c \in Seq(Level), NEW h \in Seq(Note), \E pos : Matched(c, h, pos),
         NEW kind, NEW text, Consume(After(c, h), kind, text)
  PROVE  StackInv'
<1>1. InStep(After(c, h))
  BY AfterLine DEF InStep
<1>. QED BY <1>1, AfterLine, TopReplaced DEF Consume

\* The conditionals of the frame at the top.
LEMMA TopLevels ==
  ASSUME StackInv
  PROVE  /\ Top.cond \in Seq(Level) /\ Top.chain \in Seq(Note)
         /\ \E pos : Matched(Top.cond, Top.chain, pos)
         /\ Emitting(Top.cond) \in BOOLEAN
<1>1. Top \in Frame /\ \E pos : Matched(Top.cond, Top.chain, pos)
  BY TopFrame DEF InStep
<1>2. Top.cond \in Seq(Level) /\ Top.chain \in Seq(Note)
  BY <1>1 DEF Frame
<1>. QED BY <1>1, <1>2, EmitsFirst

\* A line that is no conditional.
LEMMA PlainLine ==
  ASSUME StackInv, NEW kind, NEW text, Consume(Same, kind, text)
  PROVE  StackInv'
BY TopLevels, ConsumedLine DEF Same

\* What is noted of a conditional.
LEMMA NotedType ==
  ASSUME StackInv, NEW line, line.dir \in Conditionals, NEW held \in BOOLEAN
  PROVE  LET note == [dir |-> line.dir, held |-> held] IN
         /\ note \in Note /\ Noted(line, held) = Append(Top.chain, note)
         /\ Noted(line, held) \in Seq(Note)
<1>1. Top.chain \in Seq(Note)
  BY TopLevels
<1>. QED BY <1>1 DEF Note, Noted

\* `ifdef and `ifndef
LEMMA IfdefStack ==
  ASSUME StackInv, NEW line, Ifdef(line)
  PROVE  StackInv'
<1> DEFINE want == (Defined(line) <=> line.dir = "ifdef")
           parent == Emitting(Top.cond)
           level == [parent |-> parent, taken |-> want, active |-> parent /\ want]
           note == [dir |-> line.dir, held |-> want]
<1>1. Consume(After(Append(Top.cond, level), Noted(line, want)), "blank", <<>>)
  BY DEF Ifdef
<1>2. line.dir \in Conditionals /\ line.dir \in {"ifdef", "ifndef"}
  BY DEF Ifdef, Conditionals
<1>3. /\ Top.cond \in Seq(Level) /\ Top.chain \in Seq(Note) /\ parent \in BOOLEAN
      /\ \E pos : Matched(Top.cond, Top.chain, pos)
  BY TopLevels
<1>4. want \in BOOLEAN
  OBVIOUS
<1> HIDE DEF want, parent
<1>5. /\ note \in Note /\ Noted(line, want) = Append(Top.chain, note)
      /\ Noted(line, want) \in Seq(Note)
  BY <1>2, <1>4, NotedType
<1>6. IsIf(note) /\ note.held = want
  BY <1>2 DEF IsIf
<1>7. level \in Level
  BY <1>3, <1>4 DEF Level
<1>8. level.parent = Emitting(Top.cond) /\ level.taken = note.held
      /\ (level.active <=> Emitting(Top.cond) /\ note.held)
  BY <1>6 DEF parent
<1> HIDE DEF level, note
<1>9. \E pos : Matched(Append(Top.cond, level), Append(Top.chain, note), pos)
  BY <1>3, <1>5, <1>6, <1>7, <1>8, MatchedIf
<1>10. Append(Top.cond, level) \in Seq(Level)
  BY <1>3, <1>7
<1>. QED BY <1>1, <1>5, <1>9, <1>10, ConsumedLine

\* `elsif and `else
LEMMA ElsifStack ==
  ASSUME StackInv, NEW line, Elsif(line)
  PROVE  StackInv'
<1> DEFINE holds == IF line.dir = "else" THEN TRUE ELSE Defined(line)
           n == Len(Top.cond)
           c == IF n = 0 THEN <<>> ELSE [Top.cond EXCEPT ![n] = Branch(@, holds)]
           note == [dir |-> line.dir, held |-> holds]
<1>1. Consume(After(c, Noted(line, holds)), "blank", <<>>)
  BY DEF Elsif
<1>2. line.dir \in Conditionals /\ line.dir \in {"elsif", "else"}
  BY DEF Elsif, Conditionals
<1>3. /\ Top.cond \in Seq(Level) /\ Top.chain \in Seq(Note)
      /\ \E pos : Matched(Top.cond, Top.chain, pos)
  BY TopLevels
<1>4. holds \in BOOLEAN
  <2>1. Defined(line) \in BOOLEAN
    BY DEF Defined
  <2>. QED BY <2>1
<1> HIDE DEF holds
<1>5. /\ note \in Note /\ Noted(line, holds) = Append(Top.chain, note)
      /\ Noted(line, holds) \in Seq(Note)
  BY <1>2, <1>4, NotedType
<1>6. note.dir \in {"elsif", "else"} /\ note.held = holds
  BY <1>2
<1>7. c \in Seq(Level)
  <2>1. CASE n = 0
    BY <2>1
  <2>2. CASE n # 0
    <3>1. n \in Nat /\ n \in 1..n /\ Top.cond[n] \in Level
      BY <1>3, <2>2
    <3>2. Branch(Top.cond[n], holds) \in Level
      BY <1>4, <3>1, BranchLevel
    <3>. QED BY <1>3, <2>2, <3>1, <3>2
  <2>. QED BY <2>1, <2>2
<1>8. c = IF Len(Top.cond) = 0 THEN <<>>
          ELSE [Top.cond EXCEPT ![Len(Top.cond)] = Branch(@, note.held)]
  BY <1>6
<1> HIDE DEF c, note
<1>9. \E pos : Matched(c, Append(Top.chain, note), pos)
  BY <1>3, <1>5, <1>6, <1>7, <1>8, MatchedBranch
<1>. QED BY <1>1, <1>5, <1>7, <1>9, ConsumedLine

\* `endif
LEMMA EndifStack ==
  ASSUME StackInv, NEW line, Endif(line)
  PROVE  StackInv'
<1> DEFINE c == IF Top.cond = <<>> THEN <<>> ELSE SubSeq(Top.cond, 1, Len(Top.cond) - 1)
           note == [dir |-> line.dir, held |-> TRUE]
<1>1. Consume(After(c, Noted(line, TRUE)), "blank", <<>>)
  BY DEF Endif
<1>2. line.dir \in Conditionals /\ line.dir = "endif"
  BY DEF Endif, Conditionals
<1>3. /\ Top.cond \in Seq(Level) /\ Top.chain \in Seq(Note)
      /\ \E pos : Matched(Top.cond, Top.chain, pos)
  BY TopLevels
<1>4. /\ note \in Note /\ Noted(line, TRUE) = Append(Top.chain, note)
      /\ Noted(line, TRUE) \in Seq(Note)
  BY <1>2, NotedType
<1>5. note.dir = "endif"
  BY <1>2
<1>6. c = IF Top.cond = <<>> THEN <<>> ELSE SubSeq(Top.cond, 1, Len(Top.cond) - 1)
  OBVIOUS
<1> HIDE DEF c, note
<1>7. c \in Seq(Level) /\ \E pos : Matched(c, Append(Top.chain, note), pos)
  BY <1>3, <1>4, <1>5, <1>6, MatchedEnd
<1>. QED BY <1>1, <1>4, <1>7, ConsumedLine

\* The file an include finds.
LEMMA FileFound ==
  ASSUME NEW fname, ResolveInclude(fname) # {}
  PROVE  <<SearchDirs[CHOOSE i \in ResolveInclude(fname) : TRUE], fname>> \in DOMAIN FileAt
<1>1. (CHOOSE i \in ResolveInclude(fname) : TRUE) \in ResolveInclude(fname)
  OBVIOUS
<1>. QED BY <1>1 DEF ResolveInclude

\* A file that has just been opened.
LEMMA Opened ==
  ASSUME NEW path \in DOMAIN FileAt
  PROVE  /\ NewFrame(path, FileAt[path]) \in Frame
         /\ NewFrame(path, FileAt[path]).path = path
         /\ InStep(NewFrame(path, FileAt[path]))
<1> DEFINE f == NewFrame(path, FileAt[path])
<1>1. FileAt[path] \in Seq(AllLines)
  BY FileLines
<1>2. f \in Frame /\ f.path = path /\ f.cond = <<>> /\ f.chain = <<>>
  BY <1>1 DEF NewFrame, Frame
<1>3. Matched(<<>>, <<>>, <<>>)
  <2>1. OpenIfs(<<>>) = {}
    BY DEF OpenIfs
  <2>2. Len(<<>>) = 0 /\ 1..0 = {} /\ <<>> \in [1..0 -> 1..0]
    OBVIOUS
  <2>. QED BY <2>1, <2>2 DEF Matched
<1>. QED BY <1>2, <1>3 DEF InStep

\* The stack after an include, before the included file is on it.
LEMMA IncludingFrame ==
  ASSUME StackInv
  PROVE  LET n == Len(frames)
             below == [frames EXCEPT ![n] = Same]
         IN /\ n \in Nat /\ n >= 1 /\ below \in Seq(Frame) /\ Len(below) = n /\ below[n] = Same
            /\ \A i \in 1..n : i # n => below[i] = frames[i]
            /\ \A i \in 1..n : InStep(below[i]) /\ below[i].path = frames[i].path
<1> DEFINE n == Len(frames)
           below == [frames EXCEPT ![n] = Same]
<1>1. n \in Nat /\ n >= 1 /\ n \in 1..n /\ frames \in [1..n -> Frame]
  BY TopFrame DEF StackInv
<1>2. Same \in Frame /\ InStep(Same) /\ Same.path = Top.path
  <2>1. Top.cond \in Seq(Level) /\ Top.chain \in Seq(Note) /\ InStep(Top)
    BY TopLevels, TopFrame
  <2>2. Same \in Frame /\ Same.path = Top.path /\ Same.cond = Top.cond /\ Same.chain = Top.chain
    BY <2>1, AfterLine DEF Same
  <2>. QED BY <2>1, <2>2 DEF InStep
<1>3. frames[n] = Top /\ \A i \in 1..n : InStep(frames[i])
  BY DEF Top, StackInv
<1> HIDE DEF n
<1>4. /\ below \in [1..n -> Frame] /\ below[n] = Same
      /\ \A i \in 1..n : i # n => below[i] = frames[i]
  BY <1>1, <1>2
<1> HIDE DEF below
<1>5. below \in Seq(Frame) /\ Len(below) = n
  BY <1>1, <1>4
<1>6. \A i \in 1..n : InStep(below[i]) /\ below[i].path = frames[i].path
  BY <1>2, <1>3, <1>4
<1>. QED BY <1>1, <1>4, <1>5, <1>6 DEF below, n

\* `include
LEMMA IncludeStack ==
  ASSUME StackInv, NEW line, Include(line)
  PROVE  StackInv'
<1> DEFINE n == Len(frames)
           path == <<SearchDirs[CHOOSE i \in ResolveInclude(line.file) : TRUE], line.file>>
           below == [frames EXCEPT ![n] = Same]
           new == NewFrame(path, FileAt[path])
<1>1. CASE \E reason : Refuse(reason)
  BY <1>1, PlainLine DEF Refuse
<1>2. CASE /\ ~(n >= MaxIncludeDepth) /\ ResolveInclude(line.file) # {} /\ ~IsOpen(path)
           /\ frames' = Append(below, new) /\ currentFile' = path
  <2>1. path \in DOMAIN FileAt
    BY <1>2, FileFound
  <2>2. new \in Frame /\ new.path = path /\ InStep(new)
    BY <2>1, Opened
  <2>3. /\ n \in Nat /\ n >= 1 /\ below \in Seq(Frame) /\ Len(below) = n
        /\ \A i \in 1..n : InStep(below[i]) /\ below[i].path = frames[i].path
    BY IncludingFrame
  <2>4. MaxIncludeDepth \in Nat /\ n + 1 \in 1..MaxIncludeDepth
    <3>1. MaxIncludeDepth \in Nat /\ ~(n >= MaxIncludeDepth)
      BY <1>2, FileAssumption
    <3> HIDE DEF n
    <3>. QED BY <2>3, <3>1
  <2>5. \A i \in 1..n : frames[i].path # path
    <3>1. DOMAIN frames = 1..n
      BY DEF StackInv
    <3>2. ~IsOpen(path)
      BY <1>2
    <3> HIDE DEF n, path
    <3>. QED BY <3>1, <3>2 DEF IsOpen
  <2>6. /\ frames[1].path = MainPath
        /\ \A i, j \in 1..n : frames[i].path = frames[j].path => i = j
    BY DEF StackInv
  <2>7. frames' = Append(below, new) /\ currentFile' = path
    BY <1>2
  <2> HIDE DEF n, path, below, new
  <2>8. /\ frames' \in Seq(Frame) /\ Len(frames') = n + 1 /\ frames'[n + 1] = new
        /\ \A i \in 1..n : frames'[i] = below[i]
    BY <2>2, <2>3, <2>7
  <2>9. \A i \in 1..(n + 1) : i \in 1..n \/ i = n + 1
    BY <2>3
  <2>10. \A i \in 1..(n + 1) : InStep(frames'[i])
    BY <2>2, <2>3, <2>8, <2>9
  <2>11. \A i \in 1..(n + 1) : InStep(frames[i])'
    BY <2>10 DEF InStep
  <2>12. 1 \in 1..n
    BY <2>3
  <2>13. frames'[1].path = MainPath
    BY <2>3, <2>6, <2>8, <2>12
  <2>14. \A i, j \in 1..(n + 1) : frames'[i].path = frames'[j].path => i = j
    BY <2>2, <2>3, <2>5, <2>6, <2>8, <2>9
  <2>15. Top' = new
    BY <2>8 DEF Top
  <2>. QED BY <2>2, <2>4, <2>7, <2>8, <2>11, <2>13, <2>14, <2>15 DEF StackInv
<1>. QED BY <1>1, <1>2 DEF Include

\* The end of an included file.
LEMMA EndOfFileStack ==
  ASSUME StackInv, EndOfFile
  PROVE  StackInv'
<1> DEFINE n == Len(frames)
<1>1. n \in Nat /\ n > 1 /\ n \in 1..MaxIncludeDepth /\ frames \in Seq(Frame)
  BY TopFrame DEF EndOfFile, StackInv
<1>2. frames' = SubSeq(frames, 1, n - 1) /\ currentFile' = frames[n - 1].path
  BY DEF EndOfFile
<1>3. /\ \A i \in 1..n : InStep(frames[i])
      /\ frames[1].path = MainPath
      /\ \A i, j \in 1..n : frames[i].path = frames[j].path => i = j
  BY DEF StackInv
<1> HIDE DEF n
<1>4. n - 1 \in Nat /\ n - 1 \in 1..MaxIncludeDepth /\ n - 1 \in 1..(n - 1) /\ 1 \in 1..(n - 1)
  BY <1>1, FileAssumption
<1>5. n = Len(frames)
  BY DEF n
<1>6. n - 1 <= Len(frames)
  BY <1>1, <1>5
<1>7. /\ frames' \in Seq(Frame) /\ Len(frames') = n - 1
      /\ \A i \in 1..(n - 1) : frames'[i] = frames[i]
  BY <1>1, <1>2, <1>4, <1>6, Shorter
<1>8. \A i \in 1..(n - 1) : i \in 1..n
  BY <1>1
<1>9. \A i \in 1..(n - 1) : InStep(frames'[i])
  BY <1>3, <1>7, <1>8
<1>10. \A i \in 1..(n - 1) : InStep(frames[i])'
  BY <1>9 DEF InStep
<1>11. \A i, j \in 1..(n - 1) : frames'[i].path = frames'[j].path => i = j
  BY <1>3, <1>7, <1>8
<1>12. Top' = frames[n - 1]
  BY <1>4, <1>7 DEF Top
<1>. QED BY <1>2, <1>3, <1>4, <1>7, <1>10, <1>11, <1>12 DEF StackInv

\* No step of the preprocessor breaks the stack.
LEMMA StackStep ==
  ASSUME StackInv, [Next]_vars
  PROVE  StackInv'
<1>1. ASSUME NEW line \in NextLines,
             \/ Skip(line) \/ Define(line) \/ Undef(line) \/ Passthrough(line) \/ Text(line)
      PROVE  StackInv'
  BY <1>1, PlainLine DEF Skip, Define, Undef, Passthrough, Text
<1>2. ASSUME UNCHANGED <<frames, currentFile>>
      PROVE  StackInv'
  BY <1>2 DEF StackInv, Top, InStep
<1>3. ASSUME NEW c, Char(c)
      PROVE  StackInv'
  BY <1>2, <1>3 DEF Char
<1>4. CASE UNCHANGED vars
  BY <1>2, <1>4 DEF vars
<1>. QED BY <1>1, <1>3, <1>4, IfdefStack, ElsifStack, EndifStack, IncludeStack, EndOfFileStack DEF Next

\* The stack holds the top-level file at the start.
LEMMA StackInit ==
  ASSUME Init
  PROVE  StackInv
<1> DEFINE f == NewFrame(MainPath, <<>>)
<1>1. frames = <<f>> /\ currentFile = MainPath
  BY DEF Init
<1>2. MainPath \in DOMAIN FileAt /\ MaxIncludeDepth \in Nat /\ 1 \in 1..MaxIncludeDepth
  BY FileAssumption
<1>3. f \in Frame /\ f.path = MainPath /\ InStep(f)
  <2>1. f \in Frame /\ f.path = MainPath /\ f.cond = <<>> /\ f.chain = <<>>
    BY <1>2 DEF NewFrame, Frame
  <2>2. InStep(NewFrame(MainPath, FileAt[MainPath]))
    BY <1>2, Opened
  <2>. QED BY <2>1, <2>2 DEF InStep, NewFrame
<1> HIDE DEF f
<1>4. frames \in Seq(Frame) /\ Len(frames) = 1 /\ frames[1] = f /\ \A i \in 1..1 : i = 1
  BY <1>1, <1>3
<1>. QED BY <1>1, <1>2, <1>3, <1>4 DEF StackInv, Top

\* The stack of files and the levels of each are sound in every reachable state.
LEMMA StackAlways == Spec => []StackInv
<1>1. Init => StackInv
  BY StackInit
<1>2. StackInv /\ [Next]_vars => StackInv'
  BY StackStep
<1>. QED BY <1>1, <1>2, PTL DEF Spec

\* A line is emitted exactly where every enclosing conditional is in the first of
\* its branches that held (process, cond_stack), for files of any length.
THEOREM BranchesAreExact == Spec => []BranchesExact
<1>1. StackInv => BranchesExact
  <2>. SUFFICES ASSUME StackInv, NEW f \in DOMAIN frames
       PROVE  /\ Emitting(frames[f].cond) <=> InFirstBranches(frames[f].chain)
              /\ \A l \in DOMAIN frames[f].cond :
                   LET level == frames[f].cond[l] IN
                   /\ level.active => level.parent /\ level.taken
                   /\ level.parent = Emitting(SubSeq(frames[f].cond, 1, l - 1))
    BY DEF BranchesExact
  <2>1. f \in 1..Len(frames) /\ frames[f] \in Frame /\ InStep(frames[f])
    BY DEF StackInv
  <2>2. frames[f].cond \in Seq(Level) /\ frames[f].chain \in Seq(Note)
    BY <2>1 DEF Frame
  <2>3. PICK pos : Matched(frames[f].cond, frames[f].chain, pos)
    BY <2>1 DEF InStep
  <2>. QED BY <2>2, <2>3, MatchedExact
<1>. QED BY <1>1, StackAlways, PTL

-----------------------------------------------------------------------------
(* Include guards *)

\* A guarded file as far as it has been read: its one level is open until its
\* last line, and while that is active the guard is defined from the second line
\* on (known) and the text is still to come or has come now (count lines of it).
GuardedFrame(f, known, count) ==
  LET lines == FileAt[f.path]
      n == Len(lines)
  IN /\ f.at \in 0..n
     /\ Len(f.rest) = n - f.at /\ \A j \in 1..(n - f.at) : f.rest[j] = lines[f.at + j]
     /\ f.at \in {0, n} => f.cond = <<>>
     /\ f.at \in 1..(n - 1) => Len(f.cond) = 1
     /\ f.at \in 1..(n - 1) /\ f.cond[1].active =>
          /\ f.at > 1 => known
          /\ (\A j \in 1..f.at : lines[j].dir # "text") => count = 0

Known(path) == GuardOf(path) \in DOMAIN macros

\* Text of a guarded file is emitted once, and its guard is defined before.
GuardInv ==
  /\ texts \in [Guarded -> {0, 1}]
  /\ \A g \in Guarded : texts[g] = 1 => Known(g)
  /\ \A i \in 1..Len(frames) :
       frames[i].path \in Guarded =>
         GuardedFrame(frames[i], Known(frames[i].path), texts[frames[i].path])

\* A frame that is not at the top has not read anything; the guard it relies on
\* stays defined.
LEMMA GuardedKept ==
  ASSUME NEW f, NEW known \in BOOLEAN, NEW new \in BOOLEAN, NEW count, GuardedFrame(f, known, count),
         known => new
  PROVE  GuardedFrame(f, new, count)
BY DEF GuardedFrame

\* A guarded file is a sequence of at least three lines.
LEMMA GuardedFile ==
  ASSUME NEW path \in Guarded
  PROVE  LET lines == FileAt[path]
             n == Len(lines)
         IN /\ path \in DOMAIN FileAt /\ path # MainPath
            /\ lines \in Seq(AllLines) /\ n \in Nat /\ n > 2
            /\ lines[1].dir = "ifndef" /\ lines[1].name = GuardOf(path) /\ lines[n].dir = "endif"
            /\ lines[2].dir = "define" /\ lines[2].name = GuardOf(path)
            /\ \A i \in 2..(n - 1) : lines[i].dir \notin Conditionals
            /\ \A i, j \in 1..n : lines[i].dir = "text" /\ lines[j].dir = "text" => i = j
<1>1. path \in DOMAIN FileAt /\ path # MainPath
  BY FileAssumption
<1>2. FileAt[path] \in Seq(AllLines)
  BY <1>1, FileLines
<1>3. Len(FileAt[path]) \in Nat
  BY <1>2
<1>. QED BY <1>1, <1>2, <1>3, GuardAssumption DEF GuardOf

\* The guarded file at the top: the line it reads is its next, and it is not the
\* top-level file.
LEMMA GuardedLine ==
  ASSUME StackInv, GuardInv, NEW line \in NextLines, Top.path \in Guarded
  PROVE  LET lines == FileAt[Top.path]
             n == Len(lines)
             k == Top.at
         IN /\ GuardedFrame(Top, Known(Top.path), texts[Top.path])
            /\ k \in 0..(n - 1) /\ line = lines[k + 1]
            /\ k = 0 => line.dir = "ifndef" /\ line.name = GuardOf(Top.path)
            /\ k = 1 => line.dir = "define" /\ line.name = GuardOf(Top.path)
            /\ k \in 1..(n - 2) => line.dir \notin Conditionals
            /\ k = n - 1 => line.dir = "endif"
            /\ Top.rest \in Seq(AllLines) /\ Top.rest # <<>>
<1> DEFINE lines == FileAt[Top.path]
           n == Len(lines)
           k == Top.at
<1>1. /\ Len(frames) \in 1..Len(frames) /\ Top \in Frame /\ frames[Len(frames)] = Top
  BY TopFrame DEF Top
<1>2. GuardedFrame(Top, Known(Top.path), texts[Top.path])
  BY <1>1 DEF GuardInv
<1>3. Len(frames) # 1
  <2>1. Top.path # MainPath
    BY GuardedFile
  <2>. QED BY <1>1, <2>1 DEF StackInv
<1>4. Len(frames) > 1
  <2>1. Len(frames) \in Nat /\ Len(frames) >= 1
    BY TopFrame
  <2>2. \A m \in Nat : m >= 1 /\ m # 1 => m > 1
    OBVIOUS
  <2>. QED BY <1>3, <2>1, <2>2, Zenon
<1>5. Top.rest # <<>> /\ line = Head(Top.rest)
  BY <1>4, LineRead
<1>6. Top.rest \in Seq(AllLines) /\ k \in Nat
  BY <1>1 DEF Frame
<1>7. Len(Top.rest) \in Nat /\ Len(Top.rest) >= 1 /\ Head(Top.rest) = Top.rest[1]
  BY <1>5, <1>6
<1>8. /\ n \in Nat /\ n > 2
      /\ lines[1].dir = "ifndef" /\ lines[1].name = GuardOf(Top.path) /\ lines[n].dir = "endif"
      /\ lines[2].dir = "define" /\ lines[2].name = GuardOf(Top.path)
      /\ \A i \in 2..(n - 1) : lines[i].dir \notin Conditionals
  BY GuardedFile
<1>9. /\ k \in 0..n /\ Len(Top.rest) = n - k
      /\ \A j \in 1..(n - k) : Top.rest[j] = lines[k + j]
  BY <1>2 DEF GuardedFrame
<1> HIDE DEF lines, n, k
<1>10. k \in 0..(n - 1) /\ 1 \in 1..(n - k)
  BY <1>6, <1>7, <1>8, <1>9
<1>11. line = lines[k + 1]
  BY <1>5, <1>7, <1>9, <1>10
<1>12. k \in 1..(n - 2) => k + 1 \in 2..(n - 1)
  BY <1>6, <1>8
<1>13. k = n - 1 => k + 1 = n
  BY <1>8
<1>14. k \in 1..(n - 2) => line.dir \notin Conditionals
  BY <1>8, <1>11, <1>12
<1>15. k = n - 1 => line.dir = "endif"
  BY <1>8, <1>11, <1>13
<1>16. /\ k = 0 => line.dir = "ifndef" /\ line.name = GuardOf(Top.path)
       /\ k = 1 => line.dir = "define" /\ line.name = GuardOf(Top.path)
  BY <1>8, <1>11
<1>. QED BY <1>2, <1>5, <1>6, <1>10, <1>11, <1>14, <1>15, <1>16 DEF lines, n, k

\* One line further in a guarded file.
LEMMA GuardedNext ==
  ASSUME StackInv, GuardInv, NEW line \in NextLines, Top.path \in Guarded,
         NEW c \in Seq(Level), NEW h \in Seq(Note), NEW known, NEW count,
         LET n == Len(FileAt[Top.path])
             k == Top.at + 1
         IN /\ k = n => c = <<>>
            /\ k < n => Len(c) = 1
            /\ k < n /\ c[1].active =>
                 /\ k > 1 => known
                 /\ (\A j \in 1..k : FileAt[Top.path][j].dir # "text") => count = 0
  PROVE  GuardedFrame(After(c, h), known, count)
<1> DEFINE lines == FileAt[Top.path]
           n == Len(lines)
           k == Top.at
           f == After(c, h)
<1>1. /\ f.path = Top.path /\ f.at = k + 1 /\ f.cond = c
      /\ f.rest = IF Top.rest = <<>> THEN Top.rest ELSE Tail(Top.rest)
  BY AfterLine
<1>2. /\ k \in 0..(n - 1) /\ Top.rest \in Seq(AllLines) /\ Top.rest # <<>>
      /\ GuardedFrame(Top, Known(Top.path), texts[Top.path])
  BY GuardedLine
<1>3. Len(Top.rest) = n - k /\ \A j \in 1..(n - k) : Top.rest[j] = lines[k + j]
  BY <1>2 DEF GuardedFrame
<1>4. n \in Nat /\ n > 2 /\ k \in Nat
  BY <1>2, GuardedFile
<1>5. /\ k + 1 = n => c = <<>>
      /\ k + 1 < n => Len(c) = 1
      /\ k + 1 < n /\ c[1].active =>
           /\ k + 1 > 1 => known
           /\ (\A j \in 1..(k + 1) : lines[j].dir # "text") => count = 0
  OBVIOUS
<1>6. FileAt[f.path] = lines /\ Len(FileAt[f.path]) = n
  BY <1>1
<1> HIDE DEF lines, n, k, f
<1>7. f.rest = Tail(Top.rest)
  BY <1>1, <1>2
<1>8. Len(f.rest) = n - (k + 1)
  BY <1>2, <1>3, <1>4, <1>7
<1>9. \A j \in 1..(n - (k + 1)) : f.rest[j] = lines[(k + 1) + j]
  <2>. TAKE j \in 1..(n - (k + 1))
  <2>1. j \in 1..(Len(Top.rest) - 1) /\ j + 1 \in 1..(n - k) /\ k + (j + 1) = (k + 1) + j
    BY <1>2, <1>3, <1>4
  <2>2. f.rest[j] = Top.rest[j + 1]
    BY <1>2, <1>7, <2>1
  <2>. QED BY <1>3, <2>1, <2>2
<1>10. k + 1 \in 0..n /\ k + 1 # 0
  BY <1>2, <1>4
<1>11. k + 1 \in 1..(n - 1) => k + 1 < n
  BY <1>4
<1>12. GuardedFrame(f, known, count) <=>
         /\ k + 1 \in 0..n
         /\ Len(f.rest) = n - (k + 1) /\ \A j \in 1..(n - (k + 1)) : f.rest[j] = lines[(k + 1) + j]
         /\ k + 1 \in {0, n} => c = <<>>
         /\ k + 1 \in 1..(n - 1) => Len(c) = 1
         /\ k + 1 \in 1..(n - 1) /\ c[1].active =>
              /\ k + 1 > 1 => known
              /\ (\A j \in 1..(k + 1) : lines[j].dir # "text") => count = 0
  BY <1>1, <1>6 DEF GuardedFrame
<1>. QED BY <1>5, <1>8, <1>9, <1>10, <1>11, <1>12 DEF f

\* A line of a guarded file that is no conditional.
LEMMA GuardedPlain ==
  ASSUME StackInv, GuardInv, NEW line \in NextLines, Top.path \in Guarded,
         line.dir \notin Conditionals, NEW known \in BOOLEAN, NEW count,
         Known(Top.path) => known,
         line.dir = "define" /\ Emitting(Top.cond) /\ line.name = GuardOf(Top.path) => known,
         line.dir # "text" => count = texts[Top.path]
  PROVE  /\ GuardedFrame(Same, known, count)
         /\ line.dir = "text" /\ Emitting(Top.cond) => texts[Top.path] = 0 /\ Known(Top.path)
<1> DEFINE lines == FileAt[Top.path]
           n == Len(lines)
           k == Top.at
<1>1. /\ GuardedFrame(Top, Known(Top.path), texts[Top.path])
      /\ k \in 0..(n - 1) /\ line = lines[k + 1]
      /\ k = 0 => line.dir = "ifndef"
      /\ k = 1 => line.dir = "define" /\ line.name = GuardOf(Top.path)
      /\ k = n - 1 => line.dir = "endif"
  BY GuardedLine
<1>2. /\ n \in Nat /\ n > 2
      /\ \A i, j \in 1..n : lines[i].dir = "text" /\ lines[j].dir = "text" => i = j
  BY GuardedFile
<1>3. k # 0 /\ k # n - 1
  BY <1>1 DEF Conditionals
<1>4. /\ k \in 1..(n - 1) => Len(Top.cond) = 1
      /\ k \in 1..(n - 1) /\ Top.cond[1].active =>
           /\ k > 1 => Known(Top.path)
           /\ (\A j \in 1..k : lines[j].dir # "text") => texts[Top.path] = 0
  BY <1>1 DEF GuardedFrame
<1>5. Top.cond \in Seq(Level) /\ Top.chain \in Seq(Note)
  BY TopLevels
<1> HIDE DEF lines, n, k
<1>6. k \in Nat /\ k \in 1..(n - 1) /\ k + 1 < n /\ k + 1 > 1 /\ k + 1 # n
  BY <1>1, <1>2, <1>3
<1>7. Len(Top.cond) = 1
  BY <1>4, <1>6
<1>8. Emitting(Top.cond) = Top.cond[1].active
  <2>1. Top.cond # <<>>
    BY <1>7
  <2>2. Emitting(Top.cond) = Top.cond[Len(Top.cond)].active
    BY <2>1 DEF Emitting
  <2>. QED BY <1>7, <2>2
<1>9. k = 1 \/ k > 1
  BY <1>6
<1>10. Top.cond[1].active => known
  BY <1>1, <1>4, <1>6, <1>8, <1>9
<1>11. ASSUME Top.cond[1].active, \A j \in 1..(k + 1) : lines[j].dir # "text"
       PROVE  count = 0
  <2>1. \A j \in 1..k : j \in 1..(k + 1)
    BY <1>6
  <2>2. k + 1 \in 1..(k + 1)
    BY <1>6
  <2>. QED BY <1>1, <1>4, <1>6, <1>11, <2>1, <2>2
<1>12. ASSUME line.dir = "text", Emitting(Top.cond)
       PROVE  texts[Top.path] = 0 /\ Known(Top.path)
  <2>1. k > 1
    BY <1>1, <1>9, <1>12
  <2>2. k + 1 \in 1..n /\ \A j \in 1..k : j \in 1..n /\ j # k + 1
    BY <1>2, <1>6
  <2>3. \A j \in 1..k : lines[j].dir # "text"
    BY <1>1, <1>2, <1>12, <2>2
  <2>. QED BY <1>4, <1>6, <1>8, <1>12, <2>1, <2>3
<1>13. GuardedFrame(After(Top.cond, Top.chain), known, count)
  BY <1>5, <1>6, <1>7, <1>10, <1>11, GuardedNext DEF lines, n, k
<1>. QED BY <1>12, <1>13 DEF Same

\* A step that consumes a line and keeps the guards defined.
LEMMA GuardConsumed ==
  ASSUME StackInv, GuardInv, NEW f, NEW kind, NEW text, Consume(f, kind, text), f.path = Top.path,
         \A g \in Guarded : Known(g) => Known(g)',
         Top.path \in Guarded =>
           /\ GuardedFrame(f, GuardOf(Top.path) \in DOMAIN macros', texts'[Top.path])
           /\ kind = "text" => texts[Top.path] = 0 /\ Known(Top.path)
  PROVE  GuardInv'
<1> DEFINE n == Len(frames)
<1>1. n \in Nat /\ n \in 1..n /\ frames \in [1..n -> Frame] /\ frames[n] = Top
  BY TopFrame DEF StackInv, Top
<1>2. frames' = [frames EXCEPT ![n] = f]
  BY DEF Consume
<1>3. texts' = [g \in Guarded |-> texts[g] + IF kind = "text" /\ Top.path = g THEN 1 ELSE 0]
  BY DEF Consume
<1>4. texts \in [Guarded -> {0, 1}] /\ \A g \in Guarded : texts[g] = 1 => Known(g)
  BY DEF GuardInv
<1>5. /\ \A i \in 1..n : frames[i].path \in Guarded =>
           GuardedFrame(frames[i], Known(frames[i].path), texts[frames[i].path])
      /\ \A i \in 1..n : frames[i].path = Top.path => i = n
  BY <1>1 DEF GuardInv, StackInv
<1> HIDE DEF n
<1>6. \A g \in Guarded : IF kind = "text" /\ Top.path = g
                         THEN texts'[g] = 1 /\ texts[g] = 0 /\ Known(g)
                         ELSE texts'[g] = texts[g]
  <2>1. \A g \in Guarded : texts[g] \in {0, 1} /\ texts[g] + 0 = texts[g]
    BY <1>4
  <2>. QED BY <1>3, <2>1
<1>7. \A g \in Guarded : texts'[g] \in {0, 1} /\ (texts'[g] = 1 => GuardOf(g) \in DOMAIN macros')
  BY <1>4, <1>6 DEF Known
<1>8. texts' \in [Guarded -> {0, 1}]
  BY <1>3, <1>7
<1>9. Len(frames') = n /\ frames'[n] = f /\ \A i \in 1..n : i # n => frames'[i] = frames[i]
  <2>1. frames' \in [1..n -> Frame \cup {f}]
    BY <1>1, <1>2
  <2>. QED BY <1>1, <1>2, <2>1
<1>10. ASSUME NEW i \in 1..n, frames'[i].path \in Guarded
       PROVE  GuardedFrame(frames'[i], GuardOf(frames'[i].path) \in DOMAIN macros', texts'[frames'[i].path])
  <2>1. CASE i = n
    BY <1>9, <1>10, <2>1
  <2>2. CASE i # n
    <3>1. frames'[i] = frames[i] /\ frames[i].path \in Guarded /\ frames[i].path # Top.path
      BY <1>5, <1>9, <1>10, <2>2
    <3>2. texts'[frames[i].path] = texts[frames[i].path]
      BY <1>6, <3>1
    <3>3. Known(frames[i].path) => GuardOf(frames[i].path) \in DOMAIN macros'
      BY <3>1 DEF Known
    <3>4. GuardedFrame(frames[i], Known(frames[i].path), texts[frames[i].path])
      BY <1>5, <3>1
    <3>5. Known(frames[i].path) \in BOOLEAN /\ (GuardOf(frames[i].path) \in DOMAIN macros') \in BOOLEAN
      BY DEF Known
    <3>. QED BY <3>1, <3>2, <3>3, <3>4, <3>5, GuardedKept
  <2>. QED BY <2>1, <2>2
<1>11. \A i \in 1..n : frames'[i].path \in Guarded =>
         GuardedFrame(frames[i], Known(frames[i].path), texts[frames[i].path])'
  BY <1>10 DEF GuardedFrame, Known
<1>. QED BY <1>7, <1>8, <1>9, <1>11 DEF GuardInv, Known

\* A line that is no conditional, and does not undefine a guard.
LEMMA GuardPlain ==
  ASSUME StackInv, GuardInv, NEW line \in NextLines, line.dir \notin Conditionals,
         NEW kind, NEW text, Consume(Same, kind, text),
         kind = "text" <=> line.dir = "text" /\ Emitting(Top.cond),
         \A g \in Guarded : Known(g) => Known(g)',
         line.dir = "define" /\ Emitting(Top.cond) => line.name \in DOMAIN macros'
  PROVE  GuardInv'
<1>1. Same.path = Top.path
  BY TopLevels, AfterLine DEF Same
<1>2. ASSUME Top.path \in Guarded
      PROVE  /\ GuardedFrame(Same, GuardOf(Top.path) \in DOMAIN macros', texts'[Top.path])
             /\ kind = "text" => texts[Top.path] = 0 /\ Known(Top.path)
  <2> DEFINE known == GuardOf(Top.path) \in DOMAIN macros'
             count == texts'[Top.path]
  <2>1. known \in BOOLEAN /\ (Known(Top.path) => known)
    BY <1>2 DEF Known
  <2>2. line.dir = "define" /\ Emitting(Top.cond) /\ line.name = GuardOf(Top.path) => known
    OBVIOUS
  <2>3. line.dir # "text" => count = texts[Top.path]
    <3>1. texts' = [g \in Guarded |-> texts[g] + IF kind = "text" /\ Top.path = g THEN 1 ELSE 0]
      BY DEF Consume
    <3>2. texts[Top.path] \in {0, 1}
      BY <1>2 DEF GuardInv
    <3>. QED BY <1>2, <3>1, <3>2
  <2> HIDE DEF known, count
  <2>4. /\ GuardedFrame(Same, known, count)
        /\ line.dir = "text" /\ Emitting(Top.cond) => texts[Top.path] = 0 /\ Known(Top.path)
    BY <1>2, <2>1, <2>2, <2>3, GuardedPlain
  <2>. QED BY <2>4 DEF known, count
<1>. QED BY <1>1, <1>2, GuardConsumed


\* A conditional, of which the frame at the top is after its line.
LEMMA GuardBranch ==
  ASSUME StackInv, GuardInv, NEW line \in NextLines, NEW c \in Seq(Level), NEW h \in Seq(Note),
         Consume(After(c, h), "blank", <<>>), UNCHANGED macros,
         Top.path \in Guarded =>
           LET n == Len(FileAt[Top.path])
               k == Top.at + 1
           IN /\ k = n => c = <<>>
              /\ k < n => Len(c) = 1
              /\ k < n /\ c[1].active => k = 1 /\ texts[Top.path] = 0
  PROVE  GuardInv'
<1>1. After(c, h).path = Top.path
  BY AfterLine
<1>2. \A g \in Guarded : Known(g) => Known(g)'
  BY DEF Known
<1>3. ASSUME Top.path \in Guarded
      PROVE  GuardedFrame(After(c, h), GuardOf(Top.path) \in DOMAIN macros', texts'[Top.path])
  <2> DEFINE known == GuardOf(Top.path) \in DOMAIN macros'
             count == texts'[Top.path]
             n == Len(FileAt[Top.path])
             k == Top.at + 1
  <2>1. count = texts[Top.path]
    <3>1. texts' = [g \in Guarded |-> texts[g] + 0]
      BY DEF Consume
    <3>2. texts[Top.path] \in {0, 1}
      BY <1>3 DEF GuardInv
    <3>. QED BY <1>3, <3>1, <3>2
  <2>2. /\ k = n => c = <<>>
        /\ k < n => Len(c) = 1
        /\ k < n /\ c[1].active => k = 1 /\ texts[Top.path] = 0
    BY <1>3
  <2> HIDE DEF known, count
  <2>3. k < n /\ c[1].active => (k > 1 => known) /\ count = 0
    <3> HIDE DEF k, n
    <3>. QED BY <2>1, <2>2
  <2>4. GuardedFrame(After(c, h), known, count)
    BY <1>3, <2>2, <2>3, GuardedNext
  <2>. QED BY <2>4 DEF known, count
<1>. QED BY <1>1, <1>2, <1>3, GuardConsumed

\* `ifdef and `ifndef
LEMMA GuardIfdef ==
  ASSUME StackInv, GuardInv, NEW line \in NextLines, Ifdef(line)
  PROVE  GuardInv'
<1> DEFINE want == (Defined(line) <=> line.dir = "ifdef")
           parent == Emitting(Top.cond)
           level == [parent |-> parent, taken |-> want, active |-> parent /\ want]
           c == Append(Top.cond, level)
           h == Noted(line, want)
<1>1. Consume(After(c, h), "blank", <<>>) /\ UNCHANGED macros
  BY DEF Ifdef
<1>2. line.dir \in Conditionals /\ line.dir \in {"ifdef", "ifndef"}
  BY DEF Ifdef, Conditionals
<1>3. Top.cond \in Seq(Level) /\ Top.chain \in Seq(Note) /\ parent \in BOOLEAN
  BY TopLevels
<1>4. want \in BOOLEAN
  OBVIOUS
<1>5. level.active => want
  OBVIOUS
<1>6. want => (Defined(line) <=> line.dir = "ifdef")
  OBVIOUS
<1> HIDE DEF want, parent
<1>7. h \in Seq(Note)
  BY <1>2, <1>4, NotedType
<1>8. level \in Level
  BY <1>3, <1>4 DEF Level
<1> HIDE DEF level, h
<1>9. c \in Seq(Level)
  BY <1>3, <1>8
<1>10. ASSUME Top.path \in Guarded
       PROVE  LET n == Len(FileAt[Top.path])
                  k == Top.at + 1
              IN /\ k = n => c = <<>>
                 /\ k < n => Len(c) = 1
                 /\ k < n /\ c[1].active => k = 1 /\ texts[Top.path] = 0
  <2> DEFINE n == Len(FileAt[Top.path])
             k == Top.at
  <2>1. /\ GuardedFrame(Top, Known(Top.path), texts[Top.path])
        /\ k \in 0..(n - 1)
        /\ k = 0 => line.dir = "ifndef" /\ line.name = GuardOf(Top.path)
        /\ k \in 1..(n - 2) => line.dir \notin Conditionals
        /\ k = n - 1 => line.dir = "endif"
    BY <1>10, GuardedLine
  <2>2. n \in Nat /\ n > 2
    BY <1>10, GuardedFile
  <2>3. k = 0 => Top.cond = <<>>
    BY <2>1 DEF GuardedFrame
  <2> HIDE DEF n, k
  <2>4. k = 0 \/ k \in 1..(n - 2) \/ k = n - 1
    BY <2>1, <2>2
  <2>5. k = 0
    BY <1>2, <2>1, <2>4
  <2>6. line.dir = "ifndef" /\ line.name = GuardOf(Top.path) /\ Top.cond = <<>>
    BY <2>1, <2>3, <2>5
  <2>7. Len(c) = 1 /\ c[1] = level
    BY <2>6
  <2>8. level.active => ~Known(Top.path)
    BY <1>5, <1>6, <2>6 DEF Defined, Known
  <2>9. texts[Top.path] \in {0, 1} /\ (texts[Top.path] = 1 => Known(Top.path))
    BY <1>10 DEF GuardInv
  <2>10. c[1].active => texts[Top.path] = 0
    BY <2>7, <2>8, <2>9
  <2>11. k + 1 = 1 /\ k + 1 # n
    BY <2>2, <2>5
  <2>. QED BY <2>7, <2>10, <2>11 DEF n, k
<1> HIDE DEF c
<1>. QED BY <1>1, <1>7, <1>9, <1>10, GuardBranch

\* `elsif and `else: not in a guarded file.
LEMMA GuardElsif ==
  ASSUME StackInv, GuardInv, NEW line \in NextLines, Elsif(line)
  PROVE  GuardInv'
<1>1. line.dir \in {"elsif", "else"} /\ line.dir \in Conditionals
  BY DEF Elsif, Conditionals
<1>2. Top.path \notin Guarded
  <2>. SUFFICES ASSUME Top.path \in Guarded
       PROVE  FALSE
    OBVIOUS
  <2> DEFINE n == Len(FileAt[Top.path])
             k == Top.at
  <2>1. /\ k \in 0..(n - 1)
        /\ k = 0 => line.dir = "ifndef"
        /\ k \in 1..(n - 2) => line.dir \notin Conditionals
        /\ k = n - 1 => line.dir = "endif"
    BY GuardedLine
  <2>2. n \in Nat /\ n > 2
    BY GuardedFile
  <2> HIDE DEF n, k
  <2>3. k = 0 \/ k \in 1..(n - 2) \/ k = n - 1
    BY <2>1, <2>2
  <2>. QED BY <1>1, <2>1, <2>3
<1>3. PICK c, h : /\ Consume(After(c, h), "blank", <<>>) /\ UNCHANGED macros
  BY DEF Elsif
<1>4. After(c, h).path = Top.path
  <2>1. Top \in Frame
    BY TopFrame
  <2>. QED BY <2>1 DEF After, Frame
<1>5. \A g \in Guarded : Known(g) => Known(g)'
  BY <1>3 DEF Known
<1>. QED BY <1>2, <1>3, <1>4, <1>5, GuardConsumed

\* `endif
LEMMA GuardEndif ==
  ASSUME StackInv, GuardInv, NEW line \in NextLines, Endif(line)
  PROVE  GuardInv'
<1> DEFINE c == IF Top.cond = <<>> THEN <<>> ELSE SubSeq(Top.cond, 1, Len(Top.cond) - 1)
           h == Noted(line, TRUE)
<1>1. Consume(After(c, h), "blank", <<>>) /\ UNCHANGED macros
  BY DEF Endif
<1>2. line.dir \in Conditionals /\ line.dir = "endif"
  BY DEF Endif, Conditionals
<1>3. Top.cond \in Seq(Level) /\ Top.chain \in Seq(Note)
  BY TopLevels
<1>4. h \in Seq(Note)
  BY <1>2, NotedType
<1>5. c \in Seq(Level)
  <2>1. Top.cond # <<>> => Len(Top.cond) - 1 \in Nat /\ Len(Top.cond) - 1 <= Len(Top.cond)
    BY <1>3
  <2>. QED BY <1>3, <2>1, Shorter
<1>6. ASSUME Top.path \in Guarded
      PROVE  c = <<>> /\ Top.at + 1 = Len(FileAt[Top.path]) /\ Len(FileAt[Top.path]) \in Nat
  <2> DEFINE n == Len(FileAt[Top.path])
             k == Top.at
  <2>1. /\ GuardedFrame(Top, Known(Top.path), texts[Top.path])
        /\ k \in 0..(n - 1)
        /\ k = 0 => line.dir = "ifndef"
        /\ k \in 1..(n - 2) => line.dir \notin Conditionals
    BY <1>6, GuardedLine
  <2>2. n \in Nat /\ n > 2
    BY <1>6, GuardedFile
  <2>3. k \in 1..(n - 1) => Len(Top.cond) = 1
    BY <2>1 DEF GuardedFrame
  <2> HIDE DEF n, k
  <2>4. k = 0 \/ k \in 1..(n - 2) \/ k = n - 1
    BY <2>1, <2>2
  <2>5. k = n - 1
    BY <1>2, <2>1, <2>4
  <2>6. k \in 1..(n - 1) /\ k + 1 = n
    BY <2>2, <2>5
  <2>7. Len(Top.cond) = 1
    BY <2>3, <2>6
  <2>8. Len(Top.cond) - 1 = 0 /\ Top.cond # <<>>
    BY <2>7
  <2>9. SubSeq(Top.cond, 1, 0) = <<>>
    BY <1>3, <2>7, Shorter
  <2>10. c = <<>>
    BY <2>8, <2>9
  <2>. QED BY <2>2, <2>6, <2>10 DEF n, k
<1> HIDE DEF c, h
<1>7. Top.path \in Guarded => c = <<>> /\ ~(Top.at + 1 < Len(FileAt[Top.path]))
  BY <1>6
<1>. QED BY <1>1, <1>4, <1>5, <1>7, GuardBranch

\* The lines that are no conditionals.
LEMMA GuardOther ==
  ASSUME StackInv, GuardInv, NEW line \in NextLines,
         \/ Skip(line) \/ Define(line) \/ Undef(line) \/ Passthrough(line) \/ Text(line)
         \/ line.dir = "include" /\ \E reason : Refuse(reason)
  PROVE  GuardInv'
<1>1. CASE Skip(line)
  <2>1. /\ line.dir \notin Conditionals /\ ~Emitting(Top.cond)
        /\ Consume(Same, "blank", <<>>) /\ UNCHANGED macros
    BY <1>1 DEF Skip
  <2>2. \A g \in Guarded : Known(g) => Known(g)'
    BY <2>1 DEF Known
  <2>. QED BY <2>1, <2>2, GuardPlain
<1>2. CASE Define(line)
  <2>1. line.dir = "define" /\ Consume(Same, "blank", <<>>) /\ line.dir \notin Conditionals
    BY <1>2 DEF Define, Conditionals
  <2>2. DOMAIN macros' = DOMAIN macros \cup {line.name}
    BY <1>2 DEF Define
  <2>3. \A g \in Guarded : Known(g) => Known(g)'
    BY <2>2 DEF Known
  <2>. QED BY <2>1, <2>2, <2>3, GuardPlain
<1>3. CASE Undef(line)
  <2>1. line.dir = "undef" /\ Consume(Same, "blank", <<>>) /\ line.dir \notin Conditionals
    BY <1>3 DEF Undef, Conditionals
  <2>2. DOMAIN macros' = DOMAIN macros \ {line.name}
    BY <1>3 DEF Undef
  <2>3. line \in AllLines
    BY LineRead
  <2>4. \A g \in Guarded : line.name # GuardOf(g)
    BY <2>1, <2>3, GuardAssumption
  <2>5. \A g \in Guarded : Known(g) => Known(g)'
    BY <2>2, <2>4 DEF Known
  <2>. QED BY <2>1, <2>5, GuardPlain
<1>4. CASE Passthrough(line)
  <2>1. /\ line.dir = "other" /\ Consume(Same, "blank", <<>>) /\ UNCHANGED macros
        /\ line.dir \notin Conditionals
    BY <1>4 DEF Passthrough, Conditionals
  <2>2. \A g \in Guarded : Known(g) => Known(g)'
    BY <2>1 DEF Known
  <2>. QED BY <2>1, <2>2, GuardPlain
<1>5. CASE Text(line)
  <2>1. /\ line.dir = "text" /\ Emitting(Top.cond) /\ UNCHANGED macros
        /\ line.dir \notin Conditionals /\ Consume(Same, "text", ExpandText(line.text))
    BY <1>5 DEF Text, Conditionals
  <2>2. \A g \in Guarded : Known(g) => Known(g)'
    BY <2>1 DEF Known
  <2>. QED BY <2>1, <2>2, GuardPlain
<1>6. CASE line.dir = "include" /\ \E reason : Refuse(reason)
  <2>1. PICK reason : Refuse(reason)
    BY <1>6
  <2>2. /\ Consume(Same, "comment", <<reason>>) /\ UNCHANGED macros
        /\ line.dir = "include" /\ line.dir \notin Conditionals
    BY <1>6, <2>1 DEF Refuse, Conditionals
  <2>3. \A g \in Guarded : Known(g) => Known(g)'
    BY <2>2 DEF Known
  <2>. QED BY <2>2, <2>3, GuardPlain
<1>. QED BY <1>1, <1>2, <1>3, <1>4, <1>5, <1>6

\* A guarded file that has just been opened.
LEMMA GuardedOpened ==
  ASSUME NEW path \in Guarded, NEW known, NEW count
  PROVE  GuardedFrame(NewFrame(path, FileAt[path]), known, count)
<1> DEFINE f == NewFrame(path, FileAt[path])
           n == Len(FileAt[path])
<1>1. f.path = path /\ f.at = 0 /\ f.rest = FileAt[path] /\ f.cond = <<>>
  BY DEF NewFrame
<1>2. n \in Nat /\ n > 2
  BY GuardedFile
<1> HIDE DEF f
<1>3. f.at \in 0..n /\ f.at \notin 1..(n - 1) /\ n - f.at = n /\ \A j \in 1..n : f.at + j = j
  BY <1>1, <1>2
<1>. QED BY <1>1, <1>3 DEF GuardedFrame, f

\* `include
LEMMA GuardInclude ==
  ASSUME StackInv, GuardInv, NEW line \in NextLines, Include(line)
  PROVE  GuardInv'
<1> DEFINE n == Len(frames)
           path == <<SearchDirs[CHOOSE i \in ResolveInclude(line.file) : TRUE], line.file>>
           below == [frames EXCEPT ![n] = Same]
           new == NewFrame(path, FileAt[path])
<1>1. line.dir = "include" /\ line.dir \notin Conditionals
  BY DEF Include, Conditionals
<1>2. CASE \E reason : Refuse(reason)
  BY <1>1, <1>2, GuardOther
<1>3. CASE /\ ResolveInclude(line.file) # {}
           /\ frames' = Append(below, new) /\ UNCHANGED <<macros, texts>>
  <2>1. path \in DOMAIN FileAt
    BY <1>3, FileFound
  <2>2. new \in Frame /\ new.path = path
    BY <2>1, Opened
  <2>3. path \in Guarded => GuardedFrame(new, Known(path), texts[path])
    BY GuardedOpened
  <2>4. /\ n \in Nat /\ below \in Seq(Frame) /\ Len(below) = n /\ below[n] = Same
        /\ \A i \in 1..n : i # n => below[i] = frames[i]
        /\ \A i \in 1..n : below[i].path = frames[i].path
    BY IncludingFrame
  <2>5. \A i \in 1..n : frames[i].path \in Guarded =>
          GuardedFrame(frames[i], Known(frames[i].path), texts[frames[i].path])
    BY DEF GuardInv
  <2>6. n \in 1..n /\ frames[n] = Top
    BY TopFrame DEF Top
  <2>7. Top.path \in Guarded => GuardedFrame(Same, Known(Top.path), texts[Top.path])
    <3>1. Known(Top.path) \in BOOLEAN
      BY DEF Known
    <3>. QED BY <1>1, <3>1, GuardedPlain
  <2>8. frames' = Append(below, new) /\ UNCHANGED <<macros, texts>>
    BY <1>3
  <2> HIDE DEF n, path, below, new
  <2>9. Len(frames') = n + 1 /\ frames'[n + 1] = new /\ \A i \in 1..n : frames'[i] = below[i]
    BY <2>2, <2>4, <2>8
  <2>10. ASSUME NEW i \in 1..(n + 1), frames'[i].path \in Guarded
         PROVE  GuardedFrame(frames'[i], Known(frames'[i].path), texts[frames'[i].path])
    <3>1. CASE i = n + 1
      BY <2>2, <2>3, <2>9, <2>10, <3>1
    <3>2. CASE i = n
      <4>1. frames'[i] = Same /\ frames'[i].path = Top.path
        BY <2>4, <2>6, <2>9, <3>2
      <4>. QED BY <2>7, <2>10, <4>1
    <3>3. CASE i \in 1..n /\ i # n
      <4>1. frames'[i] = frames[i]
        BY <2>4, <2>9, <3>3
      <4>. QED BY <2>5, <2>10, <3>3, <4>1
    <3>4. i = n + 1 \/ i = n \/ (i \in 1..n /\ i # n)
      BY <2>4
    <3>. QED BY <3>1, <3>2, <3>3, <3>4
  <2>11. \A i \in 1..(n + 1) : frames'[i].path \in Guarded =>
           GuardedFrame(frames[i], Known(frames[i].path), texts[frames[i].path])'
    BY <2>8, <2>10 DEF GuardedFrame, Known
  <2>. QED BY <2>8, <2>9, <2>11 DEF GuardInv, Known
<1>. QED BY <1>2, <1>3 DEF Include

\* The end of an included file.
LEMMA GuardEndOfFile ==
  ASSUME StackInv, GuardInv, EndOfFile
  PROVE  GuardInv'
<1> DEFINE n == Len(frames)
<1>1. n \in Nat /\ n > 1 /\ frames \in Seq(Frame)
  BY TopFrame DEF EndOfFile, StackInv
<1>2. frames' = SubSeq(frames, 1, n - 1) /\ UNCHANGED <<macros, texts>>
  BY DEF EndOfFile
<1>3. \A i \in 1..n : frames[i].path \in Guarded =>
        GuardedFrame(frames[i], Known(frames[i].path), texts[frames[i].path])
  BY DEF GuardInv
<1>4. n - 1 \in Nat /\ n - 1 <= Len(frames)
  BY <1>1
<1> HIDE DEF n
<1>5. Len(frames') = n - 1 /\ \A i \in 1..(n - 1) : frames'[i] = frames[i]
  BY <1>1, <1>2, <1>4, Shorter
<1>6. \A i \in 1..(n - 1) : i \in 1..n
  BY <1>1
<1>7. \A i \in 1..(n - 1) : frames'[i].path \in Guarded =>
        GuardedFrame(frames'[i], Known(frames'[i].path), texts[frames'[i].path])
  BY <1>3, <1>5, <1>6
<1>8. \A i \in 1..(n - 1) : frames'[i].path \in Guarded =>
        GuardedFrame(frames[i], Known(frames[i].path), texts[frames[i].path])'
  BY <1>2, <1>7 DEF GuardedFrame, Known
<1>. QED BY <1>2, <1>5, <1>8 DEF GuardInv, Known

\* No step of the preprocessor breaks a guard.
LEMMA GuardStep ==
  ASSUME StackInv, GuardInv, [Next]_vars
  PROVE  GuardInv'
<1>1. ASSUME UNCHANGED <<frames, macros, texts>>
      PROVE  GuardInv'
  BY <1>1 DEF GuardInv, Known, GuardedFrame
<1>2. ASSUME NEW c, Char(c)
      PROVE  GuardInv'
  BY <1>1, <1>2 DEF Char
<1>3. CASE UNCHANGED vars
  BY <1>1, <1>3 DEF vars
<1>4. ASSUME NEW line \in NextLines,
             \/ Skip(line) \/ Define(line) \/ Undef(line) \/ Passthrough(line) \/ Text(line)
      PROVE  GuardInv'
  BY <1>4, GuardOther
<1>. QED BY <1>2, <1>3, <1>4, GuardIfdef, GuardElsif, GuardEndif, GuardInclude, GuardEndOfFile DEF Next

\* No guarded file is open at the start.
LEMMA GuardInit ==
  ASSUME Init
  PROVE  GuardInv
<1>1. texts = [g \in Guarded |-> 0] /\ frames = <<NewFrame(MainPath, <<>>)>>
  BY DEF Init
<1>2. MainPath \notin Guarded
  BY FileAssumption
<1>3. Len(frames) = 1 /\ frames[1].path = MainPath
  BY <1>1 DEF NewFrame
<1>. QED BY <1>1, <1>2, <1>3 DEF GuardInv

\* No file is processed inside itself, includes stay within their limit, the text
\* behind an include guard is emitted at most once, and __FILE__ is the file being
\* read (do_include, include_stack, current_file), whatever includes what.
THEOREM IncludesOnce == Spec => []IncludedOnce
<1>1. Init => StackInv /\ GuardInv
  BY StackInit, GuardInit
<1>2. StackInv /\ GuardInv /\ [Next]_vars => (StackInv /\ GuardInv)'
  BY StackStep, GuardStep
<1>3. StackInv /\ GuardInv => IncludedOnce
  <2>. SUFFICES ASSUME StackInv, GuardInv
       PROVE  IncludedOnce
    OBVIOUS
  <2>1. DOMAIN frames = 1..Len(frames) /\ Len(frames) <= MaxIncludeDepth
    BY FileAssumption DEF StackInv
  <2>2. \A g \in Guarded : texts[g] <= 1
    <3>1. \A g \in Guarded : texts[g] \in {0, 1}
      BY DEF GuardInv
    <3>. QED BY <3>1
  <2>. QED BY <2>1, <2>2 DEF StackInv, IncludedOnce
<1>. QED BY <1>1, <1>2, <1>3, PTL DEF Spec

-----------------------------------------------------------------------------
(* Comments.                                                               *)

\* What strip_comments may write for a text of characters C.
Written(C) == Seq(C \cup {" "})

\* Short texts.
LEMMA Written12 ==
  ASSUME NEW D
  PROVE  /\ \A a \in D : <<a>> \in Seq(D) /\ Len(<<a>>) = 1
         /\ \A a, b \in D : <<a, b>> \in Seq(D) /\ Len(<<a, b>>) = 2
OBVIOUS

\* The length of texts.
LEMMA TextFacts ==
  ASSUME NEW D, NEW t \in Seq(D), NEW u \in Seq(D)
  PROVE  Len(t) \in Nat /\ DOMAIN t = 1..Len(t) /\ t \o u \in Seq(D) /\ Len(t \o u) = Len(t) + Len(u)
OBVIOUS

\* What is written is a list of characters and blanks.
LEMMA WrittenFacts ==
  ASSUME NEW C, NEW t \in Written(C), NEW u \in Written(C)
  PROVE  Len(t) \in Nat /\ DOMAIN t = 1..Len(t) /\ t \o u \in Written(C) /\ Len(t \o u) = Len(t) + Len(u)
BY TextFacts DEF Written

\* A turn writes as many characters as it reads, one or two.
LEMMA StripTurnType ==
  ASSUME NEW C, NEW s \in Seq(C), NEW x \in StripStates(s), x.at <= Len(s)
  PROVE  LET t == StripTurn(s, x)
         IN /\ t.out \in Written(C) /\ t.next \in StripStates(s)
            /\ t.next.at > x.at /\ t.next.at = x.at + Len(t.out)
<1> DEFINE D == C \cup {" "}
           c == s[x.at]
           d == At(s, x.at + 1)
           S == StripStates(s)
<1>0. x.at \in 1..Len(s) /\ x.in \in {"code", "string", "line", "block"} /\ Len(s) \in Nat
  BY DEF StripStates, Positions
<1>1. c \in D /\ StripBlock(c) \in D /\ " " \in D
  <2>1. c \in C
    BY <1>0, ElementOfSeq
  <2>. QED BY <2>1 DEF StripBlock, Blank
<1>2. x.at < Len(s) => d \in D
  <2>1. ASSUME x.at < Len(s) PROVE d = s[x.at + 1] /\ x.at + 1 \in 1..Len(s)
    BY <1>0, <2>1 DEF At
  <2>. QED BY <2>1, ElementOfSeq
<1>3. d \in {"/", "*"} => x.at < Len(s)
  BY <1>0 DEF At
<1>4. /\ \A a \in D : <<a>> \in Written(C) /\ Len(<<a>>) = 1
      /\ \A a, b \in D : <<a, b>> \in Written(C) /\ Len(<<a, b>>) = 2
  BY Written12 DEF Written
<1>5. \A in \in {"code", "string", "line", "block"} :
        /\ [at |-> x.at + 1, in |-> in] \in S
        /\ x.at < Len(s) => [at |-> x.at + 2, in |-> in] \in S
  BY <1>0 DEF StripStates, Positions
<1> DEFINE Good(t) == /\ t.out \in Written(C) /\ t.next \in S
                      /\ t.next.at > x.at /\ t.next.at = x.at + Len(t.out)
<1>6. ASSUME NEW in \in {"code", "string", "line", "block"}, NEW a \in D
      PROVE  Good([out |-> <<a>>, next |-> [at |-> x.at + 1, in |-> in]])
  <2>1. <<a>> \in Written(C) /\ Len(<<a>>) = 1
    BY <1>4
  <2> HIDE DEF D, S
  <2>. QED BY <1>0, <1>5, <2>1
<1>7. ASSUME NEW in \in {"code", "string", "line", "block"}, NEW a \in D, NEW b \in D, x.at < Len(s)
      PROVE  Good([out |-> <<a, b>>, next |-> [at |-> x.at + 2, in |-> in]])
  <2>1. <<a, b>> \in Written(C) /\ Len(<<a, b>>) = 2
    BY <1>4
  <2> HIDE DEF D, S
  <2>. QED BY <1>0, <1>5, <1>7, <2>1
<1> HIDE DEF D, S, c, d, Good
<1> DEFINE t == StripTurn(s, x)
<1>8. CASE x.in = "string"
  <2>1. \/ x.at < Len(s) /\ t = [out |-> <<c, d>>, next |-> [at |-> x.at + 2, in |-> "string"]]
        \/ t = [out |-> <<c>>, next |-> [at |-> x.at + 1, in |-> "code"]]
        \/ t = [out |-> <<c>>, next |-> [at |-> x.at + 1, in |-> "string"]]
    BY <1>8 DEF StripTurn, c, d
  <2> HIDE DEF t
  <2>2. Good(t)
    BY <1>1, <1>2, <1>6, <1>7, <2>1
  <2>. QED BY <2>2 DEF Good, S, t
<1>9. CASE x.in = "line"
  <2>1. \/ t = [out |-> <<c>>, next |-> [at |-> x.at + 1, in |-> "code"]]
        \/ t = [out |-> <<" ">>, next |-> [at |-> x.at + 1, in |-> "line"]]
    BY <1>9 DEF StripTurn, c, d
  <2> HIDE DEF t
  <2>2. Good(t)
    BY <1>1, <1>6, <2>1
  <2>. QED BY <2>2 DEF Good, S, t
<1>10. CASE x.in = "block"
  <2>1. \/ d = "/" /\ t = [out |-> <<" ", " ">>, next |-> [at |-> x.at + 2, in |-> "code"]]
        \/ t = [out |-> <<StripBlock(c)>>, next |-> [at |-> x.at + 1, in |-> "block"]]
    BY <1>10 DEF StripTurn, c, d
  <2> HIDE DEF t
  <2>2. Good(t)
    BY <1>1, <1>3, <1>6, <1>7, <2>1
  <2>. QED BY <2>2 DEF Good, S, t
<1>11. CASE x.in = "code"
  <2>1. \/ t = [out |-> <<" ">>, next |-> [at |-> x.at + 1, in |-> "line"]]
        \/ d = "*" /\ t = [out |-> <<" ", " ">>, next |-> [at |-> x.at + 2, in |-> "block"]]
        \/ t = [out |-> <<c>>, next |-> [at |-> x.at + 1, in |-> "string"]]
        \/ t = [out |-> <<c>>, next |-> [at |-> x.at + 1, in |-> "code"]]
    BY <1>11 DEF StripTurn, c, d
  <2> HIDE DEF t
  <2>2. Good(t)
    BY <1>1, <1>3, <1>6, <1>7, <2>1
  <2>. QED BY <2>2 DEF Good, S, t
<1>. QED BY <1>0, <1>8, <1>9, <1>10, <1>11

\* Where strip_comments goes on; it stays at the end.
StripNext(s) == [x \in StripStates(s) |-> IF x.at > Len(s) THEN x ELSE StripTurn(s, x).next]

\* strip_comments moves ahead with every turn.
LEMMA StripMoves ==
  ASSUME NEW C, NEW s \in Seq(C)
  PROVE  ScannerStates(StripStates(s), Len(s)) /\ MovesOn(StripNext(s), StripStates(s), Len(s))
<1>1. \A x \in StripStates(s) : x.at \in 1..(Len(s) + 1)
  BY DEF StripStates, Positions
<1>2. \A x \in StripStates(s) : x.at <= Len(s) => StripTurn(s, x).next \in StripStates(s) /\ StripTurn(s, x).next.at > x.at
  BY StripTurnType
<1>3. \A x \in StripStates(s) : x.at <= Len(s) \/ x.at > Len(s)
  BY <1>1
<1>. QED BY <1>1, <1>2, <1>3 DEF ScannerStates, MovesOn, StripNext

\* g is what strip_comments writes from each state on.
IsStrip(g, s, C) ==
  /\ g \in [StripStates(s) -> Written(C)]
  /\ \A x \in StripStates(s) :
       g[x] = IF x.at > Len(s) THEN <<>> ELSE StripTurn(s, x).out \o g[StripTurn(s, x).next]

\* strip_comments ends for every text, and its result is what its turns write.
LEMMA StripScan ==
  ASSUME NEW C, NEW s \in Seq(C)
  PROVE  \E g : IsStrip(g, s, C) /\ StripComments(s) = g[[at |-> 1, in |-> "code"]]
<1> DEFINE n == Len(s)
           X == StripStates(s)
           W == Written(C)
           base == [x \in X |-> <<>>]
           writes(x) == IF x.at > n THEN <<>> ELSE StripTurn(s, x).out
           f == [z \in X \X W |-> writes(z[1]) \o z[2]]
           next == StripNext(s)
           Eq(h) == h = [x \in X |-> IF x.at > Len(s) THEN <<>>
                                     ELSE StripTurn(s, x).out \o h[StripTurn(s, x).next]]
<1>1. n \in Nat /\ base \in [X -> W] /\ [at |-> 1, in |-> "code"] \in X
  BY DEF Written, StripStates, Positions
<1>2. ScannerStates(X, n) /\ MovesOn(next, X, n)
  BY StripMoves
<1>3. \A x \in X : writes(x) \in W
  <2>. SUFFICES ASSUME NEW x \in X PROVE writes(x) \in W
    OBVIOUS
  <2>1. CASE x.at > n
    <3>1. <<>> \in W
      BY DEF Written
    <3>2. writes(x) = <<>>
      BY <2>1
    <3>. QED BY <3>1, <3>2
  <2>2. CASE ~(x.at > n)
    <3>1. x.at <= n
      BY <1>2, <2>2 DEF ScannerStates
    <3>2. StripTurn(s, x).out \in W
      BY <3>1, StripTurnType
    <3>. QED BY <2>2, <3>2
  <2>. QED BY <2>1, <2>2
<1>4. f \in [X \X W -> W]
  <2>1. \A z \in X \X W : writes(z[1]) \o z[2] \in W
    <3> HIDE DEF writes, X
    <3>1. \A a, b \in W : a \o b \in W
      BY WrittenFacts
    <3>. QED BY <1>3, <3>1
  <2>. QED BY <2>1
<1>5. \A x \in X, w \in W : f[<<x, w>>] = writes(x) \o w
  OBVIOUS
<1> HIDE DEF base, f
<1>6. PICK g : IsScan(g, X, n, W, base, next, f)
  BY <1>1, <1>2, <1>4, ScanExists
<1>7. \A x \in X : x.at <= n => next[x] = StripTurn(s, x).next /\ next[x] \in X
  <2>. SUFFICES ASSUME NEW x \in X, x.at <= n PROVE next[x] = StripTurn(s, x).next /\ next[x] \in X
    OBVIOUS
  <2>1. ~(x.at > n)
    BY <1>2 DEF ScannerStates
  <2>. QED BY <1>2, <2>1 DEF StripNext, MovesOn
<1>8. IsStrip(g, s, C)
  <2>1. ASSUME NEW x \in X
        PROVE  g[x] = IF x.at > n THEN <<>> ELSE StripTurn(s, x).out \o g[StripTurn(s, x).next]
    <3>1. CASE x.at > n
      BY <1>6, <3>1 DEF IsScan, base
    <3>2. CASE ~(x.at > n)
      <4>1. x.at <= n
        BY <1>2, <3>2 DEF ScannerStates
      <4>2. g[x] = f[<<x, g[next[x]]>>] /\ g[next[x]] \in W
        BY <1>6, <1>7, <3>2, <4>1 DEF IsScan
      <4>. QED BY <1>5, <1>7, <3>2, <4>1, <4>2
    <3>. QED BY <3>1, <3>2
  <2>2. g \in [X -> W]
    BY <1>6 DEF IsScan
  <2>. QED BY <2>1, <2>2 DEF IsStrip
<1>9. Eq(g)
  <2>1. g = [x \in X |-> g[x]]
    BY <1>8 DEF IsStrip
  <2>. QED BY <1>8, <2>1 DEF IsStrip
<1> DEFINE h == CHOOSE h : Eq(h)
<1>10. Eq(h)
  <2> HIDE DEF Eq
  <2>. QED BY <1>9
<1>11. StripComments(s) = h[[at |-> 1, in |-> "code"]]
  BY DEF StripComments
<1> HIDE DEF h
<1>12. \A x \in X : h[x] = IF x.at > n THEN <<>> ELSE StripTurn(s, x).out \o h[StripTurn(s, x).next]
  BY <1>10
<1>13. \A x \in X : x.at > n \/ h[next[x]] = g[next[x]] => h[x] = g[x]
  <2>1. ASSUME NEW x \in X, x.at > n \/ h[next[x]] = g[next[x]] PROVE h[x] = g[x]
    <3>1. CASE x.at > n
      BY <1>8, <1>12, <3>1 DEF IsStrip
    <3>2. CASE ~(x.at > n)
      <4>1. x.at <= n
        BY <1>2, <3>2 DEF ScannerStates
      <4>2. h[StripTurn(s, x).next] = g[StripTurn(s, x).next]
        BY <1>7, <2>1, <3>2, <4>1
      <4>. QED BY <1>8, <1>12, <3>2, <4>2 DEF IsStrip
    <3>. QED BY <3>1, <3>2
  <2>. QED BY <2>1
<1> HIDE DEF X, Eq, next
<1>14. \A x \in X : h[x] = g[x]
  BY <1>1, <1>2, <1>13, ScanUnique
<1>. QED BY <1>1, <1>8, <1>11, <1>14

\* The text t, written from position i on, keeps the characters of s or blanks them,
\* and keeps the ends of lines.
Blanks(t, s, i) ==
  \A k \in 1..Len(t) : /\ t[k] = s[i + k - 1] \/ t[k] = " "
                       /\ s[i + k - 1] = "nl" => t[k] = "nl"

\* A turn blanks characters, and only in comments.
LEMMA TurnBlanks ==
  ASSUME NEW C, NEW s \in Seq(C), NEW x \in StripStates(s), x.at <= Len(s)
  PROVE  Blanks(StripTurn(s, x).out, s, x.at)
<1> DEFINE c == s[x.at]
           d == At(s, x.at + 1)
           w == StripTurn(s, x).out
<1>0. x.at \in 1..Len(s) /\ x.in \in {"code", "string", "line", "block"} /\ Len(s) \in Nat
  BY DEF StripStates, Positions
<1>1. x.at < Len(s) => d = s[x.at + 1]
  BY <1>0 DEF At
<1>2. d \in {"/", "*"} => x.at < Len(s)
  BY <1>0 DEF At
<1>3. ASSUME NEW a, a = c \/ a = " ", c = "nl" => a = "nl" PROVE Blanks(<<a>>, s, x.at)
  <2>1. <<a>>[1] = a /\ Len(<<a>>) = 1
    OBVIOUS
  <2>2. x.at + 1 - 1 = x.at
    BY <1>0
  <2>3. \A k \in 1..1 : k = 1
    OBVIOUS
  <2>. QED BY <1>3, <2>1, <2>2, <2>3 DEF Blanks
<1>4. ASSUME NEW a, NEW b, a = c \/ a = " ", b = d \/ b = " ", x.at < Len(s),
             c = "nl" => a = "nl", d = "nl" => b = "nl"
      PROVE  Blanks(<<a, b>>, s, x.at)
  <2>1. (b = s[x.at + 1] \/ b = " ") /\ (s[x.at + 1] = "nl" => b = "nl")
    BY <1>1, <1>4
  <2>2. <<a, b>>[1] = a /\ <<a, b>>[2] = b /\ Len(<<a, b>>) = 2
    OBVIOUS
  <2>4. \A k \in 1..2 : k = 1 \/ k = 2
    OBVIOUS
  <2>3. x.at + 1 - 1 = x.at /\ x.at + 2 - 1 = x.at + 1
    BY <1>0
  <2>. QED BY <1>4, <2>1, <2>2, <2>3, <2>4 DEF Blanks
<1> HIDE DEF w, c, d
<1>5. CASE x.in = "string"
  <2>1. (w = <<c, d>> /\ x.at < Len(s)) \/ w = <<c>>
    BY <1>5 DEF StripTurn, c, d, w
  <2>2. CASE w = <<c, d>> /\ x.at < Len(s)
    <3>1. Blanks(<<c, d>>, s, x.at)
      BY <1>4, <2>2
    <3>. QED BY <2>2, <3>1 DEF w
  <2>3. CASE w = <<c>>
    <3>1. Blanks(<<c>>, s, x.at)
      BY <1>3
    <3>. QED BY <2>3, <3>1 DEF w
  <2>. QED BY <2>1, <2>2, <2>3
<1>6. CASE x.in = "line"
  <2>1. w = IF c = "nl" THEN <<c>> ELSE <<" ">>
    BY <1>6 DEF StripTurn, c, d, w
  <2>2. Blanks(w, s, x.at)
    BY <1>3, <2>1
  <2>. QED BY <2>2 DEF w
<1>7. CASE x.in = "block"
  <2>1. (c = "*" /\ d = "/" /\ w = <<" ", " ">>) \/ w = <<StripBlock(c)>>
    BY <1>7 DEF StripTurn, c, d, w
  <2>2. CASE c = "*" /\ d = "/" /\ w = <<" ", " ">>
    <3>1. Blanks(<<" ", " ">>, s, x.at)
      BY <1>2, <1>4, <2>2
    <3>. QED BY <2>2, <3>1 DEF w
  <2>3. CASE w = <<StripBlock(c)>>
    <3>1. (StripBlock(c) = c \/ StripBlock(c) = " ") /\ (c = "nl" => StripBlock(c) = "nl")
      BY DEF StripBlock, Blank
    <3>2. Blanks(<<StripBlock(c)>>, s, x.at)
      BY <1>3, <3>1
    <3>. QED BY <2>3, <3>2 DEF w
  <2>. QED BY <2>1, <2>2, <2>3
<1>8. CASE x.in = "code"
  <2>1. \/ c = "/" /\ w = <<" ">>
        \/ c = "/" /\ d = "*" /\ w = <<" ", " ">>
        \/ w = <<c>>
    BY <1>8 DEF StripTurn, c, d, w
  <2>2. CASE c = "/" /\ d = "*" /\ w = <<" ", " ">>
    <3>1. Blanks(<<" ", " ">>, s, x.at)
      BY <1>2, <1>4, <2>2
    <3>. QED BY <2>2, <3>1 DEF w
  <2>3. CASE (c = "/" /\ w = <<" ">>) \/ w = <<c>>
    <3>1. Blanks(w, s, x.at)
      BY <1>3, <2>3
    <3>. QED BY <3>1 DEF w
  <2>. QED BY <2>1, <2>2, <2>3
<1>. QED BY <1>0, <1>5, <1>6, <1>7, <1>8

\* Two texts that blank what they were written from, one after the other.
LEMMA BlanksConcat ==
  ASSUME NEW D, NEW t \in Seq(D), NEW u \in Seq(D), NEW s, NEW i \in Nat,
         Blanks(t, s, i), Blanks(u, s, i + Len(t))
  PROVE  Blanks(t \o u, s, i)
<1> DEFINE tu == t \o u
<1>1. Len(tu) = Len(t) + Len(u) /\ Len(t) \in Nat /\ Len(u) \in Nat
  OBVIOUS
<1>2. ASSUME NEW k \in 1..Len(tu)
      PROVE  (tu[k] = s[i + k - 1] \/ tu[k] = " ") /\ (s[i + k - 1] = "nl" => tu[k] = "nl")
  <2>1. CASE k <= Len(t)
    <3>1. k \in 1..Len(t) /\ tu[k] = t[k]
      BY <1>1, <2>1
    <3>. QED BY <3>1 DEF Blanks
  <2>2. CASE ~(k <= Len(t))
    <3>1. k - Len(t) \in 1..Len(u) /\ tu[k] = u[k - Len(t)]
      BY <1>1, <2>2
    <3>2. (i + Len(t)) + (k - Len(t)) - 1 = i + k - 1
      BY <1>1
    <3>. QED BY <3>1, <3>2 DEF Blanks
  <2>. QED BY <2>1, <2>2
<1> HIDE DEF tu
<1>3. Blanks(tu, s, i)
  BY <1>2 DEF Blanks
<1>. QED BY <1>3 DEF tu

\* From every state strip_comments writes as much as it reads, and blanks it.
LEMMA StripBlanks ==
  ASSUME NEW C, NEW s \in Seq(C), NEW g, IsStrip(g, s, C)
  PROVE  \A x \in StripStates(s) : Len(g[x]) = Len(s) + 1 - x.at /\ Blanks(g[x], s, x.at)
<1> DEFINE X == StripStates(s)
           T == {x \in X : Len(g[x]) = Len(s) + 1 - x.at /\ Blanks(g[x], s, x.at)}
<1>0. Len(s) \in Nat /\ ScannerStates(X, Len(s)) /\ MovesOn(StripNext(s), X, Len(s))
  BY StripMoves
<1>1. ASSUME NEW x \in X, x.at > Len(s) \/ StripNext(s)[x] \in T PROVE x \in T
  <2>0. x.at \in 1..(Len(s) + 1)
    BY <1>0 DEF ScannerStates
  <2>1. CASE x.at > Len(s)
    <3>1. g[x] = <<>> /\ x.at = Len(s) + 1
      <4>1. g[x] = <<>>
        BY <2>1 DEF IsStrip
      <4>. QED BY <1>0, <2>0, <2>1, <4>1
    <3>2. Blanks(<<>>, s, x.at) /\ Len(<<>>) = 0
      BY DEF Blanks
    <3>. QED BY <1>0, <2>0, <3>1, <3>2
  <2>2. CASE ~(x.at > Len(s))
    <3> DEFINE t == StripTurn(s, x)
    <3>1. x.at <= Len(s)
      BY <2>0, <2>2
    <3>2. t.out \in Written(C) /\ t.next \in X /\ t.next.at = x.at + Len(t.out)
      BY <3>1, StripTurnType
    <3>3. Blanks(t.out, s, x.at)
      BY <3>1, TurnBlanks
    <3>4. StripNext(s)[x] = t.next
      BY <2>2 DEF StripNext
    <3>5. g[x] = t.out \o g[t.next] /\ g[t.next] \in Written(C)
      BY <2>2, <3>2 DEF IsStrip
    <3>6. Len(g[t.next]) = Len(s) + 1 - t.next.at /\ Blanks(g[t.next], s, t.next.at)
      BY <1>1, <2>2, <3>4
    <3> HIDE DEF t
    <3>7. x.at \in Nat /\ Len(t.out) \in Nat
      BY <1>0, <2>0, <3>2, WrittenFacts
    <3>8. Blanks(g[x], s, x.at)
      BY <3>2, <3>3, <3>5, <3>6, <3>7, BlanksConcat DEF Written
    <3>9. Len(g[x]) = Len(t.out) + Len(g[t.next])
      BY <3>2, <3>5, WrittenFacts
    <3>. QED BY <1>0, <3>2, <3>6, <3>7, <3>8, <3>9
  <2>. QED BY <2>1, <2>2
<1> HIDE DEF X, T
<1>2. \A x \in X : x \in T
  BY <1>0, <1>1, ScanInduction
<1>. QED BY <1>2 DEF X, T

\* The state in which a scanner reads what one in state x has written: comments are
\* gone.
Reading(x) == [at |-> x.at, in |-> IF x.in = "string" THEN "string" ELSE "code"]

\* A text of the length of s that has, where a turn in s began, what it wrote there.
Reread(r, s, x) ==
  /\ Len(r) = Len(s) /\ Blanks(r, s, 1)
  /\ \A k \in 1..Len(StripTurn(s, x).out) : r[x.at + k - 1] = StripTurn(s, x).out[k]

\* Reading what was written writes the same, in one turn or in two.
LEMMA TurnAgain ==
  ASSUME NEW C, NEW s \in Seq(C), NEW r \in Written(C), NEW x \in StripStates(s), x.at <= Len(s),
         Reread(r, s, x)
  PROVE  LET t == StripTurn(s, x)
             y == [at |-> x.at + 1, in |-> "code"]
         IN \/ /\ StripTurn(r, Reading(x)).out = t.out
               /\ StripTurn(r, Reading(x)).next = Reading(t.next)
            \/ /\ t.out = <<" ", " ">> /\ x.at < Len(s)
               /\ StripTurn(r, Reading(x)).out = <<" ">> /\ StripTurn(r, Reading(x)).next = y
               /\ StripTurn(r, y).out = <<" ">> /\ StripTurn(r, y).next = Reading(t.next)
<1> DEFINE t == StripTurn(s, x)
           u == StripTurn(r, Reading(x))
           v == StripTurn(r, [at |-> x.at + 1, in |-> "code"])
           c == s[x.at]
           d == At(s, x.at + 1)
           e == r[x.at]
           f == At(r, x.at + 1)
           y == [at |-> x.at + 1, in |-> "code"]
           to(n, in) == [at |-> x.at + n, in |-> in]
           Once == u.out = t.out /\ u.next = Reading(t.next)
           Twice == /\ t.out = <<" ", " ">> /\ x.at < Len(s)
                    /\ u.out = <<" ">> /\ u.next = y
                    /\ v.out = <<" ">> /\ v.next = Reading(t.next)
<1>. SUFFICES Once \/ Twice
  OBVIOUS
<1>0. /\ x.at \in 1..Len(s) /\ Len(s) \in Nat /\ Len(r) = Len(s)
      /\ x.in \in {"code", "string", "line", "block"}
  BY DEF StripStates, Positions, Reread
<1>1. ASSUME NEW a, t.out = <<a>> PROVE e = a
  <2>1. Len(t.out) = 1 /\ t.out[1] = a
    BY <1>1
  <2>2. r[x.at + 1 - 1] = a
    BY <2>1 DEF Reread
  <2>3. x.at + 1 - 1 = x.at
    BY <1>0
  <2>. QED BY <2>2, <2>3
<1>2. ASSUME NEW a, NEW b, t.out = <<a, b>>, x.at < Len(s) PROVE e = a /\ f = b
  <2>1. Len(t.out) = 2 /\ t.out[1] = a /\ t.out[2] = b
    BY <1>2
  <2>2. r[x.at + 1 - 1] = a /\ r[x.at + 2 - 1] = b
    BY <2>1 DEF Reread
  <2>3. x.at + 1 - 1 = x.at /\ x.at + 2 - 1 = x.at + 1
    BY <1>0
  <2>4. f = r[x.at + 1]
    BY <1>0, <1>2 DEF At
  <2>. QED BY <2>2, <2>3, <2>4
<1>3. d \in {"/", "*"} => x.at < Len(s)
  BY <1>0 DEF At
<1>4. f = d \/ f = " "
  <2>1. CASE x.at < Len(s)
    <3>1. x.at + 1 \in 1..Len(r) /\ 1 + (x.at + 1) - 1 = x.at + 1
      BY <1>0, <2>1
    <3>2. r[x.at + 1] = s[x.at + 1] \/ r[x.at + 1] = " "
      BY <3>1 DEF Reread, Blanks
    <3>3. f = r[x.at + 1] /\ d = s[x.at + 1]
      BY <1>0, <2>1 DEF At
    <3>. QED BY <3>2, <3>3
  <2>2. CASE ~(x.at < Len(s))
    <3>1. x.at + 1 \notin DOMAIN s /\ x.at + 1 \notin DOMAIN r
      BY <1>0, <2>2, WrittenFacts, TextFacts
    <3>. QED BY <3>1 DEF At
  <2>. QED BY <2>1, <2>2
<1>5. /\ Reading(x).at = x.at
      /\ Reading(x).in = IF x.in = "string" THEN "string" ELSE "code"
  BY DEF Reading
<1>r. /\ \A in \in {"code", "line", "block"} : Reading(to(1, in)) = to(1, "code") /\ Reading(to(2, in)) = to(2, "code")
      /\ Reading(to(1, "string")) = to(1, "string") /\ Reading(to(2, "string")) = to(2, "string")
  BY DEF Reading
<1>6. ASSUME x.in # "string", e \notin {"/", "\""} PROVE u = [out |-> <<e>>, next |-> to(1, "code")]
  BY <1>5, <1>6 DEF StripTurn
<1>7. ASSUME t.out = <<" ", " ">>, x.at < Len(s), t.next = to(2, "code") \/ t.next = to(2, "block"), x.in # "string"
      PROVE  Twice
  <2>1. e = " " /\ f = " " /\ f = r[x.at + 1]
    BY <1>0, <1>2, <1>7 DEF At
  <2>2. u = [out |-> <<" ">>, next |-> y]
    BY <1>6, <1>7, <2>1
  <2>3. v = [out |-> <<" ">>, next |-> [at |-> (x.at + 1) + 1, in |-> "code"]]
    BY <2>1 DEF StripTurn
  <2>4. (x.at + 1) + 1 = x.at + 2
    BY <1>0
  <2>5. Reading(t.next) = to(2, "code")
    BY <1>r, <1>7
  <2>6. v = [out |-> <<" ">>, next |-> to(2, "code")]
    BY <2>3, <2>4
  <2> HIDE DEF t, to, y, u, v
  <2>7. u.out = <<" ">> /\ u.next = y
    BY <2>2
  <2>8. v.out = <<" ">> /\ v.next = to(2, "code")
    BY <2>6
  <2>. QED BY <1>7, <2>5, <2>7, <2>8
<1> HIDE DEF c, d, e, f, to, t, y, u, v
<1>8. CASE x.in = "string"
  <2>1. CASE c = "\\" /\ x.at < Len(s)
    <3>1. t.out = <<c, d>> /\ t.next = to(2, "string")
      BY <1>8, <2>1 DEF StripTurn, c, d, to, t
    <3>2. e = c /\ f = d
      BY <1>2, <2>1, <3>1
    <3>3. u = [out |-> <<e, f>>, next |-> to(2, "string")]
      BY <1>0, <1>5, <1>8, <2>1, <3>2 DEF StripTurn, e, f, to, u
    <3>. QED BY <1>r, <3>1, <3>2, <3>3
  <2>2. CASE ~(c = "\\" /\ x.at < Len(s))
    <3>1. t.out = <<c>> /\ t.next = to(1, IF c = "\"" THEN "code" ELSE "string")
      BY <1>8, <2>2 DEF StripTurn, c, d, to, t
    <3>2. e = c
      BY <1>1, <3>1
    <3>3. u = [out |-> <<e>>, next |-> to(1, IF e = "\"" THEN "code" ELSE "string")]
      BY <1>0, <1>5, <1>8, <2>2, <3>2 DEF StripTurn, e, f, to, u
    <3>. QED BY <1>r, <3>1, <3>2, <3>3
  <2>. QED BY <2>1, <2>2
<1>9. CASE x.in = "line"
  <2>1. \/ c = "nl" /\ t.out = <<c>> /\ t.next = to(1, "code")
        \/ t.out = <<" ">> /\ t.next = to(1, "line")
    BY <1>9 DEF StripTurn, c, d, to, t
  <2>2. e \in {"nl", " "} /\ t.out = <<e>>
    BY <1>1, <2>1
  <2>3. Reading(t.next) = to(1, "code")
    BY <1>r, <2>1
  <2>4. u = [out |-> <<e>>, next |-> to(1, "code")]
    BY <1>6, <1>9, <2>2
  <2>. QED BY <2>2, <2>3, <2>4
<1>10. CASE x.in = "block"
  <2>1. \/ d = "/" /\ t.out = <<" ", " ">> /\ t.next = to(2, "code")
        \/ t.out = <<StripBlock(c)>> /\ t.next = to(1, "block")
    BY <1>10 DEF StripTurn, c, d, to, t
  <2>2. CASE d = "/" /\ t.out = <<" ", " ">> /\ t.next = to(2, "code")
    <3>1. Twice
      BY <1>3, <1>7, <1>10, <2>2
    <3>. QED BY <3>1
  <2>3. CASE t.out = <<StripBlock(c)>> /\ t.next = to(1, "block")
    <3>1. e = StripBlock(c)
      BY <1>1, <2>3
    <3>2. e \in {"nl", " "} /\ t.out = <<e>>
      BY <2>3, <3>1 DEF StripBlock, Blank
    <3>3. u = [out |-> <<e>>, next |-> to(1, "code")]
      BY <1>6, <1>10, <3>2
    <3>. QED BY <1>r, <2>3, <3>2, <3>3
  <2>. QED BY <2>1, <2>2, <2>3
<1>11. CASE x.in = "code"
  <2>1. \/ t.out = <<" ">> /\ t.next = to(1, "line")
        \/ d = "*" /\ t.out = <<" ", " ">> /\ t.next = to(2, "block")
        \/ /\ ~(c = "/" /\ d = "/") /\ ~(c = "/" /\ d = "*")
           /\ t.out = <<c>> /\ t.next = to(1, IF c = "\"" THEN "string" ELSE "code")
    BY <1>11 DEF StripTurn, c, d, to, t
  <2>2. CASE t.out = <<" ">> /\ t.next = to(1, "line")
    <3>1. e = " "
      BY <1>1, <2>2
    <3>2. u = [out |-> <<e>>, next |-> to(1, "code")]
      BY <1>6, <1>11, <3>1
    <3>. QED BY <1>r, <2>2, <3>1, <3>2
  <2>3. CASE d = "*" /\ t.out = <<" ", " ">> /\ t.next = to(2, "block")
    <3>1. Twice
      BY <1>3, <1>7, <1>11, <2>3
    <3>. QED BY <3>1
  <2>4. CASE /\ ~(c = "/" /\ d = "/") /\ ~(c = "/" /\ d = "*")
             /\ t.out = <<c>> /\ t.next = to(1, IF c = "\"" THEN "string" ELSE "code")
    <3>1. e = c
      BY <1>1, <2>4
    <3>2. ~(e = "/" /\ f = "/") /\ ~(e = "/" /\ f = "*")
      BY <1>4, <2>4, <3>1
    <3>3. u = [out |-> <<e>>, next |-> to(1, IF e = "\"" THEN "string" ELSE "code")]
      BY <1>5, <1>11, <3>2 DEF StripTurn, e, f, to, u
    <3>. QED BY <1>r, <2>4, <3>1, <3>3
  <2>. QED BY <2>1, <2>2, <2>3, <2>4
<1>. QED BY <1>0, <1>8, <1>9, <1>10, <1>11

\* The text r has from state x on what strip_comments writes there.
Holds(r, w, x) == \A k \in 1..Len(w) : r[x.at + k - 1] = w[k]

\* A text made of two parts has each part in its place.
LEMMA HoldsParts ==
  ASSUME NEW D, NEW v \in Seq(D), NEW w \in Seq(D), NEW r, NEW x, NEW y, x.at \in Nat,
         y.at = x.at + Len(v), Holds(r, v \o w, x)
  PROVE  Holds(r, v, x) /\ Holds(r, w, y)
<1>1. ASSUME NEW k \in 1..Len(v) PROVE r[x.at + k - 1] = v[k]
  <2>1. k \in 1..Len(v \o w) /\ (v \o w)[k] = v[k]
    OBVIOUS
  <2>. QED BY <2>1 DEF Holds
<1>2. ASSUME NEW k \in 1..Len(w) PROVE r[y.at + k - 1] = w[k]
  <2>1. Len(v) + k \in 1..Len(v \o w) /\ (v \o w)[Len(v) + k] = w[k]
    OBVIOUS
  <2>2. x.at + (Len(v) + k) - 1 = y.at + k - 1
    OBVIOUS
  <2>3. r[x.at + (Len(v) + k) - 1] = (v \o w)[Len(v) + k]
    BY <2>1 DEF Holds
  <2>. QED BY <2>1, <2>2, <2>3
<1>. QED BY <1>1, <1>2 DEF Holds

\* A text is put after two characters together or one after the other.
LEMMA TwoBefore ==
  ASSUME NEW D, NEW w \in Seq(D), NEW a \in D, NEW b \in D
  PROVE  <<a>> \o (<<b>> \o w) = <<a, b>> \o w
<1>1. <<a>> \in Seq(D) /\ <<b>> \in Seq(D)
  OBVIOUS
<1>2. <<a>> \o (<<b>> \o w) = (<<a>> \o <<b>>) \o w
  BY <1>1, ConcatAssociative
<1>3. <<a>> \o <<b>> = <<a, b>>
  <2> DEFINE u == <<a>>
             v == <<b>>
             t == <<a, b>>
  <2>1. Len(u) = 1 /\ u[1] = a /\ Len(v) = 1 /\ v[1] = b /\ u \in Seq(D) /\ v \in Seq(D)
    OBVIOUS
  <2>2. Len(t) = 2 /\ t[1] = a /\ t[2] = b /\ t \in Seq(D)
    OBVIOUS
  <2> HIDE DEF u, v, t
  <2>3. Len(u \o v) = 2 /\ (u \o v)[1] = a /\ (u \o v)[2] = b /\ u \o v \in Seq(D)
    <3>1. u \o v \in Seq(D) /\ Len(u \o v) = Len(u) + Len(v)
      BY <2>1, ConcatProperties
    <3>2. \A k \in 1..(Len(u) + Len(v)) : (u \o v)[k] = IF k <= Len(u) THEN u[k] ELSE v[k - Len(u)]
      BY <2>1, ConcatProperties
    <3>3. (u \o v)[1] = a
      <4>1. 1 \in 1..(Len(u) + Len(v)) /\ 1 <= Len(u)
        BY <2>1
      <4>. QED BY <2>1, <3>2, <4>1
    <3>4. (u \o v)[2] = b
      <4>1. 2 \in 1..(Len(u) + Len(v)) /\ ~(2 <= Len(u)) /\ 2 - Len(u) = 1
        BY <2>1
      <4>. QED BY <2>1, <3>2, <4>1
    <3>. QED BY <2>1, <3>1, <3>3, <3>4
  <2>4. \A k \in 1..2 : (u \o v)[k] = t[k]
    BY <2>2, <2>3
  <2>5. u \o v = t
    BY <2>2, <2>3, <2>4, SeqEqual
  <2>. QED BY <2>5 DEF u, v, t
<1>. QED BY <1>2, <1>3

\* A text written for s, of the same length and blanked.
WrittenFor(r, s, C) == r \in Written(C) /\ Len(r) = Len(s) /\ Blanks(r, s, 1)

\* What strip_comments wrote from a state on, it writes again.
LEMMA StripAgain ==
  ASSUME NEW C, NEW s \in Seq(C), NEW g, IsStrip(g, s, C), NEW r, WrittenFor(r, s, C),
         NEW h, NEW D, IsStrip(h, r, D)
  PROVE  \A x \in StripStates(s) : Holds(r, g[x], x) => h[Reading(x)] = g[x]
<1> DEFINE X == StripStates(s)
           T == {x \in X : Holds(r, g[x], x) => h[Reading(x)] = g[x]}
<1>0. Len(s) \in Nat /\ ScannerStates(X, Len(s)) /\ MovesOn(StripNext(s), X, Len(s))
  BY StripMoves
<1>1. \A x \in X : Reading(x) \in StripStates(r) /\ Reading(x).at = x.at
  BY DEF Reading, StripStates, Positions, WrittenFor
<1>2. \A y \in StripStates(r) :
        h[y] = IF y.at > Len(s) THEN <<>> ELSE StripTurn(r, y).out \o h[StripTurn(r, y).next]
  BY DEF IsStrip, WrittenFor
<1>3. ASSUME NEW x \in X, x.at > Len(s) \/ StripNext(s)[x] \in T PROVE x \in T
  <2>0. x.at \in 1..(Len(s) + 1)
    BY <1>0 DEF ScannerStates
  <2>1. CASE x.at > Len(s)
    <3>1. g[x] = <<>>
      BY <2>1 DEF IsStrip
    <3>2. h[Reading(x)] = <<>>
      BY <1>1, <1>2, <2>1
    <3>. QED BY <3>1, <3>2
  <2>2. CASE ~(x.at > Len(s))
    <3>. SUFFICES ASSUME Holds(r, g[x], x) PROVE h[Reading(x)] = g[x]
      OBVIOUS
    <3> DEFINE t == StripTurn(s, x)
               y == [at |-> x.at + 1, in |-> "code"]
               u == StripTurn(r, Reading(x))
               v == StripTurn(r, y)
    <3>1. x.at <= Len(s)
      BY <2>0, <2>2
    <3>2. t.out \in Written(C) /\ t.next \in X /\ t.next.at = x.at + Len(t.out)
      BY <3>1, StripTurnType
    <3>3. StripNext(s)[x] = t.next
      BY <2>2 DEF StripNext
    <3>4. g[x] = t.out \o g[t.next] /\ g[t.next] \in Written(C)
      BY <2>2, <3>2 DEF IsStrip
    <3>5. Holds(r, t.out, x) /\ Holds(r, g[t.next], t.next)
      <4>1. x.at \in Nat /\ Holds(r, t.out \o g[t.next], x)
        BY <2>0, <3>4
      <4> HIDE DEF t
      <4>. QED BY <3>2, <3>4, <4>1, HoldsParts DEF Written
    <3>6. h[Reading(t.next)] = g[t.next]
      BY <1>3, <2>2, <3>3, <3>5
    <3>7. Reread(r, s, x)
      BY <3>5 DEF Reread, Holds, WrittenFor
    <3>8. h[Reading(x)] = u.out \o h[u.next]
      BY <1>1, <1>2, <2>2
    <3>9. \/ u.out = t.out /\ u.next = Reading(t.next)
          \/ /\ t.out = <<" ", " ">> /\ x.at < Len(s)
             /\ u.out = <<" ">> /\ u.next = y /\ v.out = <<" ">> /\ v.next = Reading(t.next)
      BY <3>1, <3>7, TurnAgain DEF WrittenFor
    <3>10. ASSUME x.at < Len(s) PROVE h[y] = v.out \o h[v.next]
      <4>1. y \in StripStates(r) /\ y.at = x.at + 1
        BY <1>0, <2>0, <3>10 DEF StripStates, Positions, WrittenFor
      <4>2. ~(y.at > Len(s))
        BY <1>0, <2>0, <3>10, <4>1
      <4> HIDE DEF y
      <4>. QED BY <1>2, <4>1, <4>2
    <3> HIDE DEF t, u, v, y
    <3>11. CASE u.out = t.out /\ u.next = Reading(t.next)
      BY <3>4, <3>6, <3>8, <3>11
    <3>12. CASE /\ t.out = <<" ", " ">> /\ x.at < Len(s)
                /\ u.out = <<" ">> /\ u.next = y /\ v.out = <<" ">> /\ v.next = Reading(t.next)
      <4>1. h[Reading(x)] = <<" ">> \o (<<" ">> \o g[t.next])
        BY <3>6, <3>8, <3>10, <3>12
      <4>3. g[t.next] \in Seq(C \cup {" "}) /\ " " \in C \cup {" "}
        BY <3>4 DEF Written
      <4>4. <<" ">> \o (<<" ">> \o g[t.next]) = <<" ", " ">> \o g[t.next]
        BY <4>3, TwoBefore
      <4>. QED BY <3>4, <3>12, <4>1, <4>4
    <3>. QED BY <3>9, <3>11, <3>12
  <2>. QED BY <2>1, <2>2
<1> HIDE DEF X, T
<1>4. \A x \in X : x \in T
  BY <1>0, <1>3, ScanInduction
<1>. QED BY <1>4 DEF X, T

\* For every text, comments become blanks of the same length, lines keep their
\* numbers, and nothing is left to strip.
LEMMA StrippedText ==
  ASSUME NEW C, NEW s \in Seq(C)
  PROVE  LET r == StripComments(s) IN
         /\ Len(r) = Len(s) /\ DOMAIN r = 1..Len(s)
         /\ Blanks(r, s, 1)
         /\ StripComments(r) = r
<1> DEFINE r == StripComments(s)
           start == [at |-> 1, in |-> "code"]
<1>1. PICK g : IsStrip(g, s, C) /\ r = g[start]
  BY StripScan
<1>2. start \in StripStates(s) /\ start.at = 1 /\ Reading(start) = start /\ Len(s) \in Nat
  BY DEF StripStates, Positions, Reading
<1>3. r \in Written(C)
  BY <1>1, <1>2 DEF IsStrip
<1> HIDE DEF r, start
<1>4. Len(r) = Len(s) + 1 - 1 /\ Blanks(r, s, 1)
  BY <1>1, <1>2, StripBlanks
<1>5. Len(r) = Len(s) /\ DOMAIN r = 1..Len(s)
  BY <1>2, <1>3, <1>4, WrittenFacts
<1>6. r \in Seq(C \cup {" "})
  BY <1>3 DEF Written
<1>7. PICK h : IsStrip(h, r, C \cup {" "}) /\ StripComments(r) = h[start]
  BY <1>6, StripScan DEF start
<1>8. Holds(r, r, start)
  <2>1. \A k \in 1..Len(r) : 1 + k - 1 = k
    BY <1>2, <1>5
  <2>. QED BY <1>2, <2>1 DEF Holds
<1>11. WrittenFor(r, s, C)
  BY <1>3, <1>4, <1>5 DEF WrittenFor
<1> DEFINE D == C \cup {" "}
<1> HIDE DEF D
<1>12. IsStrip(h, r, D) /\ IsStrip(g, s, C)
  BY <1>1, <1>7 DEF D
<1>13. \A x \in StripStates(s) : Holds(r, g[x], x) => h[Reading(x)] = g[x]
  BY <1>11, <1>12, StripAgain
<1>9. h[Reading(start)] = g[start]
  BY <1>1, <1>2, <1>8, <1>13
<1>10. StripComments(r) = r
  BY <1>1, <1>2, <1>7, <1>9
<1>. QED BY <1>4, <1>5, <1>10 DEF r

\* The numbers of T up to j are those up to j - 1, and j if it is in T.
LEMMA CountStep ==
  ASSUME NEW T, NEW i \in Int, NEW j \in Int, i <= j
  PROVE  /\ Cardinality({k \in i..j : k \in T}) =
              Cardinality({k \in i..(j - 1) : k \in T}) + IF j \in T THEN 1 ELSE 0
         /\ Cardinality({k \in i..(j - 1) : k \in T}) \in Nat
         /\ Cardinality({k \in i..j : k \in T}) \in Nat
<1> DEFINE A == {k \in i..(j - 1) : k \in T}
           B == {k \in i..j : k \in T}
<1>1. IsFiniteSet(A) /\ IsFiniteSet(B)
  <2>1. IsFiniteSet(i..(j - 1)) /\ IsFiniteSet(i..j)
    BY FS_Interval
  <2>. QED BY <2>1, FS_Subset
<1>2. j \notin A /\ B = IF j \in T THEN A \cup {j} ELSE A
  <2>1. \A k : k \in i..j <=> k \in i..(j - 1) \/ k = j
    OBVIOUS
  <2>. QED BY <2>1
<1> HIDE DEF A, B
<1>3. Cardinality(A) \in Nat /\ Cardinality(B) \in Nat
  BY <1>1, FS_CardinalityType
<1>4. Cardinality(A \cup {j}) = Cardinality(A) + 1
  BY <1>1, <1>2, FS_AddElement
<1>5. Cardinality(B) = Cardinality(A) + IF j \in T THEN 1 ELSE 0
  BY <1>2, <1>3, <1>4
<1>. QED BY <1>3, <1>5 DEF A, B

\* There is an odd number of characters q before position i.
Odd(s, q, i) == Cardinality({l \in 1..(i - 1) : s[l] = q}) % 2 # 0

\* The position i is in a string.
InString(s, i) == Odd(s, "\"", i)

\* One more character q changes the parity.
LEMMA ParityStep ==
  ASSUME NEW s, NEW q, NEW i \in Nat, i > 0
  PROVE  Odd(s, q, i + 1) = ((s[i] = q) # Odd(s, q, i))
<1> DEFINE T == {l \in Nat : s[l] = q}
           m == Cardinality({l \in 1..(i - 1) : s[l] = q})
           n == Cardinality({l \in 1..i : s[l] = q})
<1>1. {l \in 1..(i - 1) : s[l] = q} = {l \in 1..(i - 1) : l \in T}
  OBVIOUS
<1>2. {l \in 1..i : s[l] = q} = {l \in 1..i : l \in T}
  OBVIOUS
<1>3. i \in T <=> s[i] = q
  OBVIOUS
<1>4. m \in Nat /\ n = m + IF i \in T THEN 1 ELSE 0
  <2> HIDE DEF T
  <2>1. 1 \in Int /\ i \in Int /\ 1 <= i
    OBVIOUS
  <2>2. /\ Cardinality({k \in 1..i : k \in T}) = Cardinality({k \in 1..(i - 1) : k \in T}) + IF i \in T THEN 1 ELSE 0
        /\ Cardinality({k \in 1..(i - 1) : k \in T}) \in Nat
    BY <2>1, CountStep
  <2>. QED BY <1>1, <1>2, <2>2
<1>5. i + 1 - 1 = i
  OBVIOUS
<1>6. Odd(s, q, i + 1) = (n % 2 # 0) /\ Odd(s, q, i) = (m % 2 # 0)
  BY <1>5 DEF Odd
<1> HIDE DEF m, n, T
<1>7. CASE s[i] = q
  <2>1. n = m + 1 /\ m \in Nat
    BY <1>3, <1>4, <1>7
  <2>2. (n % 2 # 0) <=> ~(m % 2 # 0)
    BY <2>1
  <2>. QED BY <1>6, <1>7, <2>2
<1>8. CASE s[i] # q
  <2>1. n = m
    BY <1>3, <1>4, <1>8
  <2>. QED BY <1>6, <1>8, <2>1
<1>. QED BY <1>7, <1>8

\* A quote begins or ends a string.
LEMMA InStringStep ==
  ASSUME NEW s, NEW i \in Nat, i > 0
  PROVE  InString(s, i + 1) = ((s[i] = "\"") # InString(s, i))
<1>1. \A q : Odd(s, q, i + 1) = ((s[i] = q) # Odd(s, q, i))
  BY ParityStep
<1>. QED BY <1>1, Zenon DEF InString

\* Before the first character there is no string.
LEMMA InStringFirst ==
  ASSUME NEW s
  PROVE  InString(s, 1) = FALSE
<1>1. \A q : {l \in 1..(1 - 1) : s[l] = q} = {}
  OBVIOUS
<1>2. Cardinality({}) = 0 /\ 0 % 2 = 0
  BY FS_EmptySet
<1>3. \A q : Odd(s, q, 1) = FALSE
  BY <1>1, <1>2 DEF Odd
<1>. QED BY <1>3, Zenon DEF InString

\* The characters outside strings.
LEMMA OutsideIs ==
  ASSUME NEW s, NEW cs, NEW i, NEW j
  PROVE  Outside(s, cs, i, j) = {k \in i..j : s[k] \in cs /\ ~InString(s, k)}
BY Zenon DEF Outside, InString, Odd

\* No character of s is a backslash.
NoEscapes(s) == \A i \in 1..Len(s) : s[i] # "\\"

\* What g writes from position k on stands there in r.
Read(r, g, k, in) == Holds(r, g[[at |-> k, in |-> in]], [at |-> k, in |-> in])

\* Where a turn wrote what r has, r has the rest too.
LEMMA ReadOn ==
  ASSUME NEW C, NEW s \in Seq(C), NEW g, IsStrip(g, s, C), NEW r,
         NEW x \in StripStates(s), x.at <= Len(s), Holds(r, g[x], x)
  PROVE  LET t == StripTurn(s, x)
         IN t.next \in StripStates(s) /\ Holds(r, t.out, x) /\ Holds(r, g[t.next], t.next)
<1> DEFINE t == StripTurn(s, x)
<1>1. t.out \in Written(C) /\ t.next \in StripStates(s) /\ t.next.at = x.at + Len(t.out)
  BY StripTurnType
<1>2. x.at \in Nat /\ ~(x.at > Len(s))
  BY DEF StripStates, Positions
<1>3. g[x] = t.out \o g[t.next] /\ g[t.next] \in Written(C)
  BY <1>1, <1>2 DEF IsStrip
<1> HIDE DEF t
<1>4. Holds(r, t.out \o g[t.next], x)
  BY <1>3
<1>5. Holds(r, t.out, x) /\ Holds(r, g[t.next], t.next)
  BY <1>1, <1>2, <1>3, <1>4, HoldsParts DEF Written
<1>. QED BY <1>1, <1>5 DEF t

Modes == {"code", "string", "line", "block"}

\* The turn at k, in the mode that M gives, writes the character that W gives.
OneTurn(s, M, W, k) ==
  StripTurn(s, [at |-> k, in |-> M[k]]) = [out |-> <<W[k]>>, next |-> [at |-> k + 1, in |-> M[k + 1]]]
Turns(s, M, W, i, e) == \A k \in i..(e - 1) : OneTurn(s, M, W, k)

\* r has what W gives, from i up to e.
Has(r, W, i, e) == \A k \in i..(e - 1) : r[k] = W[k]

\* One of these turns.
LEMMA RunOne ==
  ASSUME NEW C, NEW s \in Seq(C), NEW g, IsStrip(g, s, C), NEW r, NEW W,
         NEW M \in [1..(Len(s) + 1) -> Modes], NEW k \in 1..Len(s), OneTurn(s, M, W, k), Read(r, g, k, M[k])
  PROVE  r[k] = W[k] /\ Read(r, g, k + 1, M[k + 1])
<1> DEFINE x == [at |-> k, in |-> M[k]]
           t == StripTurn(s, x)
<1>1. x \in StripStates(s) /\ x.at <= Len(s) /\ x.at = k
  BY DEF StripStates, Positions, Modes
<1>2. Holds(r, g[x], x)
  BY DEF Read
<1>3. t = [out |-> <<W[k]>>, next |-> [at |-> k + 1, in |-> M[k + 1]]]
  BY DEF OneTurn
<1>4. Holds(r, t.out, x) /\ Holds(r, g[t.next], t.next)
  BY <1>1, <1>2, ReadOn
<1> HIDE DEF t, x
<1>5. t.out = <<W[k]>> /\ t.next = [at |-> k + 1, in |-> M[k + 1]]
  BY <1>3
<1>6. Len(t.out) = 1 /\ t.out[1] = W[k]
  BY <1>5
<1>7. r[x.at + 1 - 1] = t.out[1]
  BY <1>4, <1>6 DEF Holds
<1>8. x.at + 1 - 1 = k
  BY <1>1
<1>9. Read(r, g, k + 1, M[k + 1])
  BY <1>4, <1>5 DEF Read
<1>. QED BY <1>6, <1>7, <1>8, <1>9

\* Turns that each write one character, from position i up to e.
LEMMA RunOn ==
  ASSUME NEW C, NEW s \in Seq(C), NEW g, IsStrip(g, s, C), NEW r,
         NEW i \in 1..(Len(s) + 1), NEW e \in i..(Len(s) + 1), NEW W,
         NEW M \in [1..(Len(s) + 1) -> Modes], Turns(s, M, W, i, e), Read(r, g, i, M[i])
  PROVE  Read(r, g, e, M[e]) /\ Has(r, W, i, e)
<1> DEFINE P(k) == Read(r, g, k, M[k]) /\ Has(r, W, i, k)
           S == {n \in Nat : i + n <= e => P(i + n)}
<1>0. Len(s) \in Nat /\ i \in Nat /\ e \in Nat
  OBVIOUS
<1>1. P(i)
  BY <1>0 DEF Has
<1>2. ASSUME NEW k \in i..(e - 1), P(k) PROVE P(k + 1)
  <2>1. k \in 1..Len(s) /\ OneTurn(s, M, W, k)
    BY <1>0 DEF Turns
  <2>2. r[k] = W[k] /\ Read(r, g, k + 1, M[k + 1])
    BY <1>2, <2>1, RunOne
  <2>3. \A l \in i..((k + 1) - 1) : l \in i..(k - 1) \/ l = k
    BY <1>0
  <2>. QED BY <1>2, <2>2, <2>3 DEF Has
<1> HIDE DEF P
<1>3. 0 \in S
  <2>1. i + 0 = i
    BY <1>0
  <2>. QED BY <1>1, <2>1
<1>4. ASSUME NEW n \in Nat, n \in S PROVE n + 1 \in S
  <2>. SUFFICES ASSUME i + (n + 1) <= e PROVE P(i + (n + 1))
    OBVIOUS
  <2>1. i + n \in i..(e - 1) /\ i + n <= e /\ i + (n + 1) = (i + n) + 1
    BY <1>0
  <2>2. P(i + n)
    BY <1>4, <2>1
  <2>3. P((i + n) + 1)
    BY <1>2, <2>1, <2>2
  <2>. QED BY <2>1, <2>3
<1> HIDE DEF S
<1>5. \A n \in Nat : n \in S
  BY <1>3, <1>4, Induction
<1>6. e - i \in Nat /\ i + (e - i) = e
  BY <1>0
<1>7. P(e)
  BY <1>5, <1>6 DEF S
<1>. QED BY <1>7 DEF P

\* Outside comments a text without escapes is copied.
LEMMA CodeTurn ==
  ASSUME NEW s, NEW k \in 1..Len(s), Len(s) \in Nat, NoEscapes(s), k \notin Openers(s)
  PROVE  StripTurn(s, [at |-> k, in |-> IF InString(s, k) THEN "string" ELSE "code"])
           = [out |-> <<s[k]>>, next |-> [at |-> k + 1, in |-> IF InString(s, k + 1) THEN "string" ELSE "code"]]
<1> DEFINE x == [at |-> k, in |-> IF InString(s, k) THEN "string" ELSE "code"]
<1>0. k \in Nat /\ k > 0
  OBVIOUS
<1>1. InString(s, k + 1) = ((s[k] = "\"") # InString(s, k))
  BY <1>0, InStringStep
<1>b. InString(s, k) \in BOOLEAN /\ InString(s, k + 1) \in BOOLEAN
  BY DEF InString, Odd
<1>2. s[k] # "\\"
  BY DEF NoEscapes
<1>3. ~InString(s, k) => ~(s[k] = "/" /\ At(s, k + 1) \in {"/", "*"})
  BY OutsideIs DEF Openers
<1>4. CASE InString(s, k)
  <2>1. StripTurn(s, x) = [out |-> <<s[k]>>, next |-> [at |-> k + 1, in |-> IF s[k] = "\"" THEN "code" ELSE "string"]]
    BY <1>2, <1>4 DEF StripTurn
  <2>. QED BY <1>1, <1>b, <1>4, <2>1
<1>5. CASE ~InString(s, k)
  <2>1. StripTurn(s, x) = [out |-> <<s[k]>>, next |-> [at |-> k + 1, in |-> IF s[k] = "\"" THEN "string" ELSE "code"]]
    BY <1>3, <1>5 DEF StripTurn
  <2>. QED BY <1>1, <1>b, <1>5, <2>1
<1>. QED BY <1>4, <1>5

\* The positions of s where comments begin.
LEMMA OpenersIs ==
  ASSUME NEW s
  PROVE  Openers(s) = {i \in 1..Len(s) : s[i] = "/" /\ ~InString(s, i) /\ At(s, i + 1) \in {"/", "*"}}
BY OutsideIs DEF Openers

\* Before the first comment the text is copied.
LEMMA CopiedTo ==
  ASSUME NEW C, NEW s \in Seq(C), NEW g, IsStrip(g, s, C), NEW r, NoEscapes(s), Read(r, g, 1, "code"),
         NEW i \in 1..(Len(s) + 1), \A j \in 1..(i - 1) : j \notin Openers(s)
  PROVE  /\ Read(r, g, i, IF InString(s, i) THEN "string" ELSE "code")
         /\ \A j \in 1..(i - 1) : r[j] = s[j]
<1> DEFINE M == [k \in 1..(Len(s) + 1) |-> IF InString(s, k) THEN "string" ELSE "code"]
<1>0. Len(s) \in Nat
  OBVIOUS
<1>1. M \in [1..(Len(s) + 1) -> Modes]
  BY DEF Modes
<1>f. M[1] = "code"
  <2>1. InString(s, 1) = FALSE
    BY InStringFirst
  <2>. QED BY <1>0, <2>1
<1>2. \A k \in 1..(i - 1) : OneTurn(s, M, s, k)
  <2>. SUFFICES ASSUME NEW k \in 1..(i - 1) PROVE OneTurn(s, M, s, k)
    OBVIOUS
  <2>1. k \in 1..Len(s) /\ k \in 1..(Len(s) + 1) /\ k + 1 \in 1..(Len(s) + 1) /\ k \notin Openers(s)
    BY <1>0
  <2>2. /\ M[k] = IF InString(s, k) THEN "string" ELSE "code"
        /\ M[k + 1] = IF InString(s, k + 1) THEN "string" ELSE "code"
    BY <2>1
  <2> HIDE DEF M
  <2>. QED BY <1>0, <2>1, <2>2, CodeTurn DEF OneTurn
<1>3. M[i] = IF InString(s, i) THEN "string" ELSE "code"
  OBVIOUS
<1>4. 1 \in 1..(Len(s) + 1) /\ i \in 1..(Len(s) + 1) /\ Read(r, g, 1, M[1])
  BY <1>0, <1>f
<1> HIDE DEF M
<1>5. Turns(s, M, s, 1, i)
  BY <1>2 DEF Turns
<1>6. Read(r, g, i, M[i]) /\ Has(r, s, 1, i)
  BY <1>1, <1>4, <1>5, RunOn
<1>. QED BY <1>3, <1>6 DEF Has

\* The first of a set of positions that has one.
LEMMA FirstOf ==
  ASSUME NEW S \in SUBSET Nat, S # {}, NEW e, e = CHOOSE j \in S : \A k \in S : j <= k
  PROVE  e \in S /\ \A k \in S : e <= k
<1>1. PICK n \in S : \A k \in S : n <= k
  <2> DEFINE R == OpToRel(<, Nat)
  <2>1. IsWellFoundedOn(R, Nat)
    BY NatLessThanWellFounded
  <2> HIDE DEF R
  <2>2. PICK n \in S : \A k \in S : ~(<<k, n>> \in R)
    BY <2>1, WFMin
  <2>3. \A k \in S : ~(k < n)
    BY <2>2 DEF R, OpToRel
  <2>. QED BY <2>3
<1>. QED BY <1>1

\* The end of the text is read in any mode.
LEMMA ReadEnd ==
  ASSUME NEW C, NEW s \in Seq(C), NEW g, IsStrip(g, s, C), NEW r
  PROVE  Read(r, g, Len(s) + 1, "code")
<1> DEFINE x == [at |-> Len(s) + 1, in |-> "code"]
<1>1. x \in StripStates(s) /\ x.at > Len(s)
  BY DEF StripStates, Positions
<1> HIDE DEF x
<1>2. g[x] = <<>>
  BY <1>1 DEF IsStrip
<1>3. Len(<<>>) = 0 /\ 1..0 = {}
  OBVIOUS
<1>. QED BY <1>2, <1>3 DEF Read, Holds, x

\* A comment to the end of the line.
LEMMA LineComment ==
  ASSUME NEW C, NEW s \in Seq(C), NEW g, IsStrip(g, s, C), NEW r,
         NEW i \in 1..Len(s), s[i] = "/", At(s, i + 1) = "/", Read(r, g, i, "code")
  PROVE  LET e == CommentEnd(s, i)
         IN /\ e \in (i + 1)..(Len(s) + 1) /\ Read(r, g, e, "code")
            /\ \A j \in i..(e - 1) : r[j] = Blank(s[j])
<1> DEFINE e == CommentEnd(s, i)
           E == {j \in i..Len(s) : s[j] = "nl"}
           n == Len(s)
<1>0. n \in Nat /\ i + 1 \in 1..n /\ s[i + 1] = "/"
  BY DEF At
<1>1. CommentEnds(s, i) = E
  BY <1>0 DEF CommentEnds
<1>2. E \in SUBSET Nat /\ \A j \in E : j \in i..n
  BY <1>0
<1>3. e = IF E = {} THEN n + 1 ELSE CHOOSE j \in E : \A k \in E : j <= k
  BY <1>1 DEF CommentEnd
<1> HIDE DEF e
<1>4. e \in i..(n + 1) /\ (e = n + 1 \/ e \in E) /\ \A k \in E : e <= k
  <2> HIDE DEF E
  <2>. QED BY <1>0, <1>2, <1>3, FirstOf
<1>5. \A k \in i..(e - 1) : s[k] # "nl" /\ k \in 1..n /\ k + 1 \in 1..(n + 1)
  BY <1>0, <1>4
<1>6. e \in (i + 1)..(n + 1)
  BY <1>0, <1>4
<1> HIDE DEF E
<1> DEFINE M == [k \in 1..(n + 1) |-> IF k = i THEN "code" ELSE "line"]
           W == [k \in 1..n |-> " "]
<1>7. M \in [1..(n + 1) -> Modes]
  BY DEF Modes
<1>8. \A k \in i..(e - 1) : OneTurn(s, M, W, k)
  <2>. SUFFICES ASSUME NEW k \in i..(e - 1) PROVE OneTurn(s, M, W, k)
    OBVIOUS
  <2>1. k \in 1..n /\ k + 1 \in 1..(n + 1) /\ k + 1 # i /\ s[k] # "nl" /\ k \in 1..(n + 1)
    BY <1>0, <1>5
  <2>2. W[k] = " " /\ M[k + 1] = "line" /\ M[k] = IF k = i THEN "code" ELSE "line"
    BY <2>1
  <2> HIDE DEF W, M
  <2>3. CASE k = i
    BY <2>2, <2>3 DEF StripTurn, OneTurn
  <2>4. CASE k # i
    BY <2>1, <2>2, <2>4 DEF StripTurn, OneTurn
  <2>. QED BY <2>3, <2>4
<1>9. i \in 1..(n + 1) /\ e \in i..(n + 1) /\ M[i] = "code" /\ M[e] = "line"
  BY <1>0, <1>6
<1>10. \A k \in i..(e - 1) : W[k] = Blank(s[k])
  BY <1>5 DEF Blank
<1> HIDE DEF M, W
<1>11. Read(r, g, e, "line") /\ Has(r, W, i, e)
  <2>1. Read(r, g, i, M[i]) /\ Turns(s, M, W, i, e)
    BY <1>8, <1>9 DEF Turns
  <2>2. Read(r, g, e, M[e]) /\ Has(r, W, i, e)
    BY <1>7, <1>9, <2>1, RunOn
  <2>. QED BY <1>9, <2>2
<1>12. Read(r, g, e, "code")
  <2>1. CASE e = n + 1
    BY <2>1, ReadEnd
  <2>2. CASE e \in E
    <3> DEFINE x == [at |-> e, in |-> "line"]
               y == [at |-> e, in |-> "code"]
    <3>1. s[e] = "nl" /\ e \in 1..n
      BY <1>0, <1>4, <2>2 DEF E
    <3>2. x \in StripStates(s) /\ y \in StripStates(s) /\ ~(x.at > n) /\ ~(y.at > n)
      BY <1>0, <3>1 DEF StripStates, Positions
    <3>3. StripTurn(s, x) = StripTurn(s, y)
      BY <3>1 DEF StripTurn
    <3> HIDE DEF x, y
    <3>4. g[x] = g[y]
      BY <3>2, <3>3 DEF IsStrip
    <3>5. x.at = y.at
      BY DEF x, y
    <3>. QED BY <1>11, <3>4, <3>5 DEF Read, Holds, x, y
  <2>. QED BY <1>4, <2>1, <2>2
<1>13. \A k \in i..(e - 1) : r[k] = Blank(s[k])
  BY <1>10, <1>11 DEF Has
<1>. QED BY <1>6, <1>12, <1>13 DEF e

\* The turn at k, in the mode given, writes a character twice.
TwoTurn(s, k, in, to, a) ==
  StripTurn(s, [at |-> k, in |-> in]) = [out |-> <<a, a>>, next |-> [at |-> k + 2, in |-> to]]

\* One turn that writes a character twice.
LEMMA ReadTwo ==
  ASSUME NEW C, NEW s \in Seq(C), NEW g, IsStrip(g, s, C), NEW r,
         NEW k \in 1..Len(s), NEW in \in Modes, NEW to, NEW a,
         TwoTurn(s, k, in, to, a), Read(r, g, k, in)
  PROVE  r[k] = a /\ r[k + 1] = a /\ Read(r, g, k + 2, to)
<1> DEFINE x == [at |-> k, in |-> in]
           t == StripTurn(s, x)
<1>0. x \in StripStates(s) /\ x.at <= Len(s) /\ x.at = k
  BY DEF StripStates, Positions, Modes
<1>1. Holds(r, g[x], x)
  BY DEF Read
<1>2. t = [out |-> <<a, a>>, next |-> [at |-> k + 2, in |-> to]]
  BY DEF TwoTurn
<1>3. Holds(r, t.out, x) /\ Holds(r, g[t.next], t.next)
  BY <1>0, <1>1, ReadOn
<1> HIDE DEF t, x
<1>4. t.out = <<a, a>> /\ t.next = [at |-> k + 2, in |-> to]
  BY <1>2
<1>5. Len(t.out) = 2 /\ t.out[1] = a /\ t.out[2] = a
  BY <1>4
<1>6. r[x.at + 1 - 1] = t.out[1] /\ r[x.at + 2 - 1] = t.out[2]
  BY <1>3, <1>5 DEF Holds
<1>7. x.at + 1 - 1 = k /\ x.at + 2 - 1 = k + 1
  BY <1>0
<1>8. Read(r, g, k + 2, to)
  BY <1>3, <1>4 DEF Read
<1>. QED BY <1>5, <1>6, <1>7, <1>8

\* A comment between /* and */.
LEMMA BlockComment ==
  ASSUME NEW C, NEW s \in Seq(C), NEW g, IsStrip(g, s, C), NEW r,
         NEW i \in 1..Len(s), s[i] = "/", At(s, i + 1) = "*", Read(r, g, i, "code")
  PROVE  LET e == CommentEnd(s, i)
         IN /\ e \in (i + 1)..(Len(s) + 1) /\ Read(r, g, e, "code")
            /\ \A j \in i..(e - 1) : r[j] = Blank(s[j])
<1> DEFINE e == CommentEnd(s, i)
           n == Len(s)
           E == {j \in (i + 4)..(n + 1) : s[j - 2] = "*" /\ s[j - 1] = "/"}
           to == IF E = {} THEN n + 1 ELSE e - 2
<1>0. n \in Nat /\ i + 1 \in 1..n /\ s[i + 1] = "*"
  BY DEF At
<1>1. CommentEnds(s, i) = E
  BY <1>0 DEF CommentEnds
<1>2. E \in SUBSET Nat /\ \A j \in E : j \in (i + 4)..(n + 1)
  BY <1>0
<1>3. e = IF E = {} THEN n + 1 ELSE CHOOSE j \in E : \A k \in E : j <= k
  BY <1>1 DEF CommentEnd
<1> HIDE DEF e
<1>4. (E = {} /\ e = n + 1) \/ (E # {} /\ e \in E /\ \A k \in E : e <= k)
  <2> HIDE DEF E
  <2>. QED BY <1>2, <1>3, FirstOf
<1>5. r[i] = " " /\ r[i + 1] = " " /\ Read(r, g, i + 2, "block")
  <2> DEFINE a == " "
  <2>1. TwoTurn(s, i, "code", "block", a)
    BY DEF StripTurn, TwoTurn
  <2>2. "code" \in Modes
    BY DEF Modes
  <2> HIDE DEF a
  <2>3. r[i] = a /\ r[i + 1] = a /\ Read(r, g, i + 2, "block")
    BY <2>1, <2>2, ReadTwo
  <2>. QED BY <2>3 DEF a
<1>6. to \in (i + 2)..(n + 1) /\ i + 2 \in 1..(n + 1) /\ e \in (i + 1)..(n + 1)
  <2>1. CASE E = {}
    <3>1. to = n + 1 /\ e = n + 1
      BY <1>4, <2>1
    <3>. QED BY <1>0, <3>1
  <2>2. CASE E # {}
    <3>1. to = e - 2 /\ e \in (i + 4)..(n + 1)
      BY <1>2, <1>4, <2>2
    <3>. QED BY <1>0, <3>1
  <2>. QED BY <2>1, <2>2
<1>7. ASSUME NEW k \in (i + 2)..(to - 1)
      PROVE  k \in 1..n /\ ~(s[k] = "*" /\ At(s, k + 1) = "/")
  <2>1. k \in 1..n
    BY <1>0, <1>6
  <2>2. ASSUME s[k] = "*", At(s, k + 1) = "/" PROVE FALSE
    <3>1. k + 1 \in 1..n /\ s[k + 1] = "/"
      BY <2>2 DEF At
    <3>2. k + 2 \in E
      <4>1. k + 2 \in (i + 4)..(n + 1) /\ (k + 2) - 2 = k /\ (k + 2) - 1 = k + 1
        BY <1>0, <2>1, <3>1
      <4>. QED BY <2>2, <3>1, <4>1
    <3> HIDE DEF E
    <3>3. e <= k + 2 /\ to = e - 2 /\ e \in Nat
      BY <1>4, <3>2, <1>2
    <3> HIDE DEF to
    <3>. QED BY <1>0, <1>6, <2>1, <3>3
  <2>. QED BY <2>1, <2>2
<1> HIDE DEF E, to
<1> DEFINE M == [k \in 1..(n + 1) |-> "block"]
           W == [k \in 1..n |-> Blank(s[k])]
<1>8. M \in [1..(n + 1) -> Modes] /\ M[i + 2] = "block" /\ M[to] = "block"
  BY <1>0, <1>6 DEF Modes
<1>9. \A k \in (i + 2)..(to - 1) : OneTurn(s, M, W, k)
  <2>. SUFFICES ASSUME NEW k \in (i + 2)..(to - 1) PROVE OneTurn(s, M, W, k)
    OBVIOUS
  <2>1. k \in 1..n /\ k \in 1..(n + 1) /\ k + 1 \in 1..(n + 1) /\ ~(s[k] = "*" /\ At(s, k + 1) = "/")
    BY <1>0, <1>7
  <2>2. M[k] = "block" /\ M[k + 1] = "block" /\ W[k] = Blank(s[k])
    BY <2>1
  <2> HIDE DEF M, W
  <2>. QED BY <2>1, <2>2 DEF StripTurn, StripBlock, OneTurn
<1>10. \A k \in (i + 2)..(to - 1) : W[k] = Blank(s[k])
  BY <1>7
<1> HIDE DEF M, W
<1>11. Read(r, g, to, "block") /\ Has(r, W, i + 2, to)
  <2>1. Read(r, g, i + 2, M[i + 2]) /\ Turns(s, M, W, i + 2, to)
    BY <1>5, <1>8, <1>9 DEF Turns
  <2>2. Read(r, g, to, M[to]) /\ Has(r, W, i + 2, to)
    BY <1>6, <1>8, <2>1, RunOn
  <2>. QED BY <1>8, <2>2
<1>12. \A k \in i..(to - 1) : r[k] = Blank(s[k])
  <2>1. \A k \in i..(to - 1) : k = i \/ k = i + 1 \/ k \in (i + 2)..(to - 1)
    BY <1>0, <1>6
  <2>2. r[i] = Blank(s[i]) /\ r[i + 1] = Blank(s[i + 1])
    BY <1>0, <1>5 DEF Blank
  <2>. QED BY <1>10, <1>11, <2>1, <2>2 DEF Has
<1>13. CASE E = {}
  <2>1. e = n + 1 /\ to = n + 1
    BY <1>4, <1>13 DEF to
  <2>. QED BY <1>6, <1>12, <2>1, ReadEnd DEF e
<1>14. CASE E # {}
  <2>1. to = e - 2 /\ e \in (i + 4)..(n + 1) /\ s[e - 2] = "*" /\ s[e - 1] = "/"
    BY <1>4, <1>14 DEF to, E
  <2>2. to \in 1..n /\ to + 1 \in 1..n /\ e = to + 2 /\ e - 1 = to + 1
    BY <1>0, <2>1
  <2> DEFINE a == " "
  <2>3. TwoTurn(s, to, "block", "code", a)
    <3>1. s[to] = "*" /\ At(s, to + 1) = "/"
      BY <2>1, <2>2 DEF At
    <3>. QED BY <3>1 DEF StripTurn, TwoTurn
  <2>4. "block" \in Modes
    BY DEF Modes
  <2> HIDE DEF a
  <2>5. r[to] = a /\ r[to + 1] = a /\ Read(r, g, to + 2, "code")
    BY <1>11, <2>2, <2>3, <2>4, ReadTwo
  <2>6. r[to] = Blank(s[to]) /\ r[to + 1] = Blank(s[to + 1])
    BY <2>1, <2>2, <2>5 DEF Blank, a
  <2>7. \A k \in i..(e - 1) : k \in i..(to - 1) \/ k = to \/ k = to + 1
    BY <1>0, <2>2
  <2>8. \A k \in i..(e - 1) : r[k] = Blank(s[k])
    BY <1>12, <2>6, <2>7
  <2>. QED BY <1>6, <2>2, <2>5, <2>8 DEF e
<1>. QED BY <1>13, <1>14

\* What is written from a state on, outside comments, is written for the rest of the text alone.
LEMMA StripRest ==
  ASSUME NEW C, NEW s \in Seq(C), NEW g, IsStrip(g, s, C), NEW e \in 1..(Len(s) + 1)
  PROVE  StripComments(SubSeq(s, e, Len(s))) = g[[at |-> e, in |-> "code"]]
<1> DEFINE t == SubSeq(s, e, Len(s))
           n == Len(t)
           X == StripStates(t)
           there(x) == [at |-> x.at + e - 1, in |-> x.in]
<1>0. Len(s) \in Nat /\ t \in Seq(C) /\ n = Len(s) + 1 - e /\ \A k \in 1..n : t[k] = s[k + e - 1]
  OBVIOUS
<1>d. DOMAIN t = 1..n /\ DOMAIN s = 1..Len(s)
  OBVIOUS
<1> HIDE DEF t
<1>1. PICK h : IsStrip(h, t, C) /\ StripComments(t) = h[[at |-> 1, in |-> "code"]]
  BY <1>0, StripScan
<1>2. n \in Nat /\ ScannerStates(X, n) /\ MovesOn(StripNext(t), X, n)
  BY <1>0, StripMoves
<1> DEFINE T == {x \in X : h[x] = g[there(x)]}
<1>3. ASSUME NEW x \in X, x.at > n \/ StripNext(t)[x] \in T PROVE x \in T
  <2>0. x.at \in 1..(n + 1) /\ x.in \in Modes
    BY <1>2 DEF ScannerStates, StripStates, Modes
  <2>1. there(x) \in StripStates(s) /\ (x.at > n <=> there(x).at > Len(s))
    BY <1>0, <2>0 DEF StripStates, Positions, Modes
  <2>2. CASE x.at > n
    <3>1. h[x] = <<>>
      BY <1>1, <2>2 DEF IsStrip
    <3>2. g[there(x)] = <<>>
      BY <2>1, <2>2 DEF IsStrip
    <3>. QED BY <3>1, <3>2
  <2>3. CASE ~(x.at > n)
    <3> DEFINE c == s[x.at + e - 1]
               d == At(s, (x.at + e - 1) + 1)
               y == there(x)
    <3>1. x.at \in 1..n /\ t[x.at] = c
      <4>1. x.at \in 1..n
        BY <1>2, <2>0, <2>3
      <4>. QED BY <1>0, <4>1
    <3>2. At(t, x.at + 1) = d /\ (x.at < n <=> y.at < Len(s))
      <4>1. (x.at + 1 \in 1..n <=> (x.at + e - 1) + 1 \in 1..Len(s)) /\ (x.at + e - 1) + 1 = (x.at + 1) + e - 1
        <5> DEFINE i == x.at
                   l == Len(s)
        <5>1. i \in Nat /\ e \in Nat /\ n \in Nat /\ l \in Nat /\ n = l + 1 - e
          BY <1>0, <1>2, <2>0
        <5> HIDE DEF i, l, n
        <5>2. (i + 1 \in 1..n <=> i + 1 <= n) /\ ((i + e - 1) + 1 = (i + 1) + e - 1)
          BY <5>1
        <5>3. e >= 1 => ((i + e - 1) + 1 \in 1..l <=> (i + 1) + e - 1 <= l)
          BY <5>1
        <5>4. i + 1 <= n <=> (i + 1) + e - 1 <= l
          BY <5>1
        <5>. QED BY <5>2, <5>3, <5>4 DEF i, l
      <4>2. x.at < n <=> y.at < Len(s)
        BY <1>0, <2>0
      <4>. QED BY <1>0, <1>d, <4>1, <4>2 DEF At
    <3>3. StripTurn(t, x).out = StripTurn(s, y).out /\ there(StripTurn(t, x).next) = StripTurn(s, y).next
      <4>1. (x.at + e - 1) + 1 = (x.at + 1) + e - 1 /\ (x.at + e - 1) + 2 = (x.at + 2) + e - 1
        BY <1>0, <2>0
      <4>2. y.at = x.at + e - 1 /\ y.in = x.in /\ s[y.at] = c /\ At(s, y.at + 1) = d
        OBVIOUS
      <4> HIDE DEF c, d, y
      <4>3. CASE x.in = "string"
        <5>1. CASE c = "\\" /\ x.at < n
          BY <3>1, <3>2, <4>1, <4>2, <4>3, <5>1 DEF StripTurn
        <5>2. CASE ~(c = "\\" /\ x.at < n)
          BY <3>1, <3>2, <4>1, <4>2, <4>3, <5>2 DEF StripTurn
        <5>. QED BY <5>1, <5>2
      <4>4. CASE x.in = "line"
        BY <3>1, <4>1, <4>2, <4>4 DEF StripTurn
      <4>5. CASE x.in = "block"
        BY <3>1, <3>2, <4>1, <4>2, <4>5 DEF StripTurn
      <4>6. CASE x.in = "code"
        BY <3>1, <3>2, <4>1, <4>2, <4>6 DEF StripTurn
      <4>. QED BY <2>0, <4>3, <4>4, <4>5, <4>6 DEF Modes
    <3>4. StripNext(t)[x] = StripTurn(t, x).next
      BY <2>3 DEF StripNext
    <3>5. h[x] = StripTurn(t, x).out \o h[StripTurn(t, x).next]
      BY <1>1, <2>3 DEF IsStrip
    <3>6. g[y] = StripTurn(s, y).out \o g[StripTurn(s, y).next]
      BY <2>1, <2>3 DEF IsStrip
    <3>7. h[StripTurn(t, x).next] = g[there(StripTurn(t, x).next)]
      BY <1>3, <2>3, <3>4
    <3>. QED BY <3>3, <3>5, <3>6, <3>7
  <2>. QED BY <2>2, <2>3
<1>4. [at |-> 1, in |-> "code"] \in X /\ there([at |-> 1, in |-> "code"]) = [at |-> e, in |-> "code"]
  BY <1>0 DEF StripStates, Positions
<1> HIDE DEF T, X
<1>5. \A x \in X : x \in T
  BY <1>2, <1>3, ScanInduction
<1>6. h[[at |-> 1, in |-> "code"]] = g[there([at |-> 1, in |-> "code"])]
  BY <1>4, <1>5 DEF T
<1>. QED BY <1>1, <1>4, <1>6 DEF t

\* Up to the first comment the text is kept, the comment is blanked, and what follows is stripped.
LEMMA FirstComment ==
  ASSUME NEW C, NEW s \in Seq(C), NoEscapes(s), NEW i \in Openers(s), \A j \in Openers(s) : i <= j
  PROVE  LET r == StripComments(s)
             end == CommentEnd(s, i)
             rest == StripComments(SubSeq(s, end, Len(s)))
         IN \A j \in 1..Len(s) :
              r[j] = IF j < i THEN s[j] ELSE IF j < end THEN Blank(s[j]) ELSE rest[j - end + 1]
<1> DEFINE r == StripComments(s)
           e == CommentEnd(s, i)
           y == [at |-> e, in |-> "code"]
<1>0. Len(s) \in Nat /\ i \in 1..Len(s) /\ s[i] = "/" /\ ~InString(s, i) /\ At(s, i + 1) \in {"/", "*"}
  BY OpenersIs
<1>1. PICK g : IsStrip(g, s, C) /\ r = g[[at |-> 1, in |-> "code"]]
  BY StripScan
<1> HIDE DEF r
<1>2. Read(r, g, 1, "code")
  <2>1. \A k \in 1..Len(r) : 1 + k - 1 = k
    OBVIOUS
  <2>. QED BY <1>1, <2>1 DEF Read, Holds
<1>3. Read(r, g, i, "code") /\ \A j \in 1..(i - 1) : r[j] = s[j]
  <2>1. i \in 1..(Len(s) + 1) /\ \A j \in 1..(i - 1) : j \notin Openers(s)
    BY <1>0
  <2>. QED BY <1>0, <1>1, <1>2, <2>1, CopiedTo
<1>4. e \in (i + 1)..(Len(s) + 1) /\ Read(r, g, e, "code") /\ \A j \in i..(e - 1) : r[j] = Blank(s[j])
  <2>1. CASE At(s, i + 1) = "/"
    BY <1>0, <1>1, <1>3, <2>1, LineComment
  <2>2. CASE At(s, i + 1) = "*"
    BY <1>0, <1>1, <1>3, <2>2, BlockComment
  <2>. QED BY <1>0, <2>1, <2>2
<1> HIDE DEF e
<1>5. e \in 1..(Len(s) + 1)
  BY <1>0, <1>4
<1>6. StripComments(SubSeq(s, e, Len(s))) = g[y]
  BY <1>1, <1>5, StripRest
<1>7. Len(g[y]) = Len(s) + 1 - e
  <2>1. y \in StripStates(s) /\ y.at = e
    BY <1>5 DEF StripStates, Positions
  <2>. QED BY <1>1, <2>1, StripBlanks
<1>8. ASSUME NEW j \in 1..Len(s), ~(j < e) PROVE r[j] = g[y][j - e + 1]
  <2>1. j - e + 1 \in 1..Len(g[y]) /\ e + (j - e + 1) - 1 = j
    BY <1>0, <1>5, <1>7, <1>8
  <2>2. \A k \in 1..Len(g[y]) : r[e + k - 1] = g[y][k]
    BY <1>4 DEF Read, Holds
  <2>. QED BY <2>1, <2>2
<1>9. ASSUME NEW j \in 1..Len(s)
      PROVE  r[j] = IF j < i THEN s[j] ELSE IF j < e THEN Blank(s[j]) ELSE g[y][j - e + 1]
  <2>1. (j < i => j \in 1..(i - 1)) /\ (~(j < i) /\ j < e => j \in i..(e - 1))
    BY <1>0, <1>5
  <2>. QED BY <1>3, <1>4, <1>8, <2>1
<1>. QED BY <1>6, <1>9 DEF r, e

\* Texts with the same characters.
LEMMA SameText ==
  ASSUME NEW C, NEW D, NEW s \in Seq(C), NEW r \in Seq(D), Len(r) = Len(s), \A j \in 1..Len(s) : r[j] = s[j]
  PROVE  r = s
<1>1. s = [j \in 1..Len(s) |-> s[j]] /\ r = [j \in 1..Len(s) |-> r[j]]
  OBVIOUS
<1>. QED BY <1>1

\* A text without comments is kept.
LEMMA NoComment ==
  ASSUME NEW C, NEW s \in Seq(C), NoEscapes(s), Openers(s) = {}
  PROVE  StripComments(s) = s
<1> DEFINE r == StripComments(s)
<1>0. Len(s) \in Nat /\ DOMAIN s = 1..Len(s) /\ Len(s) + 1 \in 1..(Len(s) + 1) /\ (Len(s) + 1) - 1 = Len(s)
  OBVIOUS
<1>1. PICK g : IsStrip(g, s, C) /\ r = g[[at |-> 1, in |-> "code"]]
  BY StripScan
<1>2. DOMAIN r = 1..Len(s) /\ r \in Written(C) /\ Len(r) = Len(s)
  <2>1. [at |-> 1, in |-> "code"] \in StripStates(s)
    BY <1>0 DEF StripStates, Positions
  <2>2. r \in Written(C)
    BY <1>1, <2>1 DEF IsStrip
  <2>. QED BY <2>2, StrippedText
<1> HIDE DEF r
<1>3. Read(r, g, 1, "code")
  <2>1. \A k \in 1..Len(r) : 1 + k - 1 = k
    OBVIOUS
  <2>. QED BY <1>1, <2>1 DEF Read, Holds
<1>4. \A j \in 1..Len(s) : r[j] = s[j]
  <2>1. \A j \in 1..((Len(s) + 1) - 1) : j \notin Openers(s)
    OBVIOUS
  <2>2. \A j \in 1..((Len(s) + 1) - 1) : r[j] = s[j]
    BY <1>0, <1>1, <1>3, <2>1, CopiedTo
  <2>. QED BY <1>0, <2>2
<1>6. r = s
  BY <1>2, <1>4, SameText DEF Written
<1>. QED BY <1>6 DEF r

\* The characters read in mode "scan".
ScannedInv == scanned \in Seq(Alphabet)

\* They come from the alphabet, in every mode.
LEMMA ScannedAlways == Spec => []ScannedInv
<1>1. Init => ScannedInv
  BY DEF Init, ScannedInv
<1>2. ScannedInv /\ [Next]_vars => ScannedInv'
  <2>. SUFFICES ASSUME ScannedInv, [Next]_vars PROVE scanned' \in Seq(Alphabet)
    BY DEF ScannedInv
  <2>1. (\E c \in Alphabet : scanned' = Append(scanned, c)) \/ UNCHANGED scanned
    BY DEF Next, vars, Ifdef, Elsif, Endif, Skip, Define, Undef, Passthrough, Text, Include, Refuse,
           Consume, EndOfFile, Char
  <2>. QED BY <2>1 DEF ScannedInv
<1>. QED BY <1>1, <1>2, PTL DEF Spec

\* For a text of any length over any characters: the text up to the first comment outside strings
\* is kept, the comment becomes blanks of the same length with its newlines kept, and so on behind
\* it; no comment is left (strip_comments).
THEOREM CommentsAreStripped == Spec => []CommentsStripped
<1>1. ScannedInv => CommentsStripped
  <2>. SUFFICES ASSUME scanned \in Seq(Alphabet) PROVE CommentsStripped
    BY DEF ScannedInv
  <2> DEFINE r == StripComments(scanned)
             n == Len(scanned)
  <2>1. Len(r) = n /\ DOMAIN r = 1..n /\ Blanks(r, scanned, 1) /\ StripComments(r) = r
    BY StrippedText
  <2>2. DOMAIN scanned = 1..n
    OBVIOUS
  <2> HIDE DEF r, n
  <2>3. ASSUME NEW i \in DOMAIN r
        PROVE  r[i] \in {scanned[i], " "} /\ (scanned[i] = "nl" => r[i] = "nl")
    <3>1. i \in 1..Len(r) /\ 1 + i - 1 = i
      BY <2>1
    <3>2. (r[i] = scanned[i] \/ r[i] = " ") /\ (scanned[i] = "nl" => r[i] = "nl")
      BY <2>1, <3>1 DEF Blanks
    <3>. QED BY <3>2
  <2>4. ASSUME \A i \in DOMAIN scanned : scanned[i] # "\\"
        PROVE  /\ Openers(scanned) = {} => r = scanned
               /\ \A i \in Openers(scanned) :
                    (\A j \in Openers(scanned) : i <= j) =>
                      LET end == CommentEnd(scanned, i)
                          rest == StripComments(SubSeq(scanned, end, Len(scanned)))
                      IN \A j \in DOMAIN r :
                           r[j] = IF j < i THEN scanned[j]
                                  ELSE IF j < end THEN Blank(scanned[j]) ELSE rest[j - end + 1]
    <3>1. NoEscapes(scanned)
      BY <2>2, <2>4 DEF NoEscapes, n
    <3>2. Openers(scanned) = {} => r = scanned
      BY <3>1, NoComment DEF r
    <3>. QED BY <2>1, <3>1, <3>2, FirstComment DEF r, n
  <2>. QED BY <2>1, <2>3, <2>4 DEF CommentsStripped, r, n
<1>. QED BY <1>1, ScannedAlways, PTL
-----------------------------------------------------------------------------
(* Arguments.                                                              *)

\* Every bracket outside strings opens or closes a level.
LEMMA DepthStep ==
  ASSUME NEW s, NEW opening, NEW closing, opening \cap closing = {},
         NEW i \in Int, NEW j \in Int, i <= j
  PROVE  /\ Depth(s, opening, closing, i, j) =
              Depth(s, opening, closing, i, j - 1) +
                IF ~InString(s, j) /\ s[j] \in opening THEN 1
                ELSE IF ~InString(s, j) /\ s[j] \in closing THEN -1 ELSE 0
         /\ Depth(s, opening, closing, i, j - 1) \in Int
         /\ Depth(s, opening, closing, i, j) \in Int
<1> DEFINE T(cs) == {k \in Int : s[k] \in cs /\ ~InString(s, k)}
<1>1. ASSUME NEW cs
      PROVE  /\ Cardinality(Outside(s, cs, i, j)) =
                  Cardinality(Outside(s, cs, i, j - 1)) + IF s[j] \in cs /\ ~InString(s, j) THEN 1 ELSE 0
             /\ Cardinality(Outside(s, cs, i, j - 1)) \in Nat /\ Cardinality(Outside(s, cs, i, j)) \in Nat
  <2>1. \A h \in Int : Outside(s, cs, i, h) = {k \in i..h : k \in T(cs)}
    <3>1. ASSUME NEW h \in Int PROVE {k \in i..h : s[k] \in cs /\ ~InString(s, k)} = {k \in i..h : k \in T(cs)}
      OBVIOUS
    <3>. QED BY <3>1, OutsideIs
  <2>2. j \in T(cs) <=> s[j] \in cs /\ ~InString(s, j)
    OBVIOUS
  <2>3. Outside(s, cs, i, j) = {k \in i..j : k \in T(cs)} /\ Outside(s, cs, i, j - 1) = {k \in i..(j - 1) : k \in T(cs)}
    BY <2>1
  <2> DEFINE U == T(cs)
  <2> HIDE DEF U
  <2>4. /\ Cardinality({k \in i..j : k \in U}) =
             Cardinality({k \in i..(j - 1) : k \in U}) + IF j \in U THEN 1 ELSE 0
        /\ Cardinality({k \in i..(j - 1) : k \in U}) \in Nat
        /\ Cardinality({k \in i..j : k \in U}) \in Nat
    BY CountStep
  <2>. QED BY <2>2, <2>3, <2>4 DEF U
<1> HIDE DEF T
<1>2. /\ Depth(s, opening, closing, i, j) = Cardinality(Outside(s, opening, i, j)) - Cardinality(Outside(s, closing, i, j))
      /\ Depth(s, opening, closing, i, j - 1) =
           Cardinality(Outside(s, opening, i, j - 1)) - Cardinality(Outside(s, closing, i, j - 1))
  BY DEF Depth
<1>3. ~(s[j] \in opening /\ s[j] \in closing)
  OBVIOUS
<1>. QED BY <1>1, <1>2, <1>3

\* Nothing is open at the beginning.
LEMMA DepthFirst ==
  ASSUME NEW s, NEW opening, NEW closing, NEW i \in Int
  PROVE  Depth(s, opening, closing, i, i - 1) = 0
<1>1. \A cs : Outside(s, cs, i, i - 1) = {}
  <2>1. i..(i - 1) = {}
    OBVIOUS
  <2>. QED BY <2>1 DEF Outside
<1>2. Cardinality({}) = 0
  BY FS_EmptySet
<1>. QED BY <1>1, <1>2 DEF Depth

\* Where the scanners of arguments go on.
LEMMA TurnEndType ==
  ASSUME NEW C, NEW s \in Seq(C), NEW x, x.at \in 1..Len(s)
  PROVE  /\ TurnEnd(s, x) \in Positions(s) /\ TurnEnd(s, x) > x.at
         /\ s[x.at] # "\\" => TurnEnd(s, x) = x.at + 1
<1>1. TurnEnd(s, x) = x.at + 1 \/ (TurnEnd(s, x) = x.at + 2 /\ x.at < Len(s))
  BY DEF TurnEnd
<1>2. s[x.at] # "\\" => TurnEnd(s, x) = x.at + 1
  BY DEF TurnEnd
<1>. QED BY <1>1, <1>2 DEF Positions

\* A turn of find_matching_paren goes on in a state of the scanner.
LEMMA MatchTurn ==
  ASSUME NEW C, NEW s \in Seq(C), NEW x \in MatchStates(s), x.at <= Len(s)
  PROVE  MatchNext(s, x) \in MatchStates(s) /\ MatchNext(s, x).at > x.at
<1>1. x.at \in 1..Len(s) /\ x.depth \in Int /\ x.quoted \in BOOLEAN
  BY DEF MatchStates, Positions
<1>2. TurnEnd(s, x) \in Positions(s) /\ TurnEnd(s, x) > x.at
  BY <1>1, TurnEndType
<1>3. DepthAfter(s, x, {"("}, {")"}) \in Int
  <2> DEFINE o == {"("}
             c == {")"}
  <2> HIDE DEF o, c
  <2>1. DepthAfter(s, x, o, c) \in Int
    BY <1>1 DEF DepthAfter
  <2>. QED BY <2>1 DEF o, c
<1>4. QuotedAfter(s, x) \in BOOLEAN
  BY <1>1, Zenon DEF QuotedAfter
<1>. QED BY <1>2, <1>3, <1>4 DEF MatchNext, MatchStates

\* g is what find_matching_paren finds from each state on.
IsMatch(g, s) ==
  \A x \in MatchStates(s) :
    g[x] = IF x.at > Len(s) THEN 0 ELSE IF Matches(s, x) THEN x.at ELSE g[MatchNext(s, x)]

\* find_matching_paren ends for every text, and its result is what its turns find.
LEMMA MatchScan ==
  ASSUME NEW C, NEW s \in Seq(C)
  PROVE  \E g : /\ IsMatch(g, s)
                /\ \A i : FindMatchingParen(s, i) = g[[at |-> i, depth |-> 0, quoted |-> FALSE]]
<1> DEFINE n == Len(s)
           X == MatchStates(s)
           base == [x \in X |-> 0]
           f == [z \in X \X Nat |-> IF Matches(s, z[1]) THEN z[1].at ELSE z[2]]
           next == [x \in X |-> IF x.at > n THEN x ELSE MatchNext(s, x)]
           Eq(h) == h = [x \in X |-> IF x.at > Len(s) THEN 0 ELSE IF Matches(s, x) THEN x.at ELSE h[MatchNext(s, x)]]
<1>1. n \in Nat /\ base \in [X -> Nat]
  OBVIOUS
<1>2. \A x \in X : x.at \in 1..(n + 1)
  BY DEF MatchStates, Positions
<1>3. ScannerStates(X, n)
  BY <1>2 DEF ScannerStates
<1>4. \A x \in X : x.at <= n => next[x] = MatchNext(s, x) /\ next[x] \in X /\ next[x].at > x.at
  <2>. SUFFICES ASSUME NEW x \in X, x.at <= n
       PROVE  next[x] = MatchNext(s, x) /\ next[x] \in X /\ next[x].at > x.at
    OBVIOUS
  <2>1. ~(x.at > n) /\ next[x] = MatchNext(s, x)
    BY <1>1, <1>2
  <2>2. MatchNext(s, x) \in X /\ MatchNext(s, x).at > x.at
    BY MatchTurn
  <2>. QED BY <2>1, <2>2
<1>5. MovesOn(next, X, n)
  <2>1. \A x \in X : x.at > n \/ x.at <= n
    BY <1>1, <1>2
  <2>2. \A x \in X : next[x] \in X
    BY <1>4, <2>1
  <2>3. next \in [X -> X]
    BY <2>2
  <2>. QED BY <1>4, <2>3 DEF MovesOn
<1>6. f \in [X \X Nat -> Nat]
  <2>1. ASSUME NEW x \in X, NEW m \in Nat PROVE (IF Matches(s, x) THEN x.at ELSE m) \in Nat
    BY <1>2
  <2>. QED BY <2>1
<1>7. \A x \in X, m \in Nat : f[<<x, m>>] = IF Matches(s, x) THEN x.at ELSE m
  OBVIOUS
<1> HIDE DEF base, f, next, n
<1>8. PICK g : IsScan(g, X, n, Nat, base, next, f)
  BY <1>1, <1>3, <1>5, <1>6, ScanExists
<1>9. IsMatch(g, s)
  <2>1. ASSUME NEW x \in X
        PROVE  g[x] = IF x.at > Len(s) THEN 0 ELSE IF Matches(s, x) THEN x.at ELSE g[MatchNext(s, x)]
    <3>1. CASE x.at > n
      BY <1>8, <3>1 DEF IsScan, base, n
    <3>2. CASE ~(x.at > n)
      <4>1. x.at <= n
        BY <1>1, <1>2, <3>2
      <4>2. next[x] = MatchNext(s, x) /\ next[x] \in X
        BY <1>4, <4>1
      <4>3. g[x] = f[<<x, g[next[x]]>>] /\ g[next[x]] \in Nat
        BY <1>8, <3>2, <4>2 DEF IsScan
      <4>4. g[x] = IF Matches(s, x) THEN x.at ELSE g[MatchNext(s, x)]
        BY <1>7, <4>2, <4>3
      <4>. QED BY <3>2, <4>4 DEF n
    <3>. QED BY <3>1, <3>2
  <2>. QED BY <2>1 DEF IsMatch
<1>10. Eq(g)
  <2>1. g = [x \in X |-> g[x]]
    BY <1>8 DEF IsScan
  <2>. QED BY <1>9, <2>1 DEF IsMatch
<1> DEFINE h == CHOOSE h : Eq(h)
<1>11. Eq(h)
  <2> HIDE DEF Eq
  <2>. QED BY <1>10
<1>12. \A i : FindMatchingParen(s, i) = h[[at |-> i, depth |-> 0, quoted |-> FALSE]]
  BY DEF FindMatchingParen
<1> HIDE DEF h
<1>13. IsMatch(h, s)
  BY <1>11 DEF IsMatch
<1>. QED BY <1>12, <1>13

\* What a turn does to the depth, for the characters of the text alone.
LEMMA DepthAfterIs ==
  ASSUME NEW s, NEW x, NEW opening, NEW closing, x.quoted = InString(s, x.at)
  PROVE  DepthAfter(s, x, opening, closing) =
           x.depth + IF ~InString(s, x.at) /\ s[x.at] \in opening THEN 1
                     ELSE IF ~InString(s, x.at) /\ s[x.at] \in closing THEN -1 ELSE 0
BY DEF DepthAfter

\* Whether in a string after a turn.
LEMMA QuotedAfterIs ==
  ASSUME NEW s, NEW x, x.at \in Nat, x.at > 0, x.quoted = InString(s, x.at)
  PROVE  QuotedAfter(s, x) = InString(s, x.at + 1)
<1>1. InString(s, x.at + 1) = ((s[x.at] = "\"") # InString(s, x.at))
  BY InStringStep
<1>. QED BY <1>1, Zenon DEF QuotedAfter

\* The state of find_matching_paren, begun at i, when it comes to j.
MatchAt(s, i, j) ==
  [at |-> j, depth |-> Depth(s, {"("}, {")"}, i, j - 1), quoted |-> InString(s, j)]

\* Without escapes find_matching_paren goes from character to character.
LEMMA MatchStep ==
  ASSUME NEW C, NEW s \in Seq(C), NoEscapes(s), NEW i \in 1..Len(s), NEW j \in i..Len(s)
  PROVE  /\ MatchAt(s, i, j) \in MatchStates(s) /\ MatchAt(s, i, j).at = j
         /\ MatchNext(s, MatchAt(s, i, j)) = MatchAt(s, i, j + 1)
         /\ Matches(s, MatchAt(s, i, j)) <=> j \in ClosingAt(s, i)
<1> DEFINE x == MatchAt(s, i, j)
           o == {"("}
           c == {")"}
           e == IF ~InString(s, j) /\ s[j] \in o THEN 1
                ELSE IF ~InString(s, j) /\ s[j] \in c THEN -1 ELSE 0
<1>0. /\ j \in 1..Len(s) /\ i \in Int /\ j \in Int /\ i <= j /\ j \in Nat /\ j > 0
      /\ j \in Positions(s) /\ j + 1 - 1 = j
  BY DEF Positions
<1>1. x.at = j /\ x.depth = Depth(s, o, c, i, j - 1) /\ x.quoted = InString(s, j)
  BY DEF MatchAt
<1>2. o \cap c = {}
  OBVIOUS
<1> HIDE DEF o, c
<1>3. Depth(s, o, c, i, j) = Depth(s, o, c, i, j - 1) + e /\ Depth(s, o, c, i, j - 1) \in Int
  BY <1>0, <1>2, DepthStep
<1>4. DepthAfter(s, x, o, c) = Depth(s, o, c, i, j)
  <2> HIDE DEF x, e
  <2>1. DepthAfter(s, x, o, c) = x.depth + e
    BY <1>1, DepthAfterIs DEF e
  <2>. QED BY <1>1, <1>3, <2>1
<1>5. QuotedAfter(s, x) = InString(s, j + 1)
  <2> HIDE DEF x, e
  <2>1. QuotedAfter(s, x) = InString(s, x.at + 1)
    BY <1>0, <1>1, QuotedAfterIs
  <2>. QED BY <1>1, <2>1
<1>6. TurnEnd(s, x) = j + 1
  <2> HIDE DEF x, e
  <2>1. s[x.at] # "\\" /\ x.at \in 1..Len(s)
    BY <1>0, <1>1 DEF NoEscapes
  <2>2. TurnEnd(s, x) = x.at + 1
    BY <2>1, TurnEndType
  <2>. QED BY <1>1, <2>2
<1>7. x \in MatchStates(s)
  <2>1. InString(s, j) \in BOOLEAN
    BY DEF InString, Odd
  <2>2. Depth(s, o, c, i, j - 1) \in Int
    BY <1>3
  <2>3. x = [at |-> j, depth |-> Depth(s, o, c, i, j - 1), quoted |-> InString(s, j)]
    BY DEF MatchAt, o, c
  <2> HIDE DEF x, e
  <2>. QED BY <1>0, <2>1, <2>2, <2>3 DEF MatchStates
<1>8. MatchNext(s, x) = MatchAt(s, i, j + 1)
  <2>1. MatchNext(s, x) = [at |-> TurnEnd(s, x), depth |-> DepthAfter(s, x, o, c), quoted |-> QuotedAfter(s, x)]
    BY DEF MatchNext, o, c
  <2>2. MatchAt(s, i, j + 1) = [at |-> j + 1, depth |-> Depth(s, o, c, i, j + 1 - 1), quoted |-> InString(s, j + 1)]
    BY DEF MatchAt, o, c
  <2> HIDE DEF x, e
  <2>. QED BY <1>0, <1>4, <1>5, <1>6, <2>1, <2>2
<1>9. Matches(s, x) <=> ~InString(s, j) /\ s[j] \in c /\ Depth(s, o, c, i, j) = 0
  <2>1. Matches(s, x) <=> ~x.quoted /\ s[x.at] \in c /\ DepthAfter(s, x, o, c) = 0
    BY DEF Matches, o, c
  <2> HIDE DEF x, e
  <2>. QED BY <1>1, <1>4, <2>1
<1>10. j \in ClosingAt(s, i) <=> ~InString(s, j) /\ s[j] \in c /\ Depth(s, o, c, i, j) = 0
  <2>1. ClosingAt(s, i) = {k \in Outside(s, c, i, Len(s)) : Depth(s, o, c, i, k) = 0}
    BY DEF ClosingAt, o, c
  <2>2. j \in i..Len(s)
    OBVIOUS
  <2> HIDE DEF x, e
  <2>. QED BY <2>1, <2>2, OutsideIs
<1> HIDE DEF x
<1>11. x.at = j
  BY <1>1
<1>. QED BY <1>7, <1>8, <1>9, <1>10, <1>11 DEF x

\* The first of a set of positions, 0 when it is empty.
First1(S) == IF S = {} THEN 0 ELSE CHOOSE j \in S : \A k \in S : j <= k

\* From position j on find_matching_paren finds the first closing parenthesis.
LEMMA MatchFrom ==
  ASSUME NEW C, NEW s \in Seq(C), NoEscapes(s), NEW i \in 1..Len(s), NEW g, IsMatch(g, s)
  PROVE  g[MatchAt(s, i, i)] = First1(ClosingAt(s, i))
<1> DEFINE n == Len(s)
           K == ClosingAt(s, i)
           From(j) == {k \in K : k >= j}
           P(j) == g[MatchAt(s, i, j)] = First1(From(j))
           S == {j \in Int : j >= i => P(j)}
<1>0. n \in Nat /\ K \subseteq i..n
  <2> DEFINE c == {")"}
  <2> HIDE DEF c
  <2>1. K = {k \in Outside(s, c, i, n) : Depth(s, {"("}, c, i, k) = 0}
    BY DEF ClosingAt, c
  <2>2. Outside(s, c, i, n) \subseteq i..n
    BY OutsideIs
  <2>3. n \in Nat
    OBVIOUS
  <2> HIDE DEF K
  <2>. QED BY <2>1, <2>2, <2>3
<1>1. n + 1 \in S
  <2>1. From(n + 1) = {}
    BY <1>0
  <2>2. First1(From(n + 1)) = 0
    BY <2>1 DEF First1
  <2>3. MatchAt(s, i, n + 1) \in MatchStates(s) /\ MatchAt(s, i, n + 1).at = n + 1
    <3> DEFINE o == {"("}
               c == {")"}
    <3>0. o \cap c = {}
      OBVIOUS
    <3> HIDE DEF o, c
    <3>1. i \in Int /\ n \in Int /\ i <= n /\ n + 1 - 1 = n
      BY <1>0
    <3>2. Depth(s, o, c, i, n) \in Int
      BY <3>0, <3>1, DepthStep
    <3>3. InString(s, n + 1) \in BOOLEAN
      BY DEF InString, Odd
    <3>4. MatchAt(s, i, n + 1) = [at |-> n + 1, depth |-> Depth(s, o, c, i, n + 1 - 1), quoted |-> InString(s, n + 1)]
      BY DEF MatchAt, o, c
    <3>5. n + 1 \in Positions(s)
      BY <1>0 DEF Positions
    <3>. QED BY <3>1, <3>2, <3>3, <3>4, <3>5 DEF MatchStates
  <2>4. n + 1 > Len(s)
    BY <1>0
  <2>5. g[MatchAt(s, i, n + 1)] = 0
    BY <2>3, <2>4 DEF IsMatch
  <2>. QED BY <1>0, <2>2, <2>5
<1>2. ASSUME NEW j \in 1..n, \A k \in (j + 1)..(n + 1) : k \in S PROVE j \in S
  <2>. SUFFICES ASSUME j >= i PROVE P(j)
    OBVIOUS
  <2>1. j \in i..Len(s) /\ j + 1 \in (j + 1)..(n + 1) /\ j + 1 >= i /\ ~(j > Len(s))
    BY <1>0
  <2>2. P(j + 1)
    BY <1>2, <2>1
  <2>3. /\ MatchAt(s, i, j) \in MatchStates(s) /\ MatchAt(s, i, j).at = j
        /\ MatchNext(s, MatchAt(s, i, j)) = MatchAt(s, i, j + 1)
        /\ Matches(s, MatchAt(s, i, j)) <=> j \in K
    BY <2>1, MatchStep
  <2>4. g[MatchAt(s, i, j)] = IF j \in K THEN j ELSE g[MatchAt(s, i, j + 1)]
    BY <2>1, <2>3 DEF IsMatch
  <2>5. CASE j \in K
    <3>1. j \in From(j) /\ \A k \in From(j) : j <= k
      BY <1>0, <2>5
    <3>2. \A k \in From(j) : k \in Int
      BY <1>0
    <3>3. \A k \in From(j) : (\A l \in From(j) : k <= l) => k = j
      BY <3>1, <3>2
    <3> HIDE DEF From
    <3>4. (CHOOSE k \in From(j) : \A l \in From(j) : k <= l) = j
      BY <3>1, <3>3
    <3>5. First1(From(j)) = j
      BY <3>1, <3>4 DEF First1
    <3>. QED BY <2>4, <2>5, <3>5
  <2>6. CASE j \notin K
    <3>1. From(j) = From(j + 1)
      BY <1>0, <2>6
    <3>. QED BY <2>2, <2>4, <2>6, <3>1
  <2>. QED BY <2>5, <2>6
<1> HIDE DEF S
<1>3. \A j \in 1..(n + 1) : j \in S
  BY <1>0, <1>1, <1>2, BackInduction
<1>4. i \in 1..(n + 1) /\ i >= i
  BY <1>0
<1>5. P(i)
  BY <1>3, <1>4 DEF S
<1>6. From(i) = K
  BY <1>0
<1>. QED BY <1>5, <1>6

\* find_matching_paren finds the parenthesis that closes the one it begins at.
LEMMA MatchedParen ==
  ASSUME NEW C, NEW s \in Seq(C), NoEscapes(s), NEW i \in 1..Len(s), ~InString(s, i)
  PROVE  FindMatchingParen(s, i) = First1(ClosingAt(s, i))
<1>1. PICK g : /\ IsMatch(g, s)
               /\ \A k : FindMatchingParen(s, k) = g[[at |-> k, depth |-> 0, quoted |-> FALSE]]
  BY MatchScan
<1>2. MatchAt(s, i, i) = [at |-> i, depth |-> 0, quoted |-> FALSE]
  <2>1. InString(s, i) = FALSE
    BY DEF InString, Odd
  <2>2. Depth(s, {"("}, {")"}, i, i - 1) = 0
    <3>1. i \in Int
      OBVIOUS
    <3>. QED BY <3>1, DepthFirst
  <2>. QED BY <2>1, <2>2 DEF MatchAt
<1>3. g[MatchAt(s, i, i)] = First1(ClosingAt(s, i))
  BY <1>1, MatchFrom
<1>. QED BY <1>1, <1>2, <1>3

\* A text is one of its own characters.
LEMMA OwnCharacters ==
  ASSUME NEW C, NEW s \in Seq(C)
  PROVE  s \in Seq(Range(s)) /\ \A i \in 1..Len(s) : s[i] \in Range(s)
<1>1. \A i \in 1..Len(s) : s[i] \in Range(s)
  BY DEF Range
<1>. QED BY <1>1

\* A turn of split_top_level goes on in a state of the scanner.
LEMMA SplitTurn ==
  ASSUME NEW C, NEW s \in Seq(C), NEW x \in SplitStates(s), x.at <= Len(s)
  PROVE  SplitNext(s, x) \in SplitStates(s) /\ SplitNext(s, x).at > x.at
<1> DEFINE D == Range(s)
<1>0. s \in Seq(D)
  BY OwnCharacters
<1>1. x.at \in 1..Len(s) /\ x.depth \in Int /\ x.quoted \in BOOLEAN /\ x.buf \in Seq(D)
  BY DEF SplitStates, Positions
<1>2. TurnEnd(s, x) \in Positions(s) /\ TurnEnd(s, x) > x.at
  BY <1>1, TurnEndType
<1>3. DepthAfter(s, x, Opening, Closing) \in Int
  BY <1>1 DEF DepthAfter
<1>4. QuotedAfter(s, x) \in BOOLEAN
  BY <1>1, Zenon DEF QuotedAfter
<1>5. SubSeq(s, x.at, TurnEnd(s, x) - 1) \in Seq(D)
  <2> DEFINE e == TurnEnd(s, x) - 1
             a == x.at
  <2>1. a \in 1..Len(s) /\ e \in a..Len(s)
    BY <1>1, <1>2 DEF Positions
  <2> HIDE DEF e, D, a
  <2>2. SubSeq(s, a, e) \in Seq(D)
    BY <1>0, <2>1
  <2>. QED BY <2>2 DEF e, a
<1> DEFINE b == IF Separates(s, x) THEN <<>> ELSE x.buf \o SubSeq(s, x.at, TurnEnd(s, x) - 1)
<1>6. b \in Seq(D)
  <2> HIDE DEF D
  <2>1. x.buf \o SubSeq(s, x.at, TurnEnd(s, x) - 1) \in Seq(D)
    BY <1>1, <1>5, ConcatProperties
  <2>. QED BY <2>1
<1>7. SplitNext(s, x) = [at |-> TurnEnd(s, x), depth |-> DepthAfter(s, x, Opening, Closing),
                         quoted |-> QuotedAfter(s, x), buf |-> b]
  BY DEF SplitNext
<1> HIDE DEF b, D
<1>8. SplitNext(s, x) \in [at : Positions(s), depth : Int, quoted : BOOLEAN, buf : Seq(D)]
  BY <1>2, <1>3, <1>4, <1>6, <1>7
<1>. QED BY <1>2, <1>7, <1>8 DEF SplitStates, D

\* g is what split_top_level makes of the rest of the text from each state on.
IsSplit(g, s) ==
  \A x \in SplitStates(s) :
    g[x] = IF x.at > Len(s) THEN <<x.buf>>
           ELSE (IF Separates(s, x) THEN <<x.buf>> ELSE <<>>) \o g[SplitNext(s, x)]

\* split_top_level ends for every text, and its result is what its turns make.
LEMMA SplitScan ==
  ASSUME NEW C, NEW s \in Seq(C)
  PROVE  \E g : IsSplit(g, s) /\ SplitTopLevel(s) = g[[at |-> 1, depth |-> 0, quoted |-> FALSE, buf |-> <<>>]]
<1> DEFINE n == Len(s)
           X == SplitStates(s)
           A == Seq(Seq(Range(s)))
           part(x) == IF Separates(s, x) THEN <<x.buf>> ELSE <<>>
           base == [x \in X |-> <<x.buf>>]
           f == [z \in X \X A |-> part(z[1]) \o z[2]]
           next == [x \in X |-> IF x.at > n THEN x ELSE SplitNext(s, x)]
           Eq(h) == h = [x \in X |-> IF x.at > Len(s) THEN <<x.buf>>
                                     ELSE (IF Separates(s, x) THEN <<x.buf>> ELSE <<>>) \o h[SplitNext(s, x)]]
<1>1. n \in Nat
  OBVIOUS
<1>2. \A x \in X : x.at \in 1..(n + 1) /\ x.buf \in Seq(Range(s))
  BY DEF SplitStates, Positions
<1>3. ScannerStates(X, n)
  BY <1>2 DEF ScannerStates
<1>4. \A x \in X : x.at <= n => next[x] = SplitNext(s, x) /\ next[x] \in X /\ next[x].at > x.at
  <2>. SUFFICES ASSUME NEW x \in X, x.at <= n
       PROVE  next[x] = SplitNext(s, x) /\ next[x] \in X /\ next[x].at > x.at
    OBVIOUS
  <2>1. ~(x.at > n) /\ next[x] = SplitNext(s, x)
    BY <1>1, <1>2
  <2>2. SplitNext(s, x) \in X /\ SplitNext(s, x).at > x.at
    BY SplitTurn
  <2>. QED BY <2>1, <2>2
<1>5. MovesOn(next, X, n)
  <2>1. \A x \in X : x.at > n \/ x.at <= n
    BY <1>1, <1>2
  <2>2. \A x \in X : next[x] \in X
    BY <1>4, <2>1
  <2>3. next \in [X -> X]
    BY <2>2
  <2>. QED BY <1>4, <2>3 DEF MovesOn
<1>6. \A x \in X : <<x.buf>> \in A /\ part(x) \in A
  <2> DEFINE B == Seq(Range(s))
  <2>1. ASSUME NEW x \in X PROVE <<x.buf>> \in Seq(B) /\ <<>> \in Seq(B)
    <3>1. x.buf \in B
      BY <1>2
    <3> HIDE DEF B, X
    <3>. QED BY <3>1
  <2>. QED BY <2>1
<1>7. base \in [X -> A]
  BY <1>6
<1>8. f \in [X \X A -> A] /\ \A x \in X, p \in A : f[<<x, p>>] = part(x) \o p
  <2> DEFINE B == Seq(Range(s))
  <2>1. ASSUME NEW x \in X, NEW p \in A PROVE part(x) \o p \in A
    <3>1. part(x) \in Seq(B) /\ p \in Seq(B)
      BY <1>6
    <3> HIDE DEF B, X, part
    <3>2. part(x) \o p \in Seq(B)
      BY <3>1
    <3>. QED BY <3>2 DEF B
  <2> HIDE DEF A, part, X
  <2>. QED BY <2>1
<1> HIDE DEF base, f, next, n, A, X
<1>9. PICK g : IsScan(g, X, n, A, base, next, f)
  BY <1>1, <1>3, <1>5, <1>7, <1>8, ScanExists
<1>10. ASSUME NEW x \in X
       PROVE  g[x] = IF x.at > n THEN <<x.buf>> ELSE part(x) \o g[SplitNext(s, x)]
  <2>1. CASE x.at > n
    BY <1>9, <2>1 DEF IsScan, base
  <2>2. CASE ~(x.at > n)
    <3>1. x.at <= n
      BY <1>1, <1>2, <2>2
    <3>2. next[x] = SplitNext(s, x) /\ next[x] \in X
      BY <1>4, <3>1
    <3> HIDE DEF part
    <3>3. g[x] = f[<<x, g[next[x]]>>] /\ g[next[x]] \in A
      BY <1>9, <2>2, <3>2 DEF IsScan
    <3>. QED BY <1>8, <2>2, <3>2, <3>3
  <2>. QED BY <2>1, <2>2
<1>11. IsSplit(g, s)
  BY <1>10 DEF IsSplit, X, n
<1>12. Eq(g)
  <2>1. g = [x \in X |-> g[x]]
    BY <1>9 DEF IsScan
  <2>. QED BY <1>10, <2>1 DEF n
<1> DEFINE h == CHOOSE h : Eq(h)
<1>13. Eq(h)
  <2> HIDE DEF Eq
  <2>. QED BY <1>12
<1>14. SplitTopLevel(s) = h[[at |-> 1, depth |-> 0, quoted |-> FALSE, buf |-> <<>>]]
  BY DEF SplitTopLevel, X
<1> HIDE DEF h
<1>15. IsSplit(h, s)
  BY <1>13 DEF IsSplit, X
<1>. QED BY <1>14, <1>15

\* The commas that separate arguments up to position j.
CommasTo(s, j) == Cardinality(Commas(s) \cap (1..j))

\* Commas are counted one by one.
LEMMA CommaCounts ==
  ASSUME NEW C, NEW s \in Seq(C)
  PROVE  /\ Commas(s) \subseteq 1..Len(s)
         /\ CommasTo(s, 0) = 0 /\ CommasTo(s, Len(s)) = Cardinality(Commas(s))
         /\ \A j \in 0..Len(s) : CommasTo(s, j) \in Nat
         /\ \A j \in 1..Len(s) :
              CommasTo(s, j) = CommasTo(s, j - 1) + IF j \in Commas(s) THEN 1 ELSE 0
<1> DEFINE n == Len(s)
           K == Commas(s)
           c == {","}
<1>1. K \subseteq 1..n
  <2> HIDE DEF c
  <2>1. K = {k \in Outside(s, c, 1, n) : Depth(s, Opening, Closing, 1, k) = 0}
    BY DEF Commas, c
  <2>2. Outside(s, c, 1, n) \subseteq 1..n
    BY OutsideIs
  <2> HIDE DEF K
  <2>. QED BY <2>1, <2>2
<1> HIDE DEF K
<1>2. \A j : K \cap (1..j) = {k \in 1..j : k \in K}
  OBVIOUS
<1>3. ASSUME NEW j \in 1..n
      PROVE  /\ Cardinality(K \cap (1..j)) = Cardinality(K \cap (1..(j - 1))) + IF j \in K THEN 1 ELSE 0
             /\ Cardinality(K \cap (1..j)) \in Nat
  <2>1. 1 \in Int /\ j \in Int /\ 1 <= j
    OBVIOUS
  <2>2. /\ Cardinality({k \in 1..j : k \in K}) = Cardinality({k \in 1..(j - 1) : k \in K}) + IF j \in K THEN 1 ELSE 0
        /\ Cardinality({k \in 1..j : k \in K}) \in Nat
    BY <2>1, CountStep
  <2>. QED BY <1>2, <2>2
<1>4. Cardinality(K \cap (1..0)) = 0
  <2>1. K \cap (1..0) = {}
    OBVIOUS
  <2>2. Cardinality({}) = 0
    BY FS_EmptySet
  <2>. QED BY <2>1, <2>2
<1>5. K \cap (1..n) = K
  BY <1>1
<1>6. \A j \in 0..n : Cardinality(K \cap (1..j)) \in Nat
  <2>1. ASSUME NEW j \in 0..n PROVE Cardinality(K \cap (1..j)) \in Nat
    <3>1. CASE j = 0
      BY <1>4, <3>1
    <3>2. CASE j \in 1..n
      BY <1>3, <3>2
    <3>. QED BY <3>1, <3>2
  <2>. QED BY <2>1
<1>. QED BY <1>1, <1>3, <1>4, <1>5, <1>6 DEF K, CommasTo

\* No two commas have the same number.
LEMMA CommaNumbers ==
  ASSUME NEW C, NEW s \in Seq(C)
  PROVE  /\ \A i, j \in 0..Len(s) : i <= j => CommasTo(s, i) <= CommasTo(s, j)
         /\ \A i, j \in Commas(s) : CommasTo(s, i) = CommasTo(s, j) => i = j
<1> DEFINE n == Len(s)
           c == [j \in 0..n |-> CommasTo(s, j)]
           K == Commas(s)
           S == {j \in Nat : j <= n => \A i \in 0..j : c[i] <= c[j]}
<1>0. /\ n \in Nat /\ K \subseteq 1..n /\ \A j \in 0..n : c[j] \in Nat /\ c[j] = CommasTo(s, j)
      /\ \A j \in 1..n : c[j] = c[j - 1] + IF j \in K THEN 1 ELSE 0
  <2>1. n \in Nat /\ \A j \in 0..n : c[j] = CommasTo(s, j)
    OBVIOUS
  <2>2. \A j \in 1..n : j \in 0..n /\ j - 1 \in 0..n
    OBVIOUS
  <2> HIDE DEF c
  <2>. QED BY <2>1, <2>2, CommaCounts
<1> HIDE DEF n, c, K
<1>1. 0 \in S
  BY <1>0
<1>2. ASSUME NEW j \in Nat, j \in S PROVE j + 1 \in S
  <2>. SUFFICES ASSUME j + 1 <= n, NEW i \in 0..(j + 1) PROVE c[i] <= c[j + 1]
    BY <1>2
  <2>1. j + 1 \in 1..n /\ j + 1 - 1 = j /\ j \in 0..n /\ j + 1 \in 0..n /\ i \in 0..n
    BY <1>0
  <2>2. c[j] <= c[j + 1] /\ c[j] \in Nat /\ c[j + 1] \in Nat /\ c[i] \in Nat
    <3>1. c[j + 1] = c[j] + IF j + 1 \in K THEN 1 ELSE 0
      BY <1>0, <2>1
    <3>. QED BY <1>0, <2>1, <3>1
  <2>3. CASE i = j + 1
    BY <2>2, <2>3
  <2>4. CASE i \in 0..j
    <3>1. c[i] <= c[j]
      BY <1>0, <1>2, <2>1, <2>4
    <3>. QED BY <2>2, <3>1
  <2>. QED BY <2>3, <2>4
<1> HIDE DEF S
<1>3. \A j \in Nat : j \in S
  BY <1>1, <1>2, Induction
<1>4. \A i, j \in 0..n : i <= j => c[i] <= c[j]
  <2>. SUFFICES ASSUME NEW i \in 0..n, NEW j \in 0..n, i <= j PROVE c[i] <= c[j]
    OBVIOUS
  <2>1. j \in S /\ i \in 0..j
    BY <1>0, <1>3
  <2>. QED BY <1>0, <2>1 DEF S
<1>5. ASSUME NEW i \in K, NEW j \in K, i < j PROVE c[i] < c[j]
  <2>1. i \in 0..n /\ j \in 1..n /\ j - 1 \in 0..n /\ j \in 0..n /\ i <= j - 1
    BY <1>0, <1>5
  <2>2. c[i] <= c[j - 1]
    BY <1>4, <2>1
  <2>3. c[j] = c[j - 1] + 1
    BY <1>0, <2>1
  <2>4. c[i] \in Nat /\ c[j - 1] \in Nat /\ c[j] \in Nat
    BY <1>0, <2>1
  <2>. QED BY <2>2, <2>3, <2>4
<1>6. ASSUME NEW i \in K, NEW j \in K, c[i] = c[j] PROVE i = j
  <2>1. i \in 1..n /\ j \in 1..n /\ c[i] \in Nat /\ c[j] \in Nat
    BY <1>0
  <2>. QED BY <1>5, <1>6, <2>1
<1>7. \A i \in K : i \in 0..n
  BY <1>0
<1>. QED BY <1>0, <1>4, <1>6, <1>7 DEF n, K

\* The last cut up to a position, the cut at a comma, and the cut at the end.
LEMMA Cuts ==
  ASSUME NEW C, NEW s \in Seq(C)
  PROVE  /\ \A j \in Commas(s) : Cut(s, CommasTo(s, j)) = j
         /\ \A j \in 0..Len(s) : Cut(s, CommasTo(s, j)) \in 0..j
         /\ Cut(s, Cardinality(Commas(s)) + 1) = Len(s) + 1
<1> DEFINE n == Len(s)
           K == Commas(s)
           c(j) == CommasTo(s, j)
           M == Cardinality(K)
           S == {j \in Nat : j <= n => Cut(s, c(j)) \in 0..j}
<1>0. /\ n \in Nat /\ K \subseteq 1..n /\ c(0) = 0 /\ c(n) = M
      /\ \A j \in 0..n : c(j) \in Nat
      /\ \A j \in 1..n : c(j) = c(j - 1) + IF j \in K THEN 1 ELSE 0
      /\ \A i, j \in 0..n : i <= j => c(i) <= c(j)
      /\ \A i, j \in K : c(i) = c(j) => i = j
  BY CommaCounts, CommaNumbers
<1>1. \A k : Cut(s, k) = IF k = 0 THEN 0 ELSE IF k > M THEN n + 1 ELSE CHOOSE j \in K : c(j) = k
  BY DEF Cut, CommasTo
<1> HIDE DEF n, K, c, M
<1>2. ASSUME NEW j \in K PROVE Cut(s, c(j)) = j
  <2>1. j \in 1..n /\ j \in 0..n /\ j - 1 \in 0..n /\ n \in 0..n /\ j <= n
    BY <1>0
  <2>2. c(j) = c(j - 1) + 1 /\ c(j - 1) \in Nat /\ c(j) \in Nat /\ c(j) <= M /\ M \in Nat
    BY <1>0, <2>1
  <2>3. c(j) # 0 /\ ~(c(j) > M)
    BY <2>2
  <2>4. (CHOOSE i \in K : c(i) = c(j)) = j
    BY <1>0
  <2>. QED BY <1>1, <2>3, <2>4
<1>3. \A j \in 0..n : Cut(s, c(j)) \in 0..j
  <2>1. 0 \in S
    BY <1>0, <1>1
  <2>2. ASSUME NEW j \in Nat, j \in S PROVE j + 1 \in S
    <3>. SUFFICES ASSUME j + 1 <= n PROVE Cut(s, c(j + 1)) \in 0..(j + 1)
      OBVIOUS
    <3>1. j + 1 \in 1..n /\ j + 1 - 1 = j /\ j \in 0..n
      BY <1>0
    <3>2. CASE j + 1 \in K
      BY <1>2, <3>2
    <3>3. CASE j + 1 \notin K
      <4>1. c(j + 1) = c(j) /\ Cut(s, c(j)) \in 0..j
        <5>1. c(j + 1) = c(j) + 0 /\ c(j) \in Nat
          BY <1>0, <3>1, <3>3
        <5>2. Cut(s, c(j)) \in 0..j
          BY <1>0, <2>2, <3>1
        <5>. QED BY <5>1, <5>2
      <4>. QED BY <4>1
    <3>. QED BY <3>2, <3>3
  <2> HIDE DEF S
  <2>3. \A j \in Nat : j \in S
    BY <2>1, <2>2, Induction
  <2>4. ASSUME NEW j \in 0..n PROVE Cut(s, c(j)) \in 0..j
    <3>1. j \in Nat /\ j <= n /\ j \in S
      BY <1>0, <2>3
    <3>. QED BY <3>1 DEF S
  <2>. QED BY <2>4
<1>4. Cut(s, M + 1) = n + 1
  <2>1. M \in Nat
    BY <1>0
  <2>2. M + 1 # 0 /\ M + 1 > M
    BY <2>1
  <2>. QED BY <1>1, <2>2
<1>. QED BY <1>2, <1>3, <1>4 DEF n, K, c, M

\* The k-th argument of a text.
Argument(s, k) == SubSeq(s, Cut(s, k - 1) + 1, Cut(s, k) - 1)

\* A list of N elements F without the first m.
RestOf(F, N, m) == [k \in 1..(N - m) |-> F[k + m]]

\* The arguments after the first m of them.
ArgumentsFrom(s, m) ==
  LET N == Cardinality(Commas(s)) + 1
  IN RestOf([k \in 1..N |-> Argument(s, k)], N, m)

\* The state of split_top_level when it comes to j.
SplitAt(s, j) ==
  [at |-> j, depth |-> Depth(s, Opening, Closing, 1, j - 1), quoted |-> InString(s, j),
   buf |-> SubSeq(s, Cut(s, CommasTo(s, j - 1)) + 1, j - 1)]

\* That is a state of the scanner.
LEMMA SplitAtType ==
  ASSUME NEW C, NEW s \in Seq(C), NEW j \in 1..(Len(s) + 1)
  PROVE  SplitAt(s, j) \in SplitStates(s)
<1> DEFINE D == Range(s)
           a == Cut(s, CommasTo(s, j - 1)) + 1
           d == Depth(s, Opening, Closing, 1, j - 1)
<1>0. s \in Seq(D) /\ Len(s) \in Nat
  BY OwnCharacters
<1>1. Opening \cap Closing = {}
  BY DEF Opening, Closing
<1>2. d \in Int
  <2>1. 1 \in Int /\ j \in Int /\ 1 <= j
    OBVIOUS
  <2>. QED BY <1>1, <2>1, DepthStep
<1>3. a \in 1..j
  <2>1. j - 1 \in 0..Len(s)
    OBVIOUS
  <2>2. Cut(s, CommasTo(s, j - 1)) \in 0..(j - 1)
    BY <2>1, Cuts
  <2>. QED BY <2>2
<1>4. InString(s, j) \in BOOLEAN
  BY DEF InString, Odd
<1>5. SubSeq(s, a, j - 1) \in Seq(D)
  <2> HIDE DEF a, d, D
  <2>1. a \in Int /\ j - 1 \in Int /\ \A i \in a..(j - 1) : i \in 1..Len(s)
    BY <1>0, <1>3
  <2>2. \A i \in a..(j - 1) : s[i] \in D
    BY <1>0, <2>1
  <2>. QED BY <2>1, <2>2, SubSeqProperties
<1>6. SplitAt(s, j) = [at |-> j, depth |-> d, quoted |-> InString(s, j), buf |-> SubSeq(s, a, j - 1)]
  BY DEF SplitAt
<1> HIDE DEF a, d, D
<1>7. j \in Positions(s)
  BY DEF Positions
<1>. QED BY <1>2, <1>4, <1>5, <1>6, <1>7 DEF SplitStates, D

\* The text up to a position, and the character there.
LEMMA Longer ==
  ASSUME NEW D, NEW s \in Seq(D), NEW j \in 1..Len(s), NEW a \in 1..j
  PROVE  SubSeq(s, a, j - 1) \o SubSeq(s, j, j) = SubSeq(s, a, j)
<1> DEFINE u == SubSeq(s, a, j - 1)
           v == SubSeq(s, j, j)
           w == SubSeq(s, a, j)
<1>1. u \in Seq(D) /\ Len(u) = j - a /\ \A i \in 1..(j - a) : u[i] = s[a + i - 1]
  OBVIOUS
<1>2. v \in Seq(D) /\ Len(v) = 1 /\ v[1] = s[j]
  OBVIOUS
<1>3. w \in Seq(D) /\ Len(w) = j - a + 1 /\ \A i \in 1..(j - a + 1) : w[i] = s[a + i - 1]
  OBVIOUS
<1> HIDE DEF u, v, w
<1> DEFINE r == u \o v
<1>4. r \in Seq(D) /\ Len(r) = Len(u) + Len(v)
      /\ \A i \in 1..(Len(u) + Len(v)) : r[i] = IF i <= Len(u) THEN u[i] ELSE v[i - Len(u)]
  BY <1>1, <1>2, ConcatProperties
<1> HIDE DEF r
<1>5. \A i \in 1..(j - a + 1) : r[i] = w[i]
  <2>. SUFFICES ASSUME NEW i \in 1..(j - a + 1) PROVE r[i] = w[i]
    OBVIOUS
  <2>1. i \in 1..(Len(u) + Len(v)) /\ i \in Int /\ j - a \in Nat
    BY <1>1, <1>2
  <2>2. CASE i <= j - a
    <3>1. i \in 1..(j - a)
      BY <2>1, <2>2
    <3>. QED BY <1>1, <1>3, <1>4, <2>1, <2>2, <3>1
  <2>3. CASE i = j - a + 1
    <3>1. ~(i <= Len(u)) /\ i - Len(u) = 1 /\ a + i - 1 = j
      BY <1>1, <2>1, <2>3
    <3>2. r[i] = s[j]
      BY <1>2, <1>4, <2>1, <3>1
    <3>. QED BY <1>3, <3>1, <3>2
  <2>. QED BY <2>1, <2>2, <2>3
<1>6. Len(r) = j - a + 1
  BY <1>1, <1>2, <1>4
<1>7. r = w
  BY <1>3, <1>4, <1>5, <1>6, SeqEqual
<1>. QED BY <1>7 DEF r, u, v, w

\* Without escapes split_top_level goes from character to character.
LEMMA SplitStep ==
  ASSUME NEW C, NEW s \in Seq(C), NoEscapes(s), NEW j \in 1..Len(s)
  PROVE  /\ SplitNext(s, SplitAt(s, j)) = SplitAt(s, j + 1)
         /\ Separates(s, SplitAt(s, j)) <=> j \in Commas(s)
<1> DEFINE x == SplitAt(s, j)
           m == CommasTo(s, j - 1)
           a == Cut(s, m) + 1
           d == Depth(s, Opening, Closing, 1, j - 1)
           e == IF ~InString(s, j) /\ s[j] \in Opening THEN 1
                ELSE IF ~InString(s, j) /\ s[j] \in Closing THEN -1 ELSE 0
<1>0. /\ 1 \in Int /\ j \in Int /\ 1 <= j /\ j \in Nat /\ j > 0 /\ j + 1 - 1 = j
      /\ j - 1 \in 0..Len(s) /\ j \in 0..Len(s) /\ Len(s) \in Nat
  OBVIOUS
<1>1. x.at = j /\ x.depth = d /\ x.quoted = InString(s, j) /\ x.buf = SubSeq(s, a, j - 1)
  BY DEF SplitAt
<1>2. Opening \cap Closing = {}
  BY DEF Opening, Closing
<1>3. Depth(s, Opening, Closing, 1, j) = d + e /\ d \in Int
  <2> DEFINE i == 1
             o == Opening
             c == Closing
  <2>1. i \in Int /\ i <= j /\ o \cap c = {}
    BY <1>2
  <2> HIDE DEF i, o, c
  <2>2. /\ Depth(s, o, c, i, j) = Depth(s, o, c, i, j - 1) +
               IF ~InString(s, j) /\ s[j] \in o THEN 1
               ELSE IF ~InString(s, j) /\ s[j] \in c THEN -1 ELSE 0
        /\ Depth(s, o, c, i, j - 1) \in Int
    BY <1>0, <2>1, DepthStep
  <2>. QED BY <2>2 DEF i, o, c
<1>4. DepthAfter(s, x, Opening, Closing) = Depth(s, Opening, Closing, 1, j)
  <2> HIDE DEF x, e, d
  <2>1. DepthAfter(s, x, Opening, Closing) = x.depth + e
    BY <1>1, DepthAfterIs DEF e
  <2>. QED BY <1>1, <1>3, <2>1
<1>5. QuotedAfter(s, x) = InString(s, j + 1)
  <2> HIDE DEF x, e
  <2>1. QuotedAfter(s, x) = InString(s, x.at + 1)
    BY <1>0, <1>1, QuotedAfterIs
  <2>. QED BY <1>1, <2>1
<1>6. TurnEnd(s, x) = j + 1
  <2> HIDE DEF x, e
  <2>1. s[x.at] # "\\" /\ x.at \in 1..Len(s)
    BY <1>0, <1>1 DEF NoEscapes
  <2>2. TurnEnd(s, x) = x.at + 1
    BY <2>1, TurnEndType
  <2>. QED BY <1>1, <2>2
<1>7. j \in Commas(s) <=> ~InString(s, j) /\ s[j] = "," /\ Depth(s, Opening, Closing, 1, j) = 0
  <2> DEFINE c == {","}
  <2>0. s[j] \in c <=> s[j] = ","
    OBVIOUS
  <2> HIDE DEF c
  <2>1. Commas(s) = {k \in Outside(s, c, 1, Len(s)) : Depth(s, Opening, Closing, 1, k) = 0}
    BY DEF Commas, c
  <2>2. j \in 1..Len(s)
    OBVIOUS
  <2> HIDE DEF x, e, d
  <2>. QED BY <2>0, <2>1, <2>2, OutsideIs
<1>8. Separates(s, x) <=> ~InString(s, j) /\ s[j] = "," /\ d = 0
  <2>1. Separates(s, x) <=> ~x.quoted /\ s[x.at] = "," /\ x.depth = 0
    BY DEF Separates, Splits
  <2> HIDE DEF x, e, d
  <2>. QED BY <1>1, <2>1
<1>9. s[j] = "," => Depth(s, Opening, Closing, 1, j) = d
  <2>1. s[j] = "," => s[j] \notin Opening /\ s[j] \notin Closing
    BY DEF Opening, Closing
  <2> HIDE DEF d, x
  <2>2. s[j] = "," => e = 0
    BY <2>1
  <2> HIDE DEF e
  <2>3. ASSUME s[j] = "," PROVE Depth(s, Opening, Closing, 1, j) = d
    <3>1. e = 0
      BY <2>2, <2>3
    <3>. QED BY <1>3, <3>1
  <2>. QED BY <2>3
<1>10. Separates(s, x) <=> j \in Commas(s)
  <2> HIDE DEF x, d
  <2>. QED BY <1>7, <1>8, <1>9
<1>11. a \in 1..j
  <2>1. Cut(s, m) \in 0..(j - 1)
    BY <1>0, Cuts
  <2>. QED BY <2>1
<1> DEFINE b == IF Separates(s, x) THEN <<>> ELSE x.buf \o SubSeq(s, x.at, TurnEnd(s, x) - 1)
           b1 == SubSeq(s, Cut(s, CommasTo(s, j)) + 1, j)
<1>12. b = b1
  <2>1. m \in Nat /\ CommasTo(s, j) = m + IF j \in Commas(s) THEN 1 ELSE 0
    BY <1>0, CommaCounts
  <2>2. CASE j \in Commas(s)
    <3>1. Cut(s, CommasTo(s, j)) = j
      BY <2>2, Cuts
    <3>2. b1 = <<>>
      <4>1. SubSeq(s, j + 1, j) = <<>>
        BY <1>0, SubSeqEmpty
      <4>. QED BY <3>1, <4>1
    <3>. QED BY <1>10, <2>2, <3>2
  <2>3. CASE j \notin Commas(s)
    <3> HIDE DEF x, a, m
    <3>1. CommasTo(s, j) = m
      BY <2>1, <2>3
    <3>2. b = SubSeq(s, a, j - 1) \o SubSeq(s, j, j)
      <4>1. b = x.buf \o SubSeq(s, x.at, TurnEnd(s, x) - 1)
        BY <1>10, <2>3
      <4>2. TurnEnd(s, x) - 1 = j
        BY <1>0, <1>6
      <4> HIDE DEF b
      <4>. QED BY <1>1, <4>1, <4>2
    <3> HIDE DEF b
    <3>3. b = SubSeq(s, a, j)
      BY <1>11, <3>2, OwnCharacters, Longer
    <3>. QED BY <3>1, <3>3 DEF a
  <2>. QED BY <2>2, <2>3
<1>13. SplitNext(s, x) = [at |-> TurnEnd(s, x), depth |-> DepthAfter(s, x, Opening, Closing),
                          quoted |-> QuotedAfter(s, x), buf |-> b]
  BY DEF SplitNext
<1>14. SplitAt(s, j + 1) = [at |-> j + 1, depth |-> Depth(s, Opening, Closing, 1, j),
                            quoted |-> InString(s, j + 1), buf |-> b1]
  BY <1>0 DEF SplitAt
<1> HIDE DEF x, a, b, b1, e, d, m
<1>15. SplitNext(s, x) = SplitAt(s, j + 1)
  BY <1>4, <1>5, <1>6, <1>12, <1>13, <1>14
<1>. QED BY <1>10, <1>15 DEF x

\* The rest of a list is its next element and the rest after it.
LEMMA RestOfList ==
  ASSUME NEW T, NEW N \in Nat, NEW F \in [1..N -> T], NEW m \in 0..(N - 1)
  PROVE  RestOf(F, N, m) = <<F[m + 1]>> \o RestOf(F, N, m + 1) /\ RestOf(F, N, m) \in Seq(T)
<1> DEFINE u == RestOf(F, N, m)
           v == <<F[m + 1]>>
           w == RestOf(F, N, m + 1)
           r == v \o w
<1>1. u \in Seq(T) /\ Len(u) = N - m /\ \A k \in 1..(N - m) : u[k] = F[k + m]
  BY DEF RestOf
<1>2. v \in Seq(T) /\ Len(v) = 1 /\ v[1] = F[m + 1]
  OBVIOUS
<1>3. /\ w \in Seq(T) /\ Len(w) = N - (m + 1)
      /\ \A k \in 1..(N - (m + 1)) : w[k] = F[k + (m + 1)]
  BY DEF RestOf
<1> HIDE DEF u, v, w
<1>0. v \in Seq(T) /\ w \in Seq(T)
  BY <1>2, <1>3
<1>4. /\ r \in Seq(T) /\ Len(r) = Len(v) + Len(w)
      /\ \A k \in 1..(Len(v) + Len(w)) : r[k] = IF k <= Len(v) THEN v[k] ELSE w[k - Len(v)]
  BY <1>0, ConcatProperties
<1> HIDE DEF r
<1>5. \A k \in 1..(N - m) : u[k] = r[k]
  <2>. SUFFICES ASSUME NEW k \in 1..(N - m) PROVE u[k] = r[k]
    OBVIOUS
  <2>1. k \in 1..(Len(v) + Len(w)) /\ k \in Int
    BY <1>2, <1>3
  <2>2. CASE k = 1
    <3>1. k <= Len(v) /\ k + m = m + 1
      BY <1>2, <2>2
    <3>. QED BY <1>1, <1>2, <1>4, <2>1, <2>2, <3>1
  <2>3. CASE k # 1
    <3>1. ~(k <= Len(v)) /\ k - 1 \in 1..(N - (m + 1)) /\ k - 1 + (m + 1) = k + m /\ k - Len(v) = k - 1
      BY <1>2, <2>1, <2>3
    <3>. QED BY <1>1, <1>3, <1>4, <2>1, <3>1
  <2>. QED BY <2>2, <2>3
<1>6. Len(r) = N - m
  BY <1>2, <1>3, <1>4
<1>7. u = r
  BY <1>1, <1>4, <1>5, <1>6, SeqEqual
<1>. QED BY <1>1, <1>7 DEF u, v, w, r

\* The arguments after the first m are the next one and those after it.
LEMMA RestOfArguments ==
  ASSUME NEW C, NEW s \in Seq(C)
  PROVE  LET M == Cardinality(Commas(s)) IN
         /\ M \in Nat
         /\ ArgumentsFrom(s, M) = <<Argument(s, M + 1)>>
         /\ \A m \in 0..M : <<>> \o ArgumentsFrom(s, m) = ArgumentsFrom(s, m)
         /\ \A m \in 0..(M - 1) :
              ArgumentsFrom(s, m) = <<Argument(s, m + 1)>> \o ArgumentsFrom(s, m + 1)
<1> DEFINE M == Cardinality(Commas(s))
           T == {Argument(s, k) : k \in 1..(M + 1)}
           F == [k \in 1..(M + 1) |-> Argument(s, k)]
           N == M + 1
<1>1. M \in Nat
  <2>1. Len(s) \in 0..Len(s)
    OBVIOUS
  <2>. QED BY <2>1, CommaCounts
<1> HIDE DEF M
<1>2. N \in Nat /\ F \in [1..N -> T] /\ \A k \in 1..N : F[k] = Argument(s, k)
  BY <1>1
<1>3. ASSUME NEW m \in 0..(N - 1)
      PROVE  ArgumentsFrom(s, m) = RestOf(F, N, m)
  BY DEF ArgumentsFrom, M
<1> HIDE DEF T, F, N
<1>4. ASSUME NEW m \in 0..M
      PROVE  ArgumentsFrom(s, m) \in Seq(T) /\ <<>> \o ArgumentsFrom(s, m) = ArgumentsFrom(s, m)
  <2>1. m \in 0..(N - 1)
    BY <1>1 DEF N
  <2>2. RestOf(F, N, m) \in Seq(T)
    BY <1>2, <2>1, RestOfList
  <2>. QED BY <1>3, <2>1, <2>2, ConcatEmptySeq
<1>5. ASSUME NEW m \in 0..(M - 1)
      PROVE  ArgumentsFrom(s, m) = <<Argument(s, m + 1)>> \o ArgumentsFrom(s, m + 1)
  <2>1. m \in 0..(N - 1) /\ m + 1 \in 0..(N - 1) /\ m + 1 \in 1..N
    BY <1>1 DEF N
  <2>2. RestOf(F, N, m) = <<F[m + 1]>> \o RestOf(F, N, m + 1)
    BY <1>2, <2>1, RestOfList
  <2>3. F[m + 1] = Argument(s, m + 1)
    BY <1>2, <2>1
  <2>. QED BY <1>3, <2>1, <2>2, <2>3
<1>6. ArgumentsFrom(s, M) = <<Argument(s, M + 1)>>
  <2> DEFINE q == <<Argument(s, M + 1)>>
             p == ArgumentsFrom(s, M)
  <2>1. p = [k \in 1..1 |-> Argument(s, k + M)]
    <3>1. M + 1 - M = 1 /\ M \in 0..(M + 1 - 1) /\ \A k \in 1..1 : k + M \in 1..(M + 1)
      BY <1>1
    <3>2. p = RestOf(F, N, M)
      BY <1>3, <3>1 DEF N
    <3>3. p = [k \in 1..1 |-> F[k + M]]
      BY <3>1, <3>2 DEF RestOf, N
    <3>. QED BY <1>2, <3>1, <3>3 DEF N
  <2>2. q = [k \in 1..1 |-> Argument(s, M + 1)]
    OBVIOUS
  <2>3. \A k \in 1..1 : k + M = M + 1
    BY <1>1
  <2>. QED BY <2>1, <2>2, <2>3
<1>. QED BY <1>1, <1>4, <1>5, <1>6 DEF M

\* From position j on split_top_level makes the argument it is in, and the next ones.
LEMMA SplitFrom ==
  ASSUME NEW C, NEW s \in Seq(C), NoEscapes(s), NEW g, IsSplit(g, s)
  PROVE  g[SplitAt(s, 1)] = ArgumentsFrom(s, 0)
<1> DEFINE n == Len(s)
           K == Commas(s)
           M == Cardinality(K)
           c(j) == CommasTo(s, j)
           S == {j \in Int : g[SplitAt(s, j)] = ArgumentsFrom(s, c(j - 1))}
<1>0. /\ n \in Nat /\ K \subseteq 1..n /\ c(0) = 0 /\ c(n) = M /\ M \in Nat
      /\ \A j \in 0..n : c(j) \in Nat /\ c(j) <= M
      /\ \A j \in 1..n : c(j) = c(j - 1) + IF j \in K THEN 1 ELSE 0
  <2>1. n \in Nat /\ n \in 0..n /\ \A j \in 0..n : j <= n
    OBVIOUS
  <2>2. \A i, j \in 0..n : i <= j => c(i) <= c(j)
    BY CommaNumbers
  <2>3. c(n) = M
    BY CommaCounts
  <2>4. \A j \in 0..n : c(j) <= c(n)
    BY <2>1, <2>2
  <2>5. \A j \in 0..n : c(j) \in Nat
    BY CommaCounts
  <2>6. K \subseteq 1..n /\ c(0) = 0
    BY CommaCounts
  <2>7. \A j \in 1..n : c(j) = c(j - 1) + IF j \in K THEN 1 ELSE 0
    BY CommaCounts
  <2> HIDE DEF n, K, M, c
  <2>. QED BY <2>1, <2>3, <2>4, <2>5, <2>6, <2>7
<1>1. \A j \in 1..(n + 1) : SplitAt(s, j) \in SplitStates(s) /\ SplitAt(s, j).at = j
  BY SplitAtType DEF SplitAt
<1>2. \A j \in 1..(n + 1) : SplitAt(s, j).buf = SubSeq(s, Cut(s, c(j - 1)) + 1, j - 1)
  BY DEF SplitAt
<1>3. \A j \in 1..n : SplitNext(s, SplitAt(s, j)) = SplitAt(s, j + 1) /\ (Separates(s, SplitAt(s, j)) <=> j \in K)
  BY SplitStep
<1>4. /\ \A j \in K : Cut(s, c(j)) = j
      /\ Cut(s, M + 1) = n + 1
  BY Cuts
<1>5. \A k : Argument(s, k) = SubSeq(s, Cut(s, k - 1) + 1, Cut(s, k) - 1)
  BY DEF Argument
<1>6. /\ ArgumentsFrom(s, M) = <<Argument(s, M + 1)>>
      /\ \A m \in 0..M : <<>> \o ArgumentsFrom(s, m) = ArgumentsFrom(s, m)
      /\ \A m \in 0..(M - 1) :
              ArgumentsFrom(s, m) = <<Argument(s, m + 1)>> \o ArgumentsFrom(s, m + 1)
  BY RestOfArguments
<1>7. \A x \in SplitStates(s) :
        g[x] = IF x.at > n THEN <<x.buf>>
               ELSE (IF Separates(s, x) THEN <<x.buf>> ELSE <<>>) \o g[SplitNext(s, x)]
  BY DEF IsSplit
<1> HIDE DEF n, K, M, c
<1>8. n + 1 \in S
  <2>1. n + 1 \in 1..(n + 1) /\ n + 1 > n /\ n + 1 - 1 = n /\ (M + 1) - 1 = M
    BY <1>0
  <2>2. g[SplitAt(s, n + 1)] = <<SubSeq(s, Cut(s, M) + 1, n)>>
    <3> DEFINE x == SplitAt(s, n + 1)
    <3>1. x \in SplitStates(s) /\ x.at > n /\ x.buf = SubSeq(s, Cut(s, M) + 1, n)
      BY <1>0, <1>1, <1>2, <2>1
    <3> HIDE DEF x
    <3>2. g[x] = <<x.buf>>
      BY <1>7, <3>1
    <3>. QED BY <3>1, <3>2 DEF x
  <2>3. Argument(s, M + 1) = SubSeq(s, Cut(s, M) + 1, n)
    <3>1. Argument(s, M + 1) = SubSeq(s, Cut(s, (M + 1) - 1) + 1, Cut(s, M + 1) - 1)
      BY DEF Argument
    <3>2. Cut(s, M + 1) - 1 = n
      BY <1>0, <1>4
    <3>. QED BY <2>1, <3>1, <3>2
  <2>4. g[SplitAt(s, n + 1)] = ArgumentsFrom(s, c(n + 1 - 1))
    BY <1>0, <1>6, <2>1, <2>2, <2>3
  <2>. QED BY <1>0, <2>4
<1>9. ASSUME NEW j \in 1..n, \A i \in (j + 1)..(n + 1) : i \in S PROVE j \in S
  <2>1. /\ j \in 1..(n + 1) /\ ~(j > n) /\ j + 1 \in (j + 1)..(n + 1) /\ j + 1 - 1 = j /\ j \in Int
        /\ j \in 0..n /\ j - 1 \in 0..n
    BY <1>0
  <2>2. g[SplitAt(s, j + 1)] = ArgumentsFrom(s, c(j))
    <3>1. j + 1 \in S
      BY <1>9, <2>1
    <3>. QED BY <2>1, <3>1
  <2> DEFINE x == SplitAt(s, j)
             m == c(j - 1)
  <2>3. g[x] = (IF j \in K THEN <<x.buf>> ELSE <<>>) \o ArgumentsFrom(s, c(j))
    <3>1. x \in SplitStates(s) /\ ~(x.at > n)
      BY <1>1, <2>1
    <3>2. SplitNext(s, x) = SplitAt(s, j + 1) /\ (Separates(s, x) <=> j \in K)
      BY <1>3
    <3> HIDE DEF x
    <3>. QED BY <1>7, <2>2, <3>1, <3>2
  <2>4. x.buf = SubSeq(s, Cut(s, m) + 1, j - 1)
    BY <1>2, <2>1
  <2>5. m \in Nat /\ m <= M /\ c(j) \in Nat /\ c(j) <= M /\ c(j) = m + IF j \in K THEN 1 ELSE 0
    BY <1>0, <2>1
  <2> HIDE DEF x, m
  <2>6. g[x] = ArgumentsFrom(s, m)
    <3>1. CASE j \in K
      <4>1. c(j) = m + 1 /\ m \in 0..(M - 1) /\ (m + 1) - 1 = m /\ Cut(s, m + 1) = j
        <5>1. c(j) = m + 1
          BY <2>5, <3>1
        <5>2. m \in 0..(M - 1) /\ (m + 1) - 1 = m
          BY <1>0, <2>5, <5>1
        <5>. QED BY <1>4, <3>1, <5>1, <5>2
      <4>2. Argument(s, m + 1) = x.buf
        <5>1. Argument(s, m + 1) = SubSeq(s, Cut(s, (m + 1) - 1) + 1, Cut(s, m + 1) - 1)
          BY DEF Argument
        <5>. QED BY <2>4, <4>1, <5>1
      <4>. QED BY <1>6, <2>3, <3>1, <4>1, <4>2
    <3>2. CASE j \notin K
      <4>1. c(j) = m /\ m \in 0..M
        BY <1>0, <2>5, <3>2
      <4>. QED BY <1>6, <2>3, <3>2, <4>1
    <3>. QED BY <3>1, <3>2
  <2>. QED BY <2>1, <2>6 DEF x, m
<1> HIDE DEF S
<1>10. \A j \in 1..(n + 1) : j \in S
  BY <1>0, <1>8, <1>9, BackInduction
<1>11. 1 \in 1..(n + 1) /\ 1 - 1 = 0
  BY <1>0
<1>12. g[SplitAt(s, 1)] = ArgumentsFrom(s, c(1 - 1))
  BY <1>10, <1>11 DEF S
<1>. QED BY <1>0, <1>11, <1>12

\* split_top_level makes the texts between the commas that separate arguments.
LEMMA SplitParts ==
  ASSUME NEW C, NEW s \in Seq(C), NoEscapes(s)
  PROVE  SplitTopLevel(s) = ArgumentsFrom(s, 0)
<1>1. PICK g : /\ IsSplit(g, s)
               /\ SplitTopLevel(s) = g[[at |-> 1, depth |-> 0, quoted |-> FALSE, buf |-> <<>>]]
  BY SplitScan
<1>2. SplitAt(s, 1) = [at |-> 1, depth |-> 0, quoted |-> FALSE, buf |-> <<>>]
  <2>1. Depth(s, Opening, Closing, 1, 1 - 1) = 0
    <3>1. 1 \in Int
      OBVIOUS
    <3>. QED BY <3>1, DepthFirst
  <2>2. SubSeq(s, Cut(s, CommasTo(s, 1 - 1)) + 1, 1 - 1) = <<>>
    <3>1. 1 - 1 = 0 /\ CommasTo(s, 0) = 0 /\ Cut(s, 0) = 0 /\ 0 + 1 = 1
      BY CommaCounts DEF Cut
    <3>2. SubSeq(s, 1, 0) = <<>>
      BY SubSeqEmpty
    <3>. QED BY <3>1, <3>2
  <2>3. InString(s, 1) = FALSE
    BY InStringFirst
  <2>. QED BY <2>1, <2>2, <2>3, Zenon DEF SplitAt
<1>3. g[SplitAt(s, 1)] = ArgumentsFrom(s, 0)
  BY <1>1, SplitFrom
<1>. QED BY <1>1, <1>2, <1>3

\* The closing parenthesis is the first one at which the text is balanced, and
\* arguments are the text between the commas outside all brackets and strings
\* (find_matching_paren, split_top_level), for a text of any length without escapes.
THEOREM ArgumentsAreExact == Spec => []ArgumentsExact
<1>1. ScannedInv => ArgumentsExact
  <2>. SUFFICES ASSUME scanned \in Seq(Alphabet), \A i \in DOMAIN scanned : scanned[i] # "\\"
       PROVE  /\ \A i \in Outside(scanned, {"("}, 1, Len(scanned)) :
                   FindMatchingParen(scanned, i) = First1(ClosingAt(scanned, i))
              /\ SplitTopLevel(scanned) =
                   [k \in 1..(Cardinality(Commas(scanned)) + 1) |-> Argument(scanned, k)]
    BY DEF ScannedInv, ArgumentsExact, First1, Argument
  <2>1. NoEscapes(scanned)
    BY DEF NoEscapes
  <2>2. ASSUME NEW i \in Outside(scanned, {"("}, 1, Len(scanned))
        PROVE  FindMatchingParen(scanned, i) = First1(ClosingAt(scanned, i))
    <3> DEFINE o == {"("}
    <3>1. i \in Outside(scanned, o, 1, Len(scanned))
      OBVIOUS
    <3> HIDE DEF o
    <3>2. i \in 1..Len(scanned) /\ ~InString(scanned, i)
      BY <3>1, OutsideIs
    <3>. QED BY <2>1, <3>2, MatchedParen
  <2>3. SplitTopLevel(scanned) = ArgumentsFrom(scanned, 0)
    BY <2>1, SplitParts
  <2>4. ArgumentsFrom(scanned, 0) = [k \in 1..(Cardinality(Commas(scanned)) + 1) |-> Argument(scanned, k)]
    <3>1. Cardinality(Commas(scanned)) \in Nat
      BY RestOfArguments
    <3> DEFINE N == Cardinality(Commas(scanned)) + 1
               F == [k \in 1..N |-> Argument(scanned, k)]
    <3>2. N \in Nat /\ F = [k \in 1..N |-> F[k]]
      BY <3>1
    <3>3. ArgumentsFrom(scanned, 0) = RestOf(F, N, 0)
      BY DEF ArgumentsFrom
    <3> HIDE DEF N, F
    <3>4. RestOf(F, N, 0) = F
      <4>1. N - 0 = N /\ \A k \in 1..N : k + 0 = k
        BY <3>2
      <4>. QED BY <3>2, <4>1 DEF RestOf
    <3>. QED BY <3>3, <3>4 DEF N, F
  <2>. QED BY <2>2, <2>3, <2>4
<1>. QED BY <1>1, ScannedAlways, PTL
=============================================================================
