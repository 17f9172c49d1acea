--------------------------- MODULE MCCollections ----------------------------
(***************************************************************************)
(* Collections on words of two bits: int and a 64-bit key are one word,    *)
(* vectors of three bits and more have limbs.                              *)
(***************************************************************************)
EXTENDS Collections

CONSTANTS b, s

AllOf(w) == {FromBits(w, LAMBDA i : f[i]) : f \in [0..(w - 1) -> Bit]}
KnownOf(w) == {FromBits(w, LAMBDA i : f[i]) : f \in [0..(w - 1) -> {"0", "1"}]}

\* Every vector of one word, the known vectors of a limb and a bit, and vectors of
\* two and three limbs with one bit unlike the others.
MCSamples ==
  AllOf(1) \cup AllOf(2) \cup KnownOf(3) \cup
  {FromBits(w, LAMBDA i : IF i = j THEN x ELSE "1") : w \in {4, 5}, j \in {0, 3}, x \in Bit} \cup
  {FromBits(w, LAMBDA i : IF i = 2 THEN x ELSE "0") : w \in {4, 5}, x \in {"1", "x"}}

\* Two vectors, a list of lists and a static list, or a map and a static map.
MCDeclarations ==
  {[x \in Slots |-> "vector"],
   [x \in Slots |-> IF x = b THEN "lists" ELSE "ints"], [x \in Slots |-> "map"]}

MCElements == {FromU64(1, 2)}

\* 1'b0, 1'b1 (negative read as signed), 2'd1, and a string.
MCIndices == {Logic(FromU64(0, 1)), Logic(FromU64(1, 1)), Logic(FromU64(1, 2)), [str |-> 1]}
=============================================================================
