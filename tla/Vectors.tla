------------------------------ MODULE Vectors -------------------------------
(***************************************************************************)
(* What the vector operations of LogicVec compute, against definitions     *)
(* over single bits and integers.  A law is a predicate on operands; the   *)
(* runs check it of the vectors in the registers.                          *)
(***************************************************************************)
EXTENDS LogicVec

BitAt(v, i) == IF i < v.width THEN GetBit(v, i) ELSE "0"
Unsigned(v) == MapThenSumSet(LAMBDA i : 2^i, {i \in 0..(v.width - 1) : GetBit(v, i) = "1"})
Signed(v) == IF GetBit(v, v.width - 1) = "1" THEN Unsigned(v) - 2^v.width ELSE Unsigned(v)

IsOneBit(v, truth) == v = FromBit(IF truth THEN "1" ELSE "0")

\* Every word of the vector is empty above the width.
Normalized(v) ==
  /\ DOMAIN v.aval = 0..(LimbsFor(v.width) - 1) /\ DOMAIN v.bval = DOMAIN v.aval
  /\ \A l \in DOMAIN v.aval : \A p \in v.aval[l] \cup v.bval[l] : l * Word + p < v.width

\* A vector as the constructors make it.
WellFormed(v) ==
  LET planes == [0..(LimbsFor(v.width) - 1) -> SUBSET Positions]
  IN /\ v = [width |-> v.width, aval |-> v.aval, bval |-> v.bval]
     /\ v.width \in Nat \ {0} /\ v.aval \in planes /\ v.bval \in planes
     /\ Normalized(v)

\* The instructions that compute a register from one or two others.
Unary == {"Not", "Neg", "LogNot", "IsKnown", "ReduceAnd", "ReduceOr", "ReduceXor"}
Binary == {"Add", "Sub", "Mul", "And", "Or", "Xor", "Eq", "Neq", "Lt", "Le", "Gt", "Ge",
           "SignedLt", "SignedLe", "SignedGt", "SignedGe", "Shl", "Shr", "Ashr", "LogAnd", "LogOr"}

Apply1(op, v) ==
  CASE op = "Not"       -> BitNot(v)
    [] op = "Neg"       -> Neg(v)
    [] op = "LogNot"    -> LogNot(v)
    [] op = "IsKnown"   -> OneBit(IsKnown(v))
    [] op = "ReduceAnd" -> FromBit(ReduceAnd(v))
    [] op = "ReduceOr"  -> FromBit(ReduceOr(v))
    [] op = "ReduceXor" -> FromBit(ReduceXor(v))

Apply2(op, v, w) ==
  CASE op = "Add"      -> AddSub(v, w, FALSE)
    [] op = "Sub"      -> AddSub(v, w, TRUE)
    [] op = "Mul"      -> Mul(v, w)
    [] op = "And"      -> BitAnd(v, w)
    [] op = "Or"       -> BitOr(v, w)
    [] op = "Xor"      -> BitXor(v, w)
    [] op = "Eq"       -> EqLogical(v, w)
    [] op = "Neq"      -> LogNot(EqLogical(v, w))
    [] op = "Lt"       -> Rel(v, w, FALSE, {"Less"})
    [] op = "Le"       -> Rel(v, w, FALSE, {"Less", "Equal"})
    [] op = "Gt"       -> Rel(v, w, FALSE, {"Greater"})
    [] op = "Ge"       -> Rel(v, w, FALSE, {"Greater", "Equal"})
    [] op = "SignedLt" -> Rel(v, w, TRUE, {"Less"})
    [] op = "SignedLe" -> Rel(v, w, TRUE, {"Less", "Equal"})
    [] op = "SignedGt" -> Rel(v, w, TRUE, {"Greater"})
    [] op = "SignedGe" -> Rel(v, w, TRUE, {"Greater", "Equal"})
    [] op = "Shl"      -> Shl(v, Amount(w))
    [] op = "Shr"      -> Shr(v, Amount(w))
    [] op = "Ashr"     -> Ashr(v, Amount(w))
    [] op = "LogAnd"   -> OneBit(IsTrue(v) /\ IsTrue(w))
    [] op = "LogOr"    -> OneBit(IsTrue(v) \/ IsTrue(w))

InRange(v, idx) == IsKnown(idx) /\ ToU64(idx) < v.width

\* IndexGet and IndexSet of a vector: one bit.
SelectBit(v, idx) == IF InRange(v, idx) THEN FromBit(GetBit(v, ToU64(idx))) ELSE X(1)
WriteBit(v, idx, src) == IF InRange(v, idx) THEN SetBit(v, ToU64(idx), GetBit(src, 0)) ELSE v

\* PartSelect: against the declared direction the bits come out reversed.
PartSelect(v, left, right) ==
  IF left >= right THEN Slice(v, left, right)
  ELSE FromBits(right - left + 1, LAMBDA i : GetBit(v, right - i))

\* memory_element: the position of an element of a memory [left:right], or None.
MemoryElement(left, right, idx) ==
  LET n == TryToU64(idx) IN
  IF n = None \/ n < Min({left, right}) \/ n > Max({left, right}) THEN None
  ELSE IF left <= right THEN n - left ELSE left - n

\* Addition, subtraction, negation and multiplication are those of the integers
\* modulo 2^width, carries across limbs included, and all x when an operand has
\* an unknown bit.
ArithmeticExactOf(v, w) ==
  LET width == Wider(v, w)
      exact(r, n) == r.width = width /\
        IF AnyUnknown(v, w) THEN \A i \in 0..(width - 1) : GetBit(r, i) = "x"
        ELSE IsKnown(r) /\ Unsigned(r) = n % 2^width
  IN /\ exact(AddSub(v, w, FALSE), Unsigned(v) + Unsigned(w))
     /\ exact(AddSub(v, w, TRUE), Unsigned(v) - Unsigned(w))
     /\ MulDefined(v, w) => exact(Mul(v, w), Unsigned(v) * Unsigned(w))
     /\ v = w => exact(Neg(v), -Unsigned(v))

\* The comparisons agree with the integers the operands stand for, signed and
\* unsigned, for operands of different widths too; x when a bit is unknown.
ComparisonExactOf(v, w) ==
  IF AnyUnknown(v, w)
  THEN \A s \in BOOLEAN : Rel(v, w, s, {"Less"}) = X(1) /\ EqLogical(v, w) = X(1)
  ELSE /\ IsOneBit(Rel(v, w, FALSE, {"Less"}), Unsigned(v) < Unsigned(w))
       /\ IsOneBit(Rel(v, w, FALSE, {"Less", "Equal"}), Unsigned(v) <= Unsigned(w))
       /\ IsOneBit(Rel(v, w, TRUE, {"Less"}), Signed(v) < Signed(w))
       /\ IsOneBit(Rel(v, w, TRUE, {"Greater", "Equal"}), Signed(v) >= Signed(w))
       /\ IsOneBit(EqLogical(v, w), Unsigned(v) = Unsigned(w))

\* The four-state tables of ~, &, | and ^ for one bit.
Not1(a) == CASE a = "0" -> "1" [] a = "1" -> "0" [] OTHER -> "x"
And1(a, b) == IF "0" \in {a, b} THEN "0" ELSE IF {a, b} = {"1"} THEN "1" ELSE "x"
Or1(a, b) == IF "1" \in {a, b} THEN "1" ELSE IF {a, b} = {"0"} THEN "0" ELSE "x"
Xor1(a, b) == IF IsUnknown(a) \/ IsUnknown(b) THEN "x" ELSE IF a = b THEN "0" ELSE "1"

\* The word-parallel operations compute the four-state table of every bit, with
\* the shorter operand extended by zeros, and words are equal when all their bits are.
BitwiseExactOf(v, w) ==
  /\ \A i \in 0..(Wider(v, w) - 1) :
       /\ GetBit(BitAnd(v, w), i) = And1(BitAt(v, i), BitAt(w, i))
       /\ GetBit(BitOr(v, w), i) = Or1(BitAt(v, i), BitAt(w, i))
       /\ GetBit(BitXor(v, w), i) = Xor1(BitAt(v, i), BitAt(w, i))
  /\ EqCase(v, w) <=> v.width = w.width /\ \A i \in 0..(v.width - 1) : GetBit(v, i) = GetBit(w, i)

\* ~ computes its table, and a bit written is that bit and no other.
OneBitExactOf(v) ==
  \A i \in 0..(v.width - 1) :
    /\ GetBit(BitNot(v), i) = Not1(GetBit(v, i))
    /\ \A j \in 0..(v.width - 1), bit \in Bit :
         GetBit(SetBit(v, i, bit), j) = IF i = j THEN bit ELSE GetBit(v, j)

\* The reductions fold the tables.
ReductionsExactOf(v) ==
  LET fold(table(_, _), start) ==
        FoldSet(LAMBDA i, acc : table(GetBit(v, i), acc), start, 0..(v.width - 1))
  IN /\ ReduceAnd(v) = fold(And1, "1")
     /\ ReduceOr(v) = fold(Or1, "0")
     /\ ReduceXor(v) = fold(Xor1, "0")
     /\ GetBit(LogNot(v), 0) = Not1(ReduceOr(v))

\* The bits of v moved up and down by amt, zeros moving in.
MovedUp(v, amt) == FromBits(v.width, LAMBDA i : IF i < amt THEN "0" ELSE GetBit(v, i - amt))
MovedDown(v, amt) == FromBits(v.width, LAMBDA i : BitAt(v, i + amt))

\* Shifts, selects and concatenation move bits: a vector is the concatenation of
\* its two parts wherever it is cut, a select against the direction mirrors, a
\* narrower vector is the low part, and a displayed vector parses to itself.
\* (index + amt of a shift fits 32 bits.)
MovesExactOf(v) ==
  /\ \A amt \in 0..(2^AmtBits - v.width) :
       Shl(v, amt) = MovedUp(v, amt) /\ Shr(v, amt) = MovedDown(v, amt)
  /\ \A cut \in 1..(v.width - 1) :
       Concat(Slice(v, v.width - 1, cut), Slice(v, cut - 1, 0)) = v
  /\ \A right \in 0..(v.width - 1) : \A left \in right..(v.width - 1) : \A i \in 0..(left - right) :
       GetBit(PartSelect(v, right, left), i) = GetBit(PartSelect(v, left, right), left - right - i)
  /\ \A width \in 1..v.width : Resize(v, width, TRUE) = Slice(v, width - 1, 0)
  /\ ParseSized(v.width, 1, Display(v)) = v

\* A bit written is the bit selected.
WriteReadExactOf(v, w) ==
  \A src \in {FromBit(bit) : bit \in Bit} :
    SelectBit(WriteBit(v, w, src), w) = IF InRange(v, w) THEN src ELSE X(1)

\* A memory has one element per index.
MemoryExactOf(v, w) ==
  \A left, right \in 0..WordMax :
    LET n == MemoryElement(left, right, v)
    IN n # None => /\ n \in 0..(Max({left, right}) - Min({left, right}))
                   /\ n = MemoryElement(left, right, w) => Unsigned(v) = Unsigned(w)

\* ?: merges the branches bit by bit when the condition is unknown, and is the
\* branch itself when it is not: a result bit is x only if the branches differ
\* or a branch has it.
MergeExactOf(c, v, w) ==
  LET r == Conditional(c, v, w) IN
  \A i \in 0..(Wider(v, w) - 1) :
    GetBit(r, i) = CASE GetBit(c, 0) = "1" -> BitAt(v, i)
                     [] GetBit(c, 0) = "0" -> BitAt(w, i)
                     [] OTHER -> IF BitAt(v, i) = BitAt(w, i) THEN BitAt(v, i) ELSE "x"

\* The integer readings invert the constructors, extension keeps the value, and
\* the signed shift divides, as long as index + amt fits 32 bits.
ReadingExactOf(v) ==
  /\ IsKnown(v) =>
       /\ v.width <= Word => FromI64(ToI64(v), v.width) = v /\ ToI64(v) = Signed(v)
       /\ \A more \in v.width..(v.width + Word) :
            Unsigned(Resize(v, more, FALSE)) = Unsigned(v) /\ Signed(Resize(v, more, TRUE)) = Signed(v)
       /\ \A amt \in 0..(2^AmtBits - v.width) : Signed(Ashr(v, amt)) = Signed(v) \div 2^amt
  /\ TryToU64(v) # None => FromU64(TryToU64(v), v.width) = v /\ TryToU64(v) = Unsigned(v)

=============================================================================
