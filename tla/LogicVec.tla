------------------------------ MODULE LogicVec ------------------------------
(***************************************************************************)
(* Four-state vectors: eevee-core/src/logic.rs.                            *)
(*                                                                         *)
(* A vector keeps two planes of machine words: (aval, bval) is (0,0) for   *)
(* 0, (1,0) for 1, (0,1) for x and (1,1) for z.  A word is the set of its  *)
(* one bits, so the word-parallel !, & and | are set operations.  A vector *)
(* of at most Word bits has one word (Repr::Small), a wider one has limbs  *)
(* (Repr::Wide).  Bits of a word at or above the width must stay zero.     *)
(***************************************************************************)
EXTENDS Integers, Sequences, FiniteSetsExt

CONSTANTS
  Word,     \* bits of a limb, 64 in the code
  AmtBits   \* bits of a width or shift amount, 32 in the code

ASSUME WordAssumption == Word \in Nat \ {0} /\ AmtBits \in Nat \ {0}

Bit == {"0", "1", "x", "z"}
IsUnknown(bit) == bit \in {"x", "z"}

\* Bit::planes and from_planes
AvalOf(bit) == bit \in {"1", "z"}
BvalOf(bit) == bit \in {"x", "z"}
FromPlanes(a, b) ==
  IF b THEN (IF a THEN "z" ELSE "x") ELSE (IF a THEN "1" ELSE "0")

-----------------------------------------------------------------------------
(* Words *)

Positions == 0..(Word - 1)
WordMax == 2^Word
Complement(word) == Positions \ word

\* A word as an unsigned number, and the low bits of a number as a word.
ToNumber(word) == MapThenSumSet(LAMBDA i : 2^i, word)
ToWord(n) == {i \in Positions : (n \div 2^i) % 2 = 1}

WordMask(width) == {i \in Positions : i < width}
LimbsFor(width) == (width + Word - 1) \div Word

\* Mutant: the top limb is left as computed.
MaskTop_Keep(width, limbs) == limbs

MaskTop(width, limbs) ==
  IF width % Word = 0 THEN limbs
  ELSE [limbs EXCEPT ![LimbsFor(width) - 1] = @ \cap WordMask(width % Word)]

\* A vector from computed words: the small form masks its word, the wide one
\* its top limb.
Masked(width, limbs) ==
  IF width <= Word THEN [i \in {0} |-> limbs[0] \cap WordMask(width)]
  ELSE MaskTop(width, limbs)

Vector(width, aval, bval) ==
  [width |-> width, aval |-> Masked(width, aval), bval |-> Masked(width, bval)]

Limbs(width, word(_)) == [i \in 0..(LimbsFor(width) - 1) |-> word(i)]

\* limb_aval, limb_bval: limbs that are not there are zero.
Limb(limbs, i) == IF i \in DOMAIN limbs THEN limbs[i] ELSE {}

-----------------------------------------------------------------------------
(* Bits *)

GetBit(v, i) ==
  IF i >= v.width THEN "0"
  ELSE FromPlanes(i % Word \in v.aval[i \div Word], i % Word \in v.bval[i \div Word])

PutIn(word, pos, on) == IF on THEN word \cup {pos} ELSE word \ {pos}

SetBit(v, i, bit) ==
  IF i >= v.width THEN v
  ELSE [v EXCEPT !.aval[i \div Word] = PutIn(@, i % Word, AvalOf(bit)),
                 !.bval[i \div Word] = PutIn(@, i % Word, BvalOf(bit))]

\* A loop of set_bit over a zero vector of this width.
FromBits(width, bit(_)) ==
  LET plane(of(_)) ==
        Limbs(width, LAMBDA l : {p \in Positions : l * Word + p < width /\ of(bit(l * Word + p))})
  IN [width |-> width, aval |-> plane(AvalOf), bval |-> plane(BvalOf)]

\* filled: fill_planes behind zero, ones, x and z
Filled(bit, width) ==
  Vector(width, Limbs(width, LAMBDA l : IF AvalOf(bit) THEN Positions ELSE {}),
                Limbs(width, LAMBDA l : IF BvalOf(bit) THEN Positions ELSE {}))

Zero(width) == Filled("0", width)
X(width) == Filled("x", width)

FromU64(n, width) ==
  Vector(width, Limbs(width, LAMBDA l : IF l = 0 THEN ToWord(n) ELSE {}),
                Limbs(width, LAMBDA l : {}))

\* n is a signed word: the limbs above the first repeat its sign.
FromI64(n, width) ==
  Vector(width, Limbs(width, LAMBDA l : IF l = 0 THEN ToWord(n % WordMax)
                                        ELSE IF n < 0 THEN Positions ELSE {}),
                Limbs(width, LAMBDA l : {}))

\* from_bit: z becomes x
FromBit(bit) ==
  IF IsUnknown(bit) THEN X(1) ELSE FromU64(IF bit = "1" THEN 1 ELSE 0, 1)

OneBit(truth) == FromU64(IF truth THEN 1 ELSE 0, 1)

\* parse_sized of a literal in a base of bits_per bits, first digit first; a
\* digit is <<"x", 0>>, <<"z", 0>> or <<"n", number>>.
ParseSized(width, bitsPer, digits) ==
  FromBits(width, LAMBDA pos :
    LET back == pos \div bitsPer
        d == IF back < Len(digits) THEN digits[Len(digits) - back] ELSE <<"n", 0>>
    IN IF d[1] # "n" THEN d[1]
       ELSE IF (d[2] \div 2^(pos % bitsPer)) % 2 = 1 THEN "1" ELSE "0")

\* Display: one binary digit per bit, most significant first.
Display(v) == [i \in 1..v.width |->
  LET bit == GetBit(v, v.width - i) IN
  IF IsUnknown(bit) THEN <<bit, 0>> ELSE <<"n", IF bit = "1" THEN 1 ELSE 0>>]

-----------------------------------------------------------------------------
(* Reading *)

IsKnown(v) == \A l \in DOMAIN v.bval : v.bval[l] = {}
HasUnknown(v) == ~IsKnown(v)
IsTrue(v) == \E l \in DOMAIN v.aval : v.aval[l] \ v.bval[l] # {}

\* to_u64: x and z read as 0, limbs above the first are ignored.
ToU64(v) == ToNumber(v.aval[0] \ v.bval[0])

\* Option::None of an unsigned result.
None == -1

TryToU64(v) ==
  IF IsKnown(v) /\ \A l \in DOMAIN v.aval \ {0} : v.aval[l] = {}
  THEN ToNumber(v.aval[0]) ELSE None

ToI64(v) ==
  LET raw == ToU64(v) % 2^(IF v.width < Word THEN v.width ELSE Word)
      bits == IF v.width < Word THEN v.width ELSE Word
  IN IF raw >= 2^(bits - 1) THEN raw - 2^bits ELSE raw

-----------------------------------------------------------------------------
(* Resize and selection *)

SignFill(v, signed) ==
  LET msb == GetBit(v, v.width - 1)
  IN IF ~signed THEN "0" ELSE IF msb = "z" THEN "x" ELSE msb

Resize(v, width, signed) ==
  IF width = v.width THEN v
  ELSE FromBits(width, LAMBDA i : IF i < v.width THEN GetBit(v, i) ELSE SignFill(v, signed))

Wider(a, b) == IF a.width >= b.width THEN a.width ELSE b.width

Conditional(cond, whenTrue, whenFalse) ==
  LET width == Wider(whenTrue, whenFalse)
      t == Resize(whenTrue, width, FALSE)
      f == Resize(whenFalse, width, FALSE)
  IN IF IsTrue(cond) THEN t
     ELSE IF IsKnown(cond) THEN f
     ELSE FromBits(width, LAMBDA i : IF GetBit(t, i) = GetBit(f, i) THEN GetBit(t, i) ELSE "x")

Slice(v, hi, lo) == FromBits(hi - lo + 1, LAMBDA i : GetBit(v, lo + i))

Concat(v, w) ==
  FromBits(v.width + w.width,
           LAMBDA i : IF i < w.width THEN GetBit(w, i) ELSE GetBit(v, i - w.width))

-----------------------------------------------------------------------------
(* Comparison *)

\* Small words are compared directly, wide vectors bit by bit.
EqCase(v, w) ==
  /\ v.width = w.width
  /\ IF v.width <= Word THEN v.aval = w.aval /\ v.bval = w.bval
     ELSE \A i \in 0..(v.width - 1) : GetBit(v, i) = GetBit(w, i)

AnyUnknown(v, w) == HasUnknown(v) \/ HasUnknown(w)

EqLogical(v, w) ==
  IF AnyUnknown(v, w) THEN X(1)
  ELSE OneBit(EqCase(Resize(v, Wider(v, w), FALSE), Resize(w, Wider(v, w), FALSE)))

\* ucmp of known operands: the highest bit in which they differ decides.
UCmp(v, w) ==
  LET differ == {i \in 0..(Wider(v, w) - 1) : (GetBit(v, i) = "1") # (GetBit(w, i) = "1")}
  IN IF differ = {} THEN "Equal"
     ELSE IF GetBit(w, Max(differ)) = "1" THEN "Less" ELSE "Greater"

\* scmp of known operands
SCmp(v, w) ==
  LET width == Wider(v, w)
      left == Resize(v, width, TRUE)
      right == Resize(w, width, TRUE)
      negative(u) == GetBit(u, width - 1) = "1"
  IN IF negative(left) # negative(right)
     THEN (IF negative(left) THEN "Less" ELSE "Greater")
     ELSE UCmp(left, right)

\* rel and signed_rel
Rel(v, w, signed, orders) ==
  IF AnyUnknown(v, w) THEN X(1)
  ELSE OneBit((IF signed THEN SCmp(v, w) ELSE UCmp(v, w)) \in orders)

-----------------------------------------------------------------------------
(* Bitwise operations, a word at a time *)

MapWord(v, a(_, _), b(_, _)) ==
  Vector(v.width, [l \in DOMAIN v.aval |-> a(v.aval[l], v.bval[l])],
                  [l \in DOMAIN v.aval |-> b(v.aval[l], v.bval[l])])

ZipWord(v, w, a(_, _, _, _), b(_, _, _, _)) ==
  LET width == Wider(v, w)
      plane(f(_, _, _, _)) ==
        Limbs(width, LAMBDA l : f(Limb(v.aval, l), Limb(v.bval, l),
                                  Limb(w.aval, l), Limb(w.bval, l)))
  IN Vector(width, plane(a), plane(b))

BitNot(v) == MapWord(v, LAMBDA a, b : Complement(a) \cap Complement(b), LAMBDA a, b : b)

\* The bits of a pair of planes that are a known 1, and a known 0.
Ones(a, b) == a \ b
Zeros(a, b) == Complement(a) \ b

BitAnd(v, w) ==
  ZipWord(v, w,
    LAMBDA a, b, c, d : Ones(a, b) \cap Ones(c, d),
    LAMBDA a, b, c, d :
      Complement(Zeros(a, b) \cup Zeros(c, d)) \ (Ones(a, b) \cap Ones(c, d)))

BitOr(v, w) ==
  ZipWord(v, w,
    LAMBDA a, b, c, d : Ones(a, b) \cup Ones(c, d),
    LAMBDA a, b, c, d :
      Complement(Zeros(a, b) \cap Zeros(c, d)) \ (Ones(a, b) \cup Ones(c, d)))

BitXor(v, w) ==
  ZipWord(v, w, LAMBDA a, b, c, d : SymDiff(a, c) \ (b \cup d),
                LAMBDA a, b, c, d : b \cup d)

ReduceOr(v) == IF IsTrue(v) THEN "1" ELSE IF HasUnknown(v) THEN "x" ELSE "0"

ReduceAnd(v) ==
  LET bits == {GetBit(v, i) : i \in 0..(v.width - 1)}
  IN IF "0" \in bits THEN "0" ELSE IF bits = {"1"} THEN "1" ELSE "x"

ReduceXor(v) ==
  IF HasUnknown(v) THEN "x"
  ELSE IF MapThenSumSet(LAMBDA l : Cardinality(v.aval[l]), DOMAIN v.aval) % 2 = 1
       THEN "1" ELSE "0"

LogNot(v) == FromBit(CASE ReduceOr(v) = "1" -> "0" [] ReduceOr(v) = "0" -> "1" [] OTHER -> "x")

-----------------------------------------------------------------------------
(* Arithmetic *)

\* Mutant: limbs are added on their own.
WideAddSub_NoCarry(v, w, sub, width) ==
  Vector(width,
         Limbs(width, LAMBDA l : ToWord((ToNumber(Limb(v.aval, l)) +
           (IF sub THEN -ToNumber(Limb(w.aval, l)) ELSE ToNumber(Limb(w.aval, l)))) % WordMax)),
         Limbs(width, LAMBDA l : {}))

\* wide_addsub: a carry runs through the limbs; subtraction adds the
\* complement and one.
WideAddSub(v, w, sub, width) ==
  LET addend(l) == IF sub THEN Complement(Limb(w.aval, l)) ELSE Limb(w.aval, l)
      sum[l \in 0..(LimbsFor(width) - 1)] ==
        ToNumber(Limb(v.aval, l)) + ToNumber(addend(l)) +
        (IF l = 0 THEN (IF sub THEN 1 ELSE 0) ELSE sum[l - 1] \div WordMax)
  IN Vector(width, Limbs(width, LAMBDA l : ToWord(sum[l] % WordMax)),
                   Limbs(width, LAMBDA l : {}))

AddSub(v, w, sub) ==
  LET width == Wider(v, w) IN
  IF AnyUnknown(v, w) THEN X(width)
  ELSE IF width <= Word
  THEN FromU64((IF sub THEN ToU64(v) - ToU64(w) ELSE ToU64(v) + ToU64(w)) % WordMax, width)
  ELSE WideAddSub(v, w, sub, width)

Neg(v) == AddSub(Zero(v.width), v, TRUE)

\* mul: a wide product of known operands panics.
MulDefined(v, w) == AnyUnknown(v, w) \/ Wider(v, w) <= Word
Mul(v, w) ==
  IF AnyUnknown(v, w) THEN X(Wider(v, w))
  ELSE FromU64((ToU64(v) * ToU64(w)) % WordMax, Wider(v, w))

-----------------------------------------------------------------------------
(* Shifts *)

\* i + amt on the code's 32-bit unsigned integers, in a release build.
Index(i, amt) == (i + amt) % 2^AmtBits

\* The small form shifts a word, the wide form moves bits.
Shl(v, amt) ==
  IF v.width <= Word
  THEN IF amt >= v.width THEN Zero(v.width)
       ELSE LET up(word) == {p \in Positions : p - amt \in word}
            IN Vector(v.width, [l \in {0} |-> up(v.aval[0])], [l \in {0} |-> up(v.bval[0])])
  ELSE FromBits(v.width, LAMBDA i : IF i >= amt THEN GetBit(v, i - amt) ELSE "0")

Shr(v, amt) ==
  IF v.width <= Word
  THEN IF amt >= v.width THEN Zero(v.width)
       ELSE LET down(word) == {p \in Positions : p + amt \in word}
            IN Vector(v.width, [l \in {0} |-> down(v.aval[0])], [l \in {0} |-> down(v.bval[0])])
  ELSE FromBits(v.width, LAMBDA i : IF Index(i, amt) < v.width THEN GetBit(v, Index(i, amt)) ELSE "0")

Ashr(v, amt) ==
  FromBits(v.width, LAMBDA i : IF Index(i, amt) < v.width THEN GetBit(v, Index(i, amt))
                               ELSE SignFill(v, TRUE))

\* The amount of an IR shift: the low bits of the operand, x and z as 0.
Amount(v) == ToU64(v) % 2^AmtBits
=============================================================================
