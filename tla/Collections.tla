---------------------------- MODULE Collections -----------------------------
(***************************************************************************)
(* Values and collections: eevee-ir/src/value.rs and the instructions of   *)
(* interp.rs that move values between registers, statics and the elements  *)
(* of queues and associative arrays.                                       *)
(*                                                                         *)
(* A collection is shared storage behind a handle (Rc<RefCell<..>>).       *)
(* Instructions read handles into the temporary register; an assignment    *)
(* stores a copy.  Only the identity of a handle matters, so it is named   *)
(* by a place where it is found: <<s, 0>> is what slot s (or "temp")       *)
(* refers to, <<s, i>> what element i of that does.  Between instructions  *)
(* nothing else is live: storage that nothing refers to is freed.          *)
(***************************************************************************)
EXTENDS Vectors, SequencesExt, TLC

CONSTANTS
  Slots,        \* declared registers and statics
  Statics,      \* the slots that are statics (StaticGet, StaticSet)
  Declarations, \* possible declared types of the slots
  Samples,      \* vectors in the slots declared as vectors
  Elements,     \* vectors stored in collections
  Indices,      \* values used as index or key
  IntWidth,     \* width of int, 32 in the code
  MaxLen        \* bound on the elements of a collection

ASSUME SlotAssumption ==
  /\ Statics \subseteq Slots
  /\ Slots \cap {"temp", "new"} = {}
  /\ Declarations \subseteq [Slots -> {"vector", "ints", "lists", "map"}]
  /\ IntWidth \in 1..Word

\* Vectors are what constructors make: bits at or above the width are zero, and
\* to_u64 is a number.
ASSUME SampleAssumption ==
  \A v \in Samples \cup Elements : WellFormed(v) /\ ToU64(v) \in Nat

\* to_u64 and to_i64 of an index are integers.
ASSUME IndexAssumption ==
  \A idx \in Indices :
    "logic" \in DOMAIN idx => ToU64(idx.logic) \in Nat /\ ToI64(idx.logic) \in Int

VARIABLES
  types,     \* declared types of the slots
  slot,      \* Slots -> value
  temp,      \* the temporary register
  heap,      \* live collections by handle
  notified,  \* notify_runtime_change was called by the last instruction
  pushed     \* history: collections stored as elements without a copy

vars == <<types, slot, temp, heap, notified, pushed>>

-----------------------------------------------------------------------------
(* Value *)

Null == [null |-> TRUE]
Logic(v) == [logic |-> v]
Handle(h) == [array |-> h]
IsLogic(v) == "logic" \in DOMAIN v
IsArray(v) == "array" \in DOMAIN v
IsNull(v) == "null" \in DOMAIN v

IntVal(n) == Logic(FromU64(n, IntWidth))

\* as_logic: null reads as zero.
AsLogic(v) == IF IsLogic(v) THEN v.logic ELSE Zero(IntWidth)

\* A collection: a queue (fixed and dynamic arrays too) with its declared type, a
\* list of vectors or of such lists, or a map in key order.
Queue(type, s) == [queue |-> s, of |-> type]
Assoc(f) == [assoc |-> f]
IsQueue(c) == "queue" \in DOMAIN c
TypeOf(c) == IF IsQueue(c) THEN c.of ELSE "map"

\* Keys: [int |-> n], [str |-> lexicographic rank], [nil |-> TRUE].
KeyKind(k) == CHOOSE kind \in {"int", "str", "nil"} : kind \in DOMAIN k
Rank(k) == CASE KeyKind(k) = "int" -> 0 [] KeyKind(k) = "str" -> 1 [] OTHER -> 3

\* Ord for AssocKey
KeyLess(k, l) ==
  CASE KeyKind(k) = "int" /\ KeyKind(l) = "int" -> k.int < l.int
    [] KeyKind(k) = "str" /\ KeyKind(l) = "str" -> k.str < l.str
    [] OTHER -> Rank(k) < Rank(l)

ValueToKey(v) ==
  CASE "logic" \in DOMAIN v -> [int |-> ToI64(v.logic)]
    [] "str" \in DOMAIN v   -> [str |-> v.str]
    [] OTHER                -> [nil |-> TRUE]

\* An integer key comes back 64 bits wide.
KeyToValue(k) ==
  CASE KeyKind(k) = "int" -> Logic(FromI64(k.int, Word))
    [] KeyKind(k) = "str" -> [str |-> k.str]
    [] OTHER              -> Null

-----------------------------------------------------------------------------
(* Storage *)

ElementsOf(c) == IF IsQueue(c) THEN Range(c.queue) ELSE Range(c.assoc)
HandlesIn(values) == {v.array : v \in {w \in values : IsArray(w)}}

\* Mutant: an assignment stores the handle.
AssignmentCopy_Shared(v, hp) == [value |-> v, heap |-> hp]

\* The i-th collection that an instruction makes.
New(i) == <<"new", i>>
IsNew(h) == h[1] = "new"

\* assignment_copy: a value and the heap with the copies, of the collection and of
\* every element that is one.
AssignmentCopy(v, hp) ==
  IF ~IsArray(v) THEN [value |-> v, heap |-> hp]
  ELSE LET c == hp[v.array]
           nested == IF IsQueue(c) THEN {i \in DOMAIN c.queue : IsArray(c.queue[i])} ELSE {}
           copy == IF IsQueue(c)
                   THEN Queue(c.of, [i \in DOMAIN c.queue |->
                                       IF i \in nested THEN Handle(New(i)) ELSE c.queue[i]])
                   ELSE c
       IN [value |-> Handle(New(0)),
           heap |-> [h \in DOMAIN hp \cup {New(i) : i \in {0} \cup nested} |->
                       IF ~IsNew(h) THEN hp[h]
                       ELSE IF h = New(0) THEN copy ELSE hp[c.queue[h[2]].array]]]

\* The places of handles, when the slots and the temporary hold these values, and
\* what is there.
Roots == Slots \cup {"temp"}
AtPlace(values, hp, p) ==
  IF p[2] = 0 THEN values[p[1]] ELSE hp[values[p[1]].array].queue[p[2]]
Places(values, hp) ==
  LET last(r) == IF IsArray(values[r]) /\ IsQueue(hp[values[r].array])
                 THEN Len(hp[values[r].array].queue) ELSE 0
  IN UNION {{<<r, i>> : i \in {j \in 0..last(r) : IsArray(AtPlace(values, hp, <<r, j>>))}} : r \in Roots}

\* The name of a handle, and a collection with the names of its elements.
Named(values, hp, v) ==
  IF IsArray(v) THEN Handle(CHOOSE p \in Places(values, hp) : AtPlace(values, hp, p) = v) ELSE v
NamedElements(values, hp, c) ==
  IF IsQueue(c) THEN Queue(c.of, [i \in DOMAIN c.queue |-> Named(values, hp, c.queue[i])]) ELSE c

\* An instruction leaves these values in the slots and the temporary.
Put(newSlot, newTemp, hp, note, pushing) ==
  LET values == [r \in Roots |-> IF r = "temp" THEN newTemp ELSE newSlot[r]]
      live == {Named(values, hp, AtPlace(values, hp, p)).array : p \in Places(values, hp)}
  IN /\ slot' = [s \in Slots |-> Named(values, hp, newSlot[s])]
     /\ temp' = Named(values, hp, newTemp)
     /\ heap' = [p \in live |-> NamedElements(values, hp, hp[AtPlace(values, hp, p).array])]
     /\ notified' = note
     /\ pushed' = {p \in live : AtPlace(values, hp, p).array \in pushed \cup pushing}
     /\ UNCHANGED types

-----------------------------------------------------------------------------
Empty(type) == IF type = "map" THEN Assoc(<<>>) ELSE Queue(type, <<>>)

IsVector(s) == types[s] = "vector"
Collected == {s \in Slots : ~IsVector(s)}   \* the slots that hold collections

Init ==
  /\ types \in Declarations
  /\ \E sample \in [Slots -> Samples] :
       slot = [s \in Slots |-> IF IsVector(s) THEN Logic(sample[s]) ELSE Handle(<<s, 0>>)]
  /\ heap = [h \in {<<s, 0>> : s \in Collected} |-> Empty(types[h[1]])]
  /\ temp = Null /\ notified = FALSE /\ pushed = {}

\* What an element of the slot may be: a vector, or in a list of lists a list.
Fits(s) ==
  IF types[s] = "lists" THEN IsArray(temp) /\ TypeOf(heap[temp.array]) = "ints" ELSE IsLogic(temp)

\* Strings index maps only.
Indexes(s, idx) == types[s] = "map" \/ IsLogic(idx)

\* NewQueue, NewAssoc: the declaration of a register is executed (again).
Declare(s) ==
  /\ s \notin Statics
  /\ Put([slot EXCEPT ![s] = Handle(New(0))], temp,
         [h \in DOMAIN heap \cup {New(0)} |-> IF IsNew(h) THEN Empty(types[s]) ELSE heap[h]], FALSE, {})

\* An instruction computes the temporary from vectors.  (Bound: results are not
\* operands again.)
Compute(x, y) ==
  /\ temp = Null /\ IsVector(x) /\ IsVector(y) /\ x # y
  /\ LET v == slot[x].logic
         w == slot[y].logic
     IN \/ \E op \in Unary : Put(slot, Logic(Apply1(op, v)), heap, FALSE, {})
        \/ Put(slot, Logic(SelectBit(v, w)), heap, FALSE, {})
        \/ \E op \in Binary : /\ op = "Mul" => MulDefined(v, w)
                              /\ Put(slot, Logic(Apply2(op, v, w)), heap, FALSE, {})

\* IndexSet writes a bit of a copy of a vector in the temporary.
IndexSetBit(x, y, src) ==
  /\ temp = Null /\ IsVector(x) /\ IsVector(y) /\ x # y
  /\ Put(slot, Logic(WriteBit(slot[x].logic, slot[y].logic, src)), heap,
         InRange(slot[x].logic, slot[y].logic), {})

\* Inst::Select on vectors.
Select(c, x, y) ==
  /\ temp = Null /\ IsVector(x) /\ IsVector(y) /\ x # y
  /\ Put(slot, Logic(Conditional(c, slot[x].logic, slot[y].logic)), heap, FALSE, {})

\* LoadConst, and Mov or StaticGet of a collection into the temporary.
LoadConst(v) == Put(slot, Logic(v), heap, FALSE, {})
Load(s) == Put(slot, slot[s], heap, FALSE, {})

\* Assign to a register, StaticSet to a static.
Assign(s) ==
  /\ IsArray(temp) /\ TypeOf(heap[temp.array]) = types[s]
  /\ LET c == AssignmentCopy(temp, heap)
     IN Put([slot EXCEPT ![s] = c.value], Null, c.heap, s \in Statics, {})

-----------------------------------------------------------------------------
(* Elements.  base is the handle of a queue or map, idx the index value. *)

\* Option::unwrap_or(Null) of an element
QueueGet(c, idx) ==
  LET i == ToU64(AsLogic(idx)) IN IF i < Len(c.queue) THEN c.queue[i + 1] ELSE Null
AssocGet(c, idx) ==
  LET k == ValueToKey(idx) IN IF k \in DOMAIN c.assoc THEN c.assoc[k] ELSE Null

Get(c, idx) == IF IsQueue(c) THEN QueueGet(c, idx) ELSE AssocGet(c, idx)

\* Mutant: an index that reads as negative is the first element.
SetPosition_Clamped(idx) ==
  LET k == ValueToKey(idx) IN IF KeyKind(k) = "int" /\ k.int >= 0 THEN k.int ELSE 0

\* The position IndexSet writes: the signed reading of the index, as usize.
SetPosition(idx) == LET k == ValueToKey(idx) IN IF KeyKind(k) = "int" THEN k.int ELSE 0

\* A negative reading is a huge usize: growing to it panics.
SetPanics(c, idx) == IsQueue(c) /\ SetPosition(idx) < 0

\* BTreeMap::insert
MapInsert(c, k, v) == Assoc([x \in DOMAIN c.assoc \cup {k} |-> IF x = k THEN v ELSE c.assoc[x]])

\* IndexSet: a queue grows with null elements up to the position.
Set(c, idx, v) ==
  IF IsQueue(c)
  THEN LET i == SetPosition(idx)
           len == IF i >= Len(c.queue) THEN i + 1 ELSE Len(c.queue)
       IN Queue(c.of, [j \in 1..len |-> IF j = i + 1 THEN v
                                        ELSE IF j <= Len(c.queue) THEN c.queue[j] ELSE Null])
  ELSE MapInsert(c, ValueToKey(idx), v)

Size(c) == IF IsQueue(c) THEN Len(c.queue) ELSE Cardinality(DOMAIN c.assoc)

IndexGet(s, idx) == Indexes(s, idx) /\ Put(slot, Get(heap[slot[s].array], idx), heap, FALSE, {})

IndexSet(s, idx) ==
  LET h == slot[s].array
      c == AssignmentCopy(temp, heap)
  IN /\ Fits(s) /\ Indexes(s, idx)
     /\ ~SetPanics(heap[h], idx)
     /\ Size(Set(heap[h], idx, c.value)) <= MaxLen
     /\ Put(slot, Null, [c.heap EXCEPT ![h] = Set(@, idx, c.value)], TRUE, {})

-----------------------------------------------------------------------------
(* Methods: eval_coll_method.  An operation is its new collection. *)

PushFrontOf(c, v) == Queue(c.of, <<v>> \o c.queue)
PushBackOf(c, v) == Queue(c.of, Append(c.queue, v))
InsertOf(c, idx, v) ==
  LET i == ToU64(AsLogic(idx)) IN
  Queue(c.of, InsertAt(c.queue, (IF i < Len(c.queue) THEN i ELSE Len(c.queue)) + 1, v))

DeleteOf(c, idx) ==
  IF IsQueue(c)
  THEN LET i == ToU64(AsLogic(idx)) IN
       IF i < Len(c.queue) THEN Queue(c.of, RemoveAt(c.queue, i + 1)) ELSE c
  ELSE Assoc(Restrict(c.assoc, DOMAIN c.assoc \ {ValueToKey(idx)}))

\* Mutant: insert does not tell the scheduler.
Notifies_NotInsert(op) == op \in {"PushBack", "PushFront", "PopBack", "PopFront", "Delete"}

\* The operations after which CollMethod calls notify_runtime_change.
Notifies(op) == op \in {"PushBack", "PushFront", "PopBack", "PopFront", "Insert", "Delete"}

Add(s, op, c) ==
  LET h == slot[s].array IN
  /\ Fits(s) /\ Len(heap[h].queue) < MaxLen
  /\ Put(slot, Null, [heap EXCEPT ![h] = c], Notifies(op), HandlesIn({temp}))

PushBack(s) == types[s] # "map" /\ Add(s, "PushBack", PushBackOf(heap[slot[s].array], temp))
PushFront(s) == types[s] # "map" /\ Add(s, "PushFront", PushFrontOf(heap[slot[s].array], temp))
Insert(s, idx) ==
  types[s] # "map" /\ IsLogic(idx) /\ Add(s, "Insert", InsertOf(heap[slot[s].array], idx, temp))

\* pop_front and pop_back return the element, or null.
Pop(s, op) ==
  LET h == slot[s].array
      q == heap[h].queue
  IN /\ types[s] # "map"
     /\ IF q = <<>> THEN Put(slot, Null, heap, Notifies(op), {})
        ELSE Put(slot, IF op = "PopFront" THEN Head(q) ELSE Last(q),
                 [heap EXCEPT ![h] = Queue(@.of, IF op = "PopFront" THEN Tail(q) ELSE Front(q))],
                 Notifies(op), {})

Delete(s, idx) ==
  Indexes(s, idx) /\ Put(slot, Null, [heap EXCEPT ![slot[s].array] = DeleteOf(@, idx)], Notifies("Delete"), {})

DeleteAll(s) ==
  Put(slot, Null, [heap EXCEPT ![slot[s].array] = Empty(types[s])], Notifies("Delete"), {})

-----------------------------------------------------------------------------
(* Iteration: First, Next, Last and Prev write the index they are given.  *)
(* The result is that value, or None when they return 0.                  *)

Keys(c) == SetToSortSeq(DOMAIN c.assoc, KeyLess)
Stop == [stop |-> TRUE]

FirstOf(c) ==
  IF Size(c) = 0 THEN Stop
  ELSE IF IsQueue(c) THEN IntVal(0) ELSE KeyToValue(Keys(c)[1])

LastOf(c) ==
  IF Size(c) = 0 THEN Stop
  ELSE IF IsQueue(c) THEN IntVal(Len(c.queue) - 1) ELSE KeyToValue(Last(Keys(c)))

\* Mutant: the element after the next one.
NextOf_Skips(c, idx) ==
  IF IsQueue(c)
  THEN LET next == ToU64(AsLogic(idx)) + 2
       IN IF next < Len(c.queue) THEN IntVal(next) ELSE Stop
  ELSE LET after == SelectSeq(Keys(c), LAMBDA k : KeyLess(ValueToKey(idx), k))
       IN IF after = <<>> THEN Stop ELSE KeyToValue(after[1])

NextOf(c, idx) ==
  IF IsQueue(c)
  THEN LET next == ToU64(AsLogic(idx)) + 1
       IN IF next < Len(c.queue) THEN IntVal(next) ELSE Stop
  ELSE LET after == SelectSeq(Keys(c), LAMBDA k : KeyLess(ValueToKey(idx), k))
       IN IF after = <<>> THEN Stop ELSE KeyToValue(after[1])

PrevOf(c, idx) ==
  IF IsQueue(c)
  THEN LET current == ToU64(AsLogic(idx))
       IN IF current > 0 /\ current <= Len(c.queue) THEN IntVal(current - 1) ELSE Stop
  ELSE LET before == SelectSeq(Keys(c), LAMBDA k : KeyLess(k, ValueToKey(idx)))
       IN IF before = <<>> THEN Stop ELSE KeyToValue(Last(before))

-----------------------------------------------------------------------------
Next ==
  \/ \E s \in Collected : Declare(s) \/ Load(s) \/ Assign(s) \/ PushBack(s) \/ PushFront(s)
                          \/ DeleteAll(s)
  \/ \E s \in Collected, idx \in Indices :
       IndexGet(s, idx) \/ IndexSet(s, idx) \/ Insert(s, idx) \/ Delete(s, idx)
  \/ \E s \in Collected, op \in {"PopFront", "PopBack"} : Pop(s, op)
  \/ \E v \in Elements : LoadConst(v)
  \/ \E x, y \in Slots : Compute(x, y) \/ \E c \in Samples : c.width = 1 /\ (Select(c, x, y) \/ IndexSetBit(x, y, c))

Spec == Init /\ [][Next]_vars

-----------------------------------------------------------------------------
(* Properties *)

\* Places that hold a collection: elements of a list of lists, and slots.
HoldingElements(h) ==
  {p \in (DOMAIN heap) \X (1..MaxLen) :
     LET o == heap[p[1]] IN IsQueue(o) /\ p[2] \in DOMAIN o.queue /\ o.queue[p[2]] = Handle(h)}
HoldingSlots(h) == {s \in Slots : slot[s] = Handle(h)}

\* Assignments keep collections apart: two variables, or a variable and an
\* element at any depth, share storage only if push or insert put it there, so
\* a write through one place is never seen through the other (value.rs:
\* "Arrays are value types").
CopiesApart ==
  \A h \in DOMAIN heap \ pushed :
    Cardinality(HoldingSlots(h)) + Cardinality(HoldingElements(h)) <= 1

\* What a place holds, elements included.
Contents(v, hp) ==
  LET leaf(e) == IF IsArray(e) THEN hp[e.array] ELSE e
  IN IF ~IsArray(v) THEN v
     ELSE IF ~IsQueue(hp[v.array]) THEN hp[v.array].assoc
     ELSE [i \in DOMAIN hp[v.array].queue |-> leaf(hp[v.array].queue[i])]

\* An instruction that changes what a static holds, by assignment or through any
\* handle, tells the scheduler: otherwise a process waiting for a condition on
\* it would sleep on.
ChangesNotify ==
  [][\A s \in Statics : Contents(slot[s], heap)' # Contents(slot[s], heap) => notified']_vars

\* What a write at idx puts into a queue of any length or into a map is read back
\* with the same index, and no other element changes.
WriteReadBack(idx, v) ==
  \A h \in {x \in DOMAIN heap : IsLogic(idx) \/ ~IsQueue(heap[x])} :
    LET c == heap[h]
        d == Set(c, idx, v)
    IN ~SetPanics(c, idx) =>
       /\ Get(d, idx) = v
       /\ \A other \in {x \in Indices : IsLogic(x) \/ ~IsQueue(c)} :
            Get(d, other) # Get(c, other) =>
              Get(d, other) = v /\ (IsQueue(c) => ToU64(AsLogic(other)) = ToU64(AsLogic(idx)))

\* A write lands where a read of the same index looks, in a queue, which grows, or
\* in a map, or it is refused: IndexSet reads the index of a queue as signed and
\* IndexGet as unsigned, and an index that the one takes for negative must not be
\* written anywhere else.  Index values without a sign bit are not refused.
ElementsReadBack ==
  \A idx \in Indices, v \in Elements :
    /\ WriteReadBack(idx, Logic(v))
    /\ IsLogic(idx) /\ GetBit(idx.logic, idx.logic.width - 1) = "0" =>
         \A h \in DOMAIN heap : ~SetPanics(heap[h], idx)

\* The loop of foreach (First, then Next with the index it left, or Last and Prev),
\* n rounds of it; with del, the body deletes the element it is at.
Walk(c, start, step(_, _), del, n) ==
  LET after[k \in Nat] ==
        IF k = 0 THEN [coll |-> c, idx |-> start, seen |-> <<>>]
        ELSE LET x == after[k - 1]
                 d == IF del THEN DeleteOf(x.coll, x.idx) ELSE x.coll
             IN IF x.idx = Stop THEN x
                ELSE [coll |-> d, idx |-> step(d, x.idx), seen |-> Append(x.seen, Get(x.coll, x.idx))]
  IN after[n]

InOrder(c) == IF IsQueue(c) THEN c.queue ELSE [i \in DOMAIN Keys(c) |-> c.assoc[Keys(c)[i]]]

\* foreach visits every element once, in order, and ends, forwards and
\* backwards; over a map also when the body deletes the element it is at.
ForeachVisitsAll ==
  \A h \in DOMAIN heap :
    LET c == heap[h]
        visits(start, step(_, _), del, seen) ==
          LET end == Walk(c, start, step, del, Size(c) + 1) IN end.idx = Stop /\ end.seen = seen
    IN /\ visits(FirstOf(c), NextOf, FALSE, InOrder(c))
       /\ visits(LastOf(c), PrevOf, FALSE, Reverse(InOrder(c)))
       /\ ~IsQueue(c) => visits(FirstOf(c), NextOf, TRUE, InOrder(c))

\* The vectors in registers, checked where no result is waiting to be stored.
Operands == IF temp = Null THEN {s \in Slots : IsVector(s)} ELSE {}
Pairs(P(_, _)) == \A x, y \in Operands : x # y => P(slot[x].logic, slot[y].logic)

\* Arithmetic on vectors of any width is that of the integers modulo 2^width,
\* carries between limbs included, signed and unsigned comparisons agree with
\* the integers, and so do sign extension, the signed shift, the integer readings
\* and memory indices; reductions fold the tables.
IntegersExact ==
  /\ Pairs(ArithmeticExactOf) /\ Pairs(ComparisonExactOf) /\ Pairs(MemoryExactOf)
  /\ \A x \in Operands : ReadingExactOf(slot[x].logic) /\ ReductionsExactOf(slot[x].logic)

\* No instruction leaves a bit above the width in a word, in a register or in an
\* element, where the next operation, a comparison of words or a test for zero
\* would see it (logic.rs: "High bits (>= width) are 0").
NoStrayBits ==
  \A v \in Range(slot) \cup {temp} \cup UNION {ElementsOf(heap[h]) : h \in DOMAIN heap} :
    IsLogic(v) => Normalized(v.logic)

\* Operations on whole words compute the four-state table of every bit, across
\* limbs and widths, equality of words is equality of bits, a bit that is written
\* is that bit and no other, and ?: merges under an unknown condition.
BitwiseExact ==
  /\ Pairs(BitwiseExactOf)
  /\ \A x \in Operands : OneBitExactOf(slot[x].logic)
  /\ \A c \in Samples : c.width = 1 => Pairs(LAMBDA v, w : MergeExactOf(c, v, w))

\* Shifts, selects, truncation and concatenation move bits, within words and across
\* limbs, Display and parse invert each other, and a bit written is read back.
BitsMove ==
  /\ \A x \in Operands : MovesExactOf(slot[x].logic)
  /\ Pairs(WriteReadExactOf)

\* Vectors are their bits, whatever instructions made them: no word holds more than
\* the bits of its width, and computing and moving words computes and moves bits.
BitsExact == NoStrayBits /\ BitwiseExact /\ BitsMove
=============================================================================
