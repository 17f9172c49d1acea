------------------------- MODULE CollectionsProofs --------------------------
(***************************************************************************)
(* Assignments copy, for any number of slots and collections of any        *)
(* length: no two places share storage unless a push made them, and an     *)
(* instruction that changes what a static holds notifies the scheduler.    *)
(***************************************************************************)
EXTENDS Collections, VectorProofs, FiniteSetTheorems, SequenceTheorems, TLAPS

-----------------------------------------------------------------------------
(* The inductive invariant *)

\* A handle is that of a collection on the heap, and a vector has no bit above its width.
Valid(hp, v) ==
  /\ IsArray(v) => v = Handle(v.array) /\ v.array \in DOMAIN hp
  /\ IsLogic(v) => WellFormed(v.logic)

\* Only lists of lists have collections as elements, and those are lists of vectors.
Element(hp, type, v) ==
  Valid(hp, v) /\ (IsArray(v) => type = "lists" /\ TypeOf(hp[v.array]) = "ints")

Collection(hp, c) ==
  IF IsQueue(c)
  THEN /\ c = Queue(c.of, c.queue) /\ c.of \in {"ints", "lists"}
       /\ c.queue \in Seq(Range(c.queue))
       /\ \A i \in DOMAIN c.queue : Element(hp, c.of, c.queue[i])
  ELSE \A k \in DOMAIN c.assoc : Valid(hp, c.assoc[k]) /\ ~IsArray(c.assoc[k])

GoodHeap(hp) == \A h \in DOMAIN hp : Collection(hp, hp[h])

\* A slot holds a collection of its declared type, or a vector that never changes.
GoodSlots(sl, hp) ==
  \A s \in Slots :
    IF IsVector(s) THEN IsLogic(sl[s]) /\ ~IsArray(sl[s]) /\ sl[s].logic \in Samples
    ELSE IsArray(sl[s]) /\ Valid(hp, sl[s]) /\ TypeOf(hp[sl[s].array]) = types[s]

\* Slots and elements that hold the same collection, one in pu.
Apart(sl, hp, pu) ==
  /\ \A s, t \in Slots : IsArray(sl[s]) /\ sl[s] = sl[t] /\ s # t => sl[s].array \in pu
  /\ \A s \in Slots, o \in DOMAIN hp : IsQueue(hp[o]) =>
       \A i \in DOMAIN hp[o].queue :
         IsArray(sl[s]) /\ hp[o].queue[i] = sl[s] => sl[s].array \in pu
  /\ \A o, p \in DOMAIN hp : IsQueue(hp[o]) /\ IsQueue(hp[p]) =>
       \A i \in DOMAIN hp[o].queue, j \in DOMAIN hp[p].queue :
         IsArray(hp[o].queue[i]) /\ hp[o].queue[i] = hp[p].queue[j] /\ (o # p \/ i # j) =>
           hp[o].queue[i].array \in pu

Good(sl, tv, hp, pu) ==
  GoodHeap(hp) /\ GoodSlots(sl, hp) /\ Valid(hp, tv) /\ Apart(sl, hp, pu)

\* New handles are only inside instructions.
Named0(hp) == \A h \in DOMAIN hp : ~IsNew(h)

Inv ==
  /\ types \in Declarations
  /\ slot = [s \in Slots |-> slot[s]]
  /\ Good(slot, temp, heap, pushed) /\ Named0(heap)

-----------------------------------------------------------------------------
(* Values *)

LEMMA ValueFacts ==
  ASSUME NEW h, NEW v, NEW type, NEW q, NEW f
  PROVE  /\ IsArray(Handle(h)) /\ Handle(h).array = h /\ ~IsLogic(Handle(h))
         /\ ~IsArray(Null) /\ ~IsLogic(Null)
         /\ ~IsArray(Logic(v)) /\ IsLogic(Logic(v)) /\ Logic(v).logic = v
         /\ IsQueue(Queue(type, q)) /\ Queue(type, q).queue = q /\ Queue(type, q).of = type
         /\ TypeOf(Queue(type, q)) = type
         /\ ~IsQueue(Assoc(f)) /\ Assoc(f).assoc = f /\ TypeOf(Assoc(f)) = "map"
  BY DEF IsArray, Handle, Null, Logic, IsLogic, IsQueue, Queue, TypeOf, Assoc

LEMMA SameHandle ==
  ASSUME NEW g, NEW h, Handle(g) = Handle(h)
  PROVE  g = h
<1>. QED BY Handle(g).array = Handle(h).array DEF Handle

LEMMA NewFacts ==
  ASSUME NEW i, NEW j
  PROVE  IsNew(New(i)) /\ New(i)[2] = i /\ (New(i) = New(j) => i = j)
  BY DEF IsNew, New

\* A list of declared type has that type.
LEMMA TypeFacts ==
  ASSUME NEW c
  PROVE  /\ IsQueue(c) => TypeOf(c) = c.of
         /\ ~IsQueue(c) => TypeOf(c) = "map"
         /\ \A hp : Collection(hp, c) => (IsQueue(c) <=> TypeOf(c) \in {"ints", "lists"})
  BY DEF TypeOf, Collection

\* What is said of a value that is not a handle does not depend on the heap.
LEMMA PlainValid ==
  ASSUME NEW hp, NEW hq, NEW v, Valid(hp, v), ~IsArray(v)
  PROVE  Valid(hq, v) /\ \A type : Element(hq, type, v)
  BY DEF Valid, Element

LEMMA PlainFacts ==
  ASSUME NEW hp, NEW v, WellFormed(v)
  PROVE  /\ Valid(hp, Null) /\ Valid(hp, Logic(v)) /\ \A type : Element(hp, type, Null)
         /\ \A h \in DOMAIN hp : Valid(hp, Handle(h))
  BY ValueFacts DEF Valid, Element

-----------------------------------------------------------------------------
(* Renaming handles.  name is injective on live, the handles in use. *)

Rename(name, v) == IF IsArray(v) THEN Handle(name[v.array]) ELSE v
RenameElements(name, c) ==
  IF IsQueue(c) THEN Queue(c.of, [i \in DOMAIN c.queue |-> Rename(name, c.queue[i])]) ELSE c

\* hq is the part live of hp under new names.
Renamed(hp, hq, live, name) ==
  /\ live \subseteq DOMAIN hp
  /\ \A g, h \in live : name[g] = name[h] => g = h
  /\ \A h \in live : IsQueue(hp[h]) =>
       \A i \in DOMAIN hp[h].queue : IsArray(hp[h].queue[i]) => hp[h].queue[i].array \in live
  /\ \A h \in live : name[h] \in DOMAIN hq /\ hq[name[h]] = RenameElements(name, hp[h])
  /\ \A x \in DOMAIN hq : \E h \in live : x = name[h]

\* What the elements of a renamed list are.
LEMMA RenamedList ==
  ASSUME NEW name, NEW hp, NEW c, Collection(hp, c), IsQueue(c)
  PROVE  LET d == RenameElements(name, c) IN
         /\ IsQueue(d) /\ d.of = c.of /\ TypeOf(d) = TypeOf(c) /\ d = Queue(d.of, d.queue)
         /\ DOMAIN d.queue = DOMAIN c.queue
         /\ d.queue \in Seq(Range(d.queue))
         /\ \A i \in DOMAIN c.queue : d.queue[i] = Rename(name, c.queue[i])
<1> DEFINE q == [i \in DOMAIN c.queue |-> Rename(name, c.queue[i])]
<1>1. RenameElements(name, c) = Queue(c.of, q)
  BY DEF RenameElements
<1>2. c.queue \in Seq(Range(c.queue))
  BY DEF Collection
<1>3. Len(c.queue) \in Nat /\ DOMAIN c.queue = 1..Len(c.queue)
  BY <1>2, LenProperties
<1>4. q \in [1..Len(c.queue) -> Range(q)]
  BY <1>3 DEF Range
<1>5. q \in Seq(Range(q))
  BY <1>3, <1>4, SeqDef
<1>6. DOMAIN q = DOMAIN c.queue /\ \A i \in DOMAIN c.queue : q[i] = Rename(name, c.queue[i])
  OBVIOUS
<1> HIDE DEF q
<1>. QED BY <1>1, <1>5, <1>6, ValueFacts, TypeFacts

LEMMA RenamedType ==
  ASSUME NEW name, NEW hp, NEW c, Collection(hp, c)
  PROVE  TypeOf(RenameElements(name, c)) = TypeOf(c)
<1>1. CASE IsQueue(c)
  BY <1>1, RenamedList
<1>2. CASE ~IsQueue(c)
  BY <1>2 DEF RenameElements
<1>. QED BY <1>1, <1>2

LEMMA RenamedHeap ==
  ASSUME NEW hp, NEW hq, NEW live, NEW name, GoodHeap(hp), Renamed(hp, hq, live, name)
  PROVE  GoodHeap(hq)
<1> SUFFICES ASSUME NEW x \in DOMAIN hq PROVE Collection(hq, hq[x])
  BY DEF GoodHeap
<1>1. PICK h \in live : x = name[h]
  BY DEF Renamed
<1>2. h \in DOMAIN hp /\ hq[x] = RenameElements(name, hp[h]) /\ Collection(hp, hp[h])
  BY <1>1 DEF Renamed, GoodHeap
<1> DEFINE c == hp[h]
           d == hq[x]
<1>3. d = RenameElements(name, c) /\ Collection(hp, c)
  BY <1>2
<1>4. CASE ~IsQueue(c)
  <2>1. d = c
    BY <1>3, <1>4 DEF RenameElements
  <2>2. \A k \in DOMAIN c.assoc : Valid(hp, c.assoc[k]) /\ ~IsArray(c.assoc[k])
    BY <1>3, <1>4 DEF Collection
  <2> HIDE DEF c, d
  <2>3. \A k \in DOMAIN c.assoc : Valid(hq, c.assoc[k]) /\ ~IsArray(c.assoc[k])
    BY <2>2, PlainValid
  <2>4. Collection(hq, c)
    BY <2>3, <1>4 DEF Collection
  <2>. QED BY <2>1, <2>4 DEF d
<1>5. CASE IsQueue(c)
  <2> HIDE DEF c, d
  <2>1. /\ IsQueue(d) /\ d.of = c.of /\ d = Queue(d.of, d.queue)
        /\ DOMAIN d.queue = DOMAIN c.queue
        /\ d.queue \in Seq(Range(d.queue))
        /\ \A i \in DOMAIN c.queue : d.queue[i] = Rename(name, c.queue[i])
    BY <1>3, <1>5, RenamedList
  <2>2. c.of \in {"ints", "lists"} /\ \A i \in DOMAIN c.queue : Element(hp, c.of, c.queue[i])
    BY <1>3, <1>5 DEF Collection
  <2>3. ASSUME NEW i \in DOMAIN c.queue PROVE Element(hq, d.of, d.queue[i])
    <3>1. CASE ~IsArray(c.queue[i])
      <4>1. d.queue[i] = c.queue[i] /\ Valid(hp, c.queue[i])
        BY <2>1, <2>2, <3>1 DEF Rename, Element
      <4>. QED BY <3>1, <4>1, PlainValid
    <3>2. CASE IsArray(c.queue[i])
      <4> DEFINE g == c.queue[i].array
      <4>1. g \in live
        BY <1>5, <3>2 DEF Renamed, c
      <4>2. d.queue[i] = Handle(name[g])
        BY <2>1, <3>2 DEF Rename
      <4>3. c.of = "lists" /\ TypeOf(hp[g]) = "ints" /\ g \in DOMAIN hp
        BY <2>2, <3>2 DEF Element, Valid
      <4>4. name[g] \in DOMAIN hq /\ TypeOf(hq[name[g]]) = TypeOf(hp[g])
        BY <4>1, <4>3, RenamedType DEF Renamed, GoodHeap
      <4> HIDE DEF g
      <4>. QED BY <2>1, <4>2, <4>3, <4>4, ValueFacts DEF Element, Valid
    <3>. QED BY <3>1, <3>2
  <2>4. Collection(hq, d)
    BY <2>1, <2>2, <2>3 DEF Collection
  <2>. QED BY <2>4 DEF d
<1>. QED BY <1>4, <1>5

\* An array that occurs in the renamed heap is the new name of one that occurs
\* in the heap.
LEMMA RenamedElement ==
  ASSUME NEW hp, NEW hq, NEW live, NEW name, GoodHeap(hp), Renamed(hp, hq, live, name),
         NEW o \in live, NEW x, x = name[o], IsQueue(hq[x]), NEW i \in DOMAIN hq[x].queue,
         IsArray(hq[x].queue[i])
  PROVE  /\ o \in DOMAIN hp /\ IsQueue(hp[o]) /\ i \in DOMAIN hp[o].queue
         /\ IsArray(hp[o].queue[i]) /\ hp[o].queue[i] = Handle(hp[o].queue[i].array)
         /\ hp[o].queue[i].array \in live
         /\ hq[x].queue[i] = Handle(name[hp[o].queue[i].array])
<1>1. o \in DOMAIN hp /\ hq[x] = RenameElements(name, hp[o]) /\ Collection(hp, hp[o])
  BY DEF Renamed, GoodHeap
<1>2. IsQueue(hp[o])
  BY <1>1 DEF RenameElements
<1>3. /\ DOMAIN hq[x].queue = DOMAIN hp[o].queue
      /\ hq[x].queue[i] = Rename(name, hp[o].queue[i])
  BY <1>1, <1>2, RenamedList
<1>4. IsArray(hp[o].queue[i])
  BY <1>3 DEF Rename
<1>5. Element(hp, hp[o].of, hp[o].queue[i])
  BY <1>1, <1>2, <1>3 DEF Collection
<1>. QED BY <1>1, <1>2, <1>3, <1>4, <1>5 DEF Rename, Element, Valid, Renamed

LEMMA RenamedApart ==
  ASSUME NEW hp, NEW hq, NEW live, NEW name, GoodHeap(hp), Renamed(hp, hq, live, name),
         NEW sl, NEW sm, NEW pu, NEW pv, Apart(sl, hp, pu),
         \A s \in Slots : sm[s] = Rename(name, sl[s]),
         \A s \in Slots : IsArray(sl[s]) => sl[s] = Handle(sl[s].array) /\ sl[s].array \in live,
         \A h \in live : h \in pu => name[h] \in pv
  PROVE  Apart(sm, hq, pv)
<1>1. \A s \in Slots : IsArray(sm[s]) =>
        /\ IsArray(sl[s]) /\ sl[s] = Handle(sl[s].array) /\ sl[s].array \in live
        /\ sm[s] = Handle(name[sl[s].array]) /\ sm[s].array = name[sl[s].array]
  BY ValueFacts DEF Rename
<1>2. \A g, h \in live : name[g] = name[h] => g = h
  BY DEF Renamed
<1>3. ASSUME NEW s \in Slots, NEW t \in Slots, IsArray(sm[s]), sm[s] = sm[t], s # t
      PROVE  sm[s].array \in pv
  <2>1. sl[s] = sl[t] /\ IsArray(sl[s])
    BY <1>1, <1>2, <1>3
  <2>. QED BY <2>1, <1>1, <1>3 DEF Apart
<1>4. ASSUME NEW s \in Slots, NEW x \in DOMAIN hq, IsQueue(hq[x]), NEW i \in DOMAIN hq[x].queue,
             IsArray(sm[s]), hq[x].queue[i] = sm[s]
      PROVE  sm[s].array \in pv
  <2>1. PICK o \in live : x = name[o]
    BY DEF Renamed
  <2>2. /\ o \in DOMAIN hp /\ IsQueue(hp[o]) /\ i \in DOMAIN hp[o].queue
        /\ IsArray(hp[o].queue[i]) /\ hp[o].queue[i] = Handle(hp[o].queue[i].array)
        /\ hp[o].queue[i].array \in live
        /\ hq[x].queue[i] = Handle(name[hp[o].queue[i].array])
    BY <1>4, <2>1, RenamedElement
  <2> DEFINE a == name[hp[o].queue[i].array]
             b == name[sl[s].array]
  <2>3. a = b
    <3>1. Handle(a) = Handle(b)
      BY <2>2, <1>1, <1>4
    <3> HIDE DEF a, b
    <3>. QED BY <3>1, SameHandle
  <2>4. hp[o].queue[i] = sl[s]
    BY <2>2, <2>3, <1>1, <1>2, <1>4
  <2>. QED BY <2>2, <2>4, <1>1, <1>4 DEF Apart
<1>5. ASSUME NEW x \in DOMAIN hq, NEW y \in DOMAIN hq, IsQueue(hq[x]), IsQueue(hq[y]),
             NEW i \in DOMAIN hq[x].queue, NEW j \in DOMAIN hq[y].queue,
             IsArray(hq[x].queue[i]), hq[x].queue[i] = hq[y].queue[j], x # y \/ i # j
      PROVE  hq[x].queue[i].array \in pv
  <2>1. PICK o \in live : x = name[o]
    BY DEF Renamed
  <2>2. PICK p \in live : y = name[p]
    BY DEF Renamed
  <2>3. /\ o \in DOMAIN hp /\ IsQueue(hp[o]) /\ i \in DOMAIN hp[o].queue
        /\ IsArray(hp[o].queue[i]) /\ hp[o].queue[i] = Handle(hp[o].queue[i].array)
        /\ hp[o].queue[i].array \in live
        /\ hq[x].queue[i] = Handle(name[hp[o].queue[i].array])
    BY <1>5, <2>1, RenamedElement
  <2>4. /\ p \in DOMAIN hp /\ IsQueue(hp[p]) /\ j \in DOMAIN hp[p].queue
        /\ IsArray(hp[p].queue[j]) /\ hp[p].queue[j] = Handle(hp[p].queue[j].array)
        /\ hp[p].queue[j].array \in live
        /\ hq[y].queue[j] = Handle(name[hp[p].queue[j].array])
    BY <1>5, <2>2, RenamedElement
  <2> DEFINE a == name[hp[o].queue[i].array]
             b == name[hp[p].queue[j].array]
  <2>5. a = b
    <3>1. Handle(a) = Handle(b)
      BY <2>3, <2>4, <1>5
    <3> HIDE DEF a, b
    <3>. QED BY <3>1, SameHandle
  <2>6. hp[o].queue[i] = hp[p].queue[j] /\ (o # p \/ i # j)
    BY <2>1, <2>2, <2>3, <2>4, <2>5, <1>2, <1>5
  <2>7. hp[o].queue[i].array \in pu
    BY <2>3, <2>4, <2>6 DEF Apart
  <2>. QED BY <2>3, <2>7, ValueFacts
<1>. QED BY <1>3, <1>4, <1>5 DEF Apart

\* Renaming shows in nothing that can be read.
LEMMA RenamedContents ==
  ASSUME NEW hp, NEW hq, NEW live, NEW name, GoodHeap(hp), Renamed(hp, hq, live, name),
         NEW v, IsArray(v) => v = Handle(v.array) /\ v.array \in live
  PROVE  Contents(Rename(name, v), hq) = Contents(v, hp)
<1>1. CASE ~IsArray(v)
  BY <1>1 DEF Rename, Contents
<1>2. CASE IsArray(v)
  <2> DEFINE g == v.array
             leaf(hx, e) == IF IsArray(e) THEN hx[e.array] ELSE e
  <2>1. g \in live /\ Rename(name, v) = Handle(name[g]) /\ g \in DOMAIN hp
    BY <1>2 DEF Rename, Renamed
  <2>2. hq[name[g]] = RenameElements(name, hp[g]) /\ Collection(hp, hp[g])
    BY <2>1 DEF Renamed, GoodHeap
  <2>3. IsArray(Rename(name, v)) /\ Rename(name, v).array = name[g]
    BY <2>1, ValueFacts
  <2>4. CASE ~IsQueue(hp[g])
    BY <1>2, <2>2, <2>3, <2>4 DEF RenameElements, Contents
  <2>5. CASE IsQueue(hp[g])
    <3> DEFINE c == hp[g]
               d == hq[name[g]]
    <3>1. /\ IsQueue(d) /\ DOMAIN d.queue = DOMAIN c.queue
          /\ \A i \in DOMAIN c.queue : d.queue[i] = Rename(name, c.queue[i])
      BY <2>2, <2>5, RenamedList
    <3>2. \A i \in DOMAIN c.queue : Element(hp, c.of, c.queue[i])
      BY <2>2, <2>5 DEF Collection
    <3>3. ASSUME NEW i \in DOMAIN c.queue PROVE leaf(hq, d.queue[i]) = leaf(hp, c.queue[i])
      <4>1. CASE ~IsArray(c.queue[i])
        BY <3>1, <4>1 DEF Rename
      <4>2. CASE IsArray(c.queue[i])
        <5> DEFINE e == c.queue[i].array
        <5>1. e \in live /\ e \in DOMAIN hp /\ TypeOf(hp[e]) = "ints"
          BY <2>1, <2>5, <3>2, <4>2 DEF Renamed, Element, Valid
        <5>2. d.queue[i] = Handle(name[e])
          BY <3>1, <4>2 DEF Rename
        <5>3. hq[name[e]] = RenameElements(name, hp[e]) /\ Collection(hp, hp[e])
          BY <5>1 DEF Renamed, GoodHeap
        <5>4. RenameElements(name, hp[e]) = hp[e]
          <6> DEFINE b == hp[e]
          <6>1. IsQueue(b) /\ b.of = "ints" /\ b = Queue(b.of, b.queue)
            BY <5>1, <5>3, TypeFacts DEF Collection
          <6>2. \A k \in DOMAIN b.queue : ~IsArray(b.queue[k])
            BY <5>3, <6>1 DEF Collection, Element
          <6>3. b.queue \in Seq(Range(b.queue))
            BY <5>3, <6>1 DEF Collection
          <6> HIDE DEF b
          <6>4. b.queue = [k \in DOMAIN b.queue |-> b.queue[k]]
            BY <6>3, LenProperties
          <6>5. [k \in DOMAIN b.queue |-> Rename(name, b.queue[k])] = [k \in DOMAIN b.queue |-> b.queue[k]]
            BY <6>2 DEF Rename
          <6>6. RenameElements(name, b) = b
            BY <6>1, <6>4, <6>5 DEF RenameElements
          <6>. QED BY <6>6 DEF b
        <5> HIDE DEF e
        <5>5. leaf(hq, d.queue[i]) = hq[name[e]]
          BY <5>2, ValueFacts
        <5>. QED BY <5>3, <5>4, <5>5, <4>2 DEF e
      <4>. QED BY <4>1, <4>2
    <3>4. Contents(Rename(name, v), hq) = [i \in DOMAIN d.queue |-> leaf(hq, d.queue[i])]
      BY <2>3, <3>1 DEF Contents
    <3>5. Contents(v, hp) = [i \in DOMAIN c.queue |-> leaf(hp, c.queue[i])]
      BY <1>2, <2>5 DEF Contents
    <3> HIDE DEF c, d, leaf
    <3>. QED BY <3>1, <3>3, <3>4, <3>5
  <2>. QED BY <2>4, <2>5
<1>. QED BY <1>1, <1>2

-----------------------------------------------------------------------------
(* Naming handles by places is such a renaming. *)

Live(values, hp) == {AtPlace(values, hp, p).array : p \in Places(values, hp)}
NameOf(values, hp) ==
  [h \in Live(values, hp) |-> CHOOSE p \in Places(values, hp) : AtPlace(values, hp, p) = Handle(h)]

\* What is at a place: a root, or an element of a list of lists.
LEMMA PlaceOf ==
  ASSUME NEW values, NEW hp, GoodHeap(hp), \A r \in Roots : Valid(hp, values[r]),
         NEW p \in Places(values, hp)
  PROVE  LET v == AtPlace(values, hp, p) IN
         /\ p[1] \in Roots /\ IsArray(v) /\ v = Handle(v.array) /\ v.array \in DOMAIN hp
         /\ v = values[p[1]] \/ TypeOf(hp[v.array]) = "ints"
<1> DEFINE last(r) == IF IsArray(values[r]) /\ IsQueue(hp[values[r].array])
                      THEN Len(hp[values[r].array].queue) ELSE 0
<1>0. PICK r \in Roots : \E i \in 0..last(r) : p = <<r, i>> /\ IsArray(AtPlace(values, hp, <<r, i>>))
  BY DEF Places
<1>1. PICK i \in 0..last(r) : p = <<r, i>> /\ IsArray(AtPlace(values, hp, <<r, i>>))
  BY <1>0
<1>2. p[1] = r /\ p[2] = i
  BY <1>1
<1>3. CASE i = 0
  <2>1. AtPlace(values, hp, p) = values[r]
    BY <1>2, <1>3 DEF AtPlace
  <2>. QED BY <2>1, <1>1, <1>2 DEF Valid
<1>4. CASE i # 0
  <2>1. IsArray(values[r]) /\ IsQueue(hp[values[r].array])
    BY <1>1, <1>4
  <2> DEFINE c == hp[values[r].array]
  <2>2. Collection(hp, c) /\ IsQueue(c)
    BY <2>1 DEF Valid, GoodHeap
  <2>3. i \in 1..Len(c.queue)
    BY <1>1, <1>4, <2>1
  <2>4. AtPlace(values, hp, p) = c.queue[i]
    BY <1>2, <1>4 DEF AtPlace
  <2> HIDE DEF c
  <2>5. i \in DOMAIN c.queue
    BY <2>2, <2>3, LenProperties DEF Collection
  <2>6. Element(hp, c.of, c.queue[i])
    BY <2>2, <2>5 DEF Collection
  <2>. QED BY <2>4, <2>6, <1>1, <1>2 DEF Element, Valid
<1>. QED BY <1>3, <1>4

\* Roots and their elements have places.
LEMMA RootPlaces ==
  ASSUME NEW values, NEW hp, GoodHeap(hp), \A r \in Roots : Valid(hp, values[r]),
         NEW r \in Roots, IsArray(values[r])
  PROVE  /\ \E p \in Places(values, hp) : AtPlace(values, hp, p) = values[r]
         /\ IsQueue(hp[values[r].array]) =>
              \A i \in DOMAIN hp[values[r].array].queue :
                IsArray(hp[values[r].array].queue[i]) =>
                  \E p \in Places(values, hp) :
                    AtPlace(values, hp, p) = hp[values[r].array].queue[i]
<1> DEFINE last(t) == IF IsArray(values[t]) /\ IsQueue(hp[values[t].array])
                      THEN Len(hp[values[t].array].queue) ELSE 0
           c == hp[values[r].array]
<1>0. \A i \in 0..last(r) : IsArray(AtPlace(values, hp, <<r, i>>)) => <<r, i>> \in Places(values, hp)
  <2> DEFINE some(t) == {<<t, i>> : i \in {j \in 0..last(t) : IsArray(AtPlace(values, hp, <<t, j>>))}}
  <2>1. Places(values, hp) = UNION {some(t) : t \in Roots}
    BY DEF Places
  <2>2. \A i \in 0..last(r) : IsArray(AtPlace(values, hp, <<r, i>>)) => <<r, i>> \in some(r)
    OBVIOUS
  <2> HIDE DEF some
  <2>. QED BY <2>1, <2>2
<1>1. Collection(hp, c)
  BY DEF Valid, GoodHeap
<1>2. IsQueue(c) => Len(c.queue) \in Nat /\ DOMAIN c.queue = 1..Len(c.queue) /\ last(r) = Len(c.queue)
  <2> HIDE DEF c
  <2>1. IsQueue(c) => Len(c.queue) \in Nat /\ DOMAIN c.queue = 1..Len(c.queue)
    BY <1>1, LenProperties DEF Collection
  <2>. QED BY <2>1 DEF c
<1>3. 0 \in 0..last(r)
  BY <1>2
<1>4. AtPlace(values, hp, <<r, 0>>) = values[r]
  BY DEF AtPlace
<1>5. \A i \in DOMAIN c.queue : IsQueue(c) => AtPlace(values, hp, <<r, i>>) = c.queue[i] /\ i \in 0..last(r)
  BY <1>2 DEF AtPlace
<1>. QED BY <1>0, <1>3, <1>4, <1>5

\* Names lead back to the handles.
LEMMA NameFacts ==
  ASSUME NEW values, NEW hp, GoodHeap(hp), \A r \in Roots : Valid(hp, values[r])
  PROVE  LET live == Live(values, hp)
             name == NameOf(values, hp)
         IN /\ live \subseteq DOMAIN hp
            /\ \A h \in live : /\ name[h] \in Places(values, hp)
                               /\ AtPlace(values, hp, name[h]) = Handle(h)
                               /\ AtPlace(values, hp, name[h]).array = h
            /\ \A v : IsArray(v) /\ v = Handle(v.array) /\ v.array \in live =>
                 Named(values, hp, v) = Rename(name, v)
            /\ \A p \in Places(values, hp) :
                 /\ AtPlace(values, hp, p).array \in live
                 /\ Named(values, hp, AtPlace(values, hp, p)).array = name[AtPlace(values, hp, p).array]
<1> DEFINE P == Places(values, hp)
           at(p) == AtPlace(values, hp, p)
           live == Live(values, hp)
           name == NameOf(values, hp)
<1>1. \A p \in P : IsArray(at(p)) /\ at(p) = Handle(at(p).array) /\ at(p).array \in DOMAIN hp
  BY PlaceOf
<1>2. \A p \in P : at(p).array \in live
  BY DEF Live
<1>3. live \subseteq DOMAIN hp
  BY <1>1 DEF Live
<1>4. \A h \in live : \E p \in P : at(p) = Handle(h)
  <2>1. \A h \in live : \E p \in P : h = at(p).array
    BY DEF Live
  <2>. QED BY <2>1, <1>1
<1>5. \A h \in live : name[h] = CHOOSE p \in P : at(p) = Handle(h)
  BY DEF NameOf
<1>6. \A h \in live : name[h] \in P /\ at(name[h]) = Handle(h)
  BY <1>4, <1>5
<1>7. \A h \in live : at(name[h]).array = h
  BY <1>6, ValueFacts
<1>8. ASSUME NEW v, IsArray(v), v = Handle(v.array), v.array \in live
      PROVE  Named(values, hp, v) = Rename(name, v)
  <2> DEFINE h == v.array
  <2>1. v = Handle(h) /\ h \in live
    BY <1>8
  <2>2. Named(values, hp, v) = Handle(CHOOSE p \in P : at(p) = v)
    BY <1>8 DEF Named
  <2>3. Rename(name, v) = Handle(name[h])
    BY <1>8 DEF Rename
  <2>4. name[h] = CHOOSE p \in P : at(p) = Handle(h)
    BY <1>5, <2>1
  <2> HIDE DEF h
  <2>5. (CHOOSE p \in P : at(p) = v) = CHOOSE p \in P : at(p) = Handle(h)
    BY <2>1
  <2>. QED BY <2>2, <2>3, <2>4, <2>5
<1>9. \A p \in P : Named(values, hp, at(p)).array = name[at(p).array]
  <2> SUFFICES ASSUME NEW p \in P PROVE Named(values, hp, at(p)).array = name[at(p).array]
    OBVIOUS
  <2>1. Named(values, hp, at(p)) = Rename(name, at(p))
    BY <1>1, <1>2, <1>8
  <2>2. Rename(name, at(p)) = Handle(name[at(p).array])
    BY <1>1 DEF Rename
  <2>. QED BY <2>1, <2>2, ValueFacts
<1> HIDE DEF P, at, live, name
<1>10. \A v : IsArray(v) /\ v = Handle(v.array) /\ v.array \in live => Named(values, hp, v) = Rename(name, v)
  BY <1>8
<1>. QED BY <1>2, <1>3, <1>6, <1>7, <1>9, <1>10 DEF P, at, live, name

LEMMA NamingRenames ==
  ASSUME NEW values, NEW hp, GoodHeap(hp), \A r \in Roots : Valid(hp, values[r]),
         NEW hq,
         hq = [x \in {Named(values, hp, AtPlace(values, hp, p)).array : p \in Places(values, hp)} |->
                 NamedElements(values, hp, hp[AtPlace(values, hp, x).array])]
  PROVE  Renamed(hp, hq, Live(values, hp), NameOf(values, hp))
<1> DEFINE P == Places(values, hp)
           at(p) == AtPlace(values, hp, p)
           live == Live(values, hp)
           name == NameOf(values, hp)
<1>1. /\ live \subseteq DOMAIN hp
      /\ \A h \in live : name[h] \in P /\ at(name[h]).array = h
      /\ \A v : IsArray(v) /\ v = Handle(v.array) /\ v.array \in live => Named(values, hp, v) = Rename(name, v)
      /\ \A p \in P : at(p).array \in live /\ Named(values, hp, at(p)).array = name[at(p).array]
  BY NameFacts
<1>2. \A g, h \in live : name[g] = name[h] => g = h
  BY <1>1
<1>3. ASSUME NEW h \in live, IsQueue(hp[h]), NEW i \in DOMAIN hp[h].queue, IsArray(hp[h].queue[i])
      PROVE  /\ hp[h].queue[i].array \in live
             /\ hp[h].queue[i] = Handle(hp[h].queue[i].array)
  <2>1. PICK p \in P : h = at(p).array
    BY DEF Live
  <2>2. /\ p[1] \in Roots /\ IsArray(at(p)) /\ at(p) = Handle(h) /\ h \in DOMAIN hp
        /\ at(p) = values[p[1]] \/ TypeOf(hp[h]) = "ints"
    BY <2>1, PlaceOf
  <2>3. Collection(hp, hp[h])
    BY <2>2 DEF GoodHeap
  <2>4. Element(hp, hp[h].of, hp[h].queue[i])
    BY <1>3, <2>3 DEF Collection
  <2>5. hp[h].of = "lists" /\ hp[h].queue[i] = Handle(hp[h].queue[i].array)
    BY <1>3, <2>4 DEF Element, Valid
  <2>6. at(p) = values[p[1]]
    BY <2>2, <2>5, <1>3, TypeFacts
  <2>7. IsArray(values[p[1]]) /\ values[p[1]].array = h
    BY <2>1, <2>2, <2>6
  <2>8. \E q \in P : at(q) = hp[h].queue[i]
    BY <1>3, <2>2, <2>7, RootPlaces
  <2>. QED BY <2>5, <2>8, <1>1
<1>4. \A h \in live : NamedElements(values, hp, hp[h]) = RenameElements(name, hp[h])
  <2> SUFFICES ASSUME NEW h \in live, IsQueue(hp[h])
               PROVE  NamedElements(values, hp, hp[h]) = RenameElements(name, hp[h])
    BY DEF NamedElements, RenameElements
  <2>1. \A i \in DOMAIN hp[h].queue : Named(values, hp, hp[h].queue[i]) = Rename(name, hp[h].queue[i])
    <3> SUFFICES ASSUME NEW i \in DOMAIN hp[h].queue
                 PROVE  Named(values, hp, hp[h].queue[i]) = Rename(name, hp[h].queue[i])
      OBVIOUS
    <3>1. CASE IsArray(hp[h].queue[i])
      BY <3>1, <1>1, <1>3
    <3>2. CASE ~IsArray(hp[h].queue[i])
      BY <3>2 DEF Named, Rename
    <3>. QED BY <3>1, <3>2
  <2> DEFINE c == hp[h]
  <2> HIDE DEF name
  <2>. QED BY <2>1 DEF NamedElements, RenameElements
<1>5. ASSUME NEW h \in live
      PROVE  name[h] \in DOMAIN hq /\ hq[name[h]] = RenameElements(name, hp[h])
  <2>1. name[h] \in P /\ at(name[h]).array = h /\ Named(values, hp, at(name[h])).array = name[h]
    BY <1>1
  <2>2. name[h] \in {Named(values, hp, at(p)).array : p \in P}
    BY <2>1
  <2>3. hq[name[h]] = NamedElements(values, hp, hp[at(name[h]).array]) /\ name[h] \in DOMAIN hq
    BY <2>2
  <2>. QED BY <2>1, <2>3, <1>4
<1>6. \A x \in DOMAIN hq : \E h \in live : x = name[h]
  <2>1. \A x \in DOMAIN hq : \E p \in P : x = Named(values, hp, at(p)).array
    OBVIOUS
  <2>. QED BY <2>1, <1>1
<1> HIDE DEF P, at, live, name
<1>7. Renamed(hp, hq, live, name)
  BY <1>1, <1>2, <1>3, <1>5, <1>6 DEF Renamed
<1>. QED BY <1>7 DEF live, name

-----------------------------------------------------------------------------
(* The end of an instruction *)

\* Whatever an instruction leaves, the invariant holds of it under its new names, and
\* the slots hold what they did.
LEMMA PutKeeps ==
  ASSUME NEW sl, NEW tv, NEW hp, NEW note, NEW pushing,
         types \in Declarations, Good(sl, tv, hp, pushed \cup pushing),
         Put(sl, tv, hp, note, pushing)
  PROVE  /\ Inv' /\ notified' = note
         /\ \A s \in Slots : Contents(slot[s], heap)' = Contents(sl[s], hp)
<1> DEFINE values == [r \in Roots |-> IF r = "temp" THEN tv ELSE sl[r]]
           P == Places(values, hp)
           at(p) == AtPlace(values, hp, p)
           live == Live(values, hp)
           name == NameOf(values, hp)
           names == {Named(values, hp, at(p)).array : p \in P}
<1>1. /\ slot' = [s \in Slots |-> Named(values, hp, sl[s])]
      /\ temp' = Named(values, hp, tv)
      /\ heap' = [x \in names |-> NamedElements(values, hp, hp[at(x).array])]
      /\ notified' = note
      /\ pushed' = {x \in names : at(x).array \in pushed \cup pushing}
      /\ types' = types
  BY DEF Put
<1>2. /\ \A s \in Slots : s \in Roots /\ values[s] = sl[s]
      /\ "temp" \in Roots /\ values["temp"] = tv
      /\ "new" \notin Roots
  BY SlotAssumption DEF Roots
<1>3. GoodHeap(hp) /\ GoodSlots(sl, hp) /\ Valid(hp, tv) /\ Apart(sl, hp, pushed \cup pushing)
  BY DEF Good
<1>4. \A r \in Roots : Valid(hp, values[r])
  <2>1. \A v : v \in Samples => WellFormed(v)
    BY SampleAssumption
  <2>2. \A s \in Slots : Valid(hp, sl[s])
    BY <1>3, <2>1 DEF GoodSlots, Valid
  <2>. QED BY <1>2, <1>3, <2>2 DEF Roots
<1> HIDE DEF values
<1>5. Renamed(hp, heap', live, name)
  BY <1>1, <1>3, <1>4, NamingRenames
<1>6. /\ live \subseteq DOMAIN hp
      /\ \A h \in live : name[h] \in P /\ at(name[h]).array = h
      /\ \A v : IsArray(v) /\ v = Handle(v.array) /\ v.array \in live => Named(values, hp, v) = Rename(name, v)
      /\ \A p \in P : at(p).array \in live /\ Named(values, hp, at(p)).array = name[at(p).array]
  BY <1>3, <1>4, NameFacts
<1>7. \A r \in Roots : IsArray(values[r]) =>
        values[r] = Handle(values[r].array) /\ values[r].array \in live
  BY <1>3, <1>4, <1>6, RootPlaces DEF Valid
<1>8. \A r \in Roots : Named(values, hp, values[r]) = Rename(name, values[r])
  BY <1>6, <1>7 DEF Named, Rename
<1>9. /\ \A s \in Slots : slot'[s] = Rename(name, sl[s])
      /\ temp' = Rename(name, tv)
      /\ \A s \in Slots : IsArray(sl[s]) => sl[s] = Handle(sl[s].array) /\ sl[s].array \in live
      /\ IsArray(tv) => tv.array \in live
  BY <1>1, <1>2, <1>7, <1>8
<1>10. \A h \in live : name[h] \in DOMAIN heap' /\ heap'[name[h]] = RenameElements(name, hp[h])
                       /\ Collection(hp, hp[h])
  BY <1>3, <1>5 DEF Renamed, GoodHeap
<1>11. GoodHeap(heap)'
  BY <1>3, <1>5, RenamedHeap
<1>12. GoodSlots(slot, heap)'
  <2> SUFFICES ASSUME NEW s \in Slots
               PROVE  IF types[s] = "vector"
                      THEN IsLogic(slot'[s]) /\ ~IsArray(slot'[s]) /\ slot'[s].logic \in Samples
                      ELSE /\ IsArray(slot'[s]) /\ Valid(heap', slot'[s])
                           /\ TypeOf(heap'[slot'[s].array]) = types[s]
    BY <1>1 DEF GoodSlots, IsVector
  <2>1. CASE types[s] = "vector"
    BY <2>1, <1>3, <1>9 DEF GoodSlots, IsVector, Rename
  <2>2. CASE types[s] # "vector"
    <3> DEFINE h == sl[s].array
    <3>1. IsArray(sl[s]) /\ TypeOf(hp[h]) = types[s] /\ h \in live
      BY <2>2, <1>3, <1>9 DEF GoodSlots, IsVector
    <3>2. slot'[s] = Handle(name[h])
      BY <3>1, <1>9 DEF Rename
    <3>3. TypeOf(heap'[name[h]]) = types[s] /\ name[h] \in DOMAIN heap'
      BY <3>1, <1>10, RenamedType
    <3> HIDE DEF h
    <3>. QED BY <2>2, <3>2, <3>3, ValueFacts DEF Valid
  <2>. QED BY <2>1, <2>2
<1>13. Valid(heap, temp)'
  <2>1. CASE ~IsArray(tv)
    <3>1. temp' = tv
      BY <2>1, <1>9 DEF Rename
    <3>. QED BY <2>1, <3>1, <1>3, PlainValid
  <2>2. CASE IsArray(tv)
    <3> DEFINE h == tv.array
    <3>1. temp' = Handle(name[h]) /\ name[h] \in DOMAIN heap'
      BY <2>2, <1>9, <1>10 DEF Rename
    <3> HIDE DEF h
    <3>. QED BY <3>1, ValueFacts DEF Valid
  <2>. QED BY <2>1, <2>2
<1>14. Apart(slot, heap, pushed)'
  <2>1. \A h \in live : h \in pushed \cup pushing => name[h] \in pushed'
    <3>1. \A h \in live : name[h] \in names /\ at(name[h]).array = h
      BY <1>6
    <3>. QED BY <3>1, <1>1
  <2>. QED BY <1>3, <1>5, <1>9, <2>1, RenamedApart
<1>15. Named0(heap)'
  <2> SUFFICES ASSUME NEW x \in DOMAIN heap' PROVE x[1] # "new"
    BY DEF Named0, IsNew
  <2>1. PICK h \in live : x = name[h]
    BY <1>5 DEF Renamed
  <2>2. x \in P
    BY <2>1, <1>6
  <2>. QED BY <2>2, <1>2, <1>3, <1>4, PlaceOf
<1>16. \A s \in Slots : Contents(slot'[s], heap') = Contents(sl[s], hp)
  BY <1>3, <1>5, <1>9, RenamedContents
<1>17. (slot = [s \in Slots |-> slot[s]])'
  BY <1>1
<1>18. Inv'
  BY <1>1, <1>11, <1>12, <1>13, <1>14, <1>15, <1>17 DEF Inv, Good
<1>. QED BY <1>1, <1>16, <1>18

-----------------------------------------------------------------------------
(* Inside an instruction: copies *)

\* No slot and no element holds the collection v.
Unheld(sl, hp, v) ==
  IsArray(v) =>
    /\ \A s \in Slots : sl[s] # v
    /\ \A o \in DOMAIN hp : IsQueue(hp[o]) => \A i \in DOMAIN hp[o].queue : hp[o].queue[i] # v

\* hq is hp with more collections.
Extends(hp, hq) == DOMAIN hp \subseteq DOMAIN hq /\ \A h \in DOMAIN hp : hq[h] = hp[h]

LEMMA ListFacts ==
  ASSUME NEW n \in Nat, NEW q, q = [i \in 1..n |-> q[i]]
  PROVE  q \in Seq(Range(q)) /\ Len(q) = n /\ DOMAIN q = 1..n
<1>1. q \in [1..n -> Range(q)]
  BY DEF Range
<1>2. q \in Seq(Range(q))
  BY <1>1, SeqDef
<1>3. DOMAIN q = 1..n /\ Len(q) \in Nat /\ DOMAIN q = 1..Len(q)
  BY <1>1, <1>2, LenProperties
<1>. QED BY <1>2, <1>3

LEMMA QueueFacts ==
  ASSUME NEW hp, NEW c, Collection(hp, c), IsQueue(c)
  PROVE  /\ Len(c.queue) \in Nat /\ DOMAIN c.queue = 1..Len(c.queue)
         /\ c.queue \in Seq(Range(c.queue)) /\ c = Queue(c.of, c.queue)
         /\ \A i \in DOMAIN c.queue : Element(hp, c.of, c.queue[i])
  BY LenProperties DEF Collection

\* What holds of collections on a heap holds with more of them there.
LEMMA ExtendsKeeps ==
  ASSUME NEW hp, NEW hq, Extends(hp, hq)
  PROVE  /\ \A v : Valid(hp, v) => Valid(hq, v)
         /\ \A type, v : Element(hp, type, v) => Element(hq, type, v)
         /\ \A c : Collection(hp, c) => Collection(hq, c)
         /\ \A sl : GoodSlots(sl, hp) => GoodSlots(sl, hq)
<1>1. \A v : Valid(hp, v) => Valid(hq, v)
  BY DEF Extends, Valid
<1>2. \A type, v : Element(hp, type, v) => Element(hq, type, v)
  BY DEF Extends, Element, Valid
<1>3. \A c : Collection(hp, c) => Collection(hq, c)
  BY <1>1, <1>2 DEF Collection
<1>4. \A sl : GoodSlots(sl, hp) => GoodSlots(sl, hq)
  BY <1>1 DEF GoodSlots, Extends, Valid
<1>. QED BY <1>1, <1>2, <1>3, <1>4

LEMMA ExtendsContents ==
  ASSUME NEW hp, NEW hq, Extends(hp, hq), GoodHeap(hp), NEW v, Valid(hp, v)
  PROVE  Contents(v, hq) = Contents(v, hp)
<1> SUFFICES ASSUME IsArray(v), IsQueue(hp[v.array])
             PROVE  Contents(v, hq) = Contents(v, hp)
  BY DEF Contents, Valid, Extends
<1> DEFINE q == hp[v.array].queue
           leaf(hx, e) == IF IsArray(e) THEN hx[e.array] ELSE e
<1>1. v.array \in DOMAIN hp /\ hq[v.array] = hp[v.array]
  BY DEF Valid, Extends
<1>2. \A i \in DOMAIN q : Valid(hp, q[i])
  <2>1. Collection(hp, hp[v.array])
    BY <1>1 DEF GoodHeap
  <2>. QED BY <2>1, QueueFacts DEF Element, Valid
<1>3. \A i \in DOMAIN q : leaf(hq, q[i]) = leaf(hp, q[i])
  BY <1>2 DEF Valid, Extends
<1>4. /\ Contents(v, hp) = [i \in DOMAIN q |-> leaf(hp, q[i])]
      /\ Contents(v, hq) = [i \in DOMAIN q |-> leaf(hq, q[i])]
  BY <1>1 DEF Contents
<1> HIDE DEF q, leaf
<1>. QED BY <1>3, <1>4

\* A copy is a collection that nothing holds, and so are its elements.
LEMMA CopyKeeps ==
  ASSUME NEW sl, NEW tv, NEW hp, NEW pu, Good(sl, tv, hp, pu), Named0(hp),
         NEW v, Valid(hp, v)
  PROVE  LET c == AssignmentCopy(v, hp) IN
         /\ Good(sl, tv, c.heap, pu) /\ Extends(hp, c.heap)
         /\ Valid(c.heap, c.value) /\ (IsArray(v) => Unheld(sl, c.heap, c.value))
         /\ ~IsArray(v) => c.value = v
         /\ IsArray(v) => IsArray(c.value) /\ TypeOf(c.heap[c.value.array]) = TypeOf(hp[v.array])
<1>1. CASE ~IsArray(v)
  BY <1>1 DEF AssignmentCopy, Extends
<1>2. CASE IsArray(v)
  <2> DEFINE c == hp[v.array]
             nested == IF IsQueue(c) THEN {i \in DOMAIN c.queue : IsArray(c.queue[i])} ELSE {}
             q == [i \in DOMAIN c.queue |-> IF i \in nested THEN Handle(New(i)) ELSE c.queue[i]]
             copy == IF IsQueue(c) THEN Queue(c.of, q) ELSE c
             hq == [h \in DOMAIN hp \cup {New(i) : i \in {0} \cup nested} |->
                      IF ~IsNew(h) THEN hp[h]
                      ELSE IF h = New(0) THEN copy ELSE hp[c.queue[h[2]].array]]
  <2>1. AssignmentCopy(v, hp).value = Handle(New(0)) /\ AssignmentCopy(v, hp).heap = hq
    BY <1>2 DEF AssignmentCopy
  <2>2. v.array \in DOMAIN hp /\ Collection(hp, c)
    BY <1>2 DEF Good, GoodHeap, Valid
  <2>3. \A i : New(i) \notin DOMAIN hp
    BY NewFacts DEF Named0
  <2>4. DOMAIN hq = DOMAIN hp \cup {New(i) : i \in {0} \cup nested}
    OBVIOUS
  <2>5. Extends(hp, hq)
    BY <2>4 DEF Extends, Named0
  <2>6. New(0) \in DOMAIN hq /\ hq[New(0)] = copy
    BY NewFacts
  <2>7. \A i \in nested : i # 0 /\ New(i) \in DOMAIN hq /\ hq[New(i)] = hp[c.queue[i].array]
    <3> SUFFICES ASSUME NEW i \in nested
                 PROVE  i # 0 /\ New(i) \in DOMAIN hq /\ hq[New(i)] = hp[c.queue[i].array]
      OBVIOUS
    <3>1. IsQueue(c) /\ i \in DOMAIN c.queue
      OBVIOUS
    <3>2. i # 0
      <4> HIDE DEF c
      <4>. QED BY <3>1, <2>2, QueueFacts
    <3>3. New(i) \in DOMAIN hq
      BY <2>4
    <3>4. IsNew(New(i)) /\ New(i)[2] = i /\ New(i) # New(0)
      BY <3>2, NewFacts
    <3>. QED BY <3>2, <3>3, <3>4
  <2>8. \A i \in nested : /\ IsQueue(c) /\ c.of = "lists" /\ i \in DOMAIN c.queue
                          /\ c.queue[i].array \in DOMAIN hp
                          /\ TypeOf(hp[c.queue[i].array]) = "ints"
    BY <2>2, QueueFacts DEF Element, Valid
  <2>9. IsQueue(c) => /\ DOMAIN q = DOMAIN c.queue /\ q \in Seq(Range(q))
                      /\ \A i \in nested : q[i] = Handle(New(i))
                      /\ \A i \in DOMAIN c.queue : i \notin nested => q[i] = c.queue[i] /\ ~IsArray(q[i])
    <3>1. \A i \in DOMAIN c.queue : IsQueue(c) =>
            q[i] = (IF i \in nested THEN Handle(New(i)) ELSE c.queue[i]) /\ (i \in nested <=> IsArray(c.queue[i]))
      OBVIOUS
    <3>2. IsQueue(c) => nested \subseteq DOMAIN c.queue
      OBVIOUS
    <3>3. DOMAIN q = DOMAIN c.queue /\ q = [i \in DOMAIN c.queue |-> q[i]]
      OBVIOUS
    <3>4. IsQueue(c) => Len(c.queue) \in Nat /\ DOMAIN c.queue = 1..Len(c.queue)
      <4> HIDE DEF c
      <4>. QED BY <2>2, QueueFacts
    <3> HIDE DEF q, nested, c
    <3>5. IsQueue(c) => q \in Seq(Range(q))
      BY <3>3, <3>4, ListFacts
    <3>. QED BY <3>1, <3>2, <3>3, <3>5
  <2>10. IsQueue(c) => IsQueue(copy) /\ copy = Queue(c.of, q) /\ copy.queue = q /\ copy.of = c.of
    <3> HIDE DEF q, c
    <3>. QED BY ValueFacts
  <2>11. ~IsQueue(c) => copy = c
    OBVIOUS
  <2>12. TypeOf(copy) = TypeOf(c)
    BY <2>10, <2>11, TypeFacts
  <2>13. \A i \in nested : TypeOf(hq[New(i)]) = "ints"
    BY <2>7, <2>8
  <2> HIDE DEF c, nested, q, copy, hq
  <2>14. Collection(hq, copy)
    <3>1. CASE ~IsQueue(c)
      BY <3>1, <2>2, <2>5, <2>11, ExtendsKeeps
    <3>2. CASE IsQueue(c)
      <4>1. ASSUME NEW i \in DOMAIN q PROVE Element(hq, c.of, q[i])
        <5>1. CASE i \in nested
          BY <5>1, <2>7, <2>8, <2>9, <2>13, <3>2, ValueFacts DEF Element, Valid
        <5>2. CASE i \notin nested
          <6>1. q[i] = c.queue[i] /\ ~IsArray(q[i]) /\ Element(hp, c.of, c.queue[i])
            BY <5>2, <2>2, <2>9, <3>2, <4>1 DEF Collection
          <6>2. Valid(hp, q[i])
            BY <6>1 DEF Element
          <6>. QED BY <6>1, <6>2, PlainValid
        <5>. QED BY <5>1, <5>2
      <4>2. c.of \in {"ints", "lists"}
        BY <2>2, <3>2 DEF Collection
      <4>. QED BY <3>2, <4>1, <4>2, <2>9, <2>10 DEF Collection
    <3>. QED BY <3>1, <3>2
  <2>15. ASSUME NEW h \in DOMAIN hq
         PROVE  \/ h \in DOMAIN hp /\ hq[h] = hp[h]
                \/ h = New(0) /\ hq[h] = copy
                \/ \E i \in nested : h = New(i) /\ hq[h] = hp[c.queue[i].array]
    BY <2>4, <2>5, <2>6, <2>7 DEF Extends
  <2>16. GoodHeap(hq)
    <3> SUFFICES ASSUME NEW h \in DOMAIN hq PROVE Collection(hq, hq[h])
      BY DEF GoodHeap
    <3>1. \A g \in DOMAIN hp : Collection(hq, hp[g])
      BY <2>5, ExtendsKeeps DEF Good, GoodHeap
    <3>. QED BY <3>1, <2>8, <2>14, <2>15
  \* The collections that are held after the copy.
  <2>17. ASSUME NEW h \in DOMAIN hq, IsQueue(hq[h]), NEW i \in DOMAIN hq[h].queue, IsArray(hq[h].queue[i])
         PROVE  \/ h \in DOMAIN hp /\ hq[h] = hp[h] /\ hq[h].queue[i].array \in DOMAIN hp
                \/ h = New(0) /\ i \in nested /\ hq[h].queue[i] = Handle(New(i))
    <3>1. CASE h \in DOMAIN hp
      <4>1. hq[h] = hp[h] /\ Collection(hp, hp[h])
        BY <3>1, <2>5 DEF Extends, Good, GoodHeap
      <4>2. Element(hp, hp[h].of, hp[h].queue[i])
        BY <4>1, <2>17, QueueFacts
      <4>. QED BY <3>1, <4>1, <4>2, <2>17 DEF Element, Valid
    <3>2. CASE h = New(0) /\ hq[h] = copy
      <4>1. IsQueue(c)
        BY <3>2, <2>11, <2>17
      <4>. QED BY <3>2, <4>1, <2>9, <2>10, <2>17
    <3>3. CASE \E j \in nested : h = New(j) /\ hq[h] = hp[c.queue[j].array]
      <4>1. PICK j \in nested : hq[h] = hp[c.queue[j].array]
        BY <3>3
      <4>2. /\ TypeOf(hq[h]) = "ints" /\ Collection(hp, hq[h])
        BY <4>1, <2>8 DEF Good, GoodHeap
      <4>3. hq[h].of = "ints"
        BY <4>2, <2>17, TypeFacts
      <4>4. Element(hp, hq[h].of, hq[h].queue[i])
        BY <4>2, <2>17, QueueFacts
      <4>. QED BY <4>3, <4>4, <2>17 DEF Element
    <3>. QED BY <3>1, <3>2, <3>3, <2>15
  <2>18. \A s \in Slots : IsArray(sl[s]) => sl[s].array \in DOMAIN hp
    BY DEF Good, GoodSlots, Valid
  <2>19. Apart(sl, hq, pu)
    <3>0. Apart(sl, hp, pu)
      BY DEF Good
    <3>1. \A s, t \in Slots : IsArray(sl[s]) /\ sl[s] = sl[t] /\ s # t => sl[s].array \in pu
      BY <3>0 DEF Apart
    <3>2. ASSUME NEW s \in Slots, NEW o \in DOMAIN hq, IsQueue(hq[o]), NEW i \in DOMAIN hq[o].queue,
                 IsArray(sl[s]), hq[o].queue[i] = sl[s]
          PROVE  sl[s].array \in pu
      <4>1. CASE o \in DOMAIN hp /\ hq[o] = hp[o]
        BY <4>1, <3>0, <3>2 DEF Apart
      <4>2. ~(hq[o].queue[i] = Handle(New(i)))
        BY <3>2, <2>3, <2>18, ValueFacts
      <4>. QED BY <4>1, <4>2, <3>2, <2>17
    <3>3. ASSUME NEW o \in DOMAIN hq, NEW p \in DOMAIN hq, IsQueue(hq[o]), IsQueue(hq[p]),
                 NEW i \in DOMAIN hq[o].queue, NEW j \in DOMAIN hq[p].queue,
                 IsArray(hq[o].queue[i]), hq[o].queue[i] = hq[p].queue[j], o # p \/ i # j
          PROVE  hq[o].queue[i].array \in pu
      <4>1. CASE o \in DOMAIN hp /\ hq[o] = hp[o] /\ p \in DOMAIN hp /\ hq[p] = hp[p]
        BY <4>1, <3>0, <3>3 DEF Apart
      <4>2. \A k : Handle(New(k)).array \notin DOMAIN hp
        BY <2>3, ValueFacts
      <4>3. \A k, l : Handle(New(k)) = Handle(New(l)) => k = l
        BY SameHandle, NewFacts
      <4>4. IsArray(hq[p].queue[j])
        BY <3>3
      <4>5. \/ o \in DOMAIN hp /\ hq[o] = hp[o] /\ hq[o].queue[i].array \in DOMAIN hp
            \/ o = New(0) /\ hq[o].queue[i] = Handle(New(i))
        BY <3>3, <2>17
      <4>6. \/ p \in DOMAIN hp /\ hq[p] = hp[p] /\ hq[p].queue[j].array \in DOMAIN hp
            \/ p = New(0) /\ hq[p].queue[j] = Handle(New(j))
        BY <3>3, <4>4, <2>17
      <4>. QED BY <4>1, <4>2, <4>3, <4>5, <4>6, <3>3
    <3>. QED BY <3>1, <3>2, <3>3 DEF Apart
  <2>20. Good(sl, tv, hq, pu)
    BY <2>5, <2>16, <2>19, ExtendsKeeps DEF Good
  <2>21. Unheld(sl, hq, Handle(New(0)))
    <3>1. \A s \in Slots : sl[s] # Handle(New(0))
      BY <2>3, <2>18, ValueFacts
    <3>2. ASSUME NEW o \in DOMAIN hq, IsQueue(hq[o]), NEW i \in DOMAIN hq[o].queue,
                 hq[o].queue[i] = Handle(New(0))
          PROVE  FALSE
      <4>1. IsArray(hq[o].queue[i]) /\ hq[o].queue[i].array = New(0)
        BY <3>2, ValueFacts
      <4>2. \A k : Handle(New(k)) = Handle(New(0)) => k = 0
        BY SameHandle, NewFacts
      <4>. QED BY <4>1, <4>2, <3>2, <2>3, <2>7, <2>17
    <3>. QED BY <3>1, <3>2 DEF Unheld
  <2>22. Valid(hq, Handle(New(0))) /\ TypeOf(hq[New(0)]) = TypeOf(c)
    BY <2>6, <2>12, ValueFacts DEF Valid
  <2>. QED BY <2>1, <2>5, <2>20, <2>21, <2>22, <1>2, ValueFacts DEF c
<1>. QED BY <1>1, <1>2

-----------------------------------------------------------------------------
(* Inside an instruction: stores *)

\* A collection that nothing holds goes into a slot.
LEMMA StoreKeeps ==
  ASSUME NEW sl, NEW tv, NEW hp, NEW pu, Good(sl, tv, hp, pu), sl = [t \in Slots |-> sl[t]],
         NEW s \in Slots, ~IsVector(s),
         NEW v, IsArray(v), Valid(hp, v), TypeOf(hp[v.array]) = types[s], Unheld(sl, hp, v)
  PROVE  Good([sl EXCEPT ![s] = v], tv, hp, pu)
<1> DEFINE sm == [sl EXCEPT ![s] = v]
<1>1. \A t \in Slots : sm[t] = IF t = s THEN v ELSE sl[t]
  <2>1. DOMAIN sl = Slots
    OBVIOUS
  <2>. QED BY <2>1
<1> HIDE DEF sm
<1>2. GoodSlots(sm, hp)
  BY <1>1 DEF Good, GoodSlots
<1>3. Apart(sm, hp, pu)
  BY <1>1 DEF Good, Apart, Unheld
<1>4. Good(sm, tv, hp, pu)
  BY <1>2, <1>3 DEF Good
<1>. QED BY <1>4 DEF sm

\* The elements of new are w, at most once, and elements of old: that at i was at f[i].
From(old, new, w, f) ==
  /\ 0 \notin DOMAIN old
  /\ \A i \in DOMAIN new : IsArray(new[i]) =>
       (f[i] = 0 /\ new[i] = w) \/ (f[i] \in DOMAIN old /\ new[i] = old[f[i]])
  /\ \A i, j \in DOMAIN new : IsArray(new[i]) /\ IsArray(new[j]) /\ f[i] = f[j] => i = j

Drawn(old, new, w, f) ==
  /\ From(old, new, w, f)
  /\ \A i \in DOMAIN new : new[i] \in {w, Null} \/ (f[i] \in DOMAIN old /\ new[i] = old[f[i]])

\* A collection changes.
LEMMA ReplaceKeeps ==
  ASSUME NEW sl, NEW tv, NEW hp, NEW pu, Good(sl, tv, hp, pu),
         NEW h \in DOMAIN hp, NEW d, TypeOf(d) = TypeOf(hp[h]), Collection(hp, d),
         NEW w, (IsArray(w) => w.array \in pu) \/ Unheld(sl, hp, w),
         NEW f, IsQueue(d) => From(hp[h].queue, d.queue, w, f)
  PROVE  Good(sl, tv, [hp EXCEPT ![h] = d], pu)
<1> DEFINE hq == [hp EXCEPT ![h] = d]
<1>1. DOMAIN hq = DOMAIN hp /\ \A g \in DOMAIN hp : hq[g] = IF g = h THEN d ELSE hp[g]
  OBVIOUS
<1> HIDE DEF hq
<1>2. \A g \in DOMAIN hp : TypeOf(hq[g]) = TypeOf(hp[g])
  BY <1>1
<1>3. \A v : Valid(hp, v) => Valid(hq, v)
  BY <1>1 DEF Valid
<1>4. \A type, v : Element(hp, type, v) => Element(hq, type, v)
  BY <1>1, <1>2 DEF Element, Valid
<1>5. \A c : Collection(hp, c) => Collection(hq, c)
  BY <1>3, <1>4 DEF Collection
<1>6. GoodHeap(hq)
  BY <1>1, <1>5 DEF Good, GoodHeap
<1>7. GoodSlots(sl, hq)
  BY <1>2, <1>3 DEF Good, GoodSlots, Valid
<1>8. IsQueue(d) => IsQueue(hp[h])
  BY TypeFacts DEF Good, GoodHeap
\* Where an element comes from.
<1> DEFINE pos(o, i) == IF o = h THEN f[i] ELSE i
<1>9. ASSUME NEW o \in DOMAIN hq, IsQueue(hq[o]), NEW i \in DOMAIN hq[o].queue, IsArray(hq[o].queue[i])
      PROVE  \/ o = h /\ f[i] = 0 /\ hq[o].queue[i] = w
             \/ /\ o \in DOMAIN hp /\ IsQueue(hp[o])
                /\ pos(o, i) \in DOMAIN hp[o].queue /\ hq[o].queue[i] = hp[o].queue[pos(o, i)]
  <2>1. CASE o = h
    BY <2>1, <1>1, <1>8, <1>9 DEF From
  <2>2. CASE o # h
    BY <2>2, <1>1, <1>9
  <2>. QED BY <2>1, <2>2
<1>10. Apart(sl, hq, pu)
  <2>0. Apart(sl, hp, pu)
    BY DEF Good
  <2>1. \A s, t \in Slots : IsArray(sl[s]) /\ sl[s] = sl[t] /\ s # t => sl[s].array \in pu
    BY <2>0 DEF Apart
  <2>2. ASSUME NEW s \in Slots, NEW o \in DOMAIN hq, IsQueue(hq[o]), NEW i \in DOMAIN hq[o].queue,
               IsArray(sl[s]), hq[o].queue[i] = sl[s]
        PROVE  sl[s].array \in pu
    <3>1. CASE hq[o].queue[i] = w
      BY <2>2, <3>1 DEF Unheld
    <3>2. CASE hq[o].queue[i] # w
      <4> DEFINE k == pos(o, i)
      <4> HIDE DEF pos
      <4>1. o \in DOMAIN hp /\ IsQueue(hp[o]) /\ k \in DOMAIN hp[o].queue /\ sl[s] = hp[o].queue[k]
        BY <2>2, <3>2, <1>9
      <4> HIDE DEF k
      <4>. QED BY <4>1, <2>0, <2>2 DEF Apart
    <3>. QED BY <3>1, <3>2
  <2>3. ASSUME NEW o \in DOMAIN hq, NEW p \in DOMAIN hq, IsQueue(hq[o]), IsQueue(hq[p]),
               NEW i \in DOMAIN hq[o].queue, NEW j \in DOMAIN hq[p].queue,
               IsArray(hq[o].queue[i]), hq[o].queue[i] = hq[p].queue[j], o # p \/ i # j
        PROVE  hq[o].queue[i].array \in pu
    <3>4. o = h /\ p = h => f[i] # f[j]
      <4> SUFFICES ASSUME o = h, p = h, f[i] = f[j] PROVE FALSE
        OBVIOUS
      <4>1. hq[h] = d
        BY <1>1
      <4>. QED BY <4>1, <2>3 DEF From
    <3>9. pos(o, i) # pos(p, j) \/ o # p
      BY <2>3, <3>4
    <3> HIDE DEF pos
    <3> DEFINE k == pos(o, i)
               l == pos(p, j)
               e == hq[o].queue[i]
               here == o = h /\ f[i] = 0 /\ e = w
               there == p = h /\ f[j] = 0 /\ e = w
    <3>10. /\ o \in DOMAIN hq /\ IsQueue(hq[o]) /\ i \in DOMAIN hq[o].queue /\ IsArray(hq[o].queue[i])
           /\ p \in DOMAIN hq /\ IsQueue(hq[p]) /\ j \in DOMAIN hq[p].queue /\ IsArray(hq[p].queue[j])
           /\ hq[o].queue[i] = hq[p].queue[j]
      BY <2>3
    <3>1. here \/ (o \in DOMAIN hp /\ IsQueue(hp[o]) /\ k \in DOMAIN hp[o].queue /\ e = hp[o].queue[k])
      BY <3>10, <1>9
    <3>2. IsArray(hq[p].queue[j]) /\ e = hq[p].queue[j]
      BY <2>3
    <3>3. there \/ (p \in DOMAIN hp /\ IsQueue(hp[p]) /\ l \in DOMAIN hp[p].queue /\ e = hp[p].queue[l])
      BY <3>10, <1>9
    <3>5. CASE ~here /\ ~there
      <4>1. o # p \/ k # l
        BY <3>9
      <4> HIDE DEF k, l
      <4>2. e.array \in pu
        BY <3>1, <3>3, <3>5, <4>1, <2>0, <2>3 DEF Apart
      <4>. QED BY <4>2
    <3>6. CASE here /\ there
      BY <3>4, <3>6
    <3>7. CASE here /\ ~there
      <4> HIDE DEF k, l
      <4>. QED BY <3>3, <3>7, <2>3 DEF Unheld
    <3>8. CASE ~here /\ there
      <4> HIDE DEF k, l
      <4>. QED BY <3>1, <3>8, <2>3 DEF Unheld
    <3>. QED BY <3>5, <3>6, <3>7, <3>8
  <2>. QED BY <2>1, <2>2, <2>3 DEF Apart
<1>11. Good(sl, tv, hq, pu)
  BY <1>3, <1>6, <1>7, <1>10 DEF Good
<1>. QED BY <1>11 DEF hq

\* A list changes: q is its new elements.
LEMMA ListKeeps ==
  ASSUME NEW sl, NEW tv, NEW hp, NEW pu, Good(sl, tv, hp, pu),
         NEW h \in DOMAIN hp, IsQueue(hp[h]),
         NEW q, q \in Seq(Range(q)),
         NEW w, Element(hp, hp[h].of, w), (IsArray(w) => w.array \in pu) \/ Unheld(sl, hp, w),
         NEW f, Drawn(hp[h].queue, q, w, f)
  PROVE  Good(sl, tv, [hp EXCEPT ![h] = Queue(hp[h].of, q)], pu)
<1> DEFINE c == hp[h]
           d == Queue(c.of, q)
<1>1. Collection(hp, c) /\ IsQueue(c)
  BY DEF Good, GoodHeap
<1>2. IsQueue(d) /\ d.queue = q /\ d.of = c.of /\ TypeOf(d) = c.of
  <2> HIDE DEF c
  <2>. QED BY ValueFacts
<1> HIDE DEF d
<1>3. /\ \A i \in DOMAIN c.queue : Element(hp, c.of, c.queue[i])
      /\ c.of \in {"ints", "lists"} /\ TypeOf(c) = c.of
  <2> HIDE DEF c
  <2>. QED BY <1>1, QueueFacts, TypeFacts DEF Collection
<1>4. ASSUME NEW i \in DOMAIN q PROVE Element(hp, c.of, q[i])
  <2>1. CASE q[i] \in {w, Null}
    <3>1. Element(hp, c.of, Null)
      BY ValueFacts DEF Element, Valid
    <3>. QED BY <2>1, <3>1
  <2>2. CASE q[i] \notin {w, Null}
    BY <2>2, <1>3 DEF Drawn
  <2>. QED BY <2>1, <2>2
<1>5. Collection(hp, d)
  <2>1. d = Queue(d.of, d.queue)
    BY <1>2 DEF d
  <2> HIDE DEF c
  <2>. QED BY <2>1, <1>2, <1>3, <1>4 DEF Collection
<1>6. IsQueue(d) => From(c.queue, d.queue, w, f)
  BY <1>2 DEF Drawn
<1>7. Good(sl, tv, [hp EXCEPT ![h] = d], pu)
  BY <1>2, <1>3, <1>5, <1>6, ReplaceKeeps
<1>. QED BY <1>7 DEF d

\* One element goes into a list at k: where the elements come from.
LEMMA InsertFrom ==
  ASSUME NEW n \in Nat, NEW old, DOMAIN old = 1..n, NEW q, DOMAIN q = 1..(n + 1),
         NEW k \in 1..(n + 1), NEW w,
         \A i \in 1..(n + 1) : q[i] = IF i < k THEN old[i] ELSE IF i = k THEN w ELSE old[i - 1]
  PROVE  Drawn(old, q, w, [i \in 1..(n + 1) |-> IF i < k THEN i ELSE IF i = k THEN 0 ELSE i - 1])
<1> DEFINE f == [i \in 1..(n + 1) |-> IF i < k THEN i ELSE IF i = k THEN 0 ELSE i - 1]
<1>1. \A i \in 1..(n + 1) : f[i] = IF i < k THEN i ELSE IF i = k THEN 0 ELSE i - 1
  OBVIOUS
<1> HIDE DEF f
<1>2. ASSUME NEW i \in 1..(n + 1)
      PROVE  (f[i] = 0 /\ q[i] = w) \/ (f[i] \in 1..n /\ q[i] = old[f[i]])
  <2>1. CASE i < k
    BY <2>1, <1>1
  <2>2. CASE i = k
    BY <2>2, <1>1
  <2>3. CASE i > k
    BY <2>3, <1>1
  <2>. QED BY <2>1, <2>2, <2>3
<1>3. \A i, j \in 1..(n + 1) : f[i] = f[j] => i = j
  BY <1>1
<1>4. 0 \notin 1..n
  OBVIOUS
<1>5. Drawn(old, q, w, f)
  BY <1>2, <1>3, <1>4 DEF From, Drawn
<1>. QED BY <1>5 DEF f

\* The element at k leaves a list.
LEMMA RemoveFrom ==
  ASSUME NEW n \in Nat, NEW old, DOMAIN old = 1..n, NEW q, DOMAIN q = 1..(n - 1),
         NEW k \in 1..n, NEW w,
         \A i \in 1..(n - 1) : q[i] = IF i < k THEN old[i] ELSE old[i + 1]
  PROVE  Drawn(old, q, w, [i \in 1..(n - 1) |-> IF i < k THEN i ELSE i + 1])
<1> DEFINE f == [i \in 1..(n - 1) |-> IF i < k THEN i ELSE i + 1]
<1>1. \A i \in 1..(n - 1) : f[i] = IF i < k THEN i ELSE i + 1
  OBVIOUS
<1> HIDE DEF f
<1>2. ASSUME NEW i \in 1..(n - 1)
      PROVE  f[i] \in 1..n /\ q[i] = old[f[i]]
  <2>1. CASE i < k
    BY <2>1, <1>1
  <2>2. CASE ~(i < k)
    BY <2>2, <1>1
  <2>. QED BY <2>1, <2>2
<1>3. \A i, j \in 1..(n - 1) : f[i] = f[j] => i = j
  BY <1>1
<1>4. 0 \notin 1..n
  OBVIOUS
<1>5. Drawn(old, q, w, f)
  BY <1>2, <1>3, <1>4 DEF From, Drawn
<1>. QED BY <1>5 DEF f

-----------------------------------------------------------------------------
(* The instructions *)

Announced == \A s \in Statics : Contents(slot[s], heap)' # Contents(slot[s], heap) => notified'

\* An instruction that leaves the statics and their collections alone.
LEMMA QuietKeeps ==
  ASSUME Inv, NEW sl, NEW tv, NEW hp, NEW note, NEW pushing,
         Good(sl, tv, hp, pushed \cup pushing), Put(sl, tv, hp, note, pushing),
         Extends(heap, hp), \A s \in Statics : sl[s] = slot[s]
  PROVE  Inv' /\ Announced
<1>1. Inv' /\ \A s \in Slots : Contents(slot[s], heap)' = Contents(sl[s], hp)
  BY PutKeeps DEF Inv
<1>2. \A s \in Statics : s \in Slots
  BY SlotAssumption
<1>3. \A s \in Statics : Valid(heap, slot[s])
  BY <1>2, SampleAssumption DEF Inv, Good, GoodSlots, Valid
<1>4. \A s \in Statics : Contents(slot[s], hp) = Contents(slot[s], heap)
  BY <1>3, ExtendsContents DEF Inv, Good
<1>. QED BY <1>1, <1>2, <1>4 DEF Announced

\* An instruction that announces its change.
LEMMA LoudKeeps ==
  ASSUME Inv, NEW sl, NEW tv, NEW hp, NEW pushing,
         Good(sl, tv, hp, pushed \cup pushing), Put(sl, tv, hp, TRUE, pushing)
  PROVE  Inv' /\ Announced
<1>1. Inv' /\ notified' = TRUE
  BY PutKeeps DEF Inv
<1>. QED BY <1>1 DEF Announced

\* An instruction that only loads the temporary.
LEMMA TempKeeps ==
  ASSUME Inv, NEW v, Valid(heap, v), NEW note, Put(slot, v, heap, note, {})
  PROVE  Inv' /\ Announced
<1>1. Good(slot, v, heap, pushed) /\ pushed \cup {} = pushed
  BY DEF Inv, Good
<1>2. Extends(heap, heap)
  BY DEF Extends
<1>. QED BY <1>1, <1>2, QuietKeeps

LEMMA LogicKeeps ==
  ASSUME Inv, NEW v, WellFormed(v), NEW note, Put(slot, Logic(v), heap, note, {})
  PROVE  Inv' /\ Announced
<1>1. Valid(heap, Logic(v))
  BY ValueFacts DEF Valid
<1>. QED BY <1>1, TempKeeps

\* The collection in a slot.
LEMMA SlotFacts ==
  ASSUME Inv, NEW s \in Collected
  PROVE  /\ s \in Slots /\ ~IsVector(s) /\ types[s] \in {"ints", "lists", "map"}
         /\ IsArray(slot[s]) /\ slot[s] = Handle(slot[s].array) /\ Valid(heap, slot[s])
         /\ slot[s].array \in DOMAIN heap
         /\ TypeOf(heap[slot[s].array]) = types[s] /\ Collection(heap, heap[slot[s].array])
         /\ IsQueue(heap[slot[s].array]) <=> types[s] # "map"
         /\ IsQueue(heap[slot[s].array]) => heap[slot[s].array].of = types[s]
<1>1. s \in Slots /\ ~IsVector(s) /\ types[s] \in {"ints", "lists", "map"}
  BY SlotAssumption DEF Inv, Collected, IsVector
<1>2. /\ IsArray(slot[s]) /\ slot[s] = Handle(slot[s].array) /\ Valid(heap, slot[s])
      /\ slot[s].array \in DOMAIN heap /\ TypeOf(heap[slot[s].array]) = types[s]
  BY <1>1 DEF Inv, Good, GoodSlots, Valid
<1>3. Collection(heap, heap[slot[s].array])
  BY <1>2 DEF Inv, Good, GoodHeap
<1>. QED BY <1>1, <1>2, <1>3, TypeFacts

\* What may be stored in a slot's collection is an element of its type.
LEMMA FitsFacts ==
  ASSUME Inv, NEW s \in Collected, Fits(s)
  PROVE  Element(heap, types[s], temp) /\ (types[s] # "lists" => ~IsArray(temp))
<1>1. Valid(heap, temp)
  BY DEF Inv, Good
<1>2. CASE types[s] = "lists"
  BY <1>1, <1>2 DEF Fits, Element
<1>3. CASE types[s] # "lists"
  <2>1. IsLogic(temp)
    BY <1>3 DEF Fits
  <2>2. ~IsArray(temp)
    <3> SUFFICES ASSUME IsArray(temp) PROVE FALSE
      OBVIOUS
    <3> DEFINE h == temp.array
    <3>1. temp = Handle(h)
      BY <1>1 DEF Valid
    <3> HIDE DEF h
    <3>. QED BY <3>1, <2>1 DEF IsLogic, Handle
  <2>. QED BY <1>1, <2>2 DEF Element
<1>. QED BY <1>2, <1>3

LEMMA EmptyFacts ==
  ASSUME NEW type \in {"ints", "lists", "map"}, NEW hp
  PROVE  /\ Collection(hp, Empty(type)) /\ TypeOf(Empty(type)) = type
         /\ IsQueue(Empty(type)) => Empty(type).queue = <<>>
<1>1. CASE type = "map"
  <2>1. Empty(type) = Assoc(<<>>)
    BY <1>1 DEF Empty
  <2>2. DOMAIN Empty(type).assoc = {}
    BY <2>1, ValueFacts
  <2>. QED BY <1>1, <2>1, <2>2, ValueFacts DEF Collection
<1>2. CASE type # "map"
  <2>1. Empty(type) = Queue(type, <<>>)
    BY <1>2 DEF Empty
  <2>2. /\ IsQueue(Empty(type)) /\ Empty(type).queue = <<>> /\ Empty(type).of = type
        /\ TypeOf(Empty(type)) = type
    BY <2>1, ValueFacts
  <2>3. <<>> \in Seq(Range(<<>>)) /\ DOMAIN <<>> = {}
    BY EmptySeq
  <2> HIDE DEF Empty
  <2>. QED BY <1>2, <2>1, <2>2, <2>3 DEF Collection
<1>. QED BY <1>1, <1>2

LEMMA DeclareKeeps ==
  ASSUME Inv, NEW s \in Collected, Declare(s)
  PROVE  Inv' /\ Announced
<1> DEFINE hp == [h \in DOMAIN heap \cup {New(0)} |-> IF IsNew(h) THEN Empty(types[s]) ELSE heap[h]]
           v == Handle(New(0))
           sl == [slot EXCEPT ![s] = v]
<1>1. s \notin Statics /\ Put(sl, temp, hp, FALSE, {})
  BY DEF Declare
<1>2. s \in Slots /\ ~IsVector(s) /\ types[s] \in {"ints", "lists", "map"}
  BY SlotFacts
<1>3. /\ DOMAIN hp = DOMAIN heap \cup {New(0)} /\ hp[New(0)] = Empty(types[s])
      /\ New(0) \notin DOMAIN heap /\ Extends(heap, hp)
  BY NewFacts DEF Inv, Named0, Extends
<1>4. IsArray(v) /\ v.array = New(0)
  BY ValueFacts
<1> HIDE DEF hp, v
<1>5. /\ Collection(hp, hp[New(0)]) /\ TypeOf(hp[New(0)]) = types[s]
      /\ IsQueue(hp[New(0)]) => DOMAIN hp[New(0)].queue = {}
  BY <1>2, <1>3, EmptyFacts, EmptySeq
<1>6. GoodHeap(hp)
  BY <1>3, <1>5, ExtendsKeeps DEF Inv, Good, GoodHeap, Extends
<1>7. Apart(slot, hp, pushed)
  <2>1. \A o \in DOMAIN hp : IsQueue(hp[o]) => \A i \in DOMAIN hp[o].queue : o \in DOMAIN heap /\ hp[o] = heap[o]
    BY <1>3, <1>5 DEF Extends
  <2>. QED BY <2>1 DEF Inv, Good, Apart
<1>8. Good(slot, temp, hp, pushed)
  BY <1>3, <1>6, <1>7, ExtendsKeeps DEF Inv, Good
<1>9. Valid(hp, v) /\ TypeOf(hp[v.array]) = types[s]
  <2>1. ~IsLogic(v)
    BY ValueFacts DEF v
  <2>. QED BY <1>3, <1>4, <1>5, <2>1 DEF Valid, v
<1>10. Unheld(slot, hp, v)
  <2>1. \A t \in Slots : slot[t] # v
    BY <1>3, <1>4 DEF Inv, Good, GoodSlots, Valid
  <2>2. ASSUME NEW o \in DOMAIN hp, IsQueue(hp[o]), NEW i \in DOMAIN hp[o].queue, hp[o].queue[i] = v
        PROVE  FALSE
    <3>1. o \in DOMAIN heap /\ hp[o] = heap[o]
      BY <1>3, <1>5, <2>2 DEF Extends
    <3>2. Element(heap, heap[o].of, heap[o].queue[i])
      BY <3>1, <2>2, QueueFacts DEF Inv, Good, GoodHeap
    <3>. QED BY <3>1, <3>2, <2>2, <1>3, <1>4 DEF Element, Valid
  <2>. QED BY <2>1, <2>2 DEF Unheld
<1>11. Good(sl, temp, hp, pushed)
  BY <1>2, <1>4, <1>8, <1>9, <1>10, StoreKeeps DEF Inv
<1>12. \A t \in Statics : sl[t] = slot[t]
  BY <1>1
<1>13. pushed \cup {} = pushed
  OBVIOUS
<1> HIDE DEF sl
<1>. QED BY <1>1, <1>3, <1>11, <1>12, <1>13, QuietKeeps

LEMMA AssignKeeps ==
  ASSUME Inv, NEW s \in Collected, Assign(s)
  PROVE  Inv' /\ Announced
<1> DEFINE c == AssignmentCopy(temp, heap)
           sl == [slot EXCEPT ![s] = c.value]
<1>1. /\ IsArray(temp) /\ TypeOf(heap[temp.array]) = types[s]
      /\ Put(sl, Null, c.heap, s \in Statics, {})
  BY DEF Assign
<1>2. s \in Slots /\ ~IsVector(s)
  BY SlotFacts
<1>3. /\ Good(slot, temp, heap, pushed) /\ Named0(heap) /\ Valid(heap, temp)
      /\ slot = [t \in Slots |-> slot[t]]
  BY DEF Inv, Good
<1>4. /\ Good(slot, temp, c.heap, pushed) /\ Extends(heap, c.heap)
      /\ Valid(c.heap, c.value) /\ Unheld(slot, c.heap, c.value)
      /\ IsArray(c.value) /\ TypeOf(c.heap[c.value.array]) = types[s]
  BY <1>1, <1>3, CopyKeeps
<1> HIDE DEF c
<1>5. Good(sl, temp, c.heap, pushed)
  BY <1>2, <1>3, <1>4, StoreKeeps
<1>6. Good(sl, Null, c.heap, pushed) /\ pushed \cup {} = pushed
  BY <1>5, ValueFacts DEF Good, Valid
<1>7. CASE s \in Statics
  <2>1. (s \in Statics) = TRUE
    BY <1>7
  <2> HIDE DEF sl
  <2>2. Put(sl, Null, c.heap, TRUE, {})
    BY <1>1, <2>1
  <2>. QED BY <1>6, <2>2, LoudKeeps
<1>8. CASE s \notin Statics
  <2>1. \A t \in Statics : sl[t] = slot[t]
    BY <1>8
  <2> HIDE DEF sl
  <2>. QED BY <1>1, <1>4, <1>6, <2>1, QuietKeeps
<1>. QED BY <1>7, <1>8

-----------------------------------------------------------------------------
(* Elements *)

LEMMA Widen ==
  ASSUME NEW S, NEW q \in Seq(S), NEW T, S \subseteq T
  PROVE  q \in Seq(T) /\ Len(q) \in Nat /\ DOMAIN q = 1..Len(q) /\ \A i \in 1..Len(q) : q[i] \in T
<1>1. q \in Seq(T)
  BY SeqMonotonic
<1>. QED BY <1>1, LenProperties, ElementOfSeq

LEMMA OwnRange ==
  ASSUME NEW S, NEW q \in Seq(S)
  PROVE  q \in Seq(Range(q)) /\ Len(q) \in Nat /\ DOMAIN q = 1..Len(q)
BY SeqOfRange, LenProperties

\* The list with v before its k-th element.
LEMMA InsertAtFacts ==
  ASSUME NEW S, NEW q \in Seq(S), NEW v, NEW k \in 1..(Len(q) + 1)
  PROVE  LET r == InsertAt(q, k, v) IN
         /\ r \in Seq(Range(r)) /\ DOMAIN r = 1..(Len(q) + 1)
         /\ \A i \in 1..(Len(q) + 1) :
              r[i] = IF i < k THEN q[i] ELSE IF i = k THEN v ELSE q[i - 1]
<1> DEFINE n == Len(q)
           T == S \cup {v}
           before == SubSeq(q, 1, k - 1)
           after == SubSeq(q, k, n)
           left == before \o <<v>>
           r == InsertAt(q, k, v)
<1>1. n \in Nat /\ q \in Seq(T) /\ k \in 1..(n + 1) /\ \A i \in 1..n : q[i] \in T
  BY Widen
<1>2. /\ before \in Seq(T) /\ Len(before) = k - 1
      /\ \A i \in 1..(k - 1) : before[i] = q[i]
  <2> HIDE DEF n, T
  <2>1. \A i \in 1..(k - 1) : q[i] \in T
    BY <1>1
  <2>2. 1 \in Int /\ k - 1 \in Int /\ k \in Int
    BY <1>1
  <2>3. /\ before \in Seq(T) /\ Len(before) = (IF 1 <= k - 1 THEN (k - 1) - 1 + 1 ELSE 0)
        /\ \A i \in 1..((k - 1) - 1 + 1) : before[i] = q[1 + i - 1]
    BY <2>1, <2>2, SubSeqProperties
  <2> HIDE DEF before
  <2>4. Len(before) = k - 1
    BY <2>2, <2>3, <1>1
  <2>5. ASSUME NEW i \in 1..(k - 1) PROVE before[i] = q[i]
    <3>1. i \in Int /\ i \in 1..((k - 1) - 1 + 1) /\ 1 + i - 1 = i
      BY <2>2
    <3>. QED BY <3>1, <2>3
  <2>. QED BY <2>3, <2>4, <2>5
<1>3. /\ after \in Seq(T) /\ Len(after) = (n - k) + 1
      /\ \A i \in 1..((n - k) + 1) : after[i] = q[(k + i) - 1]
  <2> HIDE DEF T
  <2>1. \A i \in k..n : q[i] \in T
    BY <1>1
  <2>2. n \in Int /\ k \in Int /\ k <= n + 1
    BY <1>1
  <2> HIDE DEF n
  <2>3. /\ after \in Seq(T) /\ Len(after) = (IF k <= n THEN n - k + 1 ELSE 0)
        /\ \A i \in 1..(n - k + 1) : after[i] = q[k + i - 1]
    BY <2>1, <2>2, SubSeqProperties
  <2> HIDE DEF after
  <2>4. Len(after) = (n - k) + 1
    BY <2>2, <2>3
  <2>5. ASSUME NEW i \in 1..((n - k) + 1) PROVE after[i] = q[(k + i) - 1]
    <3>1. i \in Int /\ i \in 1..(n - k + 1) /\ k + i - 1 = (k + i) - 1
      BY <2>2
    <3>. QED BY <3>1, <2>3
  <2>. QED BY <2>3, <2>4, <2>5
<1>4. <<v>> \in Seq(T) /\ Len(<<v>>) = 1 /\ <<v>>[1] = v
  OBVIOUS
<1>5. r = left \o after
  BY DEF InsertAt
<1> HIDE DEF before, after, T, n, r
<1>6. /\ left \in Seq(T) /\ Len(left) = k
      /\ \A i \in 1..k : left[i] = IF i < k THEN q[i] ELSE v
  <2> DEFINE one == <<v>>
  <2>0. one \in Seq(T) /\ Len(one) = 1 /\ one[1] = v /\ left = before \o one
    BY <1>4
  <2> HIDE DEF one, left
  <2>1. /\ left \in Seq(T) /\ Len(left) = Len(before) + Len(one)
        /\ \A i \in 1..(Len(before) + Len(one)) :
             left[i] = IF i <= Len(before) THEN before[i] ELSE one[i - Len(before)]
    BY <2>0, <1>2, ConcatProperties
  <2>2. Len(left) = k
    BY <2>0, <2>1, <1>1, <1>2
  <2>3. ASSUME NEW i \in 1..k PROVE left[i] = IF i < k THEN q[i] ELSE v
    <3>1. i \in 1..(Len(before) + Len(one)) /\ i \in Int /\ k \in Int
      BY <2>0, <1>1, <1>2
    <3>2. left[i] = IF i <= k - 1 THEN before[i] ELSE one[i - (k - 1)]
      BY <2>1, <3>1, <1>2
    <3>3. CASE i < k
      BY <3>1, <3>2, <3>3, <1>2
    <3>4. CASE i = k
      <4>1. i - (k - 1) = 1 /\ ~(i <= k - 1)
        BY <3>1, <3>4
      <4>. QED BY <3>2, <3>4, <4>1, <2>0
    <3>. QED BY <3>1, <3>3, <3>4
  <2>. QED BY <2>1, <2>2, <2>3
<1> HIDE DEF left
<1>7. /\ r \in Seq(T) /\ Len(r) = Len(left) + Len(after)
      /\ \A i \in 1..(Len(left) + Len(after)) :
           r[i] = IF i <= Len(left) THEN left[i] ELSE after[i - Len(left)]
  BY <1>3, <1>5, <1>6, ConcatProperties
<1>8. Len(r) = n + 1
  BY <1>1, <1>3, <1>6, <1>7
<1>9. ASSUME NEW i \in 1..(n + 1)
      PROVE  r[i] = IF i < k THEN q[i] ELSE IF i = k THEN v ELSE q[i - 1]
  <2>1. i \in Int /\ k \in Int /\ n \in Int /\ i \in 1..(Len(left) + Len(after))
    BY <1>1, <1>3, <1>6
  <2>2. r[i] = IF i <= k THEN left[i] ELSE after[i - k]
    BY <2>1, <1>6, <1>7
  <2>3. CASE i <= k
    <3>1. i \in 1..k
      BY <2>1, <2>3
    <3>. QED BY <2>1, <2>2, <2>3, <3>1, <1>6
  <2>4. CASE i > k
    <3>1. i - k \in 1..((n - k) + 1) /\ (k + (i - k)) - 1 = i - 1
      BY <2>1, <2>4
    <3>2. after[i - k] = q[i - 1]
      BY <3>1, <1>3
    <3>. QED BY <2>1, <2>2, <2>4, <3>2
  <2>. QED BY <2>1, <2>3, <2>4
<1>10. r \in Seq(Range(r)) /\ DOMAIN r = 1..(n + 1)
  BY <1>7, <1>8, OwnRange
<1>. QED BY <1>9, <1>10 DEF n, r

\* The list without its k-th element.
LEMMA RemoveAtFacts ==
  ASSUME NEW S, NEW q \in Seq(S), NEW k \in 1..Len(q)
  PROVE  LET r == RemoveAt(q, k) IN
         /\ r \in Seq(Range(r)) /\ DOMAIN r = 1..(Len(q) - 1)
         /\ \A i \in 1..(Len(q) - 1) : r[i] = IF i < k THEN q[i] ELSE q[i + 1]
<1> DEFINE n == Len(q)
           before == SubSeq(q, 1, k - 1)
           after == SubSeq(q, k + 1, n)
           r == RemoveAt(q, k)
<1>1. n \in Nat /\ k \in 1..n /\ \A i \in 1..n : q[i] \in S
  BY Widen
<1>2. /\ before \in Seq(S) /\ Len(before) = k - 1
      /\ \A i \in 1..(k - 1) : before[i] = q[i]
  <2> HIDE DEF n
  <2>1. \A i \in 1..(k - 1) : q[i] \in S
    BY <1>1
  <2>2. 1 \in Int /\ k - 1 \in Int /\ k \in Int
    BY <1>1
  <2>3. /\ before \in Seq(S) /\ Len(before) = (IF 1 <= k - 1 THEN (k - 1) - 1 + 1 ELSE 0)
        /\ \A i \in 1..((k - 1) - 1 + 1) : before[i] = q[1 + i - 1]
    BY <2>1, <2>2, SubSeqProperties
  <2> HIDE DEF before
  <2>4. Len(before) = k - 1
    BY <2>2, <2>3, <1>1
  <2>5. ASSUME NEW i \in 1..(k - 1) PROVE before[i] = q[i]
    <3>1. i \in Int /\ i \in 1..((k - 1) - 1 + 1) /\ 1 + i - 1 = i
      BY <2>2
    <3>. QED BY <3>1, <2>3
  <2>. QED BY <2>3, <2>4, <2>5
<1>3. /\ after \in Seq(S) /\ Len(after) = n - k
      /\ \A i \in 1..(n - k) : after[i] = q[k + i]
  <2>1. \A i \in (k + 1)..n : q[i] \in S
    BY <1>1
  <2>2. n \in Int /\ k \in Int /\ k <= n /\ k + 1 \in Int
    BY <1>1
  <2> HIDE DEF n
  <2>3. /\ after \in Seq(S) /\ Len(after) = (IF k + 1 <= n THEN n - (k + 1) + 1 ELSE 0)
        /\ \A i \in 1..(n - (k + 1) + 1) : after[i] = q[(k + 1) + i - 1]
    BY <2>1, <2>2, SubSeqProperties
  <2> HIDE DEF after
  <2>4. Len(after) = n - k
    BY <2>2, <2>3
  <2>5. ASSUME NEW i \in 1..(n - k) PROVE after[i] = q[k + i]
    <3>1. i \in Int /\ i \in 1..(n - (k + 1) + 1) /\ (k + 1) + i - 1 = k + i
      BY <2>2
    <3>. QED BY <3>1, <2>3
  <2>. QED BY <2>3, <2>4, <2>5
<1>4. r = before \o after
  BY DEF RemoveAt
<1> HIDE DEF before, after, n, r
<1>5. /\ r \in Seq(S) /\ Len(r) = Len(before) + Len(after)
      /\ \A i \in 1..(Len(before) + Len(after)) :
           r[i] = IF i <= Len(before) THEN before[i] ELSE after[i - Len(before)]
  BY <1>2, <1>3, <1>4, ConcatProperties
<1>6. Len(r) = n - 1
  BY <1>1, <1>2, <1>3, <1>5
<1>7. ASSUME NEW i \in 1..(n - 1)
      PROVE  r[i] = IF i < k THEN q[i] ELSE q[i + 1]
  <2>1. i \in Int /\ k \in Int /\ n \in Int /\ i \in 1..(Len(before) + Len(after))
    BY <1>1, <1>2, <1>3
  <2>2. r[i] = IF i <= k - 1 THEN before[i] ELSE after[i - (k - 1)]
    BY <2>1, <1>2, <1>5
  <2>3. CASE i < k
    BY <2>1, <2>2, <2>3, <1>2
  <2>4. CASE ~(i < k)
    <3>1. i - (k - 1) \in 1..(n - k) /\ k + (i - (k - 1)) = i + 1
      BY <2>1, <2>4
    <3>2. after[i - (k - 1)] = q[i + 1]
      BY <3>1, <1>3
    <3>. QED BY <2>1, <2>2, <2>4, <3>2
  <2>. QED BY <2>3, <2>4
<1>8. r \in Seq(Range(r)) /\ DOMAIN r = 1..(n - 1)
  BY <1>5, <1>6, OwnRange
<1>. QED BY <1>7, <1>8 DEF n, r

\* push_front, pop_front and pop_back are such insertions and removals.
LEMMA EndFacts ==
  ASSUME NEW S, NEW q \in Seq(S), NEW v
  PROVE  /\ LET r == <<v>> \o q IN
              /\ r \in Seq(Range(r)) /\ DOMAIN r = 1..(Len(q) + 1)
              /\ \A i \in 1..(Len(q) + 1) :
                   r[i] = IF i < 1 THEN q[i] ELSE IF i = 1 THEN v ELSE q[i - 1]
         /\ q # <<>> =>
              /\ Len(q) >= 1
              /\ LET r == Tail(q) IN
                 /\ r \in Seq(Range(r)) /\ DOMAIN r = 1..(Len(q) - 1)
                 /\ \A i \in 1..(Len(q) - 1) : r[i] = IF i < 1 THEN q[i] ELSE q[i + 1]
              /\ LET r == Front(q)
                     k == Len(q)
                 IN /\ r \in Seq(Range(r)) /\ DOMAIN r = 1..(Len(q) - 1)
                    /\ \A i \in 1..(Len(q) - 1) : r[i] = IF i < k THEN q[i] ELSE q[i + 1]
<1> DEFINE n == Len(q)
           T == S \cup {v}
           one == <<v>>
<1>1. n \in Nat /\ q \in Seq(T) /\ \A i \in 1..n : q[i] \in S
  BY Widen
<1>2. one \in Seq(T) /\ Len(one) = 1 /\ one[1] = v /\ v \in T
  OBVIOUS
<1> HIDE DEF n, T, one
<1>3. LET r == one \o q IN
        /\ r \in Seq(Range(r)) /\ DOMAIN r = 1..(n + 1)
        /\ \A i \in 1..(n + 1) : r[i] = IF i < 1 THEN q[i] ELSE IF i = 1 THEN v ELSE q[i - 1]
  <2> DEFINE r == one \o q
  <2>1. /\ r \in Seq(T) /\ Len(r) = Len(one) + Len(q)
        /\ \A i \in 1..(Len(one) + Len(q)) : r[i] = IF i <= Len(one) THEN one[i] ELSE q[i - Len(one)]
    BY <1>1, <1>2, ConcatProperties
  <2> HIDE DEF r
  <2>2. Len(r) = n + 1
    BY <2>1, <1>1, <1>2 DEF n
  <2>3. ASSUME NEW i \in 1..(n + 1) PROVE r[i] = IF i < 1 THEN q[i] ELSE IF i = 1 THEN v ELSE q[i - 1]
    <3>1. i \in Int /\ 1 <= i /\ i \in 1..(Len(one) + Len(q))
      BY <1>1, <1>2 DEF n
    <3>2. r[i] = IF i <= 1 THEN one[i] ELSE q[i - 1]
      BY <2>1, <3>1, <1>2
    <3>. QED BY <3>1, <3>2, <1>2
  <2>4. r \in Seq(Range(r)) /\ DOMAIN r = 1..(n + 1)
    BY <2>1, <2>2, OwnRange
  <2>. QED BY <2>3, <2>4 DEF r
<1>5. ASSUME q # <<>>
      PROVE  /\ n >= 1
             /\ LET r == Tail(q) IN
                /\ r \in Seq(Range(r)) /\ DOMAIN r = 1..(n - 1)
                /\ \A i \in 1..(n - 1) : r[i] = IF i < 1 THEN q[i] ELSE q[i + 1]
  <2> DEFINE r == Tail(q)
  <2>1. n >= 1
    BY <1>1, <1>5, EmptySeq DEF n
  <2>2. /\ r \in Seq(S) /\ Len(r) = n - 1 /\ \A i \in 1..Len(r) : r[i] = q[i + 1]
    BY <1>5, HeadTailProperties DEF n
  <2> HIDE DEF r
  <2>3. \A i \in 1..(n - 1) : r[i] = IF i < 1 THEN q[i] ELSE q[i + 1]
    BY <2>2, <1>1
  <2>4. r \in Seq(Range(r)) /\ DOMAIN r = 1..(n - 1)
    BY <2>2, OwnRange
  <2>. QED BY <2>1, <2>3, <2>4 DEF r
<1>6. ASSUME q # <<>>
      PROVE  LET r == Front(q) IN
             /\ r \in Seq(Range(r)) /\ DOMAIN r = 1..(n - 1)
             /\ \A i \in 1..(n - 1) : r[i] = IF i < n THEN q[i] ELSE q[i + 1]
  <2> DEFINE r == Front(q)
  <2>1. n >= 1
    BY <1>1, <1>6, EmptySeq DEF n
  <2>2. r = SubSeq(q, 1, n - 1)
    BY DEF Front, n
  <2> HIDE DEF r
  <2>3. \A i \in 1..(n - 1) : q[i] \in S
    BY <1>1
  <2>4. n - 1 \in Int /\ 1 \in Int /\ n \in Int
    BY <1>1
  <2>5. /\ r \in Seq(S) /\ Len(r) = (IF 1 <= n - 1 THEN (n - 1) - 1 + 1 ELSE 0)
        /\ \A i \in 1..((n - 1) - 1 + 1) : r[i] = q[1 + i - 1]
    BY <2>2, <2>3, <2>4, SubSeqProperties
  <2>6. Len(r) = n - 1
    BY <2>1, <2>4, <2>5
  <2>7. ASSUME NEW i \in 1..(n - 1) PROVE r[i] = IF i < n THEN q[i] ELSE q[i + 1]
    <3>1. i \in Int /\ i < n /\ i \in 1..((n - 1) - 1 + 1) /\ 1 + i - 1 = i
      BY <2>4
    <3>. QED BY <3>1, <2>5
  <2>8. r \in Seq(Range(r)) /\ DOMAIN r = 1..(n - 1)
    BY <2>5, <2>6, OwnRange
  <2>. QED BY <2>7, <2>8 DEF r
<1>. QED BY <1>3, <1>5, <1>6 DEF n, one

\* push_back inserts after the last element.
Appended(q, v) == Append(q, v)

LEMMA AppendFacts ==
  ASSUME NEW S, NEW q \in Seq(S), NEW v
  PROVE  LET r == Appended(q, v)
             k == Len(q) + 1
         IN /\ r \in Seq(Range(r)) /\ DOMAIN r = 1..(Len(q) + 1)
            /\ \A i \in 1..(Len(q) + 1) :
                 r[i] = IF i < k THEN q[i] ELSE IF i = k THEN v ELSE q[i - 1]
<1> DEFINE T == S \cup {v}
           n == Len(q)
           r == Appended(q, v)
<1>1. n \in Nat /\ q \in Seq(T) /\ v \in T /\ r = Append(q, v) /\ n = Len(q)
  BY Widen DEF Appended
<1> HIDE DEF T, n, r
<1>2. /\ r \in Seq(T) /\ Len(r) = n + 1 /\ \A i \in 1..n : r[i] = q[i]
      /\ r[n + 1] = v
  BY <1>1, AppendProperties
<1>3. ASSUME NEW i \in 1..(n + 1)
      PROVE  r[i] = IF i < n + 1 THEN q[i] ELSE IF i = n + 1 THEN v ELSE q[i - 1]
  <2>1. i \in 1..n \/ i = n + 1
    BY <1>1
  <2>. QED BY <2>1, <1>1, <1>2
<1>4. r \in Seq(Range(r)) /\ DOMAIN r = 1..(n + 1)
  BY <1>2, OwnRange
<1>. QED BY <1>3, <1>4 DEF n, r

\* The readings of an index.
LEMMA IndexFacts ==
  ASSUME NEW idx \in Indices
  PROVE  /\ IsLogic(idx) => ToU64(AsLogic(idx)) \in Nat
         /\ SetPosition(idx) \in Int
<1>1. IsLogic(idx) => ToU64(AsLogic(idx)) \in Nat
  BY IndexAssumption DEF IsLogic, AsLogic
<1>2. SetPosition(idx) \in Int
  <2> DEFINE k == ValueToKey(idx)
             n == ToI64(idx.logic)
  <2>1. \/ k = [int |-> n] /\ "logic" \in DOMAIN idx
        \/ k = [str |-> idx.str] \/ k = [nil |-> TRUE]
    BY DEF ValueToKey
  <2> HIDE DEF k, n
  <2>2. CASE k = [int |-> n] /\ "logic" \in DOMAIN idx
    <3>1. n \in Int
      BY <2>2, IndexAssumption DEF n
    <3>2. k.int = n
      BY <2>2
    <3>. QED BY <3>1, <3>2 DEF SetPosition, k
  <2>3. CASE k = [str |-> idx.str] \/ k = [nil |-> TRUE]
    <3>1. KeyKind(k) # "int"
      <4>1. CASE k = [nil |-> TRUE]
        BY <4>1 DEF KeyKind
      <4>2. CASE k = [str |-> idx.str]
        BY <4>2 DEF KeyKind
      <4>. QED BY <2>3, <4>1, <4>2
    <3>. QED BY <3>1 DEF SetPosition, k
  <2>. QED BY <2>1, <2>2, <2>3
<1>. QED BY <1>1, <1>2

\* A read gives an element, null or a vector.
LEMMA GetValid ==
  ASSUME NEW hp, NEW c, Collection(hp, c), NEW idx \in Indices, IsQueue(c) => IsLogic(idx)
  PROVE  Valid(hp, Get(c, idx))
<1>0. Valid(hp, Null)
  BY ValueFacts DEF Valid
<1>1. CASE IsQueue(c)
  <2> DEFINE i == ToU64(AsLogic(idx))
  <2>1. i \in Nat
    BY <1>1, IndexFacts
  <2>2. Get(c, idx) = IF i < Len(c.queue) THEN c.queue[i + 1] ELSE Null
    BY <1>1 DEF Get, QueueGet
  <2> HIDE DEF i
  <2>3. i < Len(c.queue) => i + 1 \in DOMAIN c.queue
    BY <1>1, <2>1, QueueFacts
  <2>4. i < Len(c.queue) => Valid(hp, c.queue[i + 1])
    BY <1>1, <2>3, QueueFacts DEF Element, Valid
  <2>. QED BY <1>0, <2>2, <2>4
<1>2. CASE ~IsQueue(c)
  BY <1>0, <1>2 DEF Get, AssocGet, Collection, Valid
<1>. QED BY <1>1, <1>2

LEMMA IndexGetKeeps ==
  ASSUME Inv, NEW s \in Collected, NEW idx \in Indices, IndexGet(s, idx)
  PROVE  Inv' /\ Announced
<1>1. Indexes(s, idx) /\ Put(slot, Get(heap[slot[s].array], idx), heap, FALSE, {})
  BY DEF IndexGet
<1>2. Valid(heap, Get(heap[slot[s].array], idx))
  BY <1>1, SlotFacts, GetValid DEF Indexes
<1>. QED BY <1>1, <1>2, TempKeeps

\* push and insert store what the temporary holds, without a copy.
LEMMA AddKeeps ==
  ASSUME Inv, NEW s \in Collected, types[s] # "map",
         NEW op \in {"PushBack", "PushFront", "Insert"},
         NEW q, q \in Seq(Range(q)),
         NEW k, k \in 1..(Len(heap[slot[s].array].queue) + 1),
         DOMAIN q = 1..(Len(heap[slot[s].array].queue) + 1),
         \A i \in 1..(Len(heap[slot[s].array].queue) + 1) :
           q[i] = IF i < k THEN heap[slot[s].array].queue[i]
                  ELSE IF i = k THEN temp ELSE heap[slot[s].array].queue[i - 1],
         Add(s, op, Queue(heap[slot[s].array].of, q))
  PROVE  Inv' /\ Announced
<1> DEFINE h == slot[s].array
           old == heap[h].queue
           n == Len(old)
           f == [i \in 1..(n + 1) |-> IF i < k THEN i ELSE IF i = k THEN 0 ELSE i - 1]
           pushing == HandlesIn({temp})
           hp == [heap EXCEPT ![h] = Queue(heap[h].of, q)]
<1>1. Fits(s) /\ Put(slot, Null, hp, TRUE, pushing)
  BY DEF Add, Notifies
<1>2. /\ h \in DOMAIN heap /\ IsQueue(heap[h]) /\ heap[h].of = types[s]
      /\ Collection(heap, heap[h])
  BY SlotFacts
<1>3. Element(heap, heap[h].of, temp)
  BY <1>1, <1>2, FitsFacts
<1>4. IsArray(temp) => temp.array \in pushed \cup pushing
  BY DEF HandlesIn
<1>5. Good(slot, temp, heap, pushed \cup pushing)
  BY DEF Inv, Good, Apart
<1>6. n \in Nat /\ DOMAIN old = 1..n
  BY <1>2, QueueFacts
<1>7. Drawn(old, q, temp, f)
  <2>1. k \in 1..(n + 1) /\ DOMAIN q = 1..(n + 1)
    OBVIOUS
  <2>2. \A i \in 1..(n + 1) : q[i] = IF i < k THEN old[i] ELSE IF i = k THEN temp ELSE old[i - 1]
    OBVIOUS
  <2> DEFINE nn == n
             oo == old
  <2> HIDE DEF n, old
  <2>. QED BY <1>6, <2>1, <2>2, InsertFrom
<1> HIDE DEF f, pushing
<1>8. Good(slot, temp, hp, pushed \cup pushing)
  <2> HIDE DEF h, n
  <2>. QED BY <1>2, <1>3, <1>4, <1>5, <1>7, ListKeeps
<1>9. Good(slot, Null, hp, pushed \cup pushing)
  BY <1>8, ValueFacts DEF Good, Valid
<1> HIDE DEF hp
<1>. QED BY <1>1, <1>9, LoudKeeps

LEMMA PushKeeps ==
  ASSUME Inv, NEW s \in Collected, PushBack(s) \/ PushFront(s)
  PROVE  Inv' /\ Announced
<1> DEFINE c == heap[slot[s].array]
<1>1. types[s] # "map" /\ c.queue \in Seq(Range(c.queue)) /\ Len(c.queue) \in Nat
  BY SlotFacts, QueueFacts DEF PushBack, PushFront
<1>2. CASE PushBack(s)
  <2> DEFINE q == Appended(c.queue, temp)
             k == Len(c.queue) + 1
  <2>1. Add(s, "PushBack", Queue(c.of, q))
    BY <1>2 DEF PushBack, PushBackOf, Appended
  <2>2. /\ q \in Seq(Range(q)) /\ DOMAIN q = 1..(Len(c.queue) + 1)
        /\ \A i \in 1..(Len(c.queue) + 1) :
             q[i] = IF i < k THEN c.queue[i] ELSE IF i = k THEN temp ELSE c.queue[i - 1]
    BY <1>1, AppendFacts
  <2>3. k \in 1..(Len(c.queue) + 1)
    BY <1>1
  <2> HIDE DEF q, k
  <2>. QED BY <1>1, <2>1, <2>2, <2>3, AddKeeps
<1>3. CASE PushFront(s)
  <2> DEFINE q == <<temp>> \o c.queue
  <2>1. Add(s, "PushFront", Queue(c.of, q))
    BY <1>3 DEF PushFront, PushFrontOf
  <2>2. /\ q \in Seq(Range(q)) /\ DOMAIN q = 1..(Len(c.queue) + 1)
        /\ \A i \in 1..(Len(c.queue) + 1) :
             q[i] = IF i < 1 THEN c.queue[i] ELSE IF i = 1 THEN temp ELSE c.queue[i - 1]
    BY <1>1, EndFacts
  <2>3. 1 \in 1..(Len(c.queue) + 1)
    BY <1>1
  <2> HIDE DEF q
  <2>. QED BY <1>1, <2>1, <2>2, <2>3, AddKeeps
<1>. QED BY <1>2, <1>3

LEMMA InsertKeeps ==
  ASSUME Inv, NEW s \in Collected, NEW idx \in Indices, Insert(s, idx)
  PROVE  Inv' /\ Announced
<1> DEFINE c == heap[slot[s].array]
           i == ToU64(AsLogic(idx))
           k == (IF i < Len(c.queue) THEN i ELSE Len(c.queue)) + 1
           q == InsertAt(c.queue, k, temp)
<1>1. /\ types[s] # "map" /\ c.queue \in Seq(Range(c.queue)) /\ Len(c.queue) \in Nat
      /\ i \in Nat
  BY SlotFacts, QueueFacts, IndexFacts DEF Insert
<1>2. Add(s, "Insert", Queue(c.of, q))
  BY DEF Insert, InsertOf
<1> HIDE DEF i
<1>3. k \in 1..(Len(c.queue) + 1)
  BY <1>1
<1> HIDE DEF k
<1>4. /\ q \in Seq(Range(q)) /\ DOMAIN q = 1..(Len(c.queue) + 1)
      /\ \A j \in 1..(Len(c.queue) + 1) :
           q[j] = IF j < k THEN c.queue[j] ELSE IF j = k THEN temp ELSE c.queue[j - 1]
  BY <1>1, <1>3, InsertAtFacts
<1> HIDE DEF q
<1>. QED BY <1>1, <1>2, <1>3, <1>4, AddKeeps

\* An element leaves a list; the temporary is null or what left.
LEMMA ShrinkKeeps ==
  ASSUME Inv, NEW s \in Collected, types[s] # "map",
         NEW q, q \in Seq(Range(q)),
         NEW k, k \in 1..Len(heap[slot[s].array].queue),
         DOMAIN q = 1..(Len(heap[slot[s].array].queue) - 1),
         \A i \in 1..(Len(heap[slot[s].array].queue) - 1) :
           q[i] = IF i < k THEN heap[slot[s].array].queue[i] ELSE heap[slot[s].array].queue[i + 1],
         NEW v, Valid(heap, v),
         Put(slot, v, [heap EXCEPT ![slot[s].array] = Queue(heap[slot[s].array].of, q)], TRUE, {})
  PROVE  Inv' /\ Announced
<1> DEFINE h == slot[s].array
           old == heap[h].queue
           n == Len(old)
           f == [i \in 1..(n - 1) |-> IF i < k THEN i ELSE i + 1]
           hp == [heap EXCEPT ![h] = Queue(heap[h].of, q)]
<1>1. Put(slot, v, hp, TRUE, {})
  OBVIOUS
<1>2. h \in DOMAIN heap /\ IsQueue(heap[h]) /\ Collection(heap, heap[h])
  BY SlotFacts
<1>3. ~IsArray(Null) /\ Element(heap, heap[h].of, Null)
  BY ValueFacts DEF Element, Valid
<1>4. Good(slot, temp, heap, pushed)
  BY DEF Inv
<1>5. n \in Nat /\ DOMAIN old = 1..n
  BY <1>2, QueueFacts
<1>6. Drawn(old, q, Null, f)
  <2>1. k \in 1..n /\ DOMAIN q = 1..(n - 1)
    OBVIOUS
  <2>2. \A i \in 1..(n - 1) : q[i] = IF i < k THEN old[i] ELSE old[i + 1]
    OBVIOUS
  <2> HIDE DEF n, old
  <2>. QED BY <1>5, <2>1, <2>2, RemoveFrom
<1> HIDE DEF f
<1>7. Good(slot, temp, hp, pushed)
  <2> HIDE DEF h, n
  <2>. QED BY <1>2, <1>3, <1>4, <1>6, ListKeeps
<1>8. DOMAIN hp = DOMAIN heap
  OBVIOUS
<1> HIDE DEF hp
<1>9. Good(slot, v, hp, pushed) /\ pushed \cup {} = pushed
  BY <1>7, <1>8 DEF Good, Valid
<1>. QED BY <1>1, <1>9, LoudKeeps

LEMMA PopKeeps ==
  ASSUME Inv, NEW s \in Collected, NEW op \in {"PopFront", "PopBack"}, Pop(s, op)
  PROVE  Inv' /\ Announced
<1> DEFINE h == slot[s].array
           old == heap[h].queue
<1>1. types[s] # "map" /\ Notifies(op) = TRUE
  BY DEF Pop, Notifies
<1>2. h \in DOMAIN heap /\ IsQueue(heap[h]) /\ Collection(heap, heap[h])
  BY <1>1, SlotFacts
<1>3. /\ Len(old) \in Nat /\ DOMAIN old = 1..Len(old) /\ old \in Seq(Range(old))
      /\ \A i \in DOMAIN old : Valid(heap, old[i])
  BY <1>2, QueueFacts DEF Element, Valid
<1>4. CASE old = <<>>
  <2>1. Put(slot, Null, heap, TRUE, {})
    BY <1>1, <1>4 DEF Pop
  <2>2. Valid(heap, Null)
    BY ValueFacts DEF Valid
  <2>. QED BY <2>1, <2>2, TempKeeps
<1>5. CASE old # <<>>
  <2> DEFINE o == old
  <2>0. o \in Seq(Range(o)) /\ o # <<>>
    BY <1>3, <1>5
  <2>1. CASE op = "PopFront"
    <3> DEFINE q == Tail(old)
    <3>1. Put(slot, Head(old), [heap EXCEPT ![h] = Queue(heap[h].of, q)], TRUE, {})
      BY <1>1, <1>5, <2>1 DEF Pop
    <3>2. /\ Len(old) >= 1 /\ q \in Seq(Range(q)) /\ DOMAIN q = 1..(Len(old) - 1)
          /\ \A i \in 1..(Len(old) - 1) : q[i] = IF i < 1 THEN old[i] ELSE old[i + 1]
      <4> HIDE DEF o
      <4>1. /\ Len(o) >= 1 /\ Tail(o) \in Seq(Range(Tail(o))) /\ DOMAIN Tail(o) = 1..(Len(o) - 1)
            /\ \A i \in 1..(Len(o) - 1) : Tail(o)[i] = IF i < 1 THEN o[i] ELSE o[i + 1]
        BY <2>0, EndFacts
      <4>. QED BY <4>1 DEF o
    <3>3. 1 \in 1..Len(old) /\ Valid(heap, Head(old))
      <4>1. 1 \in 1..Len(old)
        BY <1>3, <3>2
      <4>2. Head(old) = old[1]
        <5> HIDE DEF o
        <5>1. Head(o) = o[1]
          BY <2>0
        <5>. QED BY <5>1 DEF o
      <4>. QED BY <4>1, <4>2, <1>3
    <3> HIDE DEF q
    <3>. QED BY <1>1, <3>1, <3>2, <3>3, ShrinkKeeps
  <2>2. CASE op = "PopBack"
    <3> DEFINE q == Front(old)
               k == Len(old)
    <3>1. Put(slot, Last(old), [heap EXCEPT ![h] = Queue(heap[h].of, q)], TRUE, {})
      BY <1>1, <1>5, <2>2 DEF Pop
    <3>2. /\ Len(old) >= 1 /\ q \in Seq(Range(q)) /\ DOMAIN q = 1..(Len(old) - 1)
          /\ \A i \in 1..(Len(old) - 1) : q[i] = IF i < k THEN old[i] ELSE old[i + 1]
      <4> HIDE DEF o
      <4>1. /\ Len(o) >= 1 /\ Front(o) \in Seq(Range(Front(o))) /\ DOMAIN Front(o) = 1..(Len(o) - 1)
            /\ \A i \in 1..(Len(o) - 1) : Front(o)[i] = IF i < Len(o) THEN o[i] ELSE o[i + 1]
        BY <2>0, EndFacts
      <4>. QED BY <4>1 DEF o
    <3>3. k \in 1..Len(old) /\ Valid(heap, Last(old))
      BY <1>3, <3>2 DEF Last
    <3> HIDE DEF q, k
    <3>. QED BY <1>1, <3>1, <3>2, <3>3, ShrinkKeeps
  <2>. QED BY <2>1, <2>2
<1>. QED BY <1>4, <1>5

\* A collection is replaced by one without collections as elements, or is what it was.
LEMMA PlainKeeps ==
  ASSUME Inv, NEW s \in Collected,
         NEW d, TypeOf(d) = types[s], Collection(heap, d),
         IsQueue(d) => \A i \in DOMAIN d.queue : ~IsArray(d.queue[i]),
         Put(slot, Null, [heap EXCEPT ![slot[s].array] = d], TRUE, {})
  PROVE  Inv' /\ Announced
<1> DEFINE h == slot[s].array
           hp == [heap EXCEPT ![h] = d]
<1>1. h \in DOMAIN heap /\ TypeOf(heap[h]) = types[s] /\ Collection(heap, heap[h])
  BY SlotFacts
<1>2. ~IsArray(Null)
  BY ValueFacts
<1>3. IsQueue(d) => From(heap[h].queue, d.queue, Null, Null)
  <2> SUFFICES ASSUME IsQueue(d) PROVE From(heap[h].queue, d.queue, Null, Null)
    OBVIOUS
  <2>1. IsQueue(heap[h])
    BY <1>1, TypeFacts
  <2>2. 0 \notin DOMAIN heap[h].queue
    BY <1>1, <2>1, QueueFacts
  <2>. QED BY <2>2 DEF From
<1>4. Good(slot, temp, heap, pushed)
  BY DEF Inv
<1>5. Good(slot, temp, hp, pushed)
  <2> HIDE DEF h
  <2>. QED BY <1>1, <1>2, <1>3, <1>4, ReplaceKeeps
<1> HIDE DEF hp
<1>6. Good(slot, Null, hp, pushed) /\ pushed \cup {} = pushed
  BY <1>5, ValueFacts DEF Good, Valid
<1>. QED BY <1>6, LoudKeeps DEF hp

LEMMA DeleteAllKeeps ==
  ASSUME Inv, NEW s \in Collected, DeleteAll(s)
  PROVE  Inv' /\ Announced
<1>1. Put(slot, Null, [heap EXCEPT ![slot[s].array] = Empty(types[s])], TRUE, {})
  BY DEF DeleteAll, Notifies
<1>2. types[s] \in {"ints", "lists", "map"}
  BY SlotFacts
<1> DEFINE d == Empty(types[s])
<1>3. /\ TypeOf(d) = types[s] /\ Collection(heap, d)
      /\ IsQueue(d) => \A i \in DOMAIN d.queue : ~IsArray(d.queue[i])
  BY <1>2, EmptyFacts, EmptySeq
<1> HIDE DEF d
<1>4. Put(slot, Null, [heap EXCEPT ![slot[s].array] = d], TRUE, {})
  BY <1>1 DEF d
<1>. QED BY <1>3, <1>4, PlainKeeps

LEMMA DeleteKeeps ==
  ASSUME Inv, NEW s \in Collected, NEW idx \in Indices, Delete(s, idx)
  PROVE  Inv' /\ Announced
<1> DEFINE h == slot[s].array
           c == heap[h]
           i == ToU64(AsLogic(idx))
<1>1. Indexes(s, idx) /\ Put(slot, Null, [heap EXCEPT ![h] = DeleteOf(c, idx)], TRUE, {})
  BY DEF Delete, Notifies
<1>2. /\ h \in DOMAIN heap /\ Collection(heap, c) /\ TypeOf(c) = types[s]
      /\ (IsQueue(c) <=> types[s] # "map") /\ (IsQueue(c) => IsLogic(idx))
  BY <1>1, SlotFacts DEF Indexes
<1>3. Valid(heap, Null) /\ ~IsArray(Null)
  BY ValueFacts DEF Valid
<1>4. CASE ~IsQueue(c)
  <2> DEFINE g == Restrict(c.assoc, DOMAIN c.assoc \ {ValueToKey(idx)})
             d == Assoc(g)
  <2>1. DeleteOf(c, idx) = d
    BY <1>4 DEF DeleteOf
  <2>2. \A k \in DOMAIN g : Valid(heap, g[k]) /\ ~IsArray(g[k])
    <3>1. \A k \in DOMAIN c.assoc : Valid(heap, c.assoc[k]) /\ ~IsArray(c.assoc[k])
      BY <1>2, <1>4 DEF Collection
    <3>. QED BY <3>1 DEF Restrict
  <2> HIDE DEF g
  <2>3. ~IsQueue(d) /\ d.assoc = g /\ TypeOf(d) = "map"
    BY ValueFacts
  <2>4. Collection(heap, d) /\ TypeOf(d) = types[s]
    <3>1. types[s] = "map"
      BY <1>2, <1>4, SlotFacts
    <3>. QED BY <2>2, <2>3, <3>1 DEF Collection
  <2> HIDE DEF d
  <2>5. Put(slot, Null, [heap EXCEPT ![h] = d], TRUE, {})
    BY <1>1, <2>1
  <2>. QED BY <2>3, <2>4, <2>5, PlainKeeps
<1>5. CASE IsQueue(c)
  <2>0. /\ Len(c.queue) \in Nat /\ c.queue \in Seq(Range(c.queue)) /\ i \in Nat
        /\ types[s] # "map"
    BY <1>2, <1>5, QueueFacts, IndexFacts
  <2>1. CASE i < Len(c.queue)
    <3> DEFINE k == i + 1
               q == RemoveAt(c.queue, k)
    <3>1. DeleteOf(c, idx) = Queue(c.of, q)
      BY <1>5, <2>1 DEF DeleteOf
    <3>2. k \in 1..Len(c.queue)
      BY <2>0, <2>1
    <3> HIDE DEF k
    <3>3. /\ q \in Seq(Range(q)) /\ DOMAIN q = 1..(Len(c.queue) - 1)
          /\ \A j \in 1..(Len(c.queue) - 1) : q[j] = IF j < k THEN c.queue[j] ELSE c.queue[j + 1]
      BY <2>0, <3>2, RemoveAtFacts
    <3> HIDE DEF q
    <3>4. Put(slot, Null, [heap EXCEPT ![h] = Queue(c.of, q)], TRUE, {})
      BY <1>1, <3>1
    <3>. QED BY <1>3, <2>0, <3>2, <3>3, <3>4, ShrinkKeeps
  <2>2. CASE ~(i < Len(c.queue))
    <3>1. DeleteOf(c, idx) = c
      BY <1>5, <2>2 DEF DeleteOf
    <3>2. Put(slot, Null, [heap EXCEPT ![h] = c], TRUE, {})
      BY <1>1, <3>1
    <3> DEFINE hp == [heap EXCEPT ![h] = c]
    <3>3. DOMAIN hp = DOMAIN heap /\ \A g \in DOMAIN heap : hp[g] = heap[g]
      OBVIOUS
    <3> HIDE DEF hp
    <3>4. Extends(heap, hp)
      BY <3>3 DEF Extends
    <3>5. GoodHeap(hp)
      BY <3>3, <3>4, ExtendsKeeps DEF Inv, Good, GoodHeap
    <3>6. Apart(slot, hp, pushed)
      BY <3>3 DEF Inv, Good, Apart
    <3>7. Good(slot, Null, hp, pushed) /\ pushed \cup {} = pushed
      BY <1>3, <3>4, <3>5, <3>6, ExtendsKeeps DEF Inv, Good
    <3>. QED BY <3>2, <3>7, LoudKeeps DEF hp
  <2>. QED BY <2>1, <2>2
<1>. QED BY <1>4, <1>5

LEMMA IndexSetKeeps ==
  ASSUME Inv, NEW s \in Collected, NEW idx \in Indices, IndexSet(s, idx)
  PROVE  Inv' /\ Announced
<1> DEFINE h == slot[s].array
           c == AssignmentCopy(temp, heap)
           b == heap[h]
           w == c.value
           hq == c.heap
           d == Set(b, idx, w)
           i == SetPosition(idx)
<1>1. /\ Fits(s) /\ ~SetPanics(b, idx)
      /\ Put(slot, Null, [hq EXCEPT ![h] = Set(hq[h], idx, w)], TRUE, {})
  BY DEF IndexSet
<1>2. /\ h \in DOMAIN heap /\ Collection(heap, b) /\ TypeOf(b) = types[s]
      /\ (IsQueue(b) <=> types[s] # "map") /\ (IsQueue(b) => b.of = types[s])
  BY SlotFacts
<1>3. /\ Good(slot, temp, heap, pushed) /\ Named0(heap) /\ Valid(heap, temp)
  BY DEF Inv, Good
<1>4. /\ Good(slot, temp, hq, pushed) /\ Extends(heap, hq) /\ Valid(hq, w)
      /\ (IsArray(temp) => Unheld(slot, hq, w)) /\ (~IsArray(temp) => w = temp)
      /\ (IsArray(temp) => TypeOf(hq[w.array]) = TypeOf(heap[temp.array]))
  BY <1>3, CopyKeeps
<1> HIDE DEF c, w, hq
<1>5. h \in DOMAIN hq /\ hq[h] = b
  BY <1>2, <1>4 DEF Extends
<1>6. Element(hq, types[s], w) /\ (types[s] # "lists" => ~IsArray(w))
  BY <1>1, <1>4, FitsFacts DEF Element
<1>7. (IsArray(w) => w.array \in pushed) \/ Unheld(slot, hq, w)
  BY <1>4
<1>8. pushed \cup {} = pushed /\ Valid([hq EXCEPT ![h] = d], Null)
  BY ValueFacts DEF Valid
<1>9. Put(slot, Null, [hq EXCEPT ![h] = d], TRUE, {})
  BY <1>1, <1>5
<1>10. Good(slot, temp, [hq EXCEPT ![h] = d], pushed)
  <2>1. CASE IsQueue(b)
    <3> DEFINE n == Len(b.queue)
               m == IF i >= n THEN i + 1 ELSE n
               q == [j \in 1..m |-> IF j = i + 1 THEN w ELSE IF j <= n THEN b.queue[j] ELSE Null]
               f == [j \in 1..m |-> IF j = i + 1 THEN 0 ELSE j]
    <3>1. d = Queue(b.of, q)
      BY <2>1 DEF Set
    <3>2. i \in Nat /\ n \in Nat /\ DOMAIN b.queue = 1..n
      BY <1>1, <1>2, <2>1, IndexFacts, QueueFacts DEF SetPanics
    <3> HIDE DEF i, n
    <3>3. m \in Nat
      BY <3>2
    <3>4. \A j \in 1..m : q[j] = IF j = i + 1 THEN w ELSE IF j <= n THEN b.queue[j] ELSE Null
      OBVIOUS
    <3>5. DOMAIN q = 1..m
      OBVIOUS
    <3> HIDE DEF m
    <3>6. q \in Seq(Range(q))
      <4>1. q \in [1..m -> Range(q)]
        BY DEF Range
      <4> HIDE DEF q
      <4>. QED BY <3>3, <4>1, SeqDef
    <3>7. Drawn(b.queue, q, w, f)
      <4> DEFINE k == i + 1
                 old == b.queue
      <4>1. \A j \in 1..m : q[j] = IF j = k THEN w ELSE IF j <= n THEN old[j] ELSE Null
        BY <3>2
      <4>2. DOMAIN old = 1..n /\ 0 \notin 1..n /\ DOMAIN q = 1..m
        BY <3>2, <3>5
      <4>3. k \in Nat /\ \A j \in 1..m : f[j] = IF j = k THEN 0 ELSE j
        BY <3>2
      <4> HIDE DEF q, k, old, f
      <4>4. ASSUME NEW j \in 1..m
            PROVE  \/ f[j] = 0 /\ q[j] = w
                   \/ f[j] \in 1..n /\ q[j] = old[f[j]]
                   \/ q[j] = Null /\ ~IsArray(q[j])
        <5>1. CASE j = k
          BY <5>1, <4>1, <4>3
        <5>2. CASE j # k /\ j <= n
          BY <5>2, <3>2, <3>3, <4>1, <4>3
        <5>3. CASE j # k /\ ~(j <= n)
          <6>1. q[j] = Null
            BY <5>3, <4>1
          <6>. QED BY <6>1, <4>4, ValueFacts
        <5>. QED BY <5>1, <5>2, <5>3
      <4>5. \A j, l \in 1..m : f[j] = f[l] => j = l
        BY <3>3, <4>3
      <4>6. Drawn(old, q, w, f)
        BY <4>2, <4>4, <4>5 DEF From, Drawn
      <4>. QED BY <4>6 DEF old
    <3> HIDE DEF q, f
    <3>8. IsQueue(hq[h]) /\ Element(hq, hq[h].of, w) /\ Drawn(hq[h].queue, q, w, f)
      BY <1>2, <1>5, <1>6, <2>1, <3>7
    <3>9. Good(slot, temp, [hq EXCEPT ![h] = Queue(hq[h].of, q)], pushed)
      BY <1>4, <1>5, <1>7, <3>6, <3>8, ListKeeps
    <3>. QED BY <3>1, <3>9, <1>5
  <2>2. CASE ~IsQueue(b)
    <3> DEFINE k == ValueToKey(idx)
               g == [x \in DOMAIN b.assoc \cup {k} |-> IF x = k THEN w ELSE b.assoc[x]]
    <3>1. d = Assoc(g)
      BY <2>2 DEF Set, MapInsert
    <3>2. types[s] = "map" /\ ~IsArray(w)
      BY <1>2, <1>6, <2>2
    <3>3. \A l \in DOMAIN g : Valid(hq, g[l]) /\ ~IsArray(g[l])
      <4>1. \A l \in DOMAIN b.assoc : Valid(hq, b.assoc[l]) /\ ~IsArray(b.assoc[l])
        BY <1>4, <1>2, <2>2, ExtendsKeeps DEF Collection
      <4> HIDE DEF k
      <4>. QED BY <1>4, <3>2, <4>1
    <3> HIDE DEF g
    <3>4. ~IsQueue(d) /\ d.assoc = g /\ TypeOf(d) = "map"
      BY <3>1, ValueFacts
    <3>5. Collection(hq, d) /\ TypeOf(d) = TypeOf(hq[h])
      BY <1>2, <1>5, <3>2, <3>3, <3>4 DEF Collection
    <3> HIDE DEF d
    <3>. QED BY <1>4, <1>5, <1>7, <3>4, <3>5, ReplaceKeeps
  <2>. QED BY <2>1, <2>2
<1>11. Good(slot, Null, [hq EXCEPT ![h] = d], pushed)
  BY <1>8, <1>10 DEF Good
<1>. QED BY <1>8, <1>9, <1>11, LoudKeeps

\* The instructions that compute or load the temporary.
LEMMA LoadsKeep ==
  ASSUME Inv,
         \/ \E s \in Collected : Load(s)
         \/ \E v \in Elements : LoadConst(v)
         \/ \E x, y \in Slots : \/ Compute(x, y)
                                \/ \E c \in Samples : Select(c, x, y) \/ IndexSetBit(x, y, c)
  PROVE  Inv' /\ Announced
<1>1. ASSUME NEW s \in Collected, Load(s)
      PROVE  Inv' /\ Announced
  <2>1. Valid(heap, slot[s]) /\ Put(slot, slot[s], heap, FALSE, {})
    BY <1>1, SlotFacts DEF Load
  <2>. QED BY <2>1, TempKeeps
<1>2. ASSUME NEW v \in Elements, LoadConst(v)
      PROVE  Inv' /\ Announced
  <2>1. WellFormed(v)
    BY SampleAssumption
  <2>. QED BY <1>2, <2>1, LogicKeeps DEF LoadConst
<1>3. ASSUME NEW x \in Slots, IsVector(x)
      PROVE  WellFormed(slot[x].logic) /\ ToU64(slot[x].logic) \in Nat
  <2>1. slot[x].logic \in Samples
    BY <1>3 DEF Inv, Good, GoodSlots
  <2>. QED BY <2>1, SampleAssumption
<1>4. ASSUME NEW x \in Slots, NEW y \in Slots, Compute(x, y)
      PROVE  Inv' /\ Announced
  <2>1. /\ WellFormed(slot[x].logic) /\ WellFormed(slot[y].logic)
        /\ ToU64(slot[y].logic) \in Nat
    BY <1>3, <1>4 DEF Compute
  <2>2. \E v : WellFormed(v) /\ Put(slot, Logic(v), heap, FALSE, {})
    <3>1. CASE \E op \in Unary : Put(slot, Logic(Apply1(op, slot[x].logic)), heap, FALSE, {})
      BY <2>1, <3>1, UnaryWellFormed
    <3>2. CASE Put(slot, Logic(SelectBit(slot[x].logic, slot[y].logic)), heap, FALSE, {})
      BY <2>1, <3>2, BitWellFormed
    <3>3. CASE \E op \in Binary : Put(slot, Logic(Apply2(op, slot[x].logic, slot[y].logic)), heap, FALSE, {})
      BY <2>1, <3>3, BinaryWellFormed
    <3>. QED BY <1>4, <3>1, <3>2, <3>3 DEF Compute
  <2>. QED BY <2>2, LogicKeeps
<1>5. ASSUME NEW x \in Slots, NEW y \in Slots, NEW c \in Samples, Select(c, x, y)
      PROVE  Inv' /\ Announced
  <2>1. WellFormed(Conditional(c, slot[x].logic, slot[y].logic))
    BY <1>3, <1>5, ConditionalFacts DEF Select
  <2>. QED BY <1>5, <2>1, LogicKeeps DEF Select
<1>6. ASSUME NEW x \in Slots, NEW y \in Slots, NEW c \in Samples, IndexSetBit(x, y, c)
      PROVE  Inv' /\ Announced
  <2>1. WellFormed(WriteBit(slot[x].logic, slot[y].logic, c))
    BY <1>3, <1>6, BitWellFormed DEF IndexSetBit
  <2>. QED BY <1>6, <2>1, LogicKeeps DEF IndexSetBit
<1>. QED BY <1>1, <1>2, <1>4, <1>5, <1>6

-----------------------------------------------------------------------------
(* The specification *)

\* At first every slot that is not a vector has an empty collection of its own.
LEMMA InitInv == Init => Inv
<1> SUFFICES ASSUME Init PROVE Inv
  OBVIOUS
<1> DEFINE place(s) == <<s, 0>>
<1>1. /\ types \in Declarations /\ temp = Null
      /\ types \in [Slots -> {"vector", "ints", "lists", "map"}]
  BY SlotAssumption DEF Init
<1>2. PICK sample \in [Slots -> Samples] :
        slot = [s \in Slots |-> IF IsVector(s) THEN Logic(sample[s]) ELSE Handle(place(s))]
  BY DEF Init
<1>3. heap = [h \in {place(s) : s \in Collected} |-> Empty(types[h[1]])]
  BY DEF Init
<1>4. \A s, t : (place(s) = place(t) => s = t) /\ place(s)[1] = s
  OBVIOUS
<1> HIDE DEF place
<1>5. ASSUME NEW s \in Collected
      PROVE  /\ s \in Slots /\ ~IsVector(s) /\ types[s] \in {"ints", "lists", "map"}
             /\ slot[s] = Handle(place(s)) /\ IsArray(slot[s]) /\ slot[s].array = place(s)
             /\ place(s) \in DOMAIN heap /\ heap[place(s)] = Empty(types[s])
  <2>1. s \in Slots /\ ~IsVector(s) /\ types[s] \in {"ints", "lists", "map"}
    BY <1>1 DEF Collected, IsVector
  <2>2. slot[s] = Handle(place(s))
    BY <2>1, <1>2
  <2>3. IsArray(slot[s]) /\ slot[s].array = place(s)
    BY <2>2, ValueFacts
  <2>4. place(s) \in DOMAIN heap /\ heap[place(s)] = Empty(types[s])
    BY <1>3, <1>4
  <2>. QED BY <2>1, <2>2, <2>3, <2>4
<1>6. \A h \in DOMAIN heap : \E s \in Collected : h = place(s)
  BY <1>3
<1>7. ASSUME NEW h \in DOMAIN heap
      PROVE  Collection(heap, heap[h]) /\ (IsQueue(heap[h]) => DOMAIN heap[h].queue = {})
  <2>1. PICK s \in Collected : h = place(s)
    BY <1>6
  <2>. QED BY <2>1, <1>5, EmptyFacts, EmptySeq
<1>8. ASSUME NEW s \in Slots
      PROVE  IF IsVector(s) THEN IsLogic(slot[s]) /\ ~IsArray(slot[s]) /\ slot[s].logic \in Samples
             ELSE IsArray(slot[s]) /\ Valid(heap, slot[s]) /\ TypeOf(heap[slot[s].array]) = types[s]
  <2>1. CASE IsVector(s)
    <3>1. slot[s] = Logic(sample[s])
      BY <1>2, <2>1
    <3>. QED BY <2>1, <3>1, ValueFacts
  <2>2. CASE ~IsVector(s)
    <3>1. s \in Collected
      BY <2>2 DEF Collected
    <3>2. TypeOf(Empty(types[s])) = types[s]
      BY <3>1, <1>5, EmptyFacts
    <3>3. ~IsLogic(slot[s])
      BY <3>1, <1>5, ValueFacts
    <3>. QED BY <2>2, <3>1, <3>2, <3>3, <1>5 DEF Valid
  <2>. QED BY <2>1, <2>2
<1>9. Apart(slot, heap, pushed)
  <2>1. ASSUME NEW s \in Slots, NEW t \in Slots, IsArray(slot[s]), slot[s] = slot[t]
        PROVE  s = t
    <3>1. s \in Collected /\ t \in Collected
      BY <2>1, <1>8 DEF Collected
    <3>. QED BY <2>1, <3>1, <1>4, <1>5
  <2>. QED BY <2>1, <1>7 DEF Apart
<1>10. Named0(heap)
  <2>1. ASSUME NEW h \in DOMAIN heap PROVE h[1] # "new"
    <3>1. PICK s \in Collected : h = place(s)
      BY <1>6
    <3>. QED BY <3>1, <1>4, <1>5, SlotAssumption
  <2>. QED BY <2>1 DEF Named0, IsNew
<1>11. Valid(heap, temp)
  BY <1>1, ValueFacts DEF Valid
<1>12. slot = [s \in Slots |-> slot[s]]
  BY <1>2
<1>. QED BY <1>1, <1>7, <1>8, <1>9, <1>10, <1>11, <1>12 DEF Inv, Good, GoodHeap, GoodSlots

\* Every instruction keeps the invariant and announces what it changes in a static.
LEMMA StepKeeps == Inv /\ [Next]_vars => Inv' /\ Announced
<1> SUFFICES ASSUME Inv, [Next]_vars PROVE Inv' /\ Announced
  OBVIOUS
<1>1. CASE UNCHANGED vars
  BY <1>1 DEF vars, Inv, Good, GoodHeap, GoodSlots, Apart, Named0, Announced, IsVector
<1>2. CASE \E s \in Collected : Declare(s) \/ Load(s) \/ Assign(s) \/ PushBack(s) \/ PushFront(s)
                                \/ DeleteAll(s)
  BY <1>2, DeclareKeeps, LoadsKeep, AssignKeeps, PushKeeps, DeleteAllKeeps
<1>3. CASE \E s \in Collected, idx \in Indices :
             IndexGet(s, idx) \/ IndexSet(s, idx) \/ Insert(s, idx) \/ Delete(s, idx)
  BY <1>3, IndexGetKeeps, IndexSetKeeps, InsertKeeps, DeleteKeeps
<1>4. CASE \E s \in Collected, op \in {"PopFront", "PopBack"} : Pop(s, op)
  BY <1>4, PopKeeps
<1>5. CASE \E v \in Elements : LoadConst(v)
  BY <1>5, LoadsKeep
<1>6. CASE \E x, y \in Slots :
             Compute(x, y) \/ \E c \in Samples : c.width = 1 /\ (Select(c, x, y) \/ IndexSetBit(x, y, c))
  BY <1>6, LoadsKeep
<1>. QED BY <1>1, <1>2, <1>3, <1>4, <1>5, <1>6 DEF Next

\* A set of which any two members are equal has at most one.
LEMMA AtMostOne ==
  ASSUME NEW S, \A x, y \in S : x = y
  PROVE  Cardinality(S) \in Nat /\ Cardinality(S) <= 1 /\ (S = {} => Cardinality(S) = 0)
<1>1. CASE S = {}
  BY <1>1, FS_EmptySet
<1>2. CASE S # {}
  <2>1. PICK x \in S : TRUE
    BY <1>2
  <2>2. S = {x}
    BY <2>1
  <2>. QED BY <1>2, <2>2, FS_Singleton
<1>. QED BY <1>1, <1>2

LEMMA CopiesApartOf == Inv => CopiesApart
<1> SUFFICES ASSUME Inv, NEW h \in DOMAIN heap \ pushed
             PROVE  Cardinality(HoldingSlots(h)) + Cardinality(HoldingElements(h)) <= 1
  BY DEF CopiesApart
<1> DEFINE S == HoldingSlots(h)
           E == HoldingElements(h)
<1>1. IsArray(Handle(h)) /\ Handle(h).array = h
  BY ValueFacts
<1>2. Apart(slot, heap, pushed)
  BY DEF Inv, Good
<1>3. \A s \in S : s \in Slots /\ slot[s] = Handle(h)
  BY DEF HoldingSlots
<1>4. ASSUME NEW p \in E
      PROVE  /\ p = <<p[1], p[2]>> /\ p[1] \in DOMAIN heap /\ IsQueue(heap[p[1]])
             /\ p[2] \in DOMAIN heap[p[1]].queue /\ heap[p[1]].queue[p[2]] = Handle(h)
  BY DEF HoldingElements
<1> HIDE DEF S, E
<1>5. \A s, t \in S : s = t
  BY <1>1, <1>2, <1>3 DEF Apart
<1>6. \A s \in S : \A p \in E : FALSE
  BY <1>1, <1>2, <1>3, <1>4 DEF Apart
<1>7. ASSUME NEW p \in E, NEW r \in E PROVE p = r
  <2>1. p[1] = r[1] /\ p[2] = r[2]
    BY <1>1, <1>2, <1>4 DEF Apart
  <2>. QED BY <2>1, <1>4
<1>8. S = {} \/ E = {}
  BY <1>6
<1>9. Cardinality(S) + Cardinality(E) <= 1
  BY <1>5, <1>7, <1>8, AtMostOne
<1>. QED BY <1>9 DEF S, E

\* Vectors in registers and elements have no bit above their width.
LEMMA NoStrayBitsOf == Inv => NoStrayBits
<1> SUFFICES ASSUME Inv PROVE NoStrayBits
  OBVIOUS
<1>1. \A s \in Slots : Valid(heap, slot[s])
  BY SampleAssumption DEF Inv, Good, GoodSlots, Valid
<1>2. Valid(heap, temp)
  BY DEF Inv, Good
<1>3. ASSUME NEW h \in DOMAIN heap, NEW v \in ElementsOf(heap[h])
      PROVE  Valid(heap, v)
  <2>1. Collection(heap, heap[h])
    BY DEF Inv, Good, GoodHeap
  <2>2. CASE IsQueue(heap[h])
    <3>1. PICK i \in DOMAIN heap[h].queue : v = heap[h].queue[i]
      BY <2>2 DEF ElementsOf, Range
    <3>. QED BY <2>1, <2>2, <3>1, QueueFacts DEF Element
  <2>3. CASE ~IsQueue(heap[h])
    <3>1. PICK k \in DOMAIN heap[h].assoc : v = heap[h].assoc[k]
      BY <2>3 DEF ElementsOf, Range
    <3>. QED BY <2>1, <2>3, <3>1 DEF Collection
  <2>. QED BY <2>2, <2>3
<1>4. \A v \in Range(slot) : \E s \in Slots : v = slot[s]
  BY DEF Inv, Range
<1>5. ASSUME NEW v \in Range(slot) \cup {temp} \cup UNION {ElementsOf(heap[h]) : h \in DOMAIN heap}
      PROVE  Valid(heap, v)
  BY <1>1, <1>2, <1>3, <1>4, <1>5
<1>6. \A v : WellFormed(v) => Normalized(v)
  BY DEF WellFormed
<1>. QED BY <1>5, <1>6 DEF NoStrayBits, Valid

\* Registers that are operands hold samples.
LEMMA OperandFacts ==
  ASSUME Inv, NEW x \in Operands
  PROVE  WellFormed(slot[x].logic) /\ ToU64(slot[x].logic) \in Nat
<1>1. x \in Slots /\ IsVector(x)
  BY DEF Operands
<1>. QED BY <1>1, SampleAssumption DEF Inv, Good, GoodSlots

LEMMA BitsMoveInv == Inv => BitsMove
<1> SUFFICES ASSUME Inv PROVE BitsMove
  OBVIOUS
<1>. QED BY OperandFacts, MovesExactly, WritesReadBack DEF BitsMove, Pairs

LEMMA BitwiseExactInv == Inv => BitwiseExact
<1> SUFFICES ASSUME Inv PROVE BitwiseExact
  OBVIOUS
<1>1. ASSUME NEW x \in Operands
      PROVE  WellFormed(slot[x].logic)
  BY OperandFacts
<1>2. Pairs(BitwiseExactOf)
  BY <1>1, BitsExactly DEF Pairs
<1>3. \A x \in Operands : OneBitExactOf(slot[x].logic)
  BY <1>1, OneBitExactly
<1>4. ASSUME NEW c \in Samples, c.width = 1
      PROVE  Pairs(LAMBDA v, w : MergeExactOf(c, v, w))
  <2>1. WellFormed(c)
    BY SampleAssumption
  <2>. QED BY <1>1, <1>4, <2>1, MergesExact DEF Pairs
<1>. QED BY <1>2, <1>3, <1>4 DEF BitwiseExact

\* Slots hold collections of their declared types, and two places hold the same
\* collection only if it was pushed, after any sequence of instructions: Declare,
\* Assign and IndexSet store collections that no place held.
THEOREM CollectionsInvariant == Spec => []Inv
<1>1. Inv /\ [Next]_vars => Inv'
  BY StepKeeps
<1>. QED BY InitInv, <1>1, PTL DEF Spec

\* Assignments keep collections apart (value.rs: "Arrays are value types"): two
\* variables, or a variable and an element at any depth, share storage only if
\* push or insert put it there, for any number of slots of any declared types,
\* any vectors and collections of any length.
THEOREM AssignmentsCopy == Spec => []CopiesApart
<1>. QED BY CollectionsInvariant, CopiesApartOf, PTL

\* An instruction that changes what a static holds, elements included, by
\* assignment or through any handle, calls notify_runtime_change.
THEOREM ChangesAreAnnounced == Spec => ChangesNotify
<1>1. Inv /\ [Next]_vars => [Announced]_vars
  BY StepKeeps
<1>2. [Announced]_vars <=> [\A s \in Statics : Contents(slot[s], heap)' # Contents(slot[s], heap) => notified']_vars
  BY DEF Announced
<1>. QED BY CollectionsInvariant, <1>1, <1>2, PTL DEF Spec, ChangesNotify

\* No instruction leaves a bit at or above the width in a word of a register or of
\* an element (logic.rs: "High bits (>= width) are 0"), for vectors of any width
\* and limbs of any size.
THEOREM NoStrayBitsStay == Spec => []NoStrayBits
<1>. QED BY CollectionsInvariant, NoStrayBitsOf, PTL

\* The word-parallel formulas of logic.rs compute the four-state tables, bit by bit,
\* for operands of any two widths and limbs of any size, ?: merges, and words are
\* equal when their bits are.
THEOREM BitwiseIsExact == Spec => []BitwiseExact
<1>. QED BY CollectionsInvariant, BitwiseExactInv, PTL

\* Vectors are their bits: with the two theorems above, shifts, part-selects in either
\* direction, cuts and concatenation, truncation and the digits that Display writes and
\* parse reads move bits without changing one, within words and across limbs, and a
\* bit written is the bit selected.
THEOREM BitsAreExact == Spec => []BitsExact
<1>1. Inv => BitsExact
  BY NoStrayBitsOf, BitwiseExactInv, BitsMoveInv DEF BitsExact
<1>. QED BY CollectionsInvariant, <1>1, PTL
=============================================================================
