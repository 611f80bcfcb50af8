---------------------------- MODULE JsonDocument ----------------------------
(***************************************************************************)
(* The memory of a JsonDocument (ArduinoJson): values live in the slots of *)
(* pools, linked to the arrays and objects they belong to; strings that    *)
(* are too long for a slot are shared and counted. Every reading and every *)
(* answer of the server passes through one.                                *)
(*                                                                         *)
(* A document is a record, and an operation a set of outcomes: wherever    *)
(* the heap is asked for memory it may have none. Freed slots are a set,   *)
(* for it does not matter in which order they are used again. What a       *)
(* value is beside the memory it needs is left out: Plain values fit in    *)
(* their slot, as do the Short strings; "ext" is a number that needs a     *)
(* slot of its own.                                                        *)
(***************************************************************************)
EXTENDS Integers, Sequences, FiniteSets, SequencesExt

CONSTANTS
  Long,         \* strings that need memory
  Short,        \* strings that do not
  PoolCapacity, \* ARDUINOJSON_POOL_CAPACITY
  NullSlot,     \* NULL_SLOT, the largest SlotId
  InitialPools  \* ARDUINOJSON_INITIAL_POOL_COUNT

Plain == {"int", "float"}

ASSUME StringsAssumption ==
  /\ Long \cap Short = {}
  /\ (Long \cup Short) \cap (Plain \cup {"", "ext", "null", "array", "object"}) = {}
ASSUME PoolsAssumption ==
  /\ {PoolCapacity, NullSlot, InitialPools} \subseteq Nat \ {0}
  /\ PoolCapacity > 1 /\ PoolCapacity < NullSlot
  /\ (NullSlot + 1) % PoolCapacity = 0  \* both are powers of two in every configuration

VARIABLE doc

-----------------------------------------------------------------------------
(***************************************************************************)
(* MemoryPool, MemoryPoolList                                              *)
(***************************************************************************)
MaxPools == NullSlot \div PoolCapacity + 1

Root == NullSlot + 1  \* data_, which is not in a slot
Slots == 0 .. NullSlot - 1

NullVariant ==
  [type |-> "null", str |-> "", head |-> NullSlot, tail |-> NullSlot, next |-> NullSlot]

Empty ==
  [pools |-> << >>, capacity |-> InitialPools, moved |-> FALSE, free |-> {},
   var |-> [v \in Slots \cup {Root} |-> NullVariant], refs |-> [s \in Long |-> 0],
   overflowed |-> FALSE]

\* Mutant: the test is off by one.
GrownLate(d) ==
  CASE Len(d.pools) <= d.capacity -> {d}
    [] Len(d.pools) > d.capacity /\ d.capacity # MaxPools ->
         {[d EXCEPT !.capacity = 2 * @, !.moved = TRUE]}
    [] OTHER -> {}

\* The array of pools is doubled when it is full; it can be, unless it has maxPools.
Grown(d) ==
  CASE Len(d.pools) < d.capacity -> {d}
    [] Len(d.pools) = d.capacity /\ d.capacity # MaxPools ->
         {[d EXCEPT !.capacity = 2 * @, !.moved = TRUE]}
    [] OTHER -> {}

\* A pool that gets no memory is counted all the same.
AddPool(d) ==
  LET full == IF Len(d.pools) + 1 = MaxPools THEN PoolCapacity - 1 ELSE PoolCapacity IN
  {[g EXCEPT !.pools = Append(@, [capacity |-> c, usage |-> 0])] : g \in Grown(d), c \in {0, full}}
    \cup (IF Len(d.pools) = d.capacity THEN {d} ELSE {})

HasRoom(d) == d.pools # << >> /\ Last(d.pools).usage < Last(d.pools).capacity

Take(d) ==
  LET n == Len(d.pools)
      id == ((n - 1) * PoolCapacity + d.pools[n].usage) % (NullSlot + 1)
  IN <<[d EXCEPT !.pools[n].usage = @ + 1, !.var[id] = NullVariant], id>>

\* Mutant: that memory ran out is not remembered.
AllocUnnoticed(d) ==
  CASE d.free # {} ->
         {<<[d EXCEPT !.free = @ \ {Min(@)}, !.var[Min(d.free)] = NullVariant], Min(d.free)>>}
    [] d.free = {} /\ HasRoom(d) -> {Take(d)}
    [] OTHER -> {IF HasRoom(p) THEN Take(p) ELSE <<p, NullSlot>> : p \in AddPool(d)}

\* allocVariant, allocExtension. The result of an operation that may fail is a
\* document and a slot, the NullSlot when it failed.
Alloc(d) ==
  CASE d.free # {} ->
         {<<[d EXCEPT !.free = @ \ {Min(@)}, !.var[Min(d.free)] = NullVariant], Min(d.free)>>}
    [] d.free = {} /\ HasRoom(d) -> {Take(d)}
    [] OTHER ->
         {IF HasRoom(p) THEN Take(p) ELSE <<[p EXCEPT !.overflowed = TRUE], NullSlot>> :
            p \in AddPool(d)}

Then(results, F(_, _)) ==
  UNION {IF r[2] = NullSlot THEN {r} ELSE F(r[1], r[2]) : r \in results}

\* shrinkToFit: the last pool stays as large as it is if the heap refuses to move it.
Shrunk(d) ==
  LET n == Len(d.pools)
      fit == IF n = 0 THEN d ELSE [d EXCEPT !.pools[n].capacity = d.pools[n].usage]
  IN {IF d.moved THEN [e EXCEPT !.capacity = n] ELSE e : e \in {d, fit}}

-----------------------------------------------------------------------------
(***************************************************************************)
(* Variants and collections                                                *)
(***************************************************************************)
\* The slots of a collection, along next.
Kids(d, c) ==
  LET at[n \in 1..NullSlot] ==
        LET id == IF n = 1 THEN Root ELSE at[n - 1] IN
        IF id = NullSlot THEN NullSlot ELSE IF id = Root THEN d.var[c].head ELSE d.var[id].next
  IN SubSeq(at, 1, Cardinality({n \in 1..NullSlot : at[n] # NullSlot}))

\* What belongs to the value of v, and would be freed with it.
Below(d, v) ==
  LET below[n \in 0..NullSlot] ==
        IF n = 0 THEN {d.var[v].head} \ {NullSlot}
        ELSE LET S == below[n - 1] IN
             S \cup UNION {{d.var[u].head, d.var[u].next} \ {NullSlot} : u \in S}
  IN below[NullSlot]

Owners(d, S, s) == {u \in S : d.var[u].type = "owned" /\ d.var[u].str = s}

\* Mutant: the strings of the members are not dereferenced.
ClearShallow(d, v) ==
  [d EXCEPT !.free = @ \cup Below(d, v),
            !.refs = [s \in Long |-> @[s] - Cardinality(Owners(d, {v}, s))],
            !.var[v] = [NullVariant EXCEPT !.next = d.var[v].next]]

\* VariantData::clear, CollectionData::clear
Clear(d, v) ==
  [d EXCEPT !.free = @ \cup Below(d, v),
            !.refs = [s \in Long |-> @[s] - Cardinality(Owners(d, {v} \cup Below(d, v), s))],
            !.var[v] = [NullVariant EXCEPT !.next = d.var[v].next]]

FreeVariant(d, v) == [Clear(d, v) EXCEPT !.free = @ \cup {v}]

\* Mutant: the head becomes the last slot of what is appended.
Append1Last(d, c, first, last) ==
  LET linked == IF d.var[c].tail = NullSlot
                THEN [d EXCEPT !.var[c].head = last]
                ELSE [d EXCEPT !.var[d.var[c].tail].next = first]
  IN [linked EXCEPT !.var[c].tail = last]

Append1(d, c, first, last) ==
  LET linked == IF d.var[c].tail = NullSlot
                THEN [d EXCEPT !.var[c].head = first]
                ELSE [d EXCEPT !.var[d.var[c].tail].next = first]
  IN [linked EXCEPT !.var[c].tail = last]

AppendOne(d, c, id) == Append1(d, c, id, id)
AppendPair(d, c, key, value) ==
  Append1([d EXCEPT !.var[key].next = value], c, key, value)

\* Mutant: the tail is left alone.
RemoveOneKeepTail(d, c, id) ==
  LET next == d.var[id].next
      prev == {u \in ToSet(Kids(d, c)) : d.var[u].next = id}
      unlinked == IF prev = {} THEN [d EXCEPT !.var[c].head = next]
                  ELSE [d EXCEPT !.var[CHOOSE u \in prev : TRUE].next = next]
  IN FreeVariant(unlinked, id)

RemoveOne(d, c, id) ==
  LET next == d.var[id].next
      prev == {u \in ToSet(Kids(d, c)) : d.var[u].next = id}
      last == IF prev = {} THEN NullSlot ELSE CHOOSE u \in prev : TRUE
      unlinked == IF prev = {} THEN [d EXCEPT !.var[c].head = next]
                  ELSE [d EXCEPT !.var[last].next = next]
  IN FreeVariant(IF next = NullSlot THEN [unlinked EXCEPT !.var[c].tail = last] ELSE unlinked, id)

\* The value goes first, then the key.
RemovePair(d, c, key) ==
  LET value == d.var[key].next IN
  RemoveOne(FreeVariant([d EXCEPT !.var[key].next = d.var[value].next], value), c, key)

\* Mutant: the last pair is not looked at.
FindKeyNotLast(d, c, s) ==
  LET kids == Kids(d, c)
      hits == {i \in DOMAIN kids : i % 2 = 1 /\ i + 1 < Len(kids) /\ d.var[kids[i]].str = s}
  IN IF hits = {} THEN NullSlot ELSE kids[Min(hits)]

\* Of key and value slots in turn, the first key that is s.
FindKey(d, c, s) ==
  LET kids == Kids(d, c)
      hits == {i \in DOMAIN kids : i % 2 = 1 /\ d.var[kids[i]].str = s}
  IN IF hits = {} THEN NullSlot ELSE kids[Min(hits)]

\* saveString and setString, of a variant that is null. A string is kept once.
SetString(d, v, s) ==
  LET kept == [d EXCEPT !.var[v].type = IF s \in Long THEN "owned" ELSE "plain",
                        !.var[v].str = s,
                        !.refs = [t \in Long |-> @[t] + (IF t = s THEN 1 ELSE 0)]]
  IN {<<kept, v>>} \cup
       (IF s \in Long /\ d.refs[s] = 0 THEN {<<[d EXCEPT !.overflowed = TRUE], NullSlot>>} ELSE {})

\* setInteger, setFloat, setBoolean, toArray, toObject and setString
SetNull(d, v, value) ==
  CASE value \in Long \cup Short -> SetString(d, v, value)
    [] value = "ext" ->
         Then(Alloc(d), LAMBDA e, id :
                {<<[e EXCEPT !.var[v].type = "ext", !.var[v].head = id], v>>})
    [] value \in Plain -> {<<[d EXCEPT !.var[v].type = "plain", !.var[v].str = value], v>>}
    [] OTHER -> {<<[d EXCEPT !.var[v].type = value], v>>}

\* A short string takes what a long one does of which the document has a copy.
Values == Long \cup {"int", "ext", "array", "object"}

\* variant.set(value), and to<JsonArray>() and to<JsonObject>() of a variant
Set(d, v, value) == SetNull(Clear(d, v), v, value)

AddElement(d, c) == Then(Alloc(d), LAMBDA e, id : {<<AppendOne(e, c, id), id>>})

\* Mutant: the last element is not taken for one that is there.
GetOrAddElementLate(d, c, i) ==
  LET kids == Kids(d, c)
      added[n \in 0..i] ==
        IF n = 0 THEN {<<d, c>>} ELSE Then(added[n - 1], LAMBDA e, v : AddElement(e, c))
  IN IF i < Len(kids) THEN {<<d, kids[i]>>} ELSE added[i - Len(kids)]

GetOrAddElement(d, c, i) ==
  LET kids == Kids(d, c)
      added[n \in 0..i] ==
        IF n = 0 THEN {<<d, c>>} ELSE Then(added[n - 1], LAMBDA e, v : AddElement(e, c))
  IN IF i <= Len(kids) THEN {<<d, kids[i]>>} ELSE added[i - Len(kids)]

\* ArrayData::addValue: the slot is given back when the value cannot be set. Of a string
\* it is told that it cannot as soon as memory has run out before.
AddValue(d, c, value) ==
  Then(Alloc(d), LAMBDA e, id :
         {IF r[2] = NullSlot \/ (value \in Long \cup Short /\ r[1].overflowed)
          THEN <<FreeVariant(r[1], id), NullSlot>>
          ELSE <<AppendOne(r[1], c, id), id>> : r \in Set(e, id, value)})

\* The value slot of the new member, or of the member there is.
GetOrAddMember(d, c, s) ==
  IF FindKey(d, c, s) # NullSlot THEN {<<d, d.var[FindKey(d, c, s)].next>>}
  ELSE Then(Alloc(d), LAMBDA e, key :
         Then(Alloc(e), LAMBDA f, value :
           Then(SetString(f, key, s), LAMBDA g, k : {<<AppendPair(g, c, key, value), value>>})))

\* addPair, with which the deserializer adds a member: the key slot.
AddPair(d, c) ==
  Then(Alloc(d), LAMBDA e, key :
    Then(Alloc(e), LAMBDA f, value : {<<AppendPair(f, c, key, value), key>>}))

-----------------------------------------------------------------------------
(***************************************************************************)
(* What a program does with a document                                     *)
(***************************************************************************)
Reached(d) == {Root} \cup Below(d, Root)
Collections(type) == {v \in Reached(doc) : doc.var[v].type = type}

\* doc.to<JsonObject>(), doc.set(value): the document is cleared first.
SetDocument(value) == \E r \in Set(Empty, Root, value) : doc' = r[1]

\* object[key] = value
PutMember(c, s, value) ==
  \E r \in Then(GetOrAddMember(doc, c, s), LAMBDA e, v : Set(e, v, value)) : doc' = r[1]

\* array[i] = value
PutElement(c, i, value) ==
  \E r \in Then(GetOrAddElement(doc, c, i), LAMBDA e, v : Set(e, v, value)) : doc' = r[1]

\* array.add(value)
Add(c, value) == \E r \in AddValue(doc, c, value) : doc' = r[1]

RemoveMember(c, s) ==
  /\ FindKey(doc, c, s) # NullSlot
  /\ doc' = RemovePair(doc, c, FindKey(doc, c, s))

RemoveElement(c, i) ==
  /\ i <= Len(Kids(doc, c))
  /\ doc' = RemoveOne(doc, c, Kids(doc, c)[i])

\* doc.clear() also gives the array of pools back.
ClearDocument == doc' = Empty

ShrinkToFit == doc' \in Shrunk(doc)

Use ==
  \/ \E value \in Values :
       \/ \E c \in Collections("object"), s \in Long \cup Short : PutMember(c, s, value)
       \/ \E c \in Collections("array") :
            Add(c, value) \/ \E i \in 1 .. Len(Kids(doc, c)) + 2 : PutElement(c, i, value)
       \/ SetDocument(value)
  \/ \E c \in Collections("object"), s \in Long \cup Short : RemoveMember(c, s)
  \/ \E c \in Collections("array"), i \in 1 .. NullSlot : RemoveElement(c, i)
  \/ ClearDocument
  \/ ShrinkToFit

-----------------------------------------------------------------------------
(***************************************************************************)
(* Properties                                                              *)
(***************************************************************************)
\* The document is well formed.
DocumentTypeOK ==
  /\ \A n \in DOMAIN doc.pools :
       doc.pools[n].usage <= doc.pools[n].capacity /\ doc.pools[n].capacity <= PoolCapacity
  /\ doc.capacity \in Nat /\ Len(doc.pools) <= doc.capacity
  /\ doc.moved \in BOOLEAN /\ doc.overflowed \in BOOLEAN
  /\ doc.free \subseteq Slots
  /\ \A v \in Slots \cup {Root} :
       /\ doc.var[v].type \in {"null", "plain", "owned", "ext", "array", "object"}
       /\ {doc.var[v].head, doc.var[v].tail, doc.var[v].next} \subseteq 0 .. NullSlot
  /\ \A s \in Long : doc.refs[s] \in Nat

\* The slots that were handed out, whatever became of them.
Given(d) == UNION {{(n - 1) * PoolCapacity + i : i \in 0 .. d.pools[n].usage - 1} :
                     n \in DOMAIN d.pools}

\* Every slot that was handed out is either free or part of the document, where exactly
\* one link leads to it; none is lost, unless memory ran out, and no collection
\* remembers a tail that it does not have (allocSlot, freeSlot, appendOne, appendPair,
\* removeOne, removePair, clear).
SlotsHaveOnePlace ==
  LET used == Below(doc, Root)
      heads == [v \in used \cup {Root} |-> doc.var[v].head]
      nexts == [v \in used |-> doc.var[v].next]
      linked == (Range(heads) \cup Range(nexts)) \ {NullSlot}
      links == Cardinality({v \in used \cup {Root} : heads[v] # NullSlot})
                 + Cardinality({v \in used : nexts[v] # NullSlot})
  IN /\ used = linked /\ Cardinality(used) = links
     /\ used \subseteq Given(doc) /\ used \cap doc.free = {}
     /\ doc.overflowed \/ used \cup doc.free = Given(doc)
     /\ \A v \in used \cup {Root} :
          doc.var[v].type \in {"array", "object"} =>
            doc.var[v].tail = IF Kids(doc, v) = << >> THEN NullSlot ELSE Last(Kids(doc, v))

\* A string is kept as long as a value of the document uses it, and no longer
\* (saveString, StringBuilder::save, dereference).
StringsAreCounted ==
  \A s \in Long : doc.refs[s] = Cardinality(Owners(doc, Reached(doc), s))
=============================================================================
