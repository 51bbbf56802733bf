--------------------------- MODULE ExtentsProofs ---------------------------
(***************************************************************************)
(* What the operations of Extents do to the databases, for the modules     *)
(* that call them.                                                         *)
(***************************************************************************)
EXTENDS Extents, TLAPS

----------------------------------------------------------------------------
(* The databases after one put and after one delete. *)

\* mdb_put and mdb_del change one record.
LEMMA PutFacts ==
    ASSUME NEW x, NEW o, NEW r
    PROVE  /\ DOMAIN PutExtent(x, o, r) = DOMAIN x \cup {o}
           /\ PutExtent(x, o, r)[o] = r
           /\ \A p \in DOMAIN x : p # o => PutExtent(x, o, r)[p] = x[p]
BY DEF PutExtent

\* What deleting a record leaves.
LEMMA DelFacts ==
    ASSUME NEW x, NEW o
    PROVE  /\ DOMAIN DelExtent(x, o) = DOMAIN x \ {o}
           /\ \A p \in DOMAIN x : p # o => DelExtent(x, o)[p] = x[p]
BY DEF DelExtent

\* What they put and leave are records.
LEMMA PutTyped ==
    ASSUME NEW x, DOMAIN x \subseteq Nat, x \in [DOMAIN x -> ExtentRecord],
           NEW o \in Nat, NEW r \in ExtentRecord
    PROVE  /\ DOMAIN PutExtent(x, o, r) \subseteq Nat
           /\ PutExtent(x, o, r) \in [DOMAIN PutExtent(x, o, r) -> ExtentRecord]
BY DEF PutExtent

\* Deleting a record keeps the types of the others.
LEMMA DelTyped ==
    ASSUME NEW x, DOMAIN x \subseteq Nat, x \in [DOMAIN x -> ExtentRecord], NEW o
    PROVE  /\ DOMAIN DelExtent(x, o) \subseteq Nat
           /\ DelExtent(x, o) \in [DOMAIN DelExtent(x, o) -> ExtentRecord]
BY DEF DelExtent

\* The records the allocator writes are typed.
LEMMA RecordsTyped ==
    ASSUME NEW n \in Nat, NEW node \in Node
    PROVE  /\ FreeRecord(n, node) \in ExtentRecord
           /\ CommittedRecord(n) \in ExtentRecord
           /\ INVALID_NODE \in Node
BY DEF FreeRecord, CommittedRecord, INVALID_NODE, ExtentRecord, Node, Statuses

\* The heap's operations keep its type.
LEMMA HeapTyped ==
    ASSUME NEW h \in SUBSET Node, NEW key \in Nat, NEW value \in Nat, NEW node
    PROVE  /\ [k |-> key, v |-> value] \in Node
           /\ HeapInsert(h, key, value) \in SUBSET Node
           /\ HeapDelete(h, node) \in SUBSET Node
BY DEF HeapInsert, HeapDelete, Node

----------------------------------------------------------------------------
(* The operations keep the types, whether or not the allocator has lost    *)
(* track.                                                                  *)

\* the record mtl_truncate_extent puts for the part it is about to free
ReservedRecord(n) ==
    [length |-> n, status |-> "RESERVED", pq_node |-> INVALID_NODE]

TypedDb(x) == DOMAIN x \subseteq Nat /\ x \in [DOMAIN x -> ExtentRecord]

\* Writing a typed record keeps the database typed.
LEMMA PutTypedDb ==
    ASSUME NEW x, TypedDb(x), NEW o \in Nat, NEW r \in ExtentRecord
    PROVE  TypedDb(PutExtent(x, o, r))
BY PutTyped DEF TypedDb

\* Deleting a record keeps the database typed.
LEMMA DelTypedDb ==
    ASSUME NEW x, TypedDb(x), NEW o
    PROVE  TypedDb(DelExtent(x, o))
BY DelTyped DEF TypedDb

\* The record of a free region, with its heap node, is typed.
LEMMA FreeRecordTyped ==
    ASSUME NEW n \in Nat, NEW o \in Nat
    PROVE  FreeRecord(n, [k |-> n, v |-> o]) \in ExtentRecord
BY DEF FreeRecord, ExtentRecord, Node, Statuses

\* The part of mtl_reserve_extent that splits an extent.
LEMMA CarveTyped ==
    ASSUME NEW x, TypedDb(x), NEW h \in SUBSET Node, NEW o \in DOMAIN x,
           NEW original \in Nat, NEW append \in Nat, NEW size \in Nat
    PROVE  /\ TypedDb(CarvedExtents(x, o, original, append, size))
           /\ CarvedHeap(x, h, o, original, append, size) \in SUBSET Node
<1> DEFINE length == x[o].length + append
           total == original + size
           tail == o + total
           rest == length - total
           F == FreeRecord(rest, [k |-> rest, v |-> tail])
<1>1. o \in Nat /\ x[o].length \in Nat /\ length \in Nat /\ total \in Nat /\ tail \in Nat
  BY DEF TypedDb, ExtentRecord
<1>2. \A n \in Nat : CommittedRecord(n) \in ExtentRecord
  BY DEF CommittedRecord, INVALID_NODE, ExtentRecord, Node, Statuses
<1>3. CASE length > total
  <2>1. rest \in Nat
    BY <1>1, <1>3
  <2>2. F \in ExtentRecord
    BY <1>1, <2>1, FreeRecordTyped
  <2>3. TypedDb(PutExtent(x, tail, F))
    BY <1>1, <2>2, PutTypedDb
  <2>4. TypedDb(PutExtent(PutExtent(x, tail, F), o, CommittedRecord(total)))
    BY <1>1, <1>2, <2>3, PutTypedDb
  <2>5. HeapInsert(h, rest, tail) \in SUBSET Node
    BY <1>1, <2>1, HeapTyped, Zenon
  <2> QED  BY <1>3, <2>4, <2>5 DEF CarvedExtents, CarvedHeap
<1>4. CASE ~(length > total)
  <2>1. TypedDb(PutExtent(x, o, CommittedRecord(x[o].length)))
    BY <1>1, <1>2, PutTypedDb, Zenon
  <2> QED  BY <1>4, <2>1 DEF CarvedExtents, CarvedHeap
<1> QED  BY <1>3, <1>4

\* A reserve grants no more than it is asked for.
LEMMA GrantedTyped ==
    ASSUME NEW length \in Nat, NEW original \in Nat, original <= length, NEW size \in Nat
    PROVE  Granted(length, original, size) \in 0 .. size
BY DEF Granted

\* mtl_free_extent, whichever neighbours it merges.
LEMMA FreeExtentTyped ==
    ASSUME NEW db, TypedDb(db), heap \subseteq Node, NEW o \in DOMAIN db,
           NEW noted \in SUBSET Misstep, FreeExtent(db, o, noted)
    PROVE  /\ TypedDb(extents') /\ heap' \subseteq Node /\ missteps' \subseteq Misstep
<1>1. o \in Nat /\ db[o].length \in Nat
  BY DEF TypedDb, ExtentRecord
<1>2. CASE /\ heap' = HeapInsert(heap, db[o].length, o)
           /\ extents' = PutExtent(db, o, FreeRecord(db[o].length,
                                            [k |-> db[o].length, v |-> o]))
           /\ missteps' = noted
  <2>1. TypedDb(extents')
    BY <1>1, <1>2, FreeRecordTyped, PutTypedDb
  <2> QED  BY <1>1, <1>2, <2>1, HeapTyped
<1>3. ASSUME NEW n \in FreeNext(db, o), NEW merged,
             merged = DelExtent(db, n), NEW h, h = HeapDelete(heap, db[n].pq_node),
             NEW size, size = db[o].length + db[n].length
      PROVE  /\ TypedDb(merged) /\ h \subseteq Node /\ size \in Nat
             /\ HeapInsert(h, size, o) \subseteq Node
             /\ TypedDb(PutExtent(merged, o, FreeRecord(size, [k |-> size, v |-> o])))
  <2>1. n \in DOMAIN db
    BY DEF FreeNext, MdbNext
  <2>2. size \in Nat
    BY <1>1, <1>3, <2>1 DEF TypedDb, ExtentRecord
  <2>3. TypedDb(merged) /\ h \subseteq Node
    BY <1>3, DelTypedDb DEF HeapDelete
  <2>4. HeapInsert(h, size, o) \subseteq Node
    BY <1>1, <2>2, <2>3, HeapTyped, Zenon
  <2> QED  BY <1>1, <2>2, <2>3, <2>4, FreeRecordTyped, PutTypedDb
<1>4. ASSUME NEW n \in FreeNext(db, o), NEW merged,
             merged = DelExtent(db, n), NEW h, h = HeapDelete(heap, db[n].pq_node),
             NEW size, size = db[o].length + db[n].length,
             NEW p \in FreeNext(merged, o), NEW total, total = size + merged[p].length,
             NEW node, node = merged[p].pq_node
      PROVE  /\ HeapIncreaseKey(h, node, total) \subseteq Node
             /\ TypedDb(PutExtent(DelExtent(merged, o), p,
                          FreeRecord(total, IncreasedNode(h, node, total))))
  <2>1. TypedDb(merged) /\ h \subseteq Node /\ size \in Nat
    BY <1>3, <1>4, Zenon
  <2>2. p \in DOMAIN merged
    BY DEF FreeNext, MdbNext
  <2>3. p \in Nat /\ total \in Nat /\ node \in Node
    BY <1>4, <2>1, <2>2 DEF TypedDb, ExtentRecord
  <2>4. HeapIncreaseKey(h, node, total) \subseteq Node
    BY <2>1, <2>3 DEF HeapIncreaseKey, HeapInsert, HeapDelete, Node
  <2>5. IncreasedNode(h, node, total) \in Node
    BY <2>3 DEF IncreasedNode, Node
  <2>6. FreeRecord(total, IncreasedNode(h, node, total)) \in ExtentRecord
    BY <2>3, <2>5, RecordsTyped
  <2>7. TypedDb(DelExtent(merged, o))
    BY <2>1, DelTypedDb
  <2> QED  BY <2>3, <2>4, <2>6, <2>7, PutTypedDb
<1>5. {"gap"} \in SUBSET Misstep /\ {} \in SUBSET Misstep /\ {"twice"} \in SUBSET Misstep
  BY DEF Misstep
<1>6. CASE \E n \in FreeNext(db, o) :
             LET merged == DelExtent(db, n)
                 size   == db[o].length + db[n].length
                 h      == HeapDelete(heap, db[n].pq_node)
                 gap    == IF n = o + db[o].length THEN {} ELSE {"gap"}
             IN  \/ /\ heap' = HeapInsert(h, size, o)
                    /\ extents' = PutExtent(merged, o,
                                    FreeRecord(size, [k |-> size, v |-> o]))
                    /\ missteps' = noted \cup gap
                 \/ \E p \in FreeNext(merged, o) :
                      LET total == size + merged[p].length
                          node  == merged[p].pq_node
                      IN  /\ heap' = HeapIncreaseKey(h, node, total)
                          /\ extents' = PutExtent(DelExtent(merged, o), p,
                                          FreeRecord(total,
                                            IncreasedNode(h, node, total)))
                          /\ missteps' = noted \cup gap \cup {"twice"}
  BY <1>3, <1>4, <1>5, <1>6
<1> QED  BY <1>2, <1>6 DEF FreeExtent

\* The note of an extent cut too short is a misstep.
LEMMA ShortTyped == \A e : Short(e) \in SUBSET Misstep
BY DEF Short, Misstep

DbTyped == TypedDb(extents) /\ heap \subseteq Node /\ missteps \subseteq Misstep

(* mtl_reserve_extent keeps the types when it appends to the last extent,  *)
(* and grants no more than it is asked for.                                *)
LEMMA ExtendTyped ==
    ASSUME DbTyped, NEW last \in FileExtent, NEW size \in Nat, ExtendExtent(last, size)
    PROVE  DbTyped' /\ ExtendGranted(last, size) \in 0 .. size
<1> DEFINE next == last.offset + last.length
           own == extents[last.offset].length
           append == extents[next].length
           rest == DelExtent(extents, next)
           g == HeapDelete(heap, extents[next].pq_node)
<1>1. TypedDb(extents) /\ heap \subseteq Node
  BY DEF DbTyped
<1>2. next \in DOMAIN extents /\ last.offset \in DOMAIN extents /\ last.length > 0
  BY DEF ExtendExtent, CanExtend, ExtendAsserts
<1>3. /\ own \in Nat /\ append \in Nat
      /\ last.offset \in Nat /\ last.length \in Nat /\ next # last.offset
  BY <1>1, <1>2 DEF TypedDb, ExtentRecord, FileExtent
<1>4. TypedDb(rest) /\ g \in SUBSET Node /\ last.offset \in DOMAIN rest
  BY <1>1, <1>2, <1>3, DelTypedDb DEF HeapDelete, DelExtent
<1>5. TypedDb(extents') /\ heap' \subseteq Node
  <2>1. /\ extents' = CarvedExtents(rest, last.offset, own, append, size)
        /\ heap' = CarvedHeap(rest, g, last.offset, own, append, size)
    BY DEF ExtendExtent
  <2> HIDE DEF rest, g, own, append
  <2> QED  BY <1>1, <1>3, <1>4, <2>1, CarveTyped, Zenon
<1>6. ExtendGranted(last, size) \in 0 .. size
  <2>1. own + append \in Nat /\ own <= own + append
    BY <1>3
  <2>2. Granted(own + append, own, size) \in 0 .. size
    BY <1>1, <1>3, <2>1, GrantedTyped
  <2> QED  BY <2>2 DEF ExtendGranted
<1>7. missteps' \subseteq Misstep
  BY ShortTyped DEF ExtendExtent, DbTyped
<1> QED  BY <1>5, <1>6, <1>7 DEF DbTyped

(* The same when it takes an extent from the heap. *)
LEMMA PopTyped ==
    ASSUME DbTyped, NEW node, NEW size \in Nat, PopExtent(node, size)
    PROVE  DbTyped' /\ node.v \in Nat /\ PopGranted(node, size) \in 0 .. size
<1>1. TypedDb(extents) /\ heap \subseteq Node
  BY DEF DbTyped
<1>2. node.v \in DOMAIN extents /\ node.v \in Nat /\ extents[node.v].length \in Nat
  BY <1>1 DEF PopExtent, TypedDb, ExtentRecord
<1>3. TypedDb(extents') /\ heap' \subseteq Node
  <2>1. HeapDelete(heap, node) \in SUBSET Node
    BY <1>1 DEF HeapDelete
  <2> QED  BY <1>1, <1>2, <2>1, CarveTyped, Zenon DEF PopExtent
<1>4. PopGranted(node, size) \in 0 .. size
  <2>1. 0 <= extents[node.v].length
    BY <1>2
  <2> QED  BY <1>2, <2>1, GrantedTyped, Zenon DEF PopGranted
<1> QED  BY <1>2, <1>3, <1>4 DEF PopExtent, DbTyped

(* mtl_truncate_extent keeps the types. *)
LEMMA TruncateTyped ==
    ASSUME DbTyped, NEW e \in FileExtent, e.offset \in DOMAIN extents, NEW len \in Nat,
           TruncateExtent(e, len)
    PROVE  DbTyped'
<1> DEFINE old == extents[e.offset].length
           noted == missteps \cup Short(e)
           kept == PutExtent(extents, e.offset, CommittedRecord(len))
           tail == ReservedRecord(old - len)
           db == PutExtent(kept, e.offset + len, tail)
<1>1. TypedDb(extents) /\ heap \subseteq Node
  BY DEF DbTyped
<1>2. /\ e.offset \in Nat /\ e.length \in Nat
      /\ old \in Nat /\ e.offset + len \in Nat
  BY <1>1 DEF FileExtent, TypedDb, ExtentRecord
<1>3. TypedDb(kept)
  <2>1. CommittedRecord(len) \in ExtentRecord
    BY <1>2 DEF CommittedRecord, INVALID_NODE, ExtentRecord, Node, Statuses
  <2> QED  BY <1>1, <1>2, <2>1, PutTypedDb
<1>4. noted \in SUBSET Misstep
  BY ShortTyped DEF DbTyped
<1>5. CASE old > len
  <2>1. tail \in ExtentRecord
    <3>1. old - len \in Nat
      <4> HIDE DEF old
      <4> QED  BY <1>2, <1>5
    <3>2. \A n \in Nat : ReservedRecord(n) \in ExtentRecord
      BY DEF ReservedRecord, INVALID_NODE, ExtentRecord, Node, Statuses
    <3> QED  BY <3>1, <3>2
  <2>2. TypedDb(db) /\ e.offset + len \in DOMAIN db
    <3> HIDE DEF kept, tail
    <3>1. TypedDb(db)
      BY <1>2, <1>3, <2>1, PutTypedDb
    <3>2. e.offset + len \in DOMAIN db
      BY DEF PutExtent
    <3> QED  BY <3>1, <3>2
  <2>3. FreeExtent(db, e.offset + len, noted)
    BY <1>5 DEF TruncateExtent, ReservedRecord
  <2> HIDE DEF db, noted
  <2> QED  BY <1>1, <1>4, <2>2, <2>3, FreeExtentTyped DEF DbTyped
<1>6. CASE ~(old > len)
  BY <1>1, <1>3, <1>4, <1>6 DEF TruncateExtent, DbTyped
<1> QED  BY <1>5, <1>6

(* mtl_free_extent keeps the types. *)
LEMMA FreeTyped ==
    ASSUME DbTyped, NEW e, e.offset \in DOMAIN extents,
           FreeExtent(extents, e.offset, missteps \cup Short(e))
    PROVE  DbTyped'
<1> DEFINE noted == missteps \cup Short(e)
<1>1. TypedDb(extents) /\ heap \subseteq Node /\ noted \in SUBSET Misstep
  BY ShortTyped DEF DbTyped
<1> HIDE DEF noted
<1> QED  BY <1>1, FreeExtentTyped DEF DbTyped, noted

(* So does mtl_initialize_extents. *)
LEMMA InitializedTyped ==
    ASSUME NEW x, TypedDb(x), NEW h \in SUBSET Node
    PROVE  TypedDb(InitializedExtents(x)) /\ InitializedHeap(x, h) \in SUBSET Node
<1> DEFINE F == FreeRecord(NumBlocks, [k |-> NumBlocks, v |-> 0])
<1>1. TypedDb(PutExtent(x, 0, F))
  BY NumBlocksAssumption, FreeRecordTyped, PutTypedDb
<1>2. TypedDb(InitializedExtents(x))
  BY <1>1 DEF InitializedExtents
<1>3. InitializedHeap(x, h) \in SUBSET Node
  BY NumBlocksAssumption DEF InitializedHeap, HeapInsert, Node
<1> QED  BY <1>2, <1>3
============================================================================
