------------------------------ MODULE Extents ------------------------------
(***************************************************************************)
(* The block allocator of the file system: extent.c on top of heap.c.      *)
(*                                                                         *)
(* The `extents' database maps the first block of an extent to a record,   *)
(* the `heap' database holds one node {k = length, v = first block} for    *)
(* every free extent.  A node stores its offset twice, as v and as the     *)
(* value, and mtl_heap_insert is the only writer of both, so the heap is a *)
(* set of nodes here.  The operations are actions on the two databases of  *)
(* the running LMDB transaction; who calls them, and what the caller notes *)
(* in its inodes, is up to the modules that extend this one.               *)
(*                                                                         *)
(* Both databases are opened without MDB_INTEGERKEY, so LMDB compares      *)
(* their little-endian keys byte by byte.  Radix is the number of values   *)
(* of one byte: 256 in the program, scaled down with the device for TLC.   *)
(***************************************************************************)
EXTENDS Integers, FiniteSets

CONSTANTS
    NumBlocks,    \* blocks of the storage backend (metadata.num_blocks)
    Radix         \* values one key byte can take

ASSUME NumBlocksAssumption == NumBlocks \in Nat \ {0}
ASSUME RadixAssumption == Radix \in Nat \ {0, 1}

VARIABLES
    extents,      \* the extents database, a function on the offsets present
    heap,         \* the heap database, a set of nodes
    missteps      \* history: the places where the allocator lost track

Statuses == {"FREE", "RESERVED", "COMMITTED"}
Node == [k : Nat, v : Nat]
ExtentRecord == [length : Nat, status : Statuses, pq_node : Node]
FileExtent == [offset : Nat, length : Nat]

(* What the history notes.  "short": the allocator was handed an extent    *)
(* whose record is shorter than what its file holds.  "gap": a free merged *)
(* an extent that does not begin where the freed one ends.  "twice": a     *)
(* free merged a second extent, taking it for the preceding one.           *)
Misstep == {"short", "gap", "twice"}

INVALID_NODE == [k |-> 0, v |-> 0]
NoExtent == [offset |-> 0, length |-> 0]

----------------------------------------------------------------------------
(* LMDB: the order of keys, and one put, one delete, one cursor step.      *)

KeyBytes == 8

ByteLess(a, b) ==
    \E i \in 0 .. KeyBytes - 1 :
        /\ a % Radix^i = b % Radix^i
        /\ (a \div Radix^i) % Radix < (b \div Radix^i) % Radix

NodeLess(m, n) == ByteLess(m.k, n.k) \/ (m.k = n.k /\ ByteLess(m.v, n.v))

PutExtent(db, offset, record) ==
    [o \in DOMAIN db \cup {offset} |-> IF o = offset THEN record ELSE db[o]]

DelExtent(db, offset) == [o \in DOMAIN db \ {offset} |-> db[o]]

\* MDB_NEXT from a key: at most one element, none at the end of the database
MdbNext(db, offset) ==
    {n \in DOMAIN db :
        /\ ByteLess(offset, n)
        /\ \A m \in DOMAIN db : ByteLess(offset, m) => m = n \/ ByteLess(n, m)}

\* mutant: whatever its status
FreeNextAnyStatus(db, offset) == MdbNext(db, offset)

FreeNext(db, offset) == {n \in MdbNext(db, offset) : db[n].status = "FREE"}

----------------------------------------------------------------------------
(* heap.c                                                                  *)

HeapInsert(h, key, value) == h \cup {[k |-> key, v |-> value]}

\* mutant: the node stays
HeapDeleteNothing(h, node) == h

HeapDelete(h, node) == h \ {node}

\* the node mtl_heap_extract_max takes: the last one in key order
IsHeapMax(h, node) == \A m \in h \ {node} : NodeLess(m, node)

\* re-inserting the node gives it the value 0, not its offset
HeapIncreaseKey(h, node, key) ==
    IF node \in h THEN HeapInsert(HeapDelete(h, node), key, 0) ELSE h

IncreasedNode(h, node, key) ==
    IF node \in h THEN [k |-> key, v |-> 0] ELSE node

----------------------------------------------------------------------------
(* extent.c                                                                *)

FreeRecord(length, node) ==
    [length |-> length, status |-> "FREE", pq_node |-> node]

\* nothing reads the pq_node of an extent that is not free, so the stale one
\* that the code leaves there is not kept
CommittedRecord(length) ==
    [length |-> length, status |-> "COMMITTED", pq_node |-> INVALID_NODE]

\* mtl_initialize_extents: what it makes of the databases it finds
InitializedExtents(db) ==
    IF 0 \in DOMAIN db
    THEN db
    ELSE PutExtent(db, 0, FreeRecord(NumBlocks, [k |-> NumBlocks, v |-> 0]))

InitializedHeap(db, h) ==
    IF 0 \in DOMAIN db THEN h ELSE HeapInsert(h, NumBlocks, 0)

\* the first half of mtl_reserve_extent: may last_extent grow in place?
CanExtend(last) ==
    /\ last.length > 0
    /\ last.offset + last.length \in DOMAIN extents
    /\ extents[last.offset + last.length].status = "FREE"

\* the second half: cut the extent at `offset' to size, return the tail
Granted(length, original, size) ==
    (IF length > original + size THEN original + size ELSE length) - original

CarvedHeap(db, h, offset, original, append, size) ==
    LET length == db[offset].length + append
        total  == original + size
    IN  IF length > total THEN HeapInsert(h, length - total, offset + total) ELSE h

\* mutant: a tail even if nothing is left
CarvedAlways(db, offset, original, append, size) ==
    LET total == original + size
        tail  == offset + total
        rest  == db[offset].length + append - total
    IN  PutExtent(
          PutExtent(db, tail, FreeRecord(rest, [k |-> rest, v |-> tail])),
          offset, CommittedRecord(total))

\* mutant: the record keeps the length it had before
CarvedOldLength(db, offset, original, append, size) ==
    LET length == db[offset].length + append
        total  == original + size
        tail   == offset + total
        rest   == length - total
    IN  IF length > total
        THEN PutExtent(
               PutExtent(db, tail, FreeRecord(rest, [k |-> rest, v |-> tail])),
               offset, CommittedRecord(IF original = 0 THEN size ELSE original))
        ELSE PutExtent(db, offset, CommittedRecord(db[offset].length))

CarvedExtents(db, offset, original, append, size) ==
    LET length == db[offset].length + append
        total  == original + size
        tail   == offset + total
        rest   == length - total
    IN  IF length > total
        THEN PutExtent(
               PutExtent(db, tail, FreeRecord(rest, [k |-> rest, v |-> tail])),
               offset, CommittedRecord(total))
        ELSE PutExtent(db, offset, CommittedRecord(db[offset].length))

\* mutant: the node of last_extent, not of the free extent behind it
ExtendAssertsOwnNode(last) ==
    /\ last.offset \in DOMAIN extents
    /\ extents[last.offset].pq_node \in heap

\* the assertions on the way that extends last_extent
ExtendAsserts(last) ==
    /\ extents[last.offset + last.length].pq_node \in heap
    /\ last.offset \in DOMAIN extents

Short(e) == IF extents[e.offset].length = e.length THEN {} ELSE {"short"}

ExtendGranted(last, size) ==
    LET next == last.offset + last.length
        own  == extents[last.offset].length
    IN  Granted(own + extents[next].length, own, size)

ExtendExtent(last, size) ==
    LET next   == last.offset + last.length
        rest   == DelExtent(extents, next)
        own    == extents[last.offset].length
        append == extents[next].length
    IN  /\ CanExtend(last)
        /\ ExtendAsserts(last)
        /\ extents' = CarvedExtents(rest, last.offset, own, append, size)
        /\ heap' = CarvedHeap(rest, HeapDelete(heap, extents[next].pq_node),
                              last.offset, own, append, size)
        /\ missteps' = missteps \cup Short(last)

\* the way that takes an extent from the heap
PopGranted(node, size) == Granted(extents[node.v].length, 0, size)

PopExtent(node, size) ==
    /\ node \in heap
    /\ IsHeapMax(heap, node)
    /\ node.v \in DOMAIN extents
    /\ extents' = CarvedExtents(extents, node.v, 0, 0, size)
    /\ heap' = CarvedHeap(extents, HeapDelete(heap, node), node.v, 0, 0, size)
    /\ missteps' = missteps

\* an assertion fails, here or (nothing granted) in mtl_expand_inode
ReserveAborts(last) ==
    IF CanExtend(last)
    THEN ~ExtendAsserts(last)
    ELSE \/ heap = {}
         \/ \E node \in heap : IsHeapMax(heap, node) /\ node.v \notin DOMAIN extents

\* mtl_free_extent in the database `db', with what is noted so far
FreeExtent(db, offset, noted) ==
    \/ LET size == db[offset].length
       IN  /\ FreeNext(db, offset) = {}
           /\ heap' = HeapInsert(heap, size, offset)
           /\ extents' = PutExtent(db, offset,
                           FreeRecord(size, [k |-> size, v |-> offset]))
           /\ missteps' = noted
    \/ \E n \in FreeNext(db, offset) :
         LET merged == DelExtent(db, n)
             size   == db[offset].length + db[n].length
             h      == HeapDelete(heap, db[n].pq_node)
             gap    == IF n = offset + db[offset].length THEN {} ELSE {"gap"}
         IN  \/ /\ FreeNext(merged, offset) = {}
                /\ heap' = HeapInsert(h, size, offset)
                /\ extents' = PutExtent(merged, offset,
                                FreeRecord(size, [k |-> size, v |-> offset]))
                /\ missteps' = noted \cup gap
             \/ \E p \in FreeNext(merged, offset) :
                  LET total == size + merged[p].length
                      node  == merged[p].pq_node
                  IN  /\ heap' = HeapIncreaseKey(h, node, total)
                      /\ extents' = PutExtent(DelExtent(merged, offset), p,
                                      FreeRecord(total,
                                        IncreasedNode(h, node, total)))
                      /\ missteps' = noted \cup gap \cup {"twice"}

\* mtl_truncate_extent, for the lengths its caller passes (never 0)
TruncateExtent(e, len) ==
    LET old   == extents[e.offset].length
        noted == missteps \cup Short(e)
        kept  == PutExtent(extents, e.offset, CommittedRecord(len))
        tail  == [length |-> old - len, status |-> "RESERVED",
                  pq_node |-> INVALID_NODE]
    IN  IF old > len
        THEN FreeExtent(PutExtent(kept, e.offset + len, tail),
                        e.offset + len, noted)
        ELSE extents' = kept /\ heap' = heap /\ missteps' = noted

----------------------------------------------------------------------------
(* When nothing is ever truncated or unlinked the allocator does not lose  *)
(* track, whatever the order of the keys and the size of the requests.     *)
NeverLosesTrack == missteps = {}
============================================================================
