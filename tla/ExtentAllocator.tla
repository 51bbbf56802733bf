-------------------------- MODULE ExtentAllocator --------------------------
(***************************************************************************)
(* The allocator in use: `held' is the set of extents that the inodes of   *)
(* all files list, and every call of mtl_expand_inode, mtl_truncate and    *)
(* mtl_unlink on the allocator is one action.  The calls of one LMDB write *)
(* transaction see each other's effects; `saved' is what is committed, and *)
(* what a restart finds.                                                   *)
(***************************************************************************)
EXTENDS Extents

CONSTANT Sizes    \* numbers of blocks one call asks for

ASSUME SizesAssumption == Sizes \subseteq Nat \ {0}

VARIABLES
    held,         \* the extents listed in the files' inodes
    saved,        \* the committed databases
    running       \* FALSE once an assertion has ended the process

vars == <<extents, heap, missteps, held, saved, running>>

Snapshot(x, h, u, m) == [extents |-> x, heap |-> h, held |-> u, missteps |-> m]

Working == Snapshot(extents, heap, held, missteps)

Typed(x, h, u) ==
    /\ DOMAIN x \subseteq Nat
    /\ x \in [DOMAIN x -> ExtentRecord]
    /\ h \subseteq Node
    /\ u \subseteq FileExtent

(* The two databases, committed and not, hold records of the types that    *)
(* extent.c and heap.c put there, and lengths never become negative.       *)
TypeOK ==
    /\ Typed(extents, heap, held)
    /\ missteps \subseteq Misstep
    /\ Typed(saved.extents, saved.heap, saved.held)
    /\ saved.missteps \subseteq Misstep
    /\ running \in BOOLEAN

Init ==
    /\ extents = InitializedExtents([o \in {} |-> NoExtent])
    /\ heap = InitializedHeap([o \in {} |-> NoExtent], {})
    /\ held = {}
    /\ missteps = {}
    /\ saved = Working
    /\ running = TRUE

----------------------------------------------------------------------------
\* mtl_expand_inode: one turn of the loop that grows the last extent
Extend(last, size) ==
    /\ running
    /\ ExtendExtent(last, size)
    /\ held' = (held \ {last})
                 \cup {[last EXCEPT !.length = @ + ExtendGranted(last, size)]}
    /\ UNCHANGED <<saved, running>>

\* mtl_expand_inode: one turn of the loop that obtains another extent
Acquire(last, size) ==
    /\ running
    /\ ~CanExtend(last)
    /\ \E node \in heap :
         /\ PopExtent(node, size)
         /\ held' = IF last.length > 0 /\ last.offset = node.v
                    THEN (held \ {last})
                           \cup {[last EXCEPT !.length = @ + PopGranted(node, size)]}
                    ELSE held \cup {[offset |-> node.v,
                                     length |-> PopGranted(node, size)]}
    /\ UNCHANGED <<saved, running>>

\* an assertion fails while the file is being expanded, or an extent that is
\* to be freed has no record (a null pointer is followed)
Abort(last) ==
    /\ running
    /\ \/ ReserveAborts(last)
       \/ last.length > 0 /\ last.offset \notin DOMAIN extents
    /\ running' = FALSE
    /\ UNCHANGED <<extents, heap, missteps, held, saved>>

\* mtl_truncate keeps the first len blocks of an extent
Shrink(e, len) ==
    /\ running
    /\ e.offset \in DOMAIN extents
    /\ TruncateExtent(e, len)
    /\ held' = (held \ {e}) \cup {[e EXCEPT !.length = len]}
    /\ UNCHANGED <<saved, running>>

\* mutant: a transaction of its own
ReleaseCommits(e) ==
    /\ running
    /\ e.offset \in DOMAIN extents
    /\ FreeExtent(extents, e.offset, missteps \cup Short(e))
    /\ held' = held \ {e}
    /\ saved' = Working'
    /\ UNCHANGED running

\* mtl_truncate or mtl_unlink drops an extent
Release(e) ==
    /\ running
    /\ e.offset \in DOMAIN extents
    /\ FreeExtent(extents, e.offset, missteps \cup Short(e))
    /\ held' = held \ {e}
    /\ UNCHANGED <<saved, running>>

\* mutant: the heap is left to a later transaction
CommitWithoutHeap ==
    /\ running
    /\ saved' = [Working EXCEPT !.heap = saved.heap]
    /\ UNCHANGED <<extents, heap, missteps, held, running>>

Commit ==
    /\ running
    /\ saved' = Working
    /\ UNCHANGED <<extents, heap, missteps, held, running>>

\* the process ends anywhere, and mtl_initialize runs on what was committed
Restart ==
    /\ extents' = InitializedExtents(saved.extents)
    /\ heap' = InitializedHeap(saved.extents, saved.heap)
    /\ held' = saved.held
    /\ missteps' = saved.missteps
    /\ saved' = Working'
    /\ running' = TRUE

Next ==
    \/ \E last \in held, size \in Sizes : Extend(last, size)
    \/ \E last \in held \cup {NoExtent}, size \in Sizes : Acquire(last, size)
    \/ \E last \in held \cup {NoExtent} : Abort(last)
    \/ \E e \in held : \E len \in 1 .. e.length : Shrink(e, len)
    \/ \E e \in held : Release(e)
    \/ Commit
    \/ Restart

Spec == Init /\ [][Next]_vars

\* files only ever grow: nothing is truncated or unlinked
NextGrowing ==
    \/ \E last \in held, size \in Sizes : Extend(last, size)
    \/ \E last \in held \cup {NoExtent}, size \in Sizes : Acquire(last, size)
    \/ \E last \in held \cup {NoExtent} : Abort(last)
    \/ Commit
    \/ Restart

SpecGrowing == Init /\ [][NextGrowing]_vars

----------------------------------------------------------------------------
Apart(o, l, p, m) == o + l <= p \/ p + m <= o

FreeOffsets(x) == {o \in DOMAIN x : x[o].status = "FREE"}

NoSharing(x, u) ==
    /\ \A a, b \in u : a # b => Apart(a.offset, a.length, b.offset, b.length)
    /\ \A o, p \in FreeOffsets(x) : o # p => Apart(o, x[o].length, p, x[p].length)
    /\ \A a \in u, o \in FreeOffsets(x) : Apart(a.offset, a.length, o, x[o].length)

WithinDevice(x, u) ==
    /\ \A a \in u : a.length > 0 /\ a.offset + a.length <= NumBlocks
    /\ \A o \in FreeOffsets(x) : x[o].length > 0 /\ o + x[o].length <= NumBlocks

Covering(x, u) ==
    \A b \in 0 .. NumBlocks - 1 :
        \/ \E a \in u : a.offset <= b /\ b < a.offset + a.length
        \/ \E o \in FreeOffsets(x) : o <= b /\ b < o + x[o].length

HeapExact(x, h) ==
    /\ \A o \in FreeOffsets(x) :
         x[o].pq_node = [k |-> x[o].length, v |-> o] /\ x[o].pq_node \in h
    /\ \A node \in h : node.v \in FreeOffsets(x) /\ x[node.v].length = node.k

Recorded(x, u) ==
    /\ \A a \in u : /\ a.offset \in DOMAIN x \ FreeOffsets(x)
                    /\ 0 < x[a.offset].length /\ x[a.offset].length <= a.length
    /\ \A o \in DOMAIN x \ FreeOffsets(x) : \E a \in u : a.offset = o

(* Unless the allocator has lost track, every block belongs to exactly one *)
(* extent of one file or to exactly one free extent: mtl_reserve_extent    *)
(* never hands out a block twice, mtl_free_extent never frees another      *)
(* file's block, and none of them drops a block.                           *)
BlocksPartitioned ==
    missteps = {} =>
        NoSharing(extents, held) /\ WithinDevice(extents, held) /\ Covering(extents, held)

(* Unless the allocator has lost track, the heap has exactly one node for  *)
(* every free extent, with its length and its offset, and the extent's     *)
(* record names that node: the two databases that mtl_reserve_extent and   *)
(* mtl_free_extent update separately agree.                                *)
HeapIndexesFreeExtents == missteps = {} => HeapExact(extents, heap)

(* Unless the allocator has lost track, the only assertion that can end    *)
(* the process is the one for a device without a free block, "We don't     *)
(* handle no space left on device yet" (metal.c:449).                      *)
AbortsOnlyWhenFull == missteps = {} /\ ~running => FreeOffsets(extents) = {}

(* Whatever transaction is cut short, the databases a restart finds are    *)
(* again a partition with an exact heap, and mtl_initialize_extents adds   *)
(* nothing to them.                                                        *)
RecoverableState ==
    saved.missteps = {} =>
        /\ NoSharing(saved.extents, saved.held)
        /\ WithinDevice(saved.extents, saved.held)
        /\ Covering(saved.extents, saved.held)
        /\ HeapExact(saved.extents, saved.heap)
        /\ 0 \in DOMAIN saved.extents

(* As long as it does not lose track, the allocator implements the block   *)
(* pool: mtl_reserve_extent hands out and appends blocks nobody holds, and *)
(* neither mtl_truncate_extent, mtl_free_extent nor a restart touches an   *)
(* extent they were not called for.                                        *)
SpecOnTrack == Init /\ [][Next /\ missteps' = {}]_vars

Pool == INSTANCE BlockPool WITH stable <- saved.held

ImplementsPool == Pool!Spec

============================================================================
