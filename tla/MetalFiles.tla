----------------------------- MODULE MetalFiles -----------------------------
(***************************************************************************)
(* File contents in metal.c: mtl_create, mtl_write, mtl_read, mtl_truncate *)
(* and mtl_unlink, called by several threads (FUSE workers and the server  *)
(* thread), on the allocator of module Extents and the extent lists that   *)
(* inode.c keeps in the inodes.                                            *)
(*                                                                         *)
(* LMDB admits one write transaction at a time, so the databases of the    *)
(* running transaction are single variables, and `saved' is the committed  *)
(* state that readers see and that a restart finds.  A write or a read     *)
(* touches the storage only after its transaction has ended, with an       *)
(* extent list that it loads again.  The storage is the one of             *)
(* storage_in_memory.c, which keeps that list in a global variable.  Bytes *)
(* themselves are not modelled: a file is its length and its extents.      *)
(***************************************************************************)
EXTENDS Extents, Sequences

CONSTANTS
    Threads,
    BlockSize,      \* bytes of a block (metadata.block_size)
    MaxInodes,      \* bound: inodes ever created
    MaxExtents,     \* MTL_MAX_EXTENTS
    Offsets,        \* byte offsets of the calls
    Lengths         \* byte counts of the calls

ASSUME FilesAssumption ==
    /\ BlockSize \in Nat \ {0} /\ MaxInodes \in Nat /\ MaxExtents \in Nat
    /\ Offsets \subseteq Nat /\ Lengths \subseteq Nat

VARIABLES
    inodes,         \* the inodes database: [length, extents] of every file
    nextId,         \* the id the next file gets
    txn,            \* the write transaction and what is left of it to do
    saved,          \* the committed databases
    calls,          \* for each thread, the call it is in
    loaded,         \* _extents of the storage, and the thread that loaded it
    stopped         \* "" or the part of the program whose assertion failed

dbVars == <<extents, heap, missteps, inodes, nextId>>
vars == <<dbVars, txn, saved, calls, loaded, stopped>>

Inodes == 1 .. MaxInodes
Idle == [op |-> "idle", inode |-> 0, offset |-> 0, length |-> 0]
NoTxn == [op |-> "none", thread |-> 0, inode |-> 0, end |-> 0, pending |-> <<>>]
NoList == [thread |-> 0, list |-> <<>>]
EmptyFile == [length |-> 0, extents |-> <<>>]

Snapshot ==
    [extents |-> extents, heap |-> heap, missteps |-> missteps,
     inodes |-> inodes, nextId |-> nextId]

\* blocks of an extent list, and blocks needed for a number of bytes
NumBlocksOf(list) ==
    LET upTo[k \in 0 .. Len(list)] == IF k = 0 THEN 0 ELSE upTo[k - 1] + list[k].length
    IN  upTo[Len(list)]


BlocksFor(bytes) == (bytes + BlockSize - 1) \div BlockSize

LastExtent(list) == IF list = <<>> THEN NoExtent ELSE list[Len(list)]
ButLast(list) == SubSeq(list, 1, Len(list) - 1)

Init ==
    /\ extents = InitializedExtents([o \in {} |-> NoExtent])
    /\ heap = InitializedHeap([o \in {} |-> NoExtent], {})
    /\ missteps = {}
    /\ inodes = [i \in {} |-> EmptyFile]
    /\ nextId = 1
    /\ txn = NoTxn
    /\ saved = Snapshot
    /\ calls = [t \in Threads |-> Idle]
    /\ loaded = NoList
    /\ stopped = ""

Call(op, i, offset, length) == [op |-> op, inode |-> i, offset |-> offset, length |-> length]

Ready(t) == stopped = "" /\ calls[t] = Idle
Opened(t, i) == stopped = "" /\ calls[t] = Call("open", i, 0, 0)
Begin(t, op, i, end, pending) ==
    [op |-> op, thread |-> t, inode |-> i, end |-> end, pending |-> pending]
PutInode(i, inode) ==
    [j \in DOMAIN inodes \cup {i} |-> IF j = i THEN inode ELSE inodes[j]]

----------------------------------------------------------------------------
(* mtl_create: the new inode, committed at once.                           *)
Create(t) ==
    /\ Ready(t)
    /\ txn = NoTxn
    /\ nextId \in Inodes
    /\ inodes' = PutInode(nextId, EmptyFile)
    /\ nextId' = nextId + 1
    /\ saved' = [saved EXCEPT !.inodes = inodes', !.nextId = nextId']
    /\ UNCHANGED <<extents, heap, missteps, txn, calls, loaded, stopped>>

(* mtl_open: the id of a file, from the committed databases.  The handlers *)
(* use it after the transaction of mtl_open has ended.                     *)
Open(t, i) ==
    /\ Ready(t)
    /\ i \in DOMAIN saved.inodes
    /\ calls' = [calls EXCEPT ![t] = Call("open", i, 0, 0)]
    /\ UNCHANGED <<dbVars, txn, saved, loaded, stopped>>

(* mtl_write takes the write lock.                                         *)
WriteBegin(t, i, offset, length) ==
    /\ Opened(t, i)
    /\ txn = NoTxn
    /\ txn' = Begin(t, "write", i, offset + length, <<>>)
    /\ calls' = [calls EXCEPT ![t] = Call("write", i, offset, length)]
    /\ UNCHANGED <<dbVars, saved, loaded, stopped>>

(* mtl_truncate to a length not below the present one expands the file.    *)
TruncateUpBegin(t, i, offset) ==
    /\ Opened(t, i)
    /\ txn = NoTxn
    /\ i \in DOMAIN inodes
    /\ offset >= inodes[i].length
    /\ txn' = Begin(t, "truncate", i, offset, <<>>)
    /\ calls' = [calls EXCEPT ![t] = Call("truncate", i, offset, 0)]
    /\ UNCHANGED <<dbVars, saved, loaded, stopped>>

(* mtl_truncate to less: the first extent that reaches past the new end is *)
(* cut or dropped and the inode rewritten; the extents after it are freed  *)
(* one by one.  An extent without a record is a null pointer.              *)
Cut(i, k, blocks, offset) ==
    LET list == inodes[i].extents
        kept == SubSeq(list, 1, k - 1)
    IN  IF blocks > 0
        THEN /\ TruncateExtent(list[k], blocks)
             /\ inodes' = PutInode(i,
                  [length  |-> offset,
                   extents |-> Append(kept, [list[k] EXCEPT !.length = blocks])])
        ELSE /\ FreeExtent(extents, list[k].offset, missteps \cup Short(list[k]))
             /\ inodes' = PutInode(i, [length |-> offset, extents |-> kept])

TruncateDownBegin(t, i, offset) ==
    /\ Opened(t, i)
    /\ txn = NoTxn
    /\ i \in DOMAIN inodes
    /\ offset < inodes[i].length
    /\ \E k \in 1 .. Len(inodes[i].extents) :
         LET list   == inodes[i].extents
             before == NumBlocksOf(SubSeq(list, 1, k - 1)) * BlockSize
         IN  /\ before <= offset
             /\ offset < before + list[k].length * BlockSize
             /\ IF list[k].offset \in DOMAIN extents
                THEN /\ Cut(i, k, BlocksFor(offset - before), offset)
                     /\ txn' = Begin(t, "truncate", i, 0, SubSeq(list, k + 1, Len(list)))
                     /\ calls' = [calls EXCEPT ![t] = Call("truncate", i, offset, 0)]
                     /\ UNCHANGED <<nextId, saved, loaded, stopped>>
                ELSE /\ stopped' = "allocator"
                     /\ UNCHANGED <<dbVars, txn, saved, calls, loaded>>

\* mutant: the first extent is skipped
UnlinkSkipsFirst(t, i) ==
    /\ Ready(t)
    /\ txn = NoTxn
    /\ i \in DOMAIN inodes
    /\ txn' = Begin(t, "unlink", i, 0,
                    SubSeq(inodes[i].extents, 2, Len(inodes[i].extents)))
    /\ calls' = [calls EXCEPT ![t] = Call("unlink", i, 0, 0)]
    /\ UNCHANGED <<dbVars, saved, loaded, stopped>>

(* mtl_unlink frees all extents and then deletes the inode.                *)
UnlinkBegin(t, i) ==
    /\ Ready(t)
    /\ txn = NoTxn
    /\ i \in DOMAIN inodes
    /\ txn' = Begin(t, "unlink", i, 0, inodes[i].extents)
    /\ calls' = [calls EXCEPT ![t] = Call("unlink", i, 0, 0)]
    /\ UNCHANGED <<dbVars, saved, loaded, stopped>>

----------------------------------------------------------------------------
(* The steps of the write transaction.                                     *)

Missing == txn.inode \notin DOMAIN inodes

FileBlocks == IF Missing THEN 0 ELSE NumBlocksOf(inodes[txn.inode].extents)

\* mutant: one block too few
ExpandingShort == txn.op \in {"write", "truncate"} /\ FileBlocks + 1 < BlocksFor(txn.end)

Expanding == txn.op \in {"write", "truncate"} /\ FileBlocks < BlocksFor(txn.end)

\* mutant: the length is the final one from the first turn on
ExpandedAtOnce(new) ==
    LET list == inodes[txn.inode].extents
        last == LastExtent(list)
    IN  [length  |-> txn.end,
         extents |-> IF last.length > 0 /\ last.offset = new.offset
                     THEN Append(ButLast(list), [last EXCEPT !.length = @ + new.length])
                     ELSE Append(list, new)]

\* mutant: another extent takes the place of the last one
ExpandedInPlace(new) ==
    LET list  == inodes[txn.inode].extents
        bytes == (FileBlocks + new.length) * BlockSize
    IN  [length  |-> IF txn.end > bytes THEN bytes ELSE txn.end,
         extents |-> IF list = <<>> THEN <<new>> ELSE Append(ButLast(list), new)]

\* the inode after one turn of the loop of mtl_expand_inode
Expanded(new) ==
    LET list   == inodes[txn.inode].extents
        last   == LastExtent(list)
        bytes  == (FileBlocks + new.length) * BlockSize
        grows  == last.length > 0 /\ last.offset = new.offset
    IN  [length  |-> IF txn.end > bytes THEN bytes ELSE txn.end,
         extents |-> IF grows
                     THEN Append(ButLast(list), [last EXCEPT !.length = @ + new.length])
                     ELSE Append(list, new)]

ExpandStep ==
    /\ stopped = ""
    /\ Expanding
    /\ ~Missing
    /\ LET last == LastExtent(inodes[txn.inode].extents)
           size == BlocksFor(txn.end) - FileBlocks
       IN  \/ /\ ExtendExtent(last, size)
              /\ inodes' = PutInode(txn.inode,
                   Expanded([offset |-> last.offset, length |-> ExtendGranted(last, size)]))
           \/ /\ ~CanExtend(last)
              /\ \E node \in heap :
                   /\ PopExtent(node, size)
                   /\ inodes' = PutInode(txn.inode,
                        Expanded([offset |-> node.v, length |-> PopGranted(node, size)]))
    /\ UNCHANGED <<nextId, txn, saved, calls, loaded, stopped>>

\* an assertion of the allocator fails, or the inode that an extent is to be
\* added to does not exist
ExpandAborts ==
    /\ stopped = ""
    /\ Expanding
    /\ \/ /\ Missing
          /\ stopped' = "file"
       \/ /\ ~Missing
          /\ ReserveAborts(LastExtent(inodes[txn.inode].extents))
          /\ stopped' = "allocator"
    /\ UNCHANGED <<dbVars, txn, saved, calls, loaded>>

\* mutant: the same extent over and over
FreeStepSame ==
    /\ stopped = ""
    /\ txn.pending # <<>>
    /\ Head(txn.pending).offset \in DOMAIN extents
    /\ FreeExtent(extents, Head(txn.pending).offset, missteps)
    /\ UNCHANGED <<inodes, nextId, txn, saved, calls, loaded, stopped>>

\* the next extent is freed, if it has a record
FreeStep ==
    /\ stopped = ""
    /\ txn.pending # <<>>
    /\ LET e == Head(txn.pending)
       IN  IF e.offset \in DOMAIN extents
           THEN /\ FreeExtent(extents, e.offset, missteps \cup Short(e))
                /\ txn' = [txn EXCEPT !.pending = Tail(@)]
                /\ stopped' = stopped
           ELSE /\ stopped' = "allocator"
                /\ UNCHANGED <<extents, heap, missteps, txn>>
    /\ UNCHANGED <<inodes, nextId, saved, calls, loaded>>

(* mdb_txn_commit; mtl_unlink has deleted the inode, mtl_write goes on to  *)
(* the storage, the other calls return.                                    *)
Commit ==
    /\ stopped = ""
    /\ txn # NoTxn
    /\ ~Expanding
    /\ txn.pending = <<>>
    /\ inodes' = IF txn.op = "unlink"
                 THEN [j \in DOMAIN inodes \ {txn.inode} |-> inodes[j]]
                 ELSE inodes
    /\ saved' = [Snapshot EXCEPT !.inodes = inodes']
    /\ calls' = [calls EXCEPT ![txn.thread] =
                   IF txn.op = "write" THEN [@ EXCEPT !.op = "storage_write"] ELSE Idle]
    /\ txn' = NoTxn
    /\ UNCHANGED <<extents, heap, missteps, nextId, loaded, stopped>>

----------------------------------------------------------------------------
\* mutant: an offset past the end wraps around (16 bits stand for 64)
ReadLengthWraps(i, offset, length) ==
    LET size == saved.inodes[i].length
    IN  IF size < offset + length THEN (size - offset) % 65536 ELSE length

(* mtl_read: how much can be read, from the committed inode.               *)
ReadLength(i, offset, length) ==
    LET size == saved.inodes[i].length
    IN  IF size < offset THEN 0
        ELSE IF size < offset + length THEN size - offset ELSE length

ReadBegin(t, i, offset, length) ==
    /\ Opened(t, i)
    /\ i \in DOMAIN saved.inodes
    /\ LET bytes == ReadLength(i, offset, length)
       IN  calls' = [calls EXCEPT ![t] =
                       IF bytes > 0 THEN Call("storage_read", i, offset, bytes) ELSE Idle]
    /\ UNCHANGED <<dbVars, txn, saved, loaded, stopped>>

(* An inode that was removed since mtl_open leaves mtl_read and            *)
(* mtl_truncate with a pointer that was never set: they crash, find        *)
(* nothing to do, or read as much as whatever they find there says.        *)
FileGone(t, i) ==
    /\ Opened(t, i)
    /\ i \notin DOMAIN saved.inodes
    /\ \/ /\ stopped' = "file"
          /\ calls' = calls
       \/ /\ calls' \in {[calls EXCEPT ![t] = c] : c \in {Idle} \cup
                          {Call("storage_read", i, offset, length) :
                             offset \in Offsets, length \in Lengths}}
          /\ stopped' = stopped
    /\ UNCHANGED <<dbVars, txn, saved, loaded>>

(* mtl_load_extent_list for the storage, which ignores that it may fail:   *)
(* then, as for an empty file, the memory just allocated is not set.       *)
LoadedList(i) ==
    IF i \in DOMAIN saved.inodes /\ Len(saved.inodes[i].extents) <= MaxExtents
    THEN saved.inodes[i].extents
    ELSE <<>>

(* The storage replaces the global list by the one committed now ...       *)
StorageLoad(t) ==
    LET call == calls[t]
    IN  /\ stopped = ""
        /\ call.op \in {"storage_write", "storage_read"}
        /\ IF call.offset + call.length < NumBlocks * BlockSize
           THEN /\ loaded' = [thread |-> t, list |-> LoadedList(call.inode)]
                /\ calls' = [calls EXCEPT ![t].op =
                                IF @ = "storage_write" THEN "walk_write" ELSE "walk_read"]
                /\ stopped' = stopped
           ELSE stopped' = "storage" /\ UNCHANGED <<loaded, calls>>
        /\ UNCHANGED <<dbVars, txn, saved>>

Covers(list, call) == call.offset + call.length <= NumBlocksOf(list) * BlockSize

(* ... and walks it, asserting that it does not end before the bytes do.   *)
(* A list that was not set, or that another thread has freed and replaced, *)
(* may hold anything.                                                      *)
StorageWalk(t) ==
    LET undefined == loaded.thread # t \/ loaded.list = <<>>
        fits      == calls[t].length = 0 \/ Covers(loaded.list, calls[t])
    IN  /\ stopped = ""
        /\ calls[t].op \in {"walk_write", "walk_read"}
        /\ \/ /\ fits \/ undefined
              /\ calls' = [calls EXCEPT ![t] = Idle]
              /\ stopped' = stopped
           \/ /\ calls[t].length > 0
              /\ ~fits \/ undefined
              /\ stopped' = "storage"
              /\ calls' = calls
        /\ UNCHANGED <<dbVars, txn, saved, loaded>>

StorageAccess(t) == StorageLoad(t) \/ StorageWalk(t)

(* The process ends, at any point or because an assertion failed, and      *)
(* mtl_initialize runs on the committed databases.                         *)
Restart ==
    /\ extents' = InitializedExtents(saved.extents)
    /\ heap' = InitializedHeap(saved.extents, saved.heap)
    /\ missteps' = saved.missteps
    /\ inodes' = saved.inodes
    /\ nextId' = saved.nextId
    /\ txn' = NoTxn
    /\ saved' = Snapshot'
    /\ calls' = [t \in Threads |-> Idle]
    /\ loaded' = NoList
    /\ stopped' = ""

Grows(t, i) ==
    \/ Open(t, i)
    \/ \E offset \in Offsets :
         \/ \E length \in Lengths : WriteBegin(t, i, offset, length)
         \/ \E length \in Lengths : ReadBegin(t, i, offset, length)
         \/ TruncateUpBegin(t, i, offset)

Shrinks(t, i) ==
    \/ \E offset \in Offsets : TruncateDownBegin(t, i, offset)
    \/ UnlinkBegin(t, i)
    \/ FileGone(t, i)

Transact == ExpandStep \/ ExpandAborts \/ FreeStep \/ Commit

Next ==
    \/ \E t \in Threads :
         \/ Create(t)
         \/ \E i \in Inodes : Grows(t, i) \/ Shrinks(t, i)
         \/ StorageAccess(t)
    \/ Transact
    \/ Restart

Spec == Init /\ [][Next]_vars

\* a thread that is inside a call goes on with it
Progress ==
    /\ WF_vars(missteps = {} /\ Transact)
    /\ \A t \in Threads : WF_vars(missteps = {} /\ StorageAccess(t))

\* the program until the allocator loses track
SpecOnTrack == Init /\ [][Next /\ (missteps = {} \/ Restart)]_vars

FairSpec == SpecOnTrack /\ Progress

\* files only grow: nothing is truncated to less or unlinked
NextGrowing ==
    \/ \E t \in Threads :
         \/ Create(t)
         \/ \E i \in Inodes : Grows(t, i)
         \/ StorageAccess(t)
    \/ Transact
    \/ Restart

SpecGrowing == Init /\ [][NextGrowing]_vars

----------------------------------------------------------------------------
File == [length : Nat, extents : Seq(FileExtent)]

(* Inodes are lists of extents with a length, and no call gets to the      *)
(* storage with more bytes than were asked for: mtl_read never wraps.      *)
TypeOK ==
    /\ \A i \in DOMAIN inodes : i \in Inodes /\ inodes[i] \in File
    /\ \A i \in DOMAIN saved.inodes : i \in Inodes /\ saved.inodes[i] \in File
    /\ nextId \in 1 .. MaxInodes + 1
    /\ txn = NoTxn \/ (txn.thread \in Threads /\ txn.pending \in Seq(FileExtent))
    /\ loaded.thread \in Threads \cup {0} /\ loaded.list \in Seq(FileExtent)
    /\ \A t \in Threads : calls[t].length = 0 \/ \E n \in Lengths : calls[t].length <= n
    /\ stopped \in {"", "allocator", "file", "storage"}

(* A file has exactly the blocks its length needs, at every moment of an   *)
(* expansion, a truncation and a restart: no block of a file is out of     *)
(* reach of its length, and no byte below its length is without a block.   *)
BlocksMatchLength ==
    \A i \in DOMAIN inodes : NumBlocksOf(inodes[i].extents) = BlocksFor(inodes[i].length)

Run(e) == [j \in 1 .. e.length |-> e.offset + j - 1]

BlocksOf(list) ==
    LET upTo[k \in 0 .. Len(list)] == IF k = 0 THEN <<>> ELSE upTo[k - 1] \o Run(list[k])
    IN  upTo[Len(list)]

(* No step moves a block of a file: the bytes before the shorter of the    *)
(* old and the new end stay where mtl_write put them, whichever files grow *)
(* and shrink meanwhile, and also when a restart undoes a transaction.     *)
LogicalBlocksStay ==
    [][\A i \in DOMAIN inodes \cap DOMAIN inodes' :
         LET old == BlocksOf(inodes[i].extents)
             new == BlocksOf(inodes'[i].extents)
         IN  \A j \in DOMAIN old \cap DOMAIN new : old[j] = new[j]]_vars


(* While files only grow, the committed extents of a file cover every      *)
(* access to the storage that is still to load them, although mtl_write    *)
(* and mtl_read have ended their transactions and other threads go on.     *)
CallsCovered ==
    \A t \in Threads :
        calls[t].op \in {"storage_write", "storage_read"} =>
            /\ calls[t].inode \in DOMAIN saved.inodes
            /\ Covers(saved.inodes[calls[t].inode].extents, calls[t])

(* Every call that has begun returns, or the program ends: the loop that   *)
(* expands a file and the ones that free extents come to an end, and the   *)
(* write lock is given back.  Followed until the allocator loses track.    *)
CallsReturn ==
    \A t \in Threads :
        calls[t].op \notin {"idle", "open"} ~>
            calls[t] = Idle \/ stopped # "" \/ missteps # {}

----------------------------------------------------------------------------
(* What the files hold of the allocator's extents: what the inodes list    *)
(* and what the transaction has still to free.                             *)

Listed(list) == {list[k] : k \in DOMAIN list}

ListedIn(files) == UNION {Listed(files[i].extents) : i \in DOMAIN files}

Held ==
    Listed(txn.pending) \cup
        ListedIn([i \in DOMAIN inodes \ (IF txn.op = "unlink" THEN {txn.inode} ELSE {})
                    |-> inodes[i]])

\* ends of the ranges of the calls, and numbers of blocks they may ask for
Ends == {offset + length : offset \in Offsets, length \in Lengths \cup {0}}
Sizes == UNION {1 .. BlocksFor(end) : end \in Ends}

----------------------------------------------------------------------------
(* What a test of the repository says, and the code does not do.           *)

(* metal_test.cpp:81, ReadsWrittenBytes: once mtl_write has returned, the  *)
(* file is long enough for mtl_read to return all the bytes written.       *)
ReadsWrittenBytes ==
    [][\A t \in Threads :
         LET c == calls[t]
         IN  c.op = "walk_write" /\ StorageWalk(t) /\ stopped' = ""
             => saved.inodes[c.inode].length >= c.offset + c.length]_vars
============================================================================
