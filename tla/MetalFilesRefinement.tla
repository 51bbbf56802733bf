------------------------ MODULE MetalFilesRefinement ------------------------
(***************************************************************************)
(* Proofs about module MetalFiles: its calls use the allocator the way     *)
(* module ExtentAllocator has it.                                          *)
(***************************************************************************)
EXTENDS MetalFilesProofs, MetalFilesAllocator

----------------------------------------------------------------------------
(* What the allocator is to regard as held. *)

Gone == IF txn.op = "unlink" THEN {txn.inode} ELSE {}
Lists == ListsOf(inodes, Gone, txn.pending)
SavedLists == ListsOf(saved.inodes, {}, <<>>)

(* Until the allocator loses track, no two entries begin at the same       *)
(* block, and nothing is committed afterwards.                             *)
Track ==
    /\ saved.missteps = {}
    /\ missteps = {} => Once(Lists)
    /\ Once(SavedLists)

\* what a consistent allocator provides for
Apt ==
    /\ \A a \in Held : a.length > 0
    /\ \A a \in Held, node \in heap : node.v # a.offset

HeldIsListed ==
    /\ Held = AllOf(Lists) /\ ListsTyped(Lists)
    /\ DOMAIN Lists = {0} \cup (DOMAIN inodes \ Gone) /\ Lists[0] = txn.pending
    /\ \A i \in DOMAIN inodes \ Gone : i # 0 /\ Lists[i] = inodes[i].extents

\* The extents that the allocator is to regard as held are the listed ones.
LEMMA HeldListed == Core => HeldIsListed
<1> SUFFICES ASSUME Core PROVE HeldIsListed
  OBVIOUS
<1>1. FilesTyped(inodes, nextId)
  BY DEF Core
<1>2. txn.pending \in Seq(FileExtent)
  <2>1. CASE txn = NoTxn
    BY <2>1 DEF NoTxn
  <2>2. CASE txn # NoTxn
    BY <2>2 DEF Core, TxnTyped, Transaction
  <2> QED  BY <2>1, <2>2
<1> DEFINE live == [i \in DOMAIN inodes \ Gone |-> inodes[i]]
<1>3. Held = Listed(txn.pending) \cup ListedIn(live)
  BY DEF Held, Gone
<1>4. DOMAIN live = DOMAIN inodes \ Gone /\ \A i \in DOMAIN live : live[i] = inodes[i]
  OBVIOUS
<1>5. Lists = ListsOf(inodes, Gone, txn.pending)
  BY DEF Lists
<1> HIDE DEF live
<1>6. /\ DOMAIN Lists = {0} \cup (DOMAIN inodes \ Gone)
      /\ Lists[0] = txn.pending
      /\ \A i \in DOMAIN inodes \ Gone : i # 0 /\ Lists[i] = inodes[i].extents
      /\ ListsTyped(Lists)
  <2>1. \A i \in DOMAIN inodes : i # 0
    BY <1>1, FilesFacts DEF Inodes
  <2>2. /\ DOMAIN Lists = {0} \cup (DOMAIN inodes \ Gone) /\ Lists[0] = txn.pending
        /\ \A i \in DOMAIN inodes \ Gone : i # 0 /\ Lists[i] = inodes[i].extents
    BY <1>5, <2>1 DEF ListsOf
  <2>3. ListsTyped(Lists)
    BY <1>1, <1>2, <2>2, FilesFacts DEF ListsTyped
  <2> QED  BY <2>2, <2>3
<1>7. AllOf(Lists) = Listed(Lists[0]) \cup ListedIn(live)
  BY <1>4, <1>6, ListsHold, Zenon
<1> QED  BY <1>3, <1>6, <1>7 DEF HeldIsListed

\* And so they are after a step.
LEMMA HeldListedNext == Core' => HeldIsListed'
BY HeldListed, PTL

\* The committed extents are those that the committed files list.
LEMMA SavedListed ==
    ASSUME NEW files, NEW next, FilesTyped(files, next)
    PROVE  LET lists == ListsOf(files, {}, <<>>)
           IN  /\ AllOf(lists) = ListedIn(files) /\ ListsTyped(lists)
               /\ DOMAIN lists = {0} \cup DOMAIN files /\ lists[0] = <<>>
               /\ \A i \in DOMAIN files : i # 0 /\ lists[i] = files[i].extents
<1> DEFINE lists == ListsOf(files, {}, <<>>)
<1>1. \A i \in DOMAIN files : i # 0 /\ files[i].extents \in Seq(FileExtent)
  BY FilesFacts DEF Inodes
<1>2. /\ DOMAIN lists = {0} \cup DOMAIN files /\ lists[0] = <<>>
      /\ \A i \in DOMAIN files : i # 0 /\ lists[i] = files[i].extents
  BY <1>1 DEF ListsOf
<1>3. Listed(<<>>) = {} /\ <<>> \in Seq(FileExtent)
  BY DEF Listed
<1> HIDE DEF lists
<1>4. ListsTyped(lists)
  BY <1>1, <1>2, <1>3 DEF ListsTyped
<1>5. AllOf(lists) = Listed(lists[0]) \cup ListedIn(files)
  BY <1>2, ListsHold
<1> QED  BY <1>2, <1>3, <1>4, <1>5, Zenon DEF lists

SavedIsListed ==
    /\ AllOf(SavedLists) = ListedIn(saved.inodes)
    /\ txn = NoTxn => Lists = ListsOf(inodes, {}, <<>>)

\* Between two transactions, and for what is committed, the files have all
\* the lists.
LEMMA CommittedListed == Core => SavedIsListed
<1> SUFFICES ASSUME Core PROVE SavedIsListed
  OBVIOUS
<1>1. FilesTyped(saved.inodes, saved.nextId)
  BY DEF Core, SavedTyped
<1>2. AllOf(SavedLists) = ListedIn(saved.inodes)
  BY <1>1, SavedListed, ZenonT(30) DEF SavedLists
<1>3. ASSUME txn = NoTxn PROVE Lists = ListsOf(inodes, {}, <<>>)
  <2>1. Gone = {} /\ txn.pending = <<>>
    BY <1>3 DEF Gone, NoTxn
  <2> QED  BY <2>1 DEF Lists
<1> QED  BY <1>2, <1>3 DEF SavedIsListed

\* And so they have after a step.
LEMMA CommittedListedNext == Core' => SavedIsListed'
BY CommittedListed, PTL

----------------------------------------------------------------------------
(* The steps of module ExtentAllocator on what the files hold: `held' is   *)
(* Held there, `saved' is Committed and `running' is Running.  Below,      *)
(* SameNext and SameAllocator show that these are the steps of its         *)
(* instances.                                                              *)

Running == stopped # "allocator"

Committed ==
    [extents |-> saved.extents, heap |-> saved.heap,
     held |-> ListedIn(saved.inodes), missteps |-> saved.missteps]

Uncommitted == [extents |-> extents, heap |-> heap, held |-> Held, missteps |-> missteps]

allocVars == <<extents, heap, missteps, Held, Committed, Running>>

AllocExtend(last, size) ==
    /\ Running
    /\ ExtendExtent(last, size)
    /\ Held' = (Held \ {last}) \cup {[last EXCEPT !.length = @ + ExtendGranted(last, size)]}
    /\ UNCHANGED <<Committed, Running>>

AllocAcquire(last, size) ==
    /\ Running
    /\ ~CanExtend(last)
    /\ \E node \in heap :
         /\ PopExtent(node, size)
         /\ Held' = IF last.length > 0 /\ last.offset = node.v
                    THEN (Held \ {last}) \cup {[last EXCEPT !.length = @ + PopGranted(node, size)]}
                    ELSE Held \cup {[offset |-> node.v, length |-> PopGranted(node, size)]}
    /\ UNCHANGED <<Committed, Running>>

AllocAbort(last) ==
    /\ Running
    /\ ReserveAborts(last) \/ (last.length > 0 /\ last.offset \notin DOMAIN extents)
    /\ Running' = FALSE
    /\ UNCHANGED <<extents, heap, missteps, Held, Committed>>

AllocShrink(e, len) ==
    /\ Running
    /\ e.offset \in DOMAIN extents
    /\ TruncateExtent(e, len)
    /\ Held' = (Held \ {e}) \cup {[e EXCEPT !.length = len]}
    /\ UNCHANGED <<Committed, Running>>

AllocRelease(e) ==
    /\ Running
    /\ e.offset \in DOMAIN extents
    /\ FreeExtent(extents, e.offset, missteps \cup Short(e))
    /\ Held' = Held \ {e}
    /\ UNCHANGED <<Committed, Running>>

AllocCommit ==
    /\ Running
    /\ Committed' = Uncommitted
    /\ UNCHANGED <<extents, heap, missteps, Held, Running>>

AllocRestart ==
    /\ extents' = InitializedExtents(saved.extents)
    /\ heap' = InitializedHeap(saved.extents, saved.heap)
    /\ Held' = ListedIn(saved.inodes)
    /\ missteps' = saved.missteps
    /\ Committed' = Uncommitted'
    /\ Running'

AllocInit ==
    /\ extents = InitializedExtents([o \in {} |-> NoExtent])
    /\ heap = InitializedHeap([o \in {} |-> NoExtent], {})
    /\ Held = {}
    /\ missteps = {}
    /\ Committed = Uncommitted
    /\ Running

AllocGrowing ==
    \/ \E last \in Held, size \in Sizes : AllocExtend(last, size)
    \/ \E last \in Held \cup {NoExtent}, size \in Sizes : AllocAcquire(last, size)
    \/ \E last \in Held \cup {NoExtent} : AllocAbort(last)
    \/ AllocCommit
    \/ AllocRestart

AllocNext ==
    \/ AllocGrowing
    \/ \E e \in Held : \E len \in 1 .. e.length : AllocShrink(e, len)
    \/ \E e \in Held : AllocRelease(e)

\* A step that leaves the databases and the lists alone is none of the
\* allocator's.
LEMMA AllocStutters ==
    ASSUME UNCHANGED <<extents, heap, missteps>>, Held' = Held,
           saved'.extents = saved.extents, saved'.heap = saved.heap,
           saved'.missteps = saved.missteps, ListedIn(saved'.inodes) = ListedIn(saved.inodes),
           stopped' = "allocator" <=> stopped = "allocator"
    PROVE  UNCHANGED allocVars
<1>1. ListedIn(saved.inodes)' = ListedIn(saved'.inodes)
  BY DEF ListedIn, Listed
<1>2. (stopped # "allocator")' = (stopped # "allocator")
  OBVIOUS
<1> HIDE DEF Held
<1> QED  BY <1>1, <1>2 DEF allocVars, Committed, Running

----------------------------------------------------------------------------
(* The steps of the calls, one by one, while the allocator is on track.    *)

AllocStep == AllocNext \/ UNCHANGED allocVars
GrowStep == AllocGrowing \/ UNCHANGED allocVars

\* The lists stay.
LEMMA SameLists ==
    ASSUME Track, UNCHANGED <<missteps, inodes, saved>>, txn'.pending = txn.pending,
           Gone' = Gone
    PROVE  Held' = Held /\ Track'
<1>2. Lists' = Lists /\ SavedLists' = SavedLists
  BY DEF Lists, SavedLists, ListsOf
<1>3. Held' = Held
  BY DEF Held, Gone, Listed, ListedIn
<1>4. Track'
  BY <1>2 DEF Track, Once
<1> QED  BY <1>3, <1>4

\* The lists after a step.
LEMMA PrimedLists ==
    /\ AllOf(Lists)' = AllOf(Lists') /\ AllOf(SavedLists)' = AllOf(SavedLists')
    /\ Once(Lists)' = Once(Lists') /\ Once(SavedLists)' = Once(SavedLists')
    /\ ListedIn(saved.inodes)' = ListedIn(saved'.inodes)
BY DEF AllOf, Listed, ListedIn, Once

\* A step that leaves the databases and what is to be freed alone.
LEMMA QuietStep ==
    ASSUME Track, UNCHANGED <<dbVars, saved>>, txn'.pending = txn.pending, Gone' = Gone,
           stopped' = "allocator" <=> stopped = "allocator"
    PROVE  GrowStep /\ Track'
<1>1. UNCHANGED <<extents, heap, missteps, inodes, saved>>
  BY DEF dbVars
<1>2. Held' = Held /\ Track'
  BY <1>1, SameLists
<1>5. UNCHANGED allocVars
  BY <1>1, <1>2, AllocStutters
<1> QED  BY <1>2, <1>5 DEF GrowStep

\* Calls that only read, and those that are about to expand a file.
LEMMA ThreadsQuiet ==
    ASSUME Track, NEW t, NEW i, Grows(t, i) \/ FileGone(t, i) \/ StorageAccess(t)
    PROVE  GrowStep /\ Track'
<1>1. ASSUME UNCHANGED <<dbVars, txn, saved>>,
             stopped' = "allocator" <=> stopped = "allocator"
      PROVE  GrowStep /\ Track'
  BY <1>1, QuietStep DEF Gone
<1>2. ASSUME UNCHANGED <<dbVars, saved, stopped>>, txn = NoTxn, NEW op \in {"write", "truncate"},
             NEW end, txn' = Begin(t, op, i, end, <<>>)
      PROVE  GrowStep /\ Track'
  <2>1. txn'.pending = txn.pending /\ Gone' = Gone
    BY <1>2 DEF NoTxn, Begin, Gone
  <2> QED  BY <1>2, <2>1, QuietStep
<1>3. CASE Open(t, i)
  BY <1>1, <1>3 DEF Open
<1>4. ASSUME NEW offset, NEW length, WriteBegin(t, i, offset, length)
      PROVE  GrowStep /\ Track'
  BY <1>2, <1>4 DEF WriteBegin
<1>5. ASSUME NEW offset, NEW length, ReadBegin(t, i, offset, length)
      PROVE  GrowStep /\ Track'
  BY <1>1, <1>5 DEF ReadBegin
<1>6. ASSUME NEW offset, TruncateUpBegin(t, i, offset)
      PROVE  GrowStep /\ Track'
  BY <1>2, <1>6 DEF TruncateUpBegin
<1>7. CASE FileGone(t, i)
  <2>0. stopped = ""
    BY <1>7 DEF FileGone, Opened
  <2>1. stopped' \in {"file", stopped}
    BY <1>7 DEF FileGone
  <2>2. stopped' = "allocator" <=> stopped = "allocator"
    BY <2>0, <2>1
  <2> QED  BY <1>1, <1>7, <2>2 DEF FileGone
<1>8. CASE StorageLoad(t)
  <2>1. stopped' = "allocator" <=> stopped = "allocator"
    BY <1>8 DEF StorageLoad
  <2> QED  BY <1>1, <1>8, <2>1 DEF StorageLoad
<1>9. CASE StorageWalk(t)
  <2>1. stopped' = "allocator" <=> stopped = "allocator"
    BY <1>9 DEF StorageWalk
  <2> QED  BY <1>1, <1>9, <2>1 DEF StorageWalk
<1> QED  BY <1>3, <1>4, <1>5, <1>6, <1>7, <1>8, <1>9 DEF Grows, StorageAccess

\* mtl_unlink is about to free what its file lists.
LEMMA UnlinkQuiet ==
    ASSUME Core, Core', Track, missteps = {}, NEW t, NEW i, UnlinkBegin(t, i)
    PROVE  GrowStep /\ Track'
<1>1. /\ txn = NoTxn /\ i \in DOMAIN inodes
      /\ UNCHANGED <<extents, heap, missteps, inodes, saved, stopped>>
      /\ txn' = Begin(t, "unlink", i, 0, inodes[i].extents)
  BY DEF UnlinkBegin, dbVars
<1>2. Gone = {} /\ Gone' = {i} /\ txn.pending = <<>> /\ txn'.pending = inodes[i].extents
  BY <1>1 DEF Gone, NoTxn, Begin
<1>3. /\ Held = AllOf(Lists)
      /\ DOMAIN Lists = {0} \cup (DOMAIN inodes \ Gone) /\ Lists[0] = txn.pending
      /\ \A j \in DOMAIN inodes \ Gone : j # 0 /\ Lists[j] = inodes[j].extents
  BY HeldListed DEF HeldIsListed
<1>4. /\ Held' = AllOf(Lists)'
      /\ DOMAIN Lists' = {0} \cup (DOMAIN inodes' \ Gone') /\ Lists'[0] = txn'.pending
      /\ \A j \in DOMAIN inodes' \ Gone' : j # 0 /\ Lists'[j] = inodes'[j].extents
  BY HeldListedNext DEF HeldIsListed
<1>5. Once(Lists') /\ AllOf(Lists') = AllOf(Lists)
  <2>1. /\ i \in DOMAIN Lists /\ i # 0 /\ 0 \in DOMAIN Lists /\ Lists[0] = <<>>
        /\ DOMAIN Lists' = DOMAIN Lists \ {i} /\ Lists'[0] = Lists[i]
    BY <1>1, <1>2, <1>3, <1>4
  <2>2. \A j \in DOMAIN Lists' : j # 0 => Lists'[j] = Lists[j]
    BY <1>1, <1>2, <1>3, <1>4
  <2>3. Once(Lists)
    BY DEF Track
  <2> HIDE DEF Lists
  <2> QED  BY <2>1, <2>2, <2>3, ListMoved
<1>6. Held' = Held
  BY <1>3, <1>4, <1>5, Zenon DEF AllOf, Listed
<1>7. Track'
  <2>1. SavedLists' = SavedLists /\ saved'.missteps = saved.missteps
    BY <1>1, Zenon DEF SavedLists
  <2>2. Once(SavedLists) /\ saved.missteps = {}
    BY Zenon DEF Track
  <2>3. Once(SavedLists)'
    BY <2>1, <2>2, PrimedLists, Zenon
  <2>4. Once(Lists)'
    BY <1>5, PrimedLists, Zenon
  <2> QED  BY <2>1, <2>2, <2>3, <2>4, Zenon DEF Track
<1> QED  BY <1>1, <1>6, <1>7, AllocStutters DEF GrowStep

\* mtl_create adds a file without an extent.
LEMMA CreateQuiet ==
    ASSUME Core, Core', Track, missteps = {}, NEW t, Create(t)
    PROVE  GrowStep /\ Track'
<1>1. /\ txn = NoTxn /\ UNCHANGED <<extents, heap, missteps, txn, stopped>>
      /\ inodes' = PutInode(nextId, EmptyFile)
      /\ saved' = [saved EXCEPT !.inodes = inodes', !.nextId = nextId']
  BY DEF Create
<1>2. saved = Snapshot /\ nextId \notin DOMAIN inodes /\ nextId # 0
  BY <1>1 DEF Core, Settled, FilesTyped
<1>3. /\ saved.inodes = inodes /\ saved'.inodes = inodes' /\ saved'.extents = saved.extents
      /\ saved'.heap = saved.heap /\ saved'.missteps = saved.missteps
  BY <1>1, <1>2 DEF Snapshot
<1>4. /\ DOMAIN inodes' = DOMAIN inodes \cup {nextId} /\ inodes'[nextId].extents = <<>>
      /\ \A j \in DOMAIN inodes : inodes'[j] = inodes[j]
  BY <1>1, <1>2 DEF PutInode, EmptyFile
<1>5. HeldIsListed /\ HeldIsListed' /\ SavedIsListed /\ SavedIsListed'
  BY HeldListed, HeldListedNext, CommittedListed, CommittedListedNext
<1>6. Gone = {} /\ Gone' = {} /\ txn.pending = <<>> /\ txn'.pending = <<>>
  BY <1>1 DEF Gone, NoTxn
<1>7. Lists = SavedLists /\ Lists' = SavedLists'
  BY <1>1, <1>3, <1>5 DEF SavedIsListed, SavedLists, ListsOf
<1>8. Once(Lists') /\ AllOf(Lists') = AllOf(Lists)
  <2>1. /\ nextId \notin DOMAIN Lists /\ DOMAIN Lists' = DOMAIN Lists \cup {nextId}
        /\ Lists'[nextId] = <<>>
    BY <1>2, <1>4, <1>5, <1>6 DEF HeldIsListed
  <2>2. ASSUME NEW j \in DOMAIN Lists', j # nextId PROVE Lists'[j] = Lists[j]
    BY <1>2, <1>4, <1>5, <1>6, <2>2 DEF HeldIsListed
  <2>3. Once(Lists)
    BY DEF Track
  <2> HIDE DEF Lists
  <2> QED  BY <2>1, <2>2, <2>3, EmptyListed
<1>9. AllOf(Lists)' = AllOf(Lists') /\ AllOf(SavedLists)' = AllOf(SavedLists')
      /\ ListedIn(saved.inodes)' = ListedIn(saved'.inodes)
  BY DEF AllOf, Listed, ListedIn
<1>10. Held' = Held /\ ListedIn(saved'.inodes) = ListedIn(saved.inodes)
  BY <1>5, <1>7, <1>8, <1>9 DEF HeldIsListed, SavedIsListed
<1>11. Once(Lists)' = Once(Lists') /\ Once(SavedLists)' = Once(SavedLists')
  BY DEF Once
<1>12. Track'
  BY <1>3, <1>7, <1>8, <1>11 DEF Track
<1> QED  BY <1>1, <1>3, <1>10, <1>12, AllocStutters DEF GrowStep

\* What is committed is what the files list.
LEMMA CommitCommits ==
    ASSUME Core, Core', Track, missteps = {}, Commit
    PROVE  GrowStep /\ Track'
<1>1. /\ stopped = "" /\ txn.pending = <<>> /\ txn' = NoTxn
      /\ inodes' = IF txn.op = "unlink"
                   THEN [j \in DOMAIN inodes \ {txn.inode} |-> inodes[j]]
                   ELSE inodes
      /\ saved' = [Snapshot EXCEPT !.inodes = inodes']
      /\ UNCHANGED <<extents, heap, missteps, stopped>>
  BY DEF Commit
<1>2. /\ saved'.extents = extents /\ saved'.heap = heap /\ saved'.missteps = missteps
      /\ saved'.inodes = inodes'
  BY <1>1 DEF Snapshot
<1>3. HeldIsListed /\ HeldIsListed' /\ SavedIsListed'
  BY HeldListed, HeldListedNext, CommittedListedNext
<1>4. Lists' = SavedLists'
  BY <1>1, <1>2, <1>3 DEF SavedIsListed, SavedLists, ListsOf
<1>5. Lists' = Lists
  <2>1. Gone' = {} /\ txn'.pending = <<>>
    BY <1>1 DEF Gone, NoTxn
  <2>2. /\ DOMAIN inodes' = DOMAIN inodes \ Gone
        /\ \A j \in DOMAIN inodes' : inodes'[j] = inodes[j]
    BY <1>1 DEF Gone
  <2>3. [i \in {0} \cup (DOMAIN inodes' \ {}) |->
           IF i = 0 THEN <<>> ELSE inodes'[i].extents] =
        [i \in {0} \cup (DOMAIN inodes \ Gone) |->
           IF i = 0 THEN <<>> ELSE inodes[i].extents]
    BY <2>2
  <2> QED  BY <1>1, <2>1, <2>3 DEF Lists, ListsOf
<1>6. Held' = Held /\ ListedIn(saved'.inodes) = Held
  BY <1>3, <1>4, <1>5, PrimedLists DEF HeldIsListed, SavedIsListed
<1>7. Track'
  <2>1. Once(Lists)
    BY DEF Track
  <2> QED  BY <1>2, <1>4, <1>5, <2>1, PrimedLists DEF Track
<1>8. AllocCommit
  <2> HIDE DEF Held
  <2> QED  BY <1>1, <1>2, <1>6, PrimedLists DEF AllocCommit, Committed, Running, Uncommitted
<1> QED  BY <1>7, <1>8 DEF GrowStep, AllocGrowing

\* mtl_initialize finds what was committed.
LEMMA RestartRestarts ==
    ASSUME Core, Core', Track, Restart
    PROVE  GrowStep /\ Track'
<1>1. /\ extents' = InitializedExtents(saved.extents)
      /\ heap' = InitializedHeap(saved.extents, saved.heap)
      /\ missteps' = saved.missteps /\ inodes' = saved.inodes /\ txn' = NoTxn
      /\ saved' = Snapshot' /\ stopped' = ""
  BY DEF Restart
<1>2. /\ saved'.extents = extents' /\ saved'.heap = heap' /\ saved'.missteps = missteps'
      /\ saved'.inodes = inodes'
  BY <1>1 DEF Snapshot
<1>3. HeldIsListed' /\ SavedIsListed /\ SavedIsListed'
  BY HeldListedNext, CommittedListed, CommittedListedNext
<1>4. Lists' = SavedLists' /\ Lists' = SavedLists
  BY <1>1, <1>2, <1>3 DEF SavedIsListed, SavedLists, ListsOf
<1>5. Held' = ListedIn(saved.inodes) /\ ListedIn(saved'.inodes) = Held'
  BY <1>3, <1>4, PrimedLists DEF HeldIsListed, SavedIsListed
<1>6. Track'
  BY <1>1, <1>2, <1>4, PrimedLists DEF Track
<1>7. AllocRestart
  <2> HIDE DEF Held
  <2> QED  BY <1>1, <1>2, <1>5, PrimedLists
           DEF AllocRestart, Committed, Running, Uncommitted
<1> QED  BY <1>6, <1>7 DEF GrowStep, AllocGrowing

\* Until a transaction is committed nothing happens to the committed lists.
LEMMA SavedStays ==
    ASSUME saved' = saved
    PROVE  ListedIn(saved.inodes)' = ListedIn(saved.inodes) /\ SavedLists' = SavedLists
BY DEF ListedIn, Listed, SavedLists, ListsOf

\* The next extent to be freed.
LEMMA HeadFacts ==
    ASSUME NEW S, NEW s \in Seq(S), s # <<>>
    PROVE  1 \in DOMAIN s /\ Head(s) = s[1]
OBVIOUS

\* mtl_truncate and mtl_unlink free the extents that they no longer need.
LEMMA FreeReleases ==
    ASSUME Core, Core', Track, Apt, missteps = {}, FreeStep
    PROVE  AllocStep /\ Track'
<1> DEFINE e == Head(txn.pending)
<1>1. /\ stopped = "" /\ txn.pending # <<>> /\ UNCHANGED <<inodes, saved>>
  BY DEF FreeStep
<1>2. HeldIsListed
  BY HeldListed
<1>3. /\ 0 \in DOMAIN Lists /\ Lists[0] = txn.pending /\ ListsTyped(Lists) /\ Once(Lists)
  BY <1>2 DEF HeldIsListed, Track
<1>4. e \in Held
  <2>1. txn.pending \in Seq(FileExtent)
    BY <1>3 DEF ListsTyped
  <2>2. 1 \in DOMAIN txn.pending /\ e = txn.pending[1]
    BY <1>1, <2>1, HeadFacts
  <2>3. e \in AllOf(Lists)
    BY <1>3, <2>2, AllOfFacts
  <2> QED  BY <1>2, <2>3 DEF HeldIsListed
<1>5. CASE e.offset \in DOMAIN extents
  <2>1. /\ FreeExtent(extents, e.offset, missteps \cup Short(e))
        /\ txn' = [txn EXCEPT !.pending = Tail(@)] /\ stopped' = stopped
    BY <1>5 DEF FreeStep
  <2>2. HeldIsListed'
    BY HeldListedNext
  <2>3. txn.op = txn'.op /\ txn.inode = txn'.inode /\ txn'.pending = Tail(txn.pending)
    <3>0. NoTxn.pending = <<>>
      BY DEF NoTxn
    <3>1. txn # NoTxn
      BY <1>1, <3>0
    <3>2. txn \in Transaction
      BY <3>1 DEF Core, TxnTyped
    <3> QED  BY <2>1, <3>2 DEF Transaction
  <2>4. Gone' = Gone
    BY <2>3 DEF Gone
  <2>5. /\ DOMAIN Lists' = DOMAIN Lists /\ Lists'[0] = Tail(Lists[0])
        /\ \A j \in DOMAIN Lists : j # 0 => Lists'[j] = Lists[j]
    BY <1>1, <1>2, <2>2, <2>3, <2>4 DEF HeldIsListed
  <2>6. Once(Lists') /\ AllOf(Lists') = AllOf(Lists) \ {e}
    <3> HIDE DEF Lists
    <3> QED  BY <1>1, <1>3, <2>5, HeadDropped
  <2>7. Held' = Held \ {e}
    BY <1>2, <2>2, <2>6, PrimedLists DEF HeldIsListed
  <2>8. Track'
    BY <1>1, <2>1, <2>6, PrimedLists, SavedStays DEF Track
  <2>9. AllocRelease(e)
    <3> HIDE DEF Held, e
    <3> QED  BY <1>1, <1>5, <2>1, <2>7, SavedStays DEF AllocRelease, Committed, Running
  <2>10. AllocNext
    <3> HIDE DEF Held, e
    <3> QED  BY <1>4, <2>9 DEF AllocNext
  <2> QED  BY <2>8, <2>10 DEF AllocStep
<1>6. CASE e.offset \notin DOMAIN extents
  <2>1. stopped' = "allocator" /\ UNCHANGED <<extents, heap, missteps, txn>>
    BY <1>6 DEF FreeStep
  <2>2. Lists' = Lists /\ SavedLists' = SavedLists
    BY <1>1, <2>1 DEF Lists, SavedLists, Gone, ListsOf
  <2>3. Held' = Held
    BY <1>2, <2>2, HeldListedNext, PrimedLists DEF HeldIsListed
  <2>4. Track'
    BY <1>1, <2>1, <2>2, PrimedLists DEF Track
  <2>5. e.length > 0
    BY <1>4 DEF Apt
  <2>6. AllocAbort(e)
    <3> HIDE DEF Held, e
    <3> QED  BY <1>1, <1>6, <2>1, <2>3, <2>5, SavedStays DEF AllocAbort, Committed, Running
  <2>7. AllocNext
    <3> HIDE DEF Held, e
    <3> QED  BY <1>4, <2>6 DEF AllocNext, AllocGrowing
  <2> QED  BY <2>4, <2>7 DEF AllocStep
<1> QED  BY <1>5, <1>6

----------------------------------------------------------------------------
(* mtl_expand_inode *)

\* The loop runs while nothing is to be freed, and asks for a size.
LEMMA Expansion ==
    ASSUME Core, Expanding, txn.inode \in DOMAIN inodes
    PROVE  /\ txn.pending = <<>> /\ Gone = {}
           /\ BlocksFor(txn.end) - FileBlocks \in Sizes
           /\ inodes[txn.inode].extents \in Seq(FileExtent)
<1> DEFINE i == txn.inode
           size == BlocksFor(txn.end) - FileBlocks
<1>1. txn.op \in {"write", "truncate"} /\ FileBlocks < BlocksFor(txn.end)
  BY DEF Expanding
<1>2. txn # NoTxn
  BY <1>1 DEF NoTxn
<1>3. txn \in Transaction /\ (txn.pending # <<>> => txn.end = 0)
  BY <1>2 DEF Core, TxnTyped
<1>4. txn.end \in Nat
  BY <1>3, TransactionEnd, Zenon
<1>5. inodes[i].extents \in Seq(FileExtent)
  BY FilesFacts DEF Core
<1>6. FileBlocks \in Nat /\ BlocksFor(txn.end) \in Nat
  BY <1>4, <1>5, SumNat, BlocksForFacts, Zenon DEF FileBlocks, Missing
<1>7. txn.end # 0
  BY <1>1, <1>6, BlocksForWhole
<1>8. size \in Sizes
  <2>1. txn.end \in Ends
    BY <1>3, <1>7 DEF Transaction
  <2>2. size \in 1 .. BlocksFor(txn.end)
    <3> HIDE DEF FileBlocks, BlocksFor
    <3> QED  BY <1>1, <1>6
  <2> HIDE DEF size
  <2> QED  BY <2>1, <2>2 DEF Sizes
<1>9. Gone = {}
  BY <1>1 DEF Gone
<1> QED  BY <1>3, <1>5, <1>7, <1>8, <1>9

\* The last extent of the file, if it has one, is held.
LEMMA LastHeld ==
    ASSUME Core, txn.inode \in DOMAIN inodes, Gone = {},
           inodes[txn.inode].extents \in Seq(FileExtent)
    PROVE  LET list == inodes[txn.inode].extents
               last == LastExtent(list)
           IN  \/ list = <<>> /\ last = NoExtent
               \/ /\ list # <<>> /\ Len(list) \in DOMAIN list /\ last = list[Len(list)]
                  /\ last \in Held
<1> DEFINE list == inodes[txn.inode].extents
           last == LastExtent(list)
<1>1. CASE list = <<>>
  BY <1>1 DEF LastExtent
<1>2. CASE list # <<>>
  <2>1. Len(list) \in DOMAIN list
    BY <1>2
  <2>2. last = list[Len(list)]
    BY <1>2 DEF LastExtent
  <2>3. HeldIsListed
    BY HeldListed
  <2>4. txn.inode \in DOMAIN Lists /\ Lists[txn.inode] = list
    BY <2>3 DEF HeldIsListed
  <2>5. last \in AllOf(Lists)
    BY <2>1, <2>2, <2>4, AllOfFacts
  <2>6. last \in Held
    BY <2>3, <2>5 DEF HeldIsListed
  <2> QED  BY <1>2, <2>1, <2>2, <2>6
<1> QED  BY <1>1, <1>2

\* An extent that has blocks is one.
LEMMA SomeExtent ==
    ASSUME NEW e, e.length > 0
    PROVE  e # NoExtent
BY DEF NoExtent

\* A list of extents whose last one grows by g.
LEMMA LastGrows ==
    ASSUME NEW list \in Seq(FileExtent), list # <<>>, NEW f,
           Append(ButLast(list), f) \in Seq(FileExtent)
    PROVE  /\ SubSeq(list, 1, Len(list) - 1) = ButLast(list)
           /\ SubSeq(list, Len(list) + 1, Len(list)) = <<>>
           /\ f \in FileExtent
<1> DEFINE new == Append(ButLast(list), f)
<1>1. SubSeq(list, 1, Len(list) - 1) = ButLast(list)
  BY DEF ButLast
<1>2. SubSeq(list, Len(list) + 1, Len(list)) = <<>>
  OBVIOUS
<1>3. ButLast(list) \in Seq(FileExtent)
  BY ButLastFacts
<1>4. Len(ButLast(list)) + 1 \in DOMAIN new /\ new[Len(ButLast(list)) + 1] = f
  BY <1>3
<1> HIDE DEF new
<1>5. f \in FileExtent
  BY <1>4 DEF new
<1> QED  BY <1>1, <1>2, <1>5

\* What is appended to a list of extents is an extent.
LEMMA AppendedTyped ==
    ASSUME NEW list \in Seq(FileExtent), NEW e, Append(list, e) \in Seq(FileExtent)
    PROVE  e \in FileExtent
<1> DEFINE new == Append(list, e)
<1>1. Len(list) + 1 \in DOMAIN new /\ new[Len(list) + 1] = e
  OBVIOUS
<1> HIDE DEF new
<1> QED  BY <1>1 DEF new

Size == BlocksFor(txn.end) - FileBlocks
Last == LastExtent(inodes[txn.inode].extents)

ExtendTurn ==
    /\ ExtendExtent(Last, Size)
    /\ inodes' = PutInode(txn.inode,
         Expanded([offset |-> Last.offset, length |-> ExtendGranted(Last, Size)]))

PopTurn(node) ==
    /\ node \in heap
    /\ ~CanExtend(Last)
    /\ PopExtent(node, Size)
    /\ inodes' = PutInode(txn.inode,
         Expanded([offset |-> node.v, length |-> PopGranted(node, Size)]))

\* The lists of a transaction that expands file i, before and after a turn.
LEMMA ExpansionLists ==
    ASSUME Core, Core', NEW i \in DOMAIN inodes, Gone = {}, txn.pending = <<>>, txn' = txn,
           NEW new, DOMAIN inodes' = DOMAIN inodes, inodes'[i].extents = new,
           \A j \in DOMAIN inodes : j # i => inodes'[j] = inodes[j]
    PROVE  /\ ListsTyped(Lists) /\ 0 \in DOMAIN Lists /\ i \in DOMAIN Lists /\ i # 0
           /\ Lists[0] = <<>> /\ Lists'[0] = <<>>
           /\ Lists[i] = inodes[i].extents /\ Lists'[i] = new /\ new \in Seq(FileExtent)
           /\ DOMAIN Lists' = DOMAIN Lists
           /\ \A j \in DOMAIN Lists : j # i => Lists'[j] = Lists[j]
           /\ Held = AllOf(Lists) /\ Held' = AllOf(Lists')
<1>1. HeldIsListed /\ HeldIsListed'
  BY HeldListed, HeldListedNext
<1>2. Gone' = {} /\ txn'.pending = <<>>
  BY DEF Gone
<1>3. /\ DOMAIN Lists = {0} \cup DOMAIN inodes /\ Lists[0] = <<>> /\ ListsTyped(Lists)
      /\ \A j \in DOMAIN inodes : j # 0 /\ Lists[j] = inodes[j].extents
      /\ Held = AllOf(Lists)
  BY <1>1 DEF HeldIsListed
<1>4. /\ DOMAIN Lists' = {0} \cup DOMAIN inodes' /\ Lists'[0] = <<>>
      /\ \A j \in DOMAIN inodes' : Lists'[j] = inodes'[j].extents
      /\ Held' = AllOf(Lists') /\ ListsTyped(Lists)'
  BY <1>1, <1>2, PrimedLists DEF HeldIsListed
<1>5. ASSUME NEW j \in DOMAIN Lists, j # i PROVE Lists'[j] = Lists[j]
  BY <1>3, <1>4, <1>5
<1>6. Lists'[i] = new
  BY <1>4
<1>7. new \in Seq(FileExtent)
  BY <1>4, <1>6 DEF ListsTyped
<1> QED  BY <1>3, <1>4, <1>5, <1>6, <1>7

\* The last extent grows in place.
LEMMA ExpandExtends ==
    ASSUME Core, Core', Track, missteps = {}, Expanding, txn.inode \in DOMAIN inodes,
           stopped = "", UNCHANGED <<txn, saved, stopped>>, ExtendTurn
    PROVE  GrowStep /\ Track'
<1> DEFINE i == txn.inode
           list == inodes[i].extents
           g == ExtendGranted(Last, Size)
           f == [Last EXCEPT !.length = @ + g]
           n == Len(list)
<1>2. /\ txn.pending = <<>> /\ Gone = {} /\ Size \in Sizes /\ list \in Seq(FileExtent)
  BY Expansion DEF Size
<1>3. Last.length > 0
  BY Zenon DEF ExtendTurn, ExtendExtent, CanExtend
<1>4. list # <<>> /\ n \in DOMAIN list /\ Last = list[n] /\ Last \in Held
  <2>1. \/ list = <<>> /\ Last = NoExtent
        \/ list # <<>> /\ n \in DOMAIN list /\ Last = list[n] /\ Last \in Held
    BY <1>2, LastHeld DEF Last
  <2>2. Last # NoExtent
    BY <1>3, SomeExtent, Zenon
  <2> QED  BY <2>1, <2>2
<1>5. /\ DOMAIN inodes' = DOMAIN inodes
      /\ inodes'[i].extents = Append(ButLast(list), f)
      /\ \A j \in DOMAIN inodes : j # i => inodes'[j] = inodes[j]
  <2> DEFINE file == Expanded([offset |-> Last.offset, length |-> g])
  <2>1. file.extents = Append(ButLast(list), f)
    <3> HIDE DEF g
    <3> QED  BY <1>3 DEF Expanded, Last
  <2>2. inodes' = PutInode(i, file)
    BY DEF ExtendTurn
  <2> HIDE DEF g, f, file
  <2> QED  BY <2>1, <2>2 DEF PutInode
<1> DEFINE new == Append(ButLast(list), f)
<1>6. /\ ListsTyped(Lists) /\ 0 \in DOMAIN Lists /\ i \in DOMAIN Lists /\ i # 0
      /\ Lists[0] = <<>> /\ Lists'[0] = <<>>
      /\ Lists[i] = list /\ Lists'[i] = new /\ new \in Seq(FileExtent)
      /\ DOMAIN Lists' = DOMAIN Lists
      /\ \A j \in DOMAIN Lists : j # i => Lists'[j] = Lists[j]
      /\ Held = AllOf(Lists) /\ Held' = AllOf(Lists')
  <2> HIDE DEF new, Lists, Held
  <2>1. inodes'[i].extents = new /\ txn' = txn
    BY <1>5 DEF new
  <2> QED  BY <1>2, <1>5, <2>1, ExpansionLists
<1>7. /\ SubSeq(list, 1, n - 1) = ButLast(list) /\ SubSeq(list, n + 1, n) = <<>>
      /\ f \in FileExtent
  <2> HIDE DEF list, f
  <2> QED  BY <1>2, <1>4, <1>6, LastGrows
<1>8. f.offset = Last.offset
  <2>1. Last \in FileExtent
    <3> HIDE DEF list
    <3> QED  BY <1>2, <1>4, ButLastFacts DEF Last, list
  <2> HIDE DEF g
  <2> QED  BY <2>1 DEF FileExtent
<1>9. Once(Lists') /\ AllOf(Lists') = (AllOf(Lists) \ {Last}) \cup {f}
  <2> HIDE DEF Lists, f, list, i
  <2>1. Lists[i][n] = Last /\ Len(Lists[i]) = n
    BY <1>4, <1>6
  <2>2. ShrunkAt(Lists', Lists, i, n, f)
    <3>1. Lists'[0] = SubSeq(Lists[i], n + 1, Len(Lists[i]))
      BY <1>6, <1>7
    <3>2. Lists'[i] = Append(SubSeq(Lists[i], 1, n - 1), f)
      BY <1>6, <1>7
    <3> QED  BY <1>6, <1>7, <1>8, <2>1, <3>1, <3>2 DEF ShrunkAt
  <2>3. EntryOf(Lists, i, n)
    BY <1>4, <1>6 DEF EntryOf, Track
  <2> HIDE DEF n
  <2>4. Replaced(Lists', Lists, Lists[i][n], f)
    BY <2>2, <2>3, CutListed
  <2> QED  BY <2>1, <2>4 DEF Replaced
<1>10. Held' = (Held \ {Last}) \cup {f}
  BY <1>6, <1>9
<1>11. Track'
  BY <1>9, PrimedLists, SavedStays DEF Track
<1>12. AllocExtend(Last, Size)
  <2> HIDE DEF Held
  <2> QED  BY <1>10, SavedStays DEF AllocExtend, Committed, Running, ExtendTurn
<1>13. AllocGrowing
  <2> HIDE DEF Held
  <2> QED  BY <1>2, <1>4, <1>12 DEF AllocGrowing
<1> QED  BY <1>11, <1>13 DEF GrowStep

\* Another extent is obtained: it begins at a block where no file has one.
LEMMA ExpandPops ==
    ASSUME Core, Core', Track, missteps = {}, Apt, Expanding, txn.inode \in DOMAIN inodes,
           stopped = "", UNCHANGED <<txn, saved, stopped>>, NEW node \in heap, PopTurn(node)
    PROVE  GrowStep /\ Track'
<1> DEFINE i == txn.inode
           list == inodes[i].extents
           e == [offset |-> node.v, length |-> PopGranted(node, Size)]
<1>2. /\ txn.pending = <<>> /\ Gone = {} /\ Size \in Sizes /\ list \in Seq(FileExtent)
  BY Expansion DEF Size
<1>3. Last \in Held \cup {NoExtent}
  BY <1>2, LastHeld DEF Last
<1>4. ~(Last.length > 0 /\ Last.offset = node.v)
  <2>1. Last \in Held => Last.offset # node.v
    BY DEF Apt
  <2>2. Last = NoExtent => ~(Last.length > 0)
    BY SomeExtent, Zenon
  <2> QED  BY <1>3, <2>1, <2>2, Zenon
<1>5. /\ DOMAIN inodes' = DOMAIN inodes
      /\ inodes'[i].extents = Append(list, e)
      /\ \A j \in DOMAIN inodes : j # i => inodes'[j] = inodes[j]
  <2> DEFINE file == Expanded(e)
  <2>1. file.extents = Append(list, e)
    <3>1. e.offset = node.v
      OBVIOUS
    <3> HIDE DEF e
    <3> QED  BY <1>4, <3>1 DEF Expanded, Last
  <2>2. inodes' = PutInode(i, file)
    BY DEF PopTurn
  <2> HIDE DEF e, file
  <2> QED  BY <2>1, <2>2 DEF PutInode
<1> DEFINE new == Append(list, e)
<1>6. /\ ListsTyped(Lists) /\ 0 \in DOMAIN Lists /\ i \in DOMAIN Lists /\ i # 0
      /\ Lists[i] = list /\ Lists'[i] = new /\ new \in Seq(FileExtent)
      /\ DOMAIN Lists' = DOMAIN Lists
      /\ \A j \in DOMAIN Lists : j # i => Lists'[j] = Lists[j]
      /\ Held = AllOf(Lists) /\ Held' = AllOf(Lists')
  <2> HIDE DEF new, Lists, Held
  <2>1. inodes'[i].extents = new /\ txn' = txn
    BY <1>5 DEF new
  <2> QED  BY <1>2, <1>5, <2>1, ExpansionLists
<1>7. e \in FileExtent
  <2> HIDE DEF list, e
  <2> QED  BY <1>2, <1>6, AppendedTyped
<1>8. \A a \in AllOf(Lists) : a.offset # e.offset
  <2>1. \A a \in Held : a.offset # node.v
    BY DEF Apt
  <2> QED  BY <1>6, <2>1
<1>9. Once(Lists') /\ AllOf(Lists') = AllOf(Lists) \cup {e}
  <2> HIDE DEF Lists, e, list, i
  <2>1. Once(Lists)
    BY DEF Track
  <2>2. AppendedAt(Lists', Lists, i, e)
    BY <1>6, <1>7, <1>8 DEF AppendedAt
  <2>3. Added(Lists', Lists, e)
    BY <1>6, <2>1, <2>2, AppendListed
  <2> QED  BY <2>3 DEF Added
<1>10. Held' = Held \cup {e}
  BY <1>6, <1>9
<1>11. Track'
  BY <1>9, PrimedLists, SavedStays DEF Track
<1>12. AllocAcquire(Last, Size)
  <2> HIDE DEF Held
  <2> QED  BY <1>4, <1>10, SavedStays DEF AllocAcquire, Committed, Running, PopTurn
<1>13. AllocGrowing
  <2> HIDE DEF Held
  <2>1. Last \in Held \cup {NoExtent}
    BY <1>3 
  <2> QED  BY <1>2, <1>12, <2>1 DEF AllocGrowing
<1> QED  BY <1>11, <1>13 DEF GrowStep

\* The loop of mtl_expand_inode: a turn is one of the allocator's.
LEMMA ExpandStepMaps ==
    ASSUME Core, Core', Track, missteps = {}, Apt, ExpandStep
    PROVE  GrowStep /\ Track'
<1>1. /\ Expanding /\ txn.inode \in DOMAIN inodes /\ stopped = ""
      /\ UNCHANGED <<txn, saved, stopped>>
  BY DEF ExpandStep, Missing
<1>2. ExtendTurn \/ \E node \in heap : PopTurn(node)
  BY Zenon DEF ExpandStep, ExtendTurn, PopTurn, Size, Last
<1>3. CASE ExtendTurn
  BY <1>1, <1>3, ExpandExtends
<1>4. CASE \E node \in heap : PopTurn(node)
  BY <1>1, <1>4, ExpandPops
<1> QED  BY <1>2, <1>3, <1>4

\* A file that was unlinked stops the program, and so does the allocator when
\* it has nothing left or one of its assertions fails.
LEMMA ExpandAbortsMaps ==
    ASSUME Core, Core', Track, ExpandAborts
    PROVE  GrowStep /\ Track'
<1>1. /\ Expanding /\ stopped = ""
      /\ UNCHANGED <<extents, heap, missteps, inodes, txn, saved>>
  BY DEF ExpandAborts, dbVars
<1>2. Gone' = Gone /\ txn'.pending = txn.pending
  BY <1>1 DEF Gone
<1>3. Held' = Held /\ Track'
  BY <1>1, <1>2, SameLists
<1>4. CASE Missing /\ stopped' = "file"
  <2>1. ListedIn(saved'.inodes) = ListedIn(saved.inodes)
    BY <1>1
  <2>2. UNCHANGED allocVars
    <3> HIDE DEF Held
    <3> QED  BY <1>1, <1>3, <1>4, <2>1, AllocStutters
  <2> QED  BY <1>3, <2>2 DEF GrowStep
<1>5. CASE ~Missing /\ ReserveAborts(Last) /\ stopped' = "allocator"
  <2>1. txn.inode \in DOMAIN inodes
    BY <1>5 DEF Missing
  <2>2. Gone = {} /\ inodes[txn.inode].extents \in Seq(FileExtent)
    BY <1>1, <2>1, Expansion
  <2>3. Last \in Held \cup {NoExtent}
    BY <2>1, <2>2, LastHeld DEF Last
  <2>4. Last \in Held \cup {NoExtent}
    BY <2>3 
  <2>5. AllocAbort(Last)
    <3> HIDE DEF Held
    <3>1. ListedIn(saved.inodes)' = ListedIn(saved.inodes)
      BY <1>1, SavedStays
    <3> QED  BY <1>1, <1>3, <1>5, <3>1, Zenon DEF AllocAbort, Committed, Running
  <2> HIDE DEF Held
  <2>6. AllocGrowing
    BY <2>4, <2>5 DEF AllocGrowing
  <2> QED  BY <1>3, <2>6 DEF GrowStep
<1> QED  BY <1>3, <1>4, <1>5 DEF ExpandAborts, Last

\* what mtl_truncate does to file i, whose new list is `new', when extent k is
\* the first that it cuts
FileCut(i, k, new) ==
    /\ DOMAIN inodes' = DOMAIN inodes
    /\ inodes'[i].extents = new
    /\ \A j \in DOMAIN inodes : j # i => inodes'[j] = inodes[j]
    /\ txn = NoTxn /\ txn'.op = "truncate"
    /\ txn'.pending = SubSeq(inodes[i].extents, k + 1, Len(inodes[i].extents))
    /\ stopped = "" /\ UNCHANGED <<saved, stopped>>

ListsCut(i, k, new) ==
    /\ ListsTyped(Lists) /\ 0 \in DOMAIN Lists /\ i \in DOMAIN Lists /\ i # 0
    /\ Lists[0] = <<>> /\ Lists[i] = inodes[i].extents /\ Lists'[i] = new
    /\ Lists'[0] = SubSeq(inodes[i].extents, k + 1, Len(inodes[i].extents))
    /\ DOMAIN Lists' = DOMAIN Lists
    /\ \A j \in DOMAIN Lists : j # i /\ j # 0 => Lists'[j] = Lists[j]
    /\ Held = AllOf(Lists) /\ Held' = AllOf(Lists')

\* Then the lists are cut, too, and what lies behind is still to be freed.
LEMMA TruncatedLists ==
    ASSUME Core, Core', NEW i \in DOMAIN inodes, NEW k, NEW new, FileCut(i, k, new)
    PROVE  ListsCut(i, k, new)
<1> DEFINE rest == SubSeq(inodes[i].extents, k + 1, Len(inodes[i].extents))
<1>0. /\ DOMAIN inodes' = DOMAIN inodes /\ inodes'[i].extents = new
      /\ \A j \in DOMAIN inodes : j # i => inodes'[j] = inodes[j]
      /\ txn = NoTxn /\ txn'.op = "truncate" /\ txn'.pending = rest
  BY DEF FileCut
<1> HIDE DEF rest
<1>1. HeldIsListed /\ HeldIsListed'
  BY HeldListed, HeldListedNext
<1>2. Gone = {} /\ Gone' = {} /\ txn.pending = <<>>
  BY <1>0 DEF Gone, NoTxn
<1>3. /\ DOMAIN Lists = {0} \cup DOMAIN inodes /\ Lists[0] = <<>> /\ ListsTyped(Lists)
      /\ \A j \in DOMAIN inodes : j # 0 /\ Lists[j] = inodes[j].extents
      /\ Held = AllOf(Lists)
  BY <1>1, <1>2 DEF HeldIsListed
<1>4. /\ DOMAIN Lists' = {0} \cup DOMAIN inodes' /\ Lists'[0] = rest
      /\ \A j \in DOMAIN inodes' : Lists'[j] = inodes'[j].extents
      /\ Held' = AllOf(Lists') /\ ListsTyped(Lists)'
  BY <1>0, <1>1, <1>2, PrimedLists, Zenon DEF HeldIsListed
<1>5. ASSUME NEW j \in DOMAIN Lists, j # i, j # 0 PROVE Lists'[j] = Lists[j]
  BY <1>0, <1>3, <1>4, <1>5
<1>6. Lists'[i] = new
  BY <1>0, <1>4
<1> QED  BY <1>0, <1>3, <1>4, <1>5, <1>6, Zenon DEF ListsCut, rest

ShrinkTurn(i, k, f) ==
    /\ inodes[i].extents[k].offset \in DOMAIN extents
    /\ TruncateExtent(inodes[i].extents[k], f.length)
    /\ FileCut(i, k, Append(SubSeq(inodes[i].extents, 1, k - 1), f))

DropTurn(i, k) ==
    /\ inodes[i].extents[k].offset \in DOMAIN extents
    /\ FreeExtent(extents, inodes[i].extents[k].offset,
                  missteps \cup Short(inodes[i].extents[k]))
    /\ FileCut(i, k, SubSeq(inodes[i].extents, 1, k - 1))

\* The first extent that reaches past the new end keeps some of its blocks.
LEMMA TruncateShrinks ==
    ASSUME Core, Core', Track, missteps = {}, NEW i \in DOMAIN inodes,
           NEW k \in DOMAIN inodes[i].extents, NEW e, e = inodes[i].extents[k],
           NEW blocks \in 1 .. e.length, NEW f, f = [e EXCEPT !.length = blocks],
           f \in FileExtent, f.offset = e.offset, f.length = blocks, ShrinkTurn(i, k, f)
    PROVE  AllocStep /\ Track'
<1> DEFINE list == inodes[i].extents
           new == Append(SubSeq(list, 1, k - 1), f)
           rest == SubSeq(list, k + 1, Len(list))
<1>1. /\ e.offset \in DOMAIN extents /\ TruncateExtent(e, blocks) /\ FileCut(i, k, new)
  BY DEF ShrinkTurn
<1>2. stopped = "" /\ saved' = saved /\ stopped' = stopped
  BY <1>1 DEF FileCut
<1>3. /\ ListsTyped(Lists) /\ 0 \in DOMAIN Lists /\ i \in DOMAIN Lists /\ i # 0
      /\ Lists[0] = <<>> /\ Lists'[0] = rest /\ Lists[i] = list /\ Lists'[i] = new
      /\ DOMAIN Lists' = DOMAIN Lists
      /\ \A j \in DOMAIN Lists : j # i /\ j # 0 => Lists'[j] = Lists[j]
      /\ Held = AllOf(Lists) /\ Held' = AllOf(Lists')
  <2>1. ListsCut(i, k, new)
    <3> HIDE DEF new
    <3> QED  BY <1>1, TruncatedLists
  <2> HIDE DEF Lists, Held
  <2> QED  BY <2>1 DEF ListsCut
<1>4. Once(Lists') /\ AllOf(Lists') = (AllOf(Lists) \ {e}) \cup {f}
  <2> HIDE DEF Lists
  <2>1. ShrunkAt(Lists', Lists, i, k, f)
    BY <1>3 DEF ShrunkAt
  <2>2. EntryOf(Lists, i, k)
    BY <1>3 DEF EntryOf, Track
  <2>3. Replaced(Lists', Lists, Lists[i][k], f)
    BY <2>1, <2>2, CutListed
  <2> QED  BY <1>3, <2>3 DEF Replaced
<1>5. Held' = (Held \ {e}) \cup {f} /\ e \in Held
  BY <1>3, <1>4, AllOfFacts
<1>6. Track'
  BY <1>2, <1>4, PrimedLists, SavedStays DEF Track
<1>7. AllocShrink(e, blocks)
  <2> HIDE DEF Held
  <2> QED  BY <1>1, <1>2, <1>5, SavedStays DEF AllocShrink, Committed, Running
<1>8. AllocNext
  <2> HIDE DEF Held
  <2> QED  BY <1>5, <1>7 DEF AllocNext
<1> QED  BY <1>6, <1>8 DEF AllocStep

\* The new end is where that extent begins: it goes.
LEMMA TruncateDrops ==
    ASSUME Core, Core', Track, missteps = {}, NEW i \in DOMAIN inodes,
           NEW k \in DOMAIN inodes[i].extents, NEW e, e = inodes[i].extents[k],
           DropTurn(i, k)
    PROVE  AllocStep /\ Track'
<1> DEFINE list == inodes[i].extents
           new == SubSeq(list, 1, k - 1)
           rest == SubSeq(list, k + 1, Len(list))
<1>1. /\ e.offset \in DOMAIN extents /\ FileCut(i, k, new)
      /\ FreeExtent(extents, e.offset, missteps \cup Short(e))
  BY DEF DropTurn
<1>2. stopped = "" /\ saved' = saved /\ stopped' = stopped
  BY <1>1 DEF FileCut
<1>3. /\ ListsTyped(Lists) /\ 0 \in DOMAIN Lists /\ i \in DOMAIN Lists /\ i # 0
      /\ Lists[0] = <<>> /\ Lists'[0] = rest /\ Lists[i] = list /\ Lists'[i] = new
      /\ DOMAIN Lists' = DOMAIN Lists
      /\ \A j \in DOMAIN Lists : j # i /\ j # 0 => Lists'[j] = Lists[j]
      /\ Held = AllOf(Lists) /\ Held' = AllOf(Lists')
  <2>1. ListsCut(i, k, new)
    <3> HIDE DEF new
    <3> QED  BY <1>1, TruncatedLists, ZenonT(30)
  <2> HIDE DEF Lists, Held
  <2> QED  BY <2>1 DEF ListsCut
<1>4. Once(Lists') /\ AllOf(Lists') = AllOf(Lists) \ {e}
  <2> HIDE DEF Lists
  <2>1. CutAt(Lists', Lists, i, k)
    BY <1>3 DEF CutAt
  <2>2. Once(Lists)
    BY DEF Track
  <2>3. AllOf(Lists') = AllOf(Lists) \ {Lists[i][k]} /\ Once(Lists')
    BY <1>3, <2>1, <2>2, DropListed
  <2> QED  BY <1>3, <2>3
<1>5. Held' = Held \ {e} /\ e \in Held
  BY <1>3, <1>4, AllOfFacts
<1>6. Track'
  BY <1>2, <1>4, PrimedLists, SavedStays DEF Track
<1>7. AllocRelease(e)
  <2> HIDE DEF Held
  <2> QED  BY <1>1, <1>2, <1>5, SavedStays, Zenon DEF AllocRelease, Committed, Running
<1>8. AllocNext
  <2> HIDE DEF Held
  <2> QED  BY <1>5, <1>7 DEF AllocNext
<1> QED  BY <1>6, <1>8 DEF AllocStep

\* The distance from the beginning of a range.
LEMMA WithinRange ==
    ASSUME NEW o \in Nat, NEW a \in Nat, NEW b \in Nat, a <= o, o < a + b
    PROVE  o - a \in Nat /\ o - a <= b
OBVIOUS

\* mtl_truncate to less: the extent that it begins with is one of the file's.
LEMMA TruncateMaps ==
    ASSUME Core, Core', Track, missteps = {}, Apt, NEW t, NEW i, NEW offset \in Offsets,
           TruncateDownBegin(t, i, offset)
    PROVE  AllocStep /\ Track'
<1> DEFINE list == inodes[i].extents
<1>1. /\ txn = NoTxn /\ i \in DOMAIN inodes /\ offset \in Nat /\ stopped = ""
  BY FilesAssumption, ZenonT(30) DEF TruncateDownBegin, Opened
<1>2. list \in Seq(FileExtent)
  BY <1>1, FilesFacts, ZenonT(30) DEF Core
<1>3. PICK k \in 1 .. Len(list) :
        LET before == NumBlocksOf(SubSeq(list, 1, k - 1)) * BlockSize
        IN  /\ before <= offset
            /\ offset < before + list[k].length * BlockSize
            /\ IF list[k].offset \in DOMAIN extents
               THEN /\ Cut(i, k, BlocksFor(offset - before), offset)
                    /\ txn' = Begin(t, "truncate", i, 0, SubSeq(list, k + 1, Len(list)))
                    /\ calls' = [calls EXCEPT ![t] = Call("truncate", i, offset, 0)]
                    /\ UNCHANGED <<nextId, saved, loaded, stopped>>
               ELSE /\ stopped' = "allocator"
                    /\ UNCHANGED <<dbVars, txn, saved, calls, loaded>>
  BY ZenonT(30) DEF TruncateDownBegin
<1> DEFINE kept == SubSeq(list, 1, k - 1)
           n == NumBlocksOf(kept)
           x == offset - n * BlockSize
           blocks == BlocksFor(x)
           e == list[k]
           f == [e EXCEPT !.length = blocks]
<1>4. /\ e \in FileExtent /\ e.offset \in Nat /\ e.length \in Nat
      /\ kept \in Seq(FileExtent) /\ k \in DOMAIN list
  BY <1>2, ListTyped, SubSeqFacts
<1>5. CASE e.offset \notin DOMAIN extents
  <2>1. /\ stopped' = "allocator" /\ UNCHANGED <<extents, heap, missteps, inodes, txn, saved>>
    BY <1>3, <1>5, ZenonT(30) DEF dbVars
  <2>2. Gone = {} /\ Gone' = Gone /\ txn'.pending = txn.pending
    BY <1>1, <2>1 DEF Gone, NoTxn
  <2>3. Held' = Held /\ Track'
    BY <2>1, <2>2, SameLists
  <2>4. e \in Held
    <3>1. HeldIsListed
      BY HeldListed
    <3>2. i \in DOMAIN Lists /\ Lists[i] = list
      BY <1>1, <2>2, <3>1 DEF HeldIsListed
    <3>3. e \in AllOf(Lists)
      BY <1>4, <3>2, AllOfFacts
    <3> QED  BY <3>1, <3>3 DEF HeldIsListed
  <2>5. e.length > 0
    BY <2>4 DEF Apt
  <2>6. AllocAbort(e)
    <3> HIDE DEF Held, e
    <3>1. ListedIn(saved.inodes)' = ListedIn(saved.inodes)
      BY <2>1, SavedStays
    <3> QED  BY <1>1, <1>5, <2>1, <2>3, <2>5, <3>1, Zenon DEF AllocAbort, Committed, Running
  <2>7. AllocNext
    <3> HIDE DEF Held, e
    <3> QED  BY <2>4, <2>6 DEF AllocNext, AllocGrowing
  <2> QED  BY <2>3, <2>7 DEF AllocStep
<1>6. CASE e.offset \in DOMAIN extents
  <2>1. /\ n * BlockSize <= offset /\ offset < n * BlockSize + e.length * BlockSize
        /\ Cut(i, k, blocks, offset)
        /\ txn' = Begin(t, "truncate", i, 0, SubSeq(list, k + 1, Len(list)))
        /\ UNCHANGED <<saved, stopped>>
    BY <1>3, <1>6, ZenonT(30)
  <2>2. n \in Nat
    BY <1>4, SumNat, ZenonT(30)
  <2> HIDE DEF n
  <2>3. /\ x \in Nat /\ x <= e.length * BlockSize
    <3> DEFINE a == n * BlockSize
               b == e.length * BlockSize
    <3>1. a \in Nat /\ b \in Nat
      BY <1>4, <2>2, FilesAssumption
    <3>2. a <= offset /\ offset < a + b
      BY <2>1
    <3> HIDE DEF a, b
    <3>3. offset - a \in Nat /\ offset - a <= b
      BY <1>1, <3>1, <3>2, WithinRange, Zenon
    <3> QED  BY <3>3 DEF a, b
  <2> HIDE DEF x
  <2>4. blocks \in Nat /\ blocks <= e.length
    BY <1>4, <2>3, BlocksForFacts
  <2> HIDE DEF blocks
  <2>5. f \in FileExtent /\ f.offset = e.offset /\ f.length = blocks
    BY <1>4, <2>4 DEF FileExtent
  <2>6. txn'.op = "truncate" /\ txn'.pending = SubSeq(list, k + 1, Len(list))
    BY <2>1 DEF Begin
  <2>7. ASSUME NEW new, inodes' = PutInode(i, [length |-> offset, extents |-> new])
        PROVE  FileCut(i, k, new)
    <3>1. /\ DOMAIN inodes' = DOMAIN inodes /\ inodes'[i].extents = new
          /\ \A j \in DOMAIN inodes : j # i => inodes'[j] = inodes[j]
      BY <1>1, <2>7 DEF PutInode
    <3> QED  BY <1>1, <2>1, <2>6, <3>1, Zenon DEF FileCut
  <2>8. CASE blocks > 0
    <3>1. /\ TruncateExtent(e, blocks)
          /\ inodes' = PutInode(i, [length |-> offset, extents |-> Append(kept, f)])
      BY <2>1, <2>8, ZenonT(30) DEF Cut
    <3>2. FileCut(i, k, Append(kept, f))
      BY <2>7, <3>1, Zenon
    <3>3. f = [e EXCEPT !.length = blocks] /\ blocks \in 1 .. e.length
      BY <1>4, <2>4, <2>8
    <3> HIDE DEF f
    <3>4. ShrinkTurn(i, k, f)
      BY <1>6, <2>5, <3>1, <3>2, Zenon DEF ShrinkTurn
    <3> QED  BY <1>1, <1>4, <2>5, <3>3, <3>4, TruncateShrinks
  <2>9. CASE ~(blocks > 0)
    <3>1. /\ FreeExtent(extents, e.offset, missteps \cup Short(e))
          /\ inodes' = PutInode(i, [length |-> offset, extents |-> kept])
      BY <2>1, <2>9, ZenonT(30) DEF Cut
    <3>2. FileCut(i, k, kept)
      BY <2>7, <3>1, ZenonT(30)
    <3>3. DropTurn(i, k)
      BY <1>6, <3>1, <3>2, Zenon DEF DropTurn
    <3> QED  BY <1>1, <1>4, <3>3, TruncateDrops
  <2> QED  BY <2>8, <2>9
<1> QED  BY <1>5, <1>6

\* What a growing allocator does, an allocator does.
LEMMA GrowStepAllocStep == GrowStep => AllocStep
BY DEF GrowStep, AllocStep, AllocNext

\* Every step of the calls is one of the allocator, or changes nothing there.
LEMMA NextMaps ==
    ASSUME FilesInv, FilesInv', Track, missteps = {} => Apt,
           Next /\ (missteps = {} \/ Restart)
    PROVE  AllocStep /\ Track'
<1>0. Core /\ Core'
  BY DEF FilesInv
<1>1. CASE Restart
  BY <1>0, <1>1, RestartRestarts, GrowStepAllocStep
<1>2. CASE ~Restart
  <2>1. missteps = {} /\ Apt
    BY <1>2
  <2>2. ASSUME NEW t \in Threads, Create(t) PROVE AllocStep /\ Track'
    BY <1>0, <2>1, <2>2, CreateQuiet, GrowStepAllocStep
  <2>3. ASSUME NEW t \in Threads, NEW i \in Inodes, Grows(t, i) PROVE AllocStep /\ Track'
    BY <2>3, ThreadsQuiet, GrowStepAllocStep
  <2>4. ASSUME NEW t \in Threads, NEW i \in Inodes, Shrinks(t, i) PROVE AllocStep /\ Track'
    <3>1. ASSUME NEW offset \in Offsets, TruncateDownBegin(t, i, offset)
          PROVE  AllocStep /\ Track'
      BY <1>0, <2>1, <3>1, TruncateMaps
    <3>2. CASE UnlinkBegin(t, i)
      BY <1>0, <2>1, <3>2, UnlinkQuiet, GrowStepAllocStep
    <3>3. CASE FileGone(t, i)
      BY <3>3, ThreadsQuiet, GrowStepAllocStep
    <3> QED  BY <2>4, <3>1, <3>2, <3>3 DEF Shrinks
  <2>5. ASSUME NEW t \in Threads, StorageAccess(t) PROVE AllocStep /\ Track'
    BY <2>5, ThreadsQuiet, GrowStepAllocStep
  <2>6. CASE ExpandStep
    BY <1>0, <2>1, <2>6, ExpandStepMaps, GrowStepAllocStep
  <2>7. CASE ExpandAborts
    BY <1>0, <2>7, ExpandAbortsMaps, GrowStepAllocStep
  <2>8. CASE FreeStep
    BY <1>0, <2>1, <2>8, FreeReleases
  <2>9. CASE Commit
    BY <1>0, <2>1, <2>9, CommitCommits, GrowStepAllocStep
  <2> QED  BY <1>2, <2>2, <2>3, <2>4, <2>5, <2>6, <2>7, <2>8, <2>9 DEF Next, Transact
<1> QED  BY <1>1, <1>2

----------------------------------------------------------------------------
(* Where the allocator starts, and files that only grow. *)

\* Formatted storage is the allocator's initial state.
LEMMA InitAlloc == Init => AllocInit
<1> SUFFICES ASSUME Init PROVE AllocInit
  OBVIOUS
<1>0. DOMAIN inodes = {} /\ DOMAIN saved.inodes = {} /\ txn.pending = <<>>
  BY DEF Init, Snapshot, NoTxn
<1>1. Held = {} /\ ListedIn(saved.inodes) = {}
  <2>1. HeldIsListed
    BY InitFilesInv, HeldListed DEF FilesInv
  <2>2. DOMAIN Lists = {0} /\ Lists[0] = <<>> /\ Held = AllOf(Lists)
    BY <1>0, <2>1 DEF HeldIsListed
  <2>3. AllOf(Lists) = {}
    BY <2>2, AllOfFacts
  <2>4. ListedIn(saved.inodes) = {}
    BY <1>0 DEF ListedIn
  <2> QED  BY <2>2, <2>3, <2>4
<1> HIDE DEF Held
<1>2. saved.extents = extents /\ saved.heap = heap /\ saved.missteps = missteps
  BY DEF Init, Snapshot
<1>3. /\ extents = InitializedExtents([o \in {} |-> NoExtent])
      /\ heap = InitializedHeap([o \in {} |-> NoExtent], {})
  BY DEF Init
<1>4. missteps = {} /\ stopped # "allocator"
  BY DEF Init
<1> QED  BY <1>1, <1>2, <1>3, <1>4, ZenonT(30)
         DEF AllocInit, Committed, Uncommitted, Running

\* Nothing is ever to be freed.
LEMMA NothingPending ==
    ASSUME txn.pending = <<>>, NextGrowing \/ UNCHANGED vars
    PROVE  txn'.pending = <<>>
<1>0. NoTxn.pending = <<>>
  BY ZenonT(30) DEF NoTxn
<1>1. ASSUME NEW t \in Threads, NEW i \in Inodes, Grows(t, i) PROVE txn'.pending = <<>>
  <2>1. \A end : /\ Begin(t, "write", i, end, <<>>).pending = <<>>
                 /\ Begin(t, "truncate", i, end, <<>>).pending = <<>>
    BY DEF Begin
  <2>2. CASE Open(t, i) \/ \E offset \in Offsets, length \in Lengths : ReadBegin(t, i, offset, length)
    BY <2>2 DEF Open, ReadBegin
  <2>3. CASE \E offset \in Offsets, length \in Lengths : WriteBegin(t, i, offset, length)
    BY <2>1, <2>3 DEF WriteBegin
  <2>4. CASE \E offset \in Offsets : TruncateUpBegin(t, i, offset)
    BY <2>1, <2>4 DEF TruncateUpBegin
  <2> QED  BY <1>1, <2>2, <2>3, <2>4 DEF Grows
<1>2. ASSUME NEW t \in Threads, Create(t) \/ StorageAccess(t) PROVE txn' = txn
  BY <1>2 DEF Create, StorageAccess, StorageLoad, StorageWalk
<1>3. CASE Transact
  BY <1>0, <1>3 DEF Transact, ExpandStep, ExpandAborts, FreeStep, Commit
<1>4. CASE Restart
  BY <1>0, <1>4 DEF Restart
<1>5. CASE UNCHANGED vars
  BY <1>5 DEF vars
<1> QED  BY <1>1, <1>2, <1>3, <1>4, <1>5 DEF NextGrowing

\* Every step is one of an allocator whose files only grow.
LEMMA NextGrowMaps ==
    ASSUME FilesInv, FilesInv', Track, missteps = {}, Apt, txn.pending = <<>>,
           NextGrowing \/ UNCHANGED vars
    PROVE  GrowStep /\ Track'
<1>0. Core /\ Core'
  BY DEF FilesInv
<1>1. CASE Restart
  BY <1>0, <1>1, RestartRestarts
<1>2. ASSUME NEW t \in Threads, Create(t) PROVE GrowStep /\ Track'
  BY <1>0, <1>2, CreateQuiet
<1>3. ASSUME NEW t \in Threads, NEW i \in Inodes, Grows(t, i) PROVE GrowStep /\ Track'
  BY <1>3, ThreadsQuiet
<1>4. ASSUME NEW t \in Threads, StorageAccess(t) PROVE GrowStep /\ Track'
  BY <1>4, ThreadsQuiet
<1>5. CASE ExpandStep
  BY <1>0, <1>5, ExpandStepMaps
<1>6. CASE ExpandAborts
  BY <1>0, <1>6, ExpandAbortsMaps
<1>7. CASE Commit
  BY <1>0, <1>7, CommitCommits
<1>8. CASE UNCHANGED vars
  <2>1. UNCHANGED <<dbVars, saved>> /\ txn' = txn /\ stopped' = stopped
    BY <1>8 DEF vars, dbVars
  <2>2. txn'.pending = txn.pending /\ Gone' = Gone
    BY <2>1 DEF Gone
  <2> QED  BY <2>1, <2>2, QuietStep
<1>9. ~FreeStep
  BY DEF FreeStep
<1> QED  BY <1>1, <1>2, <1>3, <1>4, <1>5, <1>6, <1>7, <1>8, <1>9 DEF NextGrowing, Transact

----------------------------------------------------------------------------
(* The theorems about the allocator, for the extents that the files hold. *)
Proved ==
    INSTANCE ExtentAllocatorProofs WITH
        Sizes <- Sizes,
        held <- Held,
        saved <- [extents |-> saved.extents, heap |-> saved.heap,
                  held |-> ListedIn(saved.inodes), missteps |-> saved.missteps],
        running <- stopped # "allocator"

\* The operations that the files call are those that the theorems are about.
LEMMA SameTypes ==
    /\ Proved!Node = Node /\ Proved!FileExtent = FileExtent /\ Proved!ExtentRecord = ExtentRecord
    /\ Proved!Misstep = Misstep /\ Proved!NoExtent = NoExtent
BY DEF Proved!Node, Node, Proved!FileExtent, FileExtent, Proved!ExtentRecord, ExtentRecord,
       Proved!Statuses, Statuses, Proved!Misstep, Misstep, Proved!NoExtent, NoExtent

\* The same holds of the operations the allocator's proofs are about: reserve,
LEMMA SameReserve ==
    ASSUME NEW e, NEW n, NEW node
    PROVE  /\ Proved!CanExtend(e) <=> CanExtend(e)
           /\ Proved!ExtendGranted(e, n) = ExtendGranted(e, n)
           /\ Proved!PopGranted(node, n) = PopGranted(node, n)
           /\ Proved!ExtendExtent(e, n) <=> ExtendExtent(e, n)
           /\ Proved!PopExtent(node, n) <=> PopExtent(node, n)
           /\ Proved!ReserveAborts(e) <=> ReserveAborts(e)
BY Zenon DEF Proved!CanExtend, CanExtend, Proved!ExtendGranted, ExtendGranted, Proved!PopGranted,
       PopGranted,
       Proved!ExtendExtent, ExtendExtent, Proved!PopExtent, PopExtent, Proved!ReserveAborts,
       ReserveAborts, Proved!ExtendAsserts, ExtendAsserts, Proved!Granted, Granted, Proved!Short, Short,
       Proved!CarvedExtents, CarvedExtents, Proved!CarvedHeap, CarvedHeap, Proved!PutExtent, PutExtent,
       Proved!DelExtent, DelExtent, Proved!FreeRecord, FreeRecord, Proved!CommittedRecord,
       CommittedRecord, Proved!INVALID_NODE, INVALID_NODE, Proved!HeapInsert, HeapInsert,
       Proved!HeapDelete, HeapDelete, Proved!IsHeapMax, IsHeapMax, Proved!NodeLess, NodeLess,
       Proved!ByteLess, ByteLess, Proved!KeyBytes, KeyBytes

\* free and truncate,
LEMMA SameFree ==
    ASSUME NEW x, NEW o, NEW noted, NEW e, NEW n
    PROVE  /\ Proved!FreeExtent(x, o, noted) <=> FreeExtent(x, o, noted)
           /\ Proved!TruncateExtent(e, n) <=> TruncateExtent(e, n)
           /\ Proved!Short(e) = Short(e)
BY Zenon DEF Proved!FreeExtent, FreeExtent, Proved!TruncateExtent, TruncateExtent, Proved!Short, Short,
       Proved!FreeNext, FreeNext, Proved!MdbNext, MdbNext, Proved!ByteLess, ByteLess, Proved!KeyBytes,
       KeyBytes, Proved!PutExtent, PutExtent, Proved!DelExtent, DelExtent, Proved!HeapInsert,
       HeapInsert, Proved!HeapDelete, HeapDelete, Proved!HeapIncreaseKey, HeapIncreaseKey,
       Proved!IncreasedNode, IncreasedNode, Proved!FreeRecord, FreeRecord, Proved!CommittedRecord,
       CommittedRecord, Proved!INVALID_NODE, INVALID_NODE

\* and the initialisation.
LEMMA SameInitialized ==
    ASSUME NEW x, NEW h
    PROVE  /\ Proved!InitializedExtents(x) = InitializedExtents(x)
           /\ Proved!InitializedHeap(x, h) = InitializedHeap(x, h)
BY DEF Proved!InitializedExtents, InitializedExtents, Proved!InitializedHeap, InitializedHeap,
       Proved!PutExtent, PutExtent, Proved!FreeRecord, FreeRecord, Proved!HeapInsert, HeapInsert

\* So are the steps.
LEMMA SameNext ==
    /\ AllocNext <=> Proved!Next
    /\ AllocGrowing <=> Proved!NextGrowing
    /\ AllocInit <=> Proved!Init
    /\ UNCHANGED allocVars <=> UNCHANGED Proved!vars
<1> USE DEF Committed, Running
<1>1. \A e, n : AllocExtend(e, n) <=> Proved!Extend(e, n)
  BY SameReserve, Zenon DEF AllocExtend, Proved!Extend
<1>2. \A e, n : AllocAcquire(e, n) <=> Proved!Acquire(e, n)
  BY Zenon DEF AllocAcquire, Proved!Acquire, Proved!CanExtend, CanExtend, Proved!PopGranted,
     PopGranted, Proved!Granted, Granted, Proved!PopExtent, PopExtent, Proved!CarvedExtents,
     CarvedExtents, Proved!CarvedHeap, CarvedHeap, Proved!PutExtent, PutExtent,
     Proved!FreeRecord, FreeRecord, Proved!CommittedRecord, CommittedRecord,
     Proved!INVALID_NODE, INVALID_NODE, Proved!HeapInsert, HeapInsert, Proved!HeapDelete,
     HeapDelete, Proved!IsHeapMax, IsHeapMax, Proved!NodeLess, NodeLess, Proved!ByteLess,
     ByteLess, Proved!KeyBytes, KeyBytes
<1>3. \A e : AllocAbort(e) <=> Proved!Abort(e)
  BY SameReserve, Zenon DEF AllocAbort, Proved!Abort
<1>4. \A e, n : AllocShrink(e, n) <=> Proved!Shrink(e, n)
  BY SameFree, Zenon DEF AllocShrink, Proved!Shrink
<1>5. \A e : AllocRelease(e) <=> Proved!Release(e)
  BY SameFree, Zenon DEF AllocRelease, Proved!Release
<1>6. AllocCommit <=> Proved!Commit
  BY Zenon DEF AllocCommit, Proved!Commit, Uncommitted, Proved!Working, Proved!Snapshot
<1>7. AllocRestart <=> Proved!Restart
  BY SameInitialized DEF AllocRestart, Proved!Restart, Uncommitted, Proved!Working, Proved!Snapshot
<1>8. AllocInit <=> Proved!Init
  BY SameInitialized, SameTypes
     DEF AllocInit, Proved!Init, Uncommitted, Proved!Working, Proved!Snapshot
<1>9. UNCHANGED allocVars <=> UNCHANGED Proved!vars
  <2> HIDE DEF Held
  <2> QED  BY DEF allocVars, Proved!vars
<1>10. AllocGrowing <=> Proved!NextGrowing
  BY <1>1, <1>2, <1>3, <1>6, <1>7, SameTypes, Zenon DEF AllocGrowing, Proved!NextGrowing
<1>11. AllocNext <=> Proved!Next
  BY <1>4, <1>5, <1>10, Zenon DEF AllocNext, Proved!Next, Proved!NextGrowing
<1> QED  BY <1>8, <1>9, <1>10, <1>11, Zenon

\* The instance that the files are shown to implement is the same.
LEMMA SameAllocator ==
    /\ Alloc!Init <=> Proved!Init
    /\ Alloc!Next <=> Proved!Next
    /\ Alloc!vars = Proved!vars
BY Zenon DEF Alloc!Init, Proved!Init, Alloc!Next, Proved!Next, Alloc!vars, Proved!vars, Alloc!Extend,
       Proved!Extend, Alloc!Acquire, Proved!Acquire, Alloc!Abort, Proved!Abort, Alloc!Shrink,
       Proved!Shrink, Alloc!Release, Proved!Release, Alloc!Commit, Proved!Commit, Alloc!Restart,
       Proved!Restart, Alloc!Working, Proved!Working, Alloc!Snapshot, Proved!Snapshot,
       Alloc!CanExtend, Proved!CanExtend, Alloc!ExtendGranted, Proved!ExtendGranted,
       Alloc!PopGranted, Proved!PopGranted, Alloc!ExtendExtent, Proved!ExtendExtent,
       Alloc!PopExtent, Proved!PopExtent, Alloc!ReserveAborts, Proved!ReserveAborts,
       Alloc!ExtendAsserts, Proved!ExtendAsserts, Alloc!Granted, Proved!Granted, Alloc!Short,
       Proved!Short, Alloc!CarvedExtents, Proved!CarvedExtents, Alloc!CarvedHeap,
       Proved!CarvedHeap, Alloc!PutExtent, Proved!PutExtent, Alloc!DelExtent, Proved!DelExtent,
       Alloc!FreeRecord, Proved!FreeRecord, Alloc!CommittedRecord, Proved!CommittedRecord,
       Alloc!INVALID_NODE, Proved!INVALID_NODE, Alloc!HeapInsert, Proved!HeapInsert,
       Alloc!HeapDelete, Proved!HeapDelete, Alloc!IsHeapMax, Proved!IsHeapMax, Alloc!NodeLess,
       Proved!NodeLess, Alloc!ByteLess, Proved!ByteLess, Alloc!KeyBytes, Proved!KeyBytes,
       Alloc!FreeExtent, Proved!FreeExtent, Alloc!TruncateExtent, Proved!TruncateExtent,
       Alloc!FreeNext, Proved!FreeNext, Alloc!MdbNext, Proved!MdbNext, Alloc!HeapIncreaseKey,
       Proved!HeapIncreaseKey, Alloc!IncreasedNode, Proved!IncreasedNode,
       Alloc!InitializedExtents, Proved!InitializedExtents, Alloc!InitializedHeap,
       Proved!InitializedHeap, Alloc!NoExtent, Proved!NoExtent

\* What the theorems assume of the numbers of blocks that calls ask for.
LEMMA AllocAssumptions == Sizes \subseteq Nat \ {0}
<1>1. ASSUME NEW end \in Ends PROVE BlocksFor(end) \in Nat
  <2>1. end \in Nat
    BY FilesAssumption DEF Ends
  <2> QED  BY <2>1, BlocksForFacts
<1> QED  BY <1>1 DEF Sizes

\* A consistent allocator provides for what the files rely on.
LEMMA ConsistentApt == Proved!IndInv /\ missteps = {} => Apt
<1> SUFFICES ASSUME Proved!IndInv, missteps = {} PROVE Apt
  OBVIOUS
<1> HIDE DEF Held
<1>1. Proved!Consistent(extents, heap, Held)
  BY DEF Proved!IndInv
<1>2. \A a \in Held : a.length > 0
  BY <1>1 DEF Proved!Consistent, Proved!WithinDevice
<1>3. \A node \in heap : node.v \in Proved!FreeOffsets(extents)
  BY <1>1, ZenonT(30) DEF Proved!Consistent, Proved!HeapExact
<1>4. \A a \in Held : a.offset \notin Proved!FreeOffsets(extents)
  BY <1>1 DEF Proved!Consistent, Proved!Recorded
<1> QED  BY <1>2, <1>3, <1>4 DEF Apt

(* The invariant of the refinement: the files' own, no extent is listed    *)
(* twice, and the allocator's.                                             *)
MapInv == FilesInv /\ Track /\ Proved!IndInv

\* The invariant of the mapping holds initially.
LEMMA InitMapInv == Init => MapInv
<1> SUFFICES ASSUME Init PROVE MapInv
  OBVIOUS
<1>1. FilesInv
  BY InitFilesInv
<1>2. Proved!IndInv
  BY InitAlloc, SameNext, AllocAssumptions, RadixAssumption, NumBlocksAssumption,
     Proved!InitIndInv
<1>3. Track
  <2>1. /\ DOMAIN inodes = {} /\ DOMAIN saved.inodes = {} /\ saved.missteps = {}
        /\ txn.pending = <<>>
    BY DEF Init, Snapshot, NoTxn
  <2>2. Once(Lists) /\ Once(SavedLists)
    BY <2>1 DEF Once, Lists, SavedLists, ListsOf
  <2> QED  BY <2>1, <2>2 DEF Track
<1> QED  BY <1>1, <1>2, <1>3 DEF MapInv

\* Every step on track keeps the invariant of the mapping, and is a step of the
\* allocator or leaves it alone.
LEMMA NextMapInv ==
    MapInv /\ [Next /\ (missteps = {} \/ Restart)]_vars => MapInv' /\ AllocStep
<1> SUFFICES ASSUME MapInv, [Next /\ (missteps = {} \/ Restart)]_vars
             PROVE  MapInv' /\ AllocStep
  OBVIOUS
<1>1. FilesInv /\ Track /\ Proved!IndInv
  BY DEF MapInv
<1>2. FilesInv'
  BY <1>1, NextFilesInv
<1>3. missteps = {} => Apt
  BY <1>1, ConsistentApt
<1>4. AllocStep /\ Track'
  <2>1. CASE Next /\ (missteps = {} \/ Restart)
    BY <1>1, <1>2, <1>3, <2>1, NextMaps
  <2>2. CASE UNCHANGED vars
    <3>1. UNCHANGED <<dbVars, saved>> /\ txn' = txn /\ stopped' = stopped
      BY <2>2 DEF vars, dbVars
    <3>2. txn'.pending = txn.pending /\ Gone' = Gone
      BY <3>1 DEF Gone
    <3> QED  BY <1>1, <3>1, <3>2, QuietStep, GrowStepAllocStep
  <2> QED  BY <2>1, <2>2
<1>5. Proved!Next \/ UNCHANGED Proved!vars
  BY <1>4, SameNext, ZenonT(30) DEF AllocStep
<1>6. Proved!IndInv'
  BY <1>1, <1>5, AllocAssumptions, RadixAssumption, NumBlocksAssumption, Proved!NextIndInv
<1> QED  BY <1>2, <1>4, <1>6 DEF MapInv

(* The calls implement the allocator, for any device, byte order, number   *)
(* of files and threads, offsets and lengths: until the allocator loses    *)
(* track, every step of mtl_create, mtl_write, mtl_truncate, mtl_unlink    *)
(* and mtl_initialize on the inodes is a step of ExtentAllocator on the    *)
(* extents that the inodes list, or changes nothing there.                 *)
THEOREM AllocatorImplemented == SpecOnTrack => ImplementsAllocator
<1>1. MapInv /\ [Next /\ (missteps = {} \/ Restart)]_vars => [Alloc!Next]_(Alloc!vars)
  <2>1. MapInv /\ [Next /\ (missteps = {} \/ Restart)]_vars =>
            [Proved!Next]_(Proved!vars)
    BY NextMapInv, SameNext, Zenon DEF AllocStep
  <2>2. [Proved!Next]_(Proved!vars) => [Alloc!Next]_(Alloc!vars)
    <3>1. Alloc!vars = Proved!vars /\ Alloc!vars' = Proved!vars'
      BY DEF Alloc!vars, Proved!vars
    <3> QED  BY <3>1, SameAllocator, Zenon
  <2> QED  BY <2>1, <2>2, Zenon
<1>2. SpecOnTrack => []MapInv
  BY InitMapInv, NextMapInv, PTL DEF SpecOnTrack
<1>3. Init => Alloc!Init
  BY InitAlloc, SameNext, SameAllocator, Zenon
<1> QED  BY <1>1, <1>2, <1>3, PTL DEF SpecOnTrack, ImplementsAllocator, Alloc!Spec

----------------------------------------------------------------------------
(* The allocator of files that only grow. *)

GrowMapInv == FilesInv /\ Track /\ Proved!GrowingInv /\ txn.pending = <<>>

\* Every step of files that only grow keeps the invariant of the mapping.
LEMMA NextGrowMapInv == GrowMapInv /\ [NextGrowing]_vars => GrowMapInv'
<1> SUFFICES ASSUME GrowMapInv, NextGrowing \/ UNCHANGED vars PROVE GrowMapInv'
  OBVIOUS
<1>1. FilesInv /\ Track /\ Proved!GrowingInv /\ txn.pending = <<>>
  BY DEF GrowMapInv
<1>2. FilesInv'
  <2>1. NextGrowing => Next
    BY DEF NextGrowing, Next
  <2> QED  BY <1>1, <2>1, NextFilesInv
<1>3. missteps = {} /\ Proved!IndInv
  BY <1>1, Zenon DEF Proved!GrowingInv, Proved!OnTrackInv
<1>4. Apt
  BY <1>3, ConsistentApt
<1>5. GrowStep /\ Track'
  BY <1>1, <1>2, <1>3, <1>4, NextGrowMaps
<1>6. Proved!NextGrowing \/ UNCHANGED Proved!vars
  BY <1>5, SameNext, ZenonT(30) DEF GrowStep
<1>7. Proved!GrowingInv'
  BY <1>1, <1>6, AllocAssumptions, RadixAssumption, NumBlocksAssumption, Proved!NextGrowingInv
<1>8. txn'.pending = <<>>
  BY <1>1, NothingPending
<1> QED  BY <1>2, <1>5, <1>7, <1>8 DEF GrowMapInv

(* While files only grow, whatever the threads, the calls and the points   *)
(* at which the process ends, the allocator never loses track: every turn  *)
(* of mtl_expand_inode hands it an extent whose record it has as it was    *)
(* left.                                                                   *)
THEOREM GrowingOnTrack == SpecGrowing => []NeverLosesTrack
<1>1. Init => GrowMapInv
  <2> SUFFICES ASSUME Init PROVE GrowMapInv
    OBVIOUS
  <2>1. Proved!GrowingInv
    BY InitAlloc, SameNext, AllocAssumptions, RadixAssumption, NumBlocksAssumption,
       Proved!InitGrowingInv
  <2>2. txn.pending = <<>>
    BY DEF Init, NoTxn
  <2> QED  BY <2>1, <2>2, InitMapInv DEF MapInv, GrowMapInv
<1>2. GrowMapInv => NeverLosesTrack
  BY Zenon DEF GrowMapInv, Proved!GrowingInv, Proved!OnTrackInv, NeverLosesTrack
<1> QED  BY <1>1, <1>2, NextGrowMapInv, PTL DEF SpecGrowing
=============================================================================
