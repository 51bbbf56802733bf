----------------------------- MODULE DataMovers -----------------------------
(***************************************************************************)
(* A RunOperators job on the card: the start and the interrupts of the     *)
(* operators, the preloading of blocks that are only partly written, and   *)
(* the dataflow processes that cut a transfer into blocks, translate the   *)
(* blocks with the extent maps, and pass them through queues to the NVMe   *)
(* controller and the DataMover.                                           *)
(*                                                                         *)
(* A job has one transfer, into the stream or out of it (they only meet in *)
(* the stream), or none while operators are prepared.  Each iteration of a *)
(* process is one step, which asks more of the queues at once than the     *)
(* blocking accesses of the code do.                                       *)
(***************************************************************************)
EXTENDS Integers, Sequences, FiniteSets

CONSTANTS
    BlockSize,      \* bytes of a storage block
    PagefileBlocks, \* length of the page file, in blocks
    FileExtents,    \* the extents of the file: a sequence of [begin, count]
    PageExtents,    \* the extents of the page file in DRAM
    WriteOffset,    \* first DRAM block of the buffer for writing (no page file)
    Depth,          \* bound: elements in a queue
    Addresses, Sizes,   \* bounds: the transfers of the jobs
    Blocks,         \* bound: the blocks of the disk and of the DRAM
    Operators       \* bound: the operators on the card

ASSUME MoversAssumption ==
    /\ {BlockSize, PagefileBlocks, Depth} \subseteq Nat \ {0}
    /\ WriteOffset \in Nat /\ Addresses \subseteq Nat /\ Sizes \subseteq Nat \ {0}
    /\ \A map \in {FileExtents, PageExtents} : \A i \in 1 .. Len(map) :
          map[i].begin \in Nat \ {0} /\ map[i].count \in Nat \ {0}

VARIABLES
    job,        \* [dir, map, addr, size, out, ops]: out is what the operators yield
    phase,      \* of process_action
    running,    \* the operators that run
    interrupts, \* the operators whose interrupt is set
    issued,     \* bytes_transferred of issue_partial_transfers
    cursor,     \* the extent and block of both extent maps
    queue,      \* the queues
    done,       \* processes that have seen the last element
    granted,    \* transfer_from_stream has let a transfer go
    ended,      \* endOfPacket
    moved,      \* tmpSize: the bytes reported as written
    disk, dram, \* blocks of bytes
    got,        \* the bytes on the stream
    preloaded   \* history: blocks read before the job writes

vars == <<job, phase, running, interrupts, issued, cursor, queue, done, granted,
          ended, moved, disk, dram, got, preloaded>>
moverVars == <<issued, cursor, queue, done, granted, ended, moved>>
opVars == <<running, interrupts>>
memVars == <<disk, dram, got>>

Processes == {"issue", "nvmeIssue", "nvmeWait", "moverIssue", "moverWait"}
Queues == {"partial", "ready", "pendingNvme", "pendingMover", "nvme", "terminated",
           "nvmeCmd", "nvmeResp", "moverCmd", "moverSts"}

OnNvme == job.map \in {"NVMe", "DRAMAndNVMe"}

\* Bytes are told apart by where they were at first; the stream's are negative.
DiskByte(p, o) == 1000 + p * BlockSize + o
DramByte(b, o) == b * BlockSize + o
StreamByte(i) == -(i + 1)

------------------------------------------------------------------------------
(* Extent maps. *)

Least(a, b) == IF a <= b THEN a ELSE b

Extent(map, i) == IF i <= Len(map) THEN map[i] ELSE [begin |-> 0, count |-> 0]

\* extents_nextlblock
NextLBlock(map, i) ==
    LET next[k \in 0 .. i] == IF k = 0 THEN 0 ELSE map[k].count + next[k - 1]
    IN  next[i]

\* mtl_extmap_seek; the position stays if there is no such block.
Seek(map, at, lblock) ==
    LET in == {i \in 1 .. Len(map) :
                 NextLBlock(map, i - 1) <= lblock /\ lblock < NextLBlock(map, i)}
    IN  IF in = {} THEN at
        ELSE LET i == CHOOSE i \in in : TRUE
             IN  [extent |-> i,
                  pblock |-> map[i].begin + lblock - NextLBlock(map, i - 1)]

\* Mutant: the next block of the map is skipped.
StepTwo(map, at) == [at EXCEPT !.pblock = @ + 2]

\* mtl_extmap_next: the offset is compared before it is increased.
Step(map, at) ==
    IF at.pblock - Extent(map, at.extent).begin < Extent(map, at.extent).count
    THEN [at EXCEPT !.pblock = @ + 1]
    ELSE [extent |-> at.extent + 1, pblock |-> Extent(map, at.extent + 1).begin]

\* The block of a file that holds logical block l, by the extents.
Physical(map, l) == Seek(map, [extent |-> 0, pblock |-> 0], l).pblock

Start(map) == [extent |-> 1, pblock |-> Extent(map, 1).begin]

DramMap == IF job.map = "DRAM" THEN FileExtents ELSE PageExtents

------------------------------------------------------------------------------
\* Transfers within a file, and runs of operators with or without a transfer.
Jobs ==
    LET transfers ==
            [dir : {"read", "write"}, map : {"None", "DRAM", "NVMe", "DRAMAndNVMe"},
             addr : Addresses, size : Sizes,
             out : UNION {0 .. n : n \in Sizes}, ops : {{}}]
    IN  {j \in transfers :
            /\ IF j.dir = "read" THEN j.out = 0 ELSE j.out <= j.size
            /\ j.addr + j.size <= BlockSize * NextLBlock(FileExtents, Len(FileExtents))}
        \cup [dir : {"none"}, map : {"None"}, addr : {0}, size : {0}, out : {0},
              ops : SUBSET Operators]
        \cup [dir : {"read"}, map : {"None"}, addr : {0}, size : {BlockSize},
              out : {0}, ops : SUBSET Operators]

\* The operators of the job before have their interrupts set.
Init ==
    /\ job \in Jobs
    /\ phase = "clear"
    /\ running = {} /\ interrupts \in SUBSET Operators
    /\ issued = 0
    /\ cursor = [dram |-> Start(DramMap), nvme |-> Start(FileExtents)]
    /\ queue = [q \in Queues |-> <<>>]
    /\ done = {} /\ granted = FALSE /\ ended = FALSE /\ moved = 0
    /\ disk = [p \in Blocks |-> [o \in 0 .. BlockSize - 1 |-> DiskByte(p, o)]]
    /\ dram = [b \in Blocks |-> [o \in 0 .. BlockSize - 1 |-> DramByte(b, o)]]
    /\ got = <<>> /\ preloaded = {}

------------------------------------------------------------------------------
(* The job around the transfer. *)

\* Mutant: no interrupt is cleared.
ClearedNone == interrupts

\* clear_operator_interrupts: the interrupts that are left.
Cleared == {}


\* preload_nvme_blocks: the logical blocks it reads.
PreloadBlocks ==
    LET from == job.addr
        to == job.addr + job.size
        startOdd == from % BlockSize # 0
        differ == from \div BlockSize # (to - 1) \div BlockSize
    IN  (IF startOdd THEN {from \div BlockSize} ELSE {})
        \cup (IF to % BlockSize # 0 /\ (differ \/ ~startOdd)
              THEN {to \div BlockSize} ELSE {})

\* What is read goes to an address of the NVMe controller outside of the DRAM
\* window that the transfers use, so no block of dram changes.
Prepare ==
    /\ phase = "clear"
    /\ interrupts' = Cleared
    /\ preloaded' = IF job.dir = "write" /\ OnNvme
            THEN {Physical(FileExtents, l) : l \in PreloadBlocks} ELSE {}
    /\ phase' = "start"
    /\ UNCHANGED <<job, running, moverVars, memVars>>

\* The seeks of issue_partial_transfers are the first thing it does.
StartOperators ==
    /\ phase = "start"
    /\ running' = job.ops
    /\ phase' = "run"
    /\ done' = IF job.dir = "none" THEN Processes ELSE {}
    /\ cursor' = LET l == job.addr \div BlockSize
                 IN  [dram |-> CASE job.map = "DRAM" ->
                                    Seek(DramMap, cursor.dram, l)
                               [] job.map = "DRAMAndNVMe" ->
                                    Seek(DramMap, cursor.dram, l % PagefileBlocks)
                               [] OTHER -> cursor.dram,
                      nvme |-> IF OnNvme THEN Seek(FileExtents, cursor.nvme, l)
                               ELSE cursor.nvme]
    /\ UNCHANGED <<job, interrupts, issued, queue, granted, ended, moved, memVars, preloaded>>

\* External: an operator is done and raises its interrupt.
OperatorDone(o) ==
    /\ o \in running
    /\ running' = running \ {o} /\ interrupts' = interrupts \cup {o}
    /\ UNCHANGED <<job, phase, moverVars, memVars, preloaded>>

\* poll_interrupts waits for exactly the interrupts of the job's operators.
Polled == job.ops = {} \/ interrupts = job.ops

Return ==
    /\ phase = "run" /\ done = Processes /\ Polled
    /\ phase' = "done"
    /\ UNCHANGED <<job, opVars, moverVars, memVars, preloaded>>

------------------------------------------------------------------------------
(* Queues: `take' and `put' are a process's reads and writes of one step. *)

Flows(take, put) ==
    /\ phase = "run"
    /\ \A q \in take : queue[q] # <<>>
    /\ \A q \in DOMAIN put \ take : Len(queue[q]) < Depth
    /\ queue' = [q \in Queues |->
            LET rest == IF q \in take THEN Tail(queue[q]) ELSE queue[q]
            IN  IF q \in DOMAIN put THEN Append(rest, put[q]) ELSE rest]

Only(qs, put) == [q \in qs |-> put[q]]

Ends(p, last) == done' = IF last THEN done \cup {p} ELSE done

\* One round of issue_partial_transfers.
Issue ==
    LET current == job.addr + issued
        offset == current % BlockSize
        n == Least(job.size - issued, BlockSize - offset)
        block == CASE job.map \in {"DRAM", "DRAMAndNVMe"} -> cursor.dram.pblock
                   [] job.map = "NVMe" /\ job.dir = "write" ->
                            WriteOffset + current \div BlockSize
                   [] OTHER -> current \div BlockSize
        last == issued + n = job.size
        put == [partial |-> [block |-> block, offset |-> offset, size |-> n,
                             last |-> last],
                nvme |-> cursor.nvme.pblock]
    IN  /\ "issue" \notin done
        /\ Flows({}, Only({"partial"} \cup (IF OnNvme THEN {"nvme"} ELSE {}), put))
        /\ issued' = issued + n
        /\ cursor' = [dram |-> IF job.map \in {"DRAM", "DRAMAndNVMe"}
                               THEN Step(DramMap, cursor.dram) ELSE cursor.dram,
                      nvme |-> IF OnNvme THEN Step(FileExtents, cursor.nvme)
                               ELSE cursor.nvme]
        /\ Ends("issue", last)
        /\ UNCHANGED <<job, phase, opVars, granted, ended, moved, memVars, preloaded>>

\* The queues between the processes depend on the direction.
NvmeIn == IF job.dir = "read" THEN "partial" ELSE "ready"
MoverIn == IF job.dir = "read" THEN "ready" ELSE "partial"

\* A command is issued for transfer t; write_nvme_data leaves out empty ones.
NeedsCommand(t) == OnNvme /\ (job.dir = "read" \/ t.size > 0)

\* The first process of load_nvme_data and write_nvme_data.  An address is taken
\* for every transfer, empty ones included.
NvmeIssue ==
    LET t == Head(queue[NvmeIn])
        command == NeedsCommand(t)
        put == [pendingNvme |-> t,
                nvmeCmd |-> [block |-> t.block,
                             nvme |-> IF command THEN Head(queue["nvme"]) ELSE 0]]
    IN  /\ "nvmeIssue" \notin done /\ queue[NvmeIn] # <<>>
        /\ Flows({NvmeIn} \cup (IF OnNvme THEN {"nvme"} ELSE {}),
                 Only({"pendingNvme"} \cup (IF command THEN {"nvmeCmd"} ELSE {}), put))
        /\ Ends("nvmeIssue", t.last)
        /\ UNCHANGED <<job, phase, opVars, issued, cursor, granted, ended, moved,
                       memVars, preloaded>>

\* Mutant: a transfer is passed on without waiting for the response.
AwaitsResponseNever == FALSE

\* Mutant: a write is not waited for.
AwaitsResponseReads == OnNvme /\ job.dir = "read"

\* A response is awaited for every transfer of a file on NVMe.
AwaitsResponse == OnNvme

\* The second process.
NvmeWait ==
    LET t == Head(queue["pendingNvme"])
    IN  /\ "nvmeWait" \notin done /\ queue["pendingNvme"] # <<>>
        /\ Flows({"pendingNvme"} \cup (IF AwaitsResponse THEN {"nvmeResp"} ELSE {}),
                 Only(IF job.dir = "read" THEN {"ready"} ELSE {}, [ready |-> t]))
        /\ Ends("nvmeWait", t.last)
        /\ UNCHANGED <<job, phase, opVars, issued, cursor, granted, ended, moved,
                       memVars, preloaded>>

\* transfer_from_stream issues no command once the stream is terminated.
Denied == job.dir = "write" /\ Head(queue["terminated"])

\* The first process of transfer_to_stream and transfer_from_stream: out of the
\* stream, a transfer needs a word from the second one.
MoverIssue ==
    LET t == Head(queue[MoverIn])
        out == job.dir = "write"
        command == ~Denied
        put == [pendingMover |-> t, moverCmd |-> t]
    IN  /\ "moverIssue" \notin done
        /\ queue[MoverIn] # <<>> /\ (out => queue["terminated"] # <<>>)
        /\ Flows({MoverIn} \cup (IF out THEN {"terminated"} ELSE {}),
                 Only({"pendingMover"} \cup (IF command THEN {"moverCmd"} ELSE {}), put))
        /\ Ends("moverIssue", t.last)
        /\ UNCHANGED <<job, phase, opVars, issued, cursor, granted, ended, moved,
                       memVars, preloaded>>

\* "Allow or deny the next transfer"
Grant ==
    /\ job.dir = "write" /\ "moverWait" \notin done /\ ~granted
    /\ Flows({}, [terminated |-> ended])
    /\ granted' = TRUE
    /\ UNCHANGED <<job, phase, opVars, issued, cursor, done, ended, moved, memVars,
                   preloaded>>

\* Mutant: the end of the stream is not noticed.
EndsPacketNever(sts) == FALSE

EndsPacket(sts) == sts.eop

\* The second process.  After the end of the stream transfers are passed on
\* with size 0.
MoverWait ==
    LET t == Head(queue["pendingMover"])
        out == job.dir = "write"
        read == ~out \/ ~ended
        sts == Head(queue["moverSts"])
        put == [ready |-> IF read THEN t ELSE [t EXCEPT !.size = 0]]
    IN  /\ "moverWait" \notin done
        /\ queue["pendingMover"] # <<>> /\ (read => queue["moverSts"] # <<>>)
        /\ out => granted
        /\ Flows({"pendingMover"} \cup (IF read THEN {"moverSts"} ELSE {}),
                 Only(IF out THEN {"ready"} ELSE {}, put))
        /\ granted' = FALSE
        /\ moved' = IF out /\ read THEN moved + sts.size ELSE moved
        /\ ended' = IF out /\ read THEN EndsPacket(sts) ELSE ended
        /\ Ends("moverWait", t.last)
        /\ UNCHANGED <<job, phase, opVars, issued, cursor, memVars, preloaded>>

------------------------------------------------------------------------------
(* External: the NVMe controller and the DataMover, each serving its       *)
(* commands in order.                                                      *)

NvmeServes ==
    LET c == Head(queue["nvmeCmd"])
    IN  /\ Flows({"nvmeCmd"}, [nvmeResp |-> TRUE])
        /\ IF job.dir = "read"
           THEN dram' = [dram EXCEPT ![c.block] = disk[c.nvme]] /\ UNCHANGED disk
           ELSE disk' = [disk EXCEPT ![c.nvme] = dram[c.block]] /\ UNCHANGED dram
        /\ UNCHANGED <<job, phase, opVars, issued, cursor, done, granted, ended, moved,
                       got, preloaded>>

MoverReads ==
    LET c == Head(queue["moverCmd"])
    IN  /\ job.dir = "read"
        /\ Flows({"moverCmd"}, [moverSts |-> [size |-> c.size, eop |-> c.last]])
        /\ got' = got \o [i \in 1 .. c.size |-> dram[c.block][c.offset + i - 1]]
        /\ UNCHANGED <<job, phase, opVars, issued, cursor, done, granted, ended, moved,
                       disk, dram, preloaded>>

MoverWrites ==
    LET c == Head(queue["moverCmd"])
        n == Least(c.size, job.out - Len(got))
    IN  /\ job.dir = "write"
        /\ Len(got) < job.out \/ job.out = 0
        /\ Flows({"moverCmd"},
                 [moverSts |-> [size |-> n, eop |-> Len(got) + n = job.out]])
        /\ dram' = [dram EXCEPT ![c.block] =
                [o \in 0 .. BlockSize - 1 |->
                    IF o >= c.offset /\ o < c.offset + n
                    THEN StreamByte(Len(got) + o - c.offset) ELSE @[o]]]
        /\ got' = got \o [i \in 1 .. n |-> StreamByte(Len(got) + i - 1)]
        /\ UNCHANGED <<job, phase, opVars, issued, cursor, done, granted, ended, moved,
                       disk, preloaded>>

Next ==
    \/ Prepare \/ StartOperators \/ Return
    \/ \E o \in Operators : OperatorDone(o)
    \/ Issue \/ NvmeIssue \/ NvmeWait \/ MoverIssue \/ Grant \/ MoverWait
    \/ NvmeServes \/ MoverReads \/ MoverWrites

Spec == Init /\ [][Next]_vars

\* Every process of the hardware runs whenever it can.
FairSpec == Spec /\ WF_vars(Next)

------------------------------------------------------------------------------
\* The logical blocks of the transfer are in one extent.
First == job.addr \div BlockSize
Last == (job.addr + job.size - 1) \div BlockSize
Contiguous ==
    job.map # "None" =>
        Physical(FileExtents, Last) - Physical(FileExtents, First) = Last - First

\* Where byte i of the transfer belongs.
Home(i) ==
    LET l == (job.addr + i) \div BlockSize
    IN  IF job.map = "None" THEN l ELSE Physical(FileExtents, l)
HomeOffset(i) == (job.addr + i) % BlockSize

\* The stream carries the bytes of the file in their order: a block is moved out
\* of DRAM only when the NVMe controller has put it there.
ReadsFile ==
    job.dir = "read" /\ Contiguous =>
        \A i \in 1 .. Len(got) :
            got[i] = IF OnNvme THEN DiskByte(Home(i - 1), HomeOffset(i - 1))
                     ELSE DramByte(Home(i - 1), HomeOffset(i - 1))

\* When the job is done, all the bytes of the stream are in the file, and their
\* number is what the job reports.
WritesFile ==
    job.dir = "write" /\ phase = "done" /\ Contiguous =>
        /\ moved = job.out
        /\ \A i \in 0 .. job.out - 1 :
              (IF OnNvme THEN disk ELSE dram)[Home(i)][HomeOffset(i)] = StreamByte(i)


\* Nothing is left in a queue for the next job ("We need transfers of size==0 to
\* empty the nvme_transfers queue").
QueuesDrained == phase = "done" => \A q \in Queues : queue[q] = <<>>


\* The job does not return before its operators have finished.
ReturnsAfterOperators ==
    phase = "done" => running = {}

\* The stream ends a whole block before the transfer does, on NVMe: a response
\* is awaited that no command will yield.
Starved ==
    /\ job.dir = "write" /\ OnNvme
    /\ (job.addr + (IF job.out = 0 THEN 1 ELSE job.out) - 1) \div BlockSize < Last

\* Every job comes to its end, whatever the operators do with the stream.
JobEnds == <>(phase = "done" \/ Starved)

\* The blocks that a transfer visits are those of "a begin physical block
\* number and a block count".
VisitsExtents ==
    \A k \in 1 .. Len(queue["nvme"]) :
        queue["nvme"][k] \in UNION {e.begin .. e.begin + e.count - 1 :
                                      e \in {FileExtents[i] : i \in 1 .. Len(FileExtents)}}
=============================================================================
