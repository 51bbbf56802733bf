---------------------------- MODULE NvmeCommands ----------------------------
(***************************************************************************)
(* What the NVMe arbiter promises the two command streams of the action,   *)
(* one for reads and one for writes: commands are taken into one queue and *)
(* answered in the order they were taken, each one on the stream it came   *)
(* from, and no drive has more than Limit commands at a time.              *)
(***************************************************************************)
EXTENDS Naturals, Sequences, FiniteSets

CONSTANTS
    Streams,    \* the command/response stream pairs
    Drives,     \* the drives that are present
    Limit       \* commands a drive may have at a time (c_NvmeCmdCounterLimit)

VARIABLES
    queue,      \* commands taken and not answered, oldest first
    answer      \* the stream that is being answered, or None

CONSTANT None

Commands == [stream : Streams, drive : Drives]

\* The commands of drive d in a sequence of commands.
OnDrive(q, d) == {i \in DOMAIN q : q[i].drive = d}

Init == queue = <<>> /\ answer = None

\* The oldest command is answered if `answered', and then c is taken, if any.
Step(answered, taken) ==
    /\ answered => queue # <<>>
    /\ answer' = IF answered THEN Head(queue).stream ELSE None
    /\ queue' = (IF answered THEN Tail(queue) ELSE queue) \o taken
    /\ \A d \in Drives : Cardinality(OnDrive(queue', d)) <= Limit

\* The arbiter does both in one cycle when they fall together.
Next ==
    \E answered \in BOOLEAN, taken \in {<<>>} \cup {<<c>> : c \in Commands} :
        Step(answered, taken)

Spec == Init /\ [][Next]_<<queue, answer>>

=============================================================================
