----------------------------- MODULE NvmeArbiter -----------------------------
(***************************************************************************)
(* NvmeController.vhd: the arbiter between the read and the write command  *)
(* stream of the action and the one register interface of the NVMe host    *)
(* controller.  The design is synchronous, so a step is a clock edge, and  *)
(* each VHDL process is one conjunct that gives its own registers their    *)
(* next values from the present ones.                                      *)
(*                                                                         *)
(* Addresses and block counts are left out: a command is the stream it     *)
(* comes from and the drive it is for.  The host controller is external;   *)
(* it completes commands in the order it was given them, which is what the *)
(* arbiter relies on when it answers from its own queue.                   *)
(***************************************************************************)
EXTENDS Naturals, Sequences, FiniteSets

CONSTANTS
    Drives,         \* the drives present (c_NvmeDrivesPresent)
    Limit,          \* c_NvmeCmdCounterLimit
    FifoSize,       \* c_FIFOSize
    BurstLength,    \* words of one command write (AWLEN + 1)
    None

ASSUME ArbiterAssumption ==
    /\ IsFiniteSet(Drives)
    /\ None \notin Drives \cup [stream : {"Rd", "Wr"}, drive : Drives]
    /\ Limit \in Nat \ {0} /\ BurstLength \in Nat \ {0}
    /\ FifoSize \in Nat /\ Cardinality(Drives) * Limit < FifoSize

VARIABLES
    state,      \* s_state
    cmdState,   \* s_cmdState; s_cmdValid holds exactly in the Ack states
    cmd,        \* s_cmdWrNotRd and s_cmdDrive
    inc,        \* s_driveInc: a drive or None; TREADY of the stream in cmd
    counters,   \* s_driveCounters
    free,       \* s_driveFree, as the set of its ones
    pending,    \* s_driveCmdPending
    fifo,       \* s_fifoBuf up to s_fifoPos
    reg,        \* s_regState: the transfer, whether its address is still to be
                \* accepted, and how many words are
    status,     \* s_regStatus: the command it reports as completed, or None
    offer,      \* for each stream the drive of the command it offers, or None
    nvme,       \* external: commands the host controller has, oldest first
    completed   \* external: how many of them it has completed

vars == <<state, cmdState, cmd, inc, counters, free, pending, fifo, reg,
          status, offer, nvme, completed>>

Streams == {"Rd", "Wr"}

Other(s) == IF s = "Rd" THEN "Wr" ELSE "Rd"

Commands == [stream : Streams, drive : Drives]

\* What the surroundings drive onto the inputs in one cycle.
Inputs ==
    [rspReady : BOOLEAN,    \* TREADY of the response stream that is in use
     addrReady : BOOLEAN,   \* p_nvme_ARREADY or p_nvme_AWREADY
     dataReady : BOOLEAN]   \* p_nvme_RVALID or p_nvme_WREADY

RegIdle == [op |-> "Idle", addr |-> FALSE, words |-> 0]

RegDone == reg.op = "Done"

CmdValid == cmdState \in {"AckRd", "AckWr"}

Init ==
    /\ state = "Idle" /\ cmdState = "IdleRd"
    /\ cmd = None /\ inc = None
    /\ counters = [d \in Drives |-> 0] /\ pending = FALSE
    /\ free \in SUBSET Drives  \* not reset
    /\ fifo = <<>> /\ reg = RegIdle /\ status = None
    /\ offer = [s \in Streams |-> None]
    /\ nvme = <<>> /\ completed = 0

------------------------------------------------------------------------------
(* Main state machine. *)

Pulling == state \in {"SendResRdPull", "SendResWrPull"}

\* Mutant: the command is queued for as long as it is being written.
PushingTwice == state \in {"WriteCommandPush", "WriteCommand"}

Pushing == state = "WriteCommandPush"

\* Mutant: the status word is read only after a command has been written.
NextStateNoPoll(in) ==
    CASE state = "Idle" -> IF CmdValid THEN "WriteCommandPush" ELSE "Idle"
      [] state = "ReadStatus" ->
            IF ~RegDone THEN "ReadStatus"
            ELSE IF status = None THEN "Idle"
            ELSE IF Head(fifo).stream = "Rd" THEN "SendResRdPull"
                                             ELSE "SendResWrPull"
      [] state \in {"SendResRdPull", "SendResRd"} ->
            IF in.rspReady THEN "ReadStatus" ELSE "SendResRd"
      [] state \in {"SendResWrPull", "SendResWr"} ->
            IF in.rspReady THEN "ReadStatus" ELSE "SendResWr"
      [] state \in {"WriteCommandPush", "WriteCommand"} ->
            IF RegDone THEN "Ready" ELSE "WriteCommand"
      [] state = "Ready" -> "ReadStatus"

NextState(in) ==
    CASE state = "Idle" ->
            IF CmdValid THEN "WriteCommandPush"
            ELSE IF pending THEN "ReadStatus" ELSE "Idle"
      [] state = "ReadStatus" ->
            IF ~RegDone THEN "ReadStatus"
            ELSE IF status = None THEN "Idle"
            ELSE IF Head(fifo).stream = "Rd" THEN "SendResRdPull"
                                             ELSE "SendResWrPull"
      [] state \in {"SendResRdPull", "SendResRd"} ->
            IF in.rspReady THEN "ReadStatus" ELSE "SendResRd"
      [] state \in {"SendResWrPull", "SendResWr"} ->
            IF in.rspReady THEN "ReadStatus" ELSE "SendResWr"
      [] state \in {"WriteCommandPush", "WriteCommand"} ->
            IF RegDone THEN "Ready" ELSE "WriteCommand"
      [] state = "Ready" -> "ReadStatus"

Main(in) == state' = NextState(in)

------------------------------------------------------------------------------
(* Command streams: one command at a time, the two streams in turn. *)

\* Mutant: a command is taken although its drive has no room.
AcceptableAlways(s) == offer[s] # None

\* A command of stream s can be taken: it is offered and its drive is free.
Acceptable(s) == offer[s] # None /\ offer[s] \in free

Accept(s) ==
    /\ inc' = offer[s]
    /\ cmd' = [stream |-> s, drive |-> offer[s]]
    /\ cmdState' = IF s = "Rd" THEN "AckRd" ELSE "AckWr"

\* In the idle state of stream s: s goes first, the other one otherwise.
Choose(s) ==
    IF Acceptable(s) THEN Accept(s)
    ELSE IF Acceptable(Other(s)) THEN Accept(Other(s))
    ELSE inc' = None /\ UNCHANGED <<cmd, cmdState>>

\* Mutant: the reads go first again after every command.
AcknowledgeReadsFirst ==
    /\ inc' = None
    /\ UNCHANGED cmd
    /\ cmdState' = IF state # "Ready" THEN cmdState ELSE "IdleRd"

\* The main state machine is through with the command in cmd.
Acknowledge ==
    /\ inc' = None
    /\ UNCHANGED cmd
    /\ cmdState' = IF state # "Ready" THEN cmdState
                   ELSE IF cmdState = "AckRd" THEN "IdleWr" ELSE "IdleRd"

CommandStreams ==
    CASE cmdState = "IdleRd" -> Choose("Rd")
      [] cmdState = "IdleWr" -> Choose("Wr")
      [] CmdValid -> Acknowledge

------------------------------------------------------------------------------
(* Drive command counters; free and pending lag one cycle behind. *)

Counters ==
    LET dec == IF Pulling THEN Head(fifo).drive ELSE None
    IN  counters' = [d \in Drives |->
            IF inc = d /\ dec # d THEN counters[d] + 1
            ELSE IF inc # d /\ dec = d THEN counters[d] - 1
            ELSE counters[d]]
    /\ free' = {d \in Drives : counters[d] < Limit}
    /\ pending' = (\E d \in Drives : counters[d] > 0)

\* Mutant: a new command goes to the head of the queue.
FifoStack ==
    fifo' = IF Pulling THEN Tail(fifo)
            ELSE IF ~Pushing THEN fifo
            ELSE IF Len(fifo) + 1 = FifoSize THEN <<>>
            ELSE <<cmd>> \o fifo

\* The queue of stream identifiers.  The main state machine never pushes and
\* pulls in one cycle.  The write position wraps at FifoSize, and what was
\* queued then counts as gone.
Fifo ==
    fifo' = IF Pulling THEN Tail(fifo)
            ELSE IF ~Pushing THEN fifo
            ELSE IF Len(fifo) + 1 = FifoSize THEN <<>>
            ELSE Append(fifo, cmd)

------------------------------------------------------------------------------
(* Register access: one read of the status word, or one burst that writes  *)
(* a command.  Address and data are accepted independently, in any order.  *)

RegStart ==
    IF state = "ReadStatus" THEN [op |-> "Read", addr |-> TRUE, words |-> 1]
    ELSE IF state \in {"WriteCommandPush", "WriteCommand"}
         THEN [op |-> "Write", addr |-> TRUE, words |-> BurstLength]
    ELSE RegIdle

\* The word moves in this cycle.
Transfers(in) == reg.words > 0 /\ in.dataReady

RegAfter(in) ==
    LET addr == reg.addr /\ ~in.addrReady
        words == IF Transfers(in) THEN reg.words - 1 ELSE reg.words
    IN  [op |-> IF ~addr /\ words = 0 THEN "Done" ELSE reg.op,
         addr |-> addr, words |-> words]

StatusSampled(in) == reg.op = "Read" /\ Transfers(in)

Registers(in) ==
    /\ reg' = CASE reg.op = "Idle" -> RegStart
                [] reg.op = "Done" -> RegIdle
                [] OTHER -> RegAfter(in)
    /\ status' = IF ~StatusSampled(in) THEN status
                 ELSE IF completed > 0 THEN Head(nvme) ELSE None

------------------------------------------------------------------------------
(* Surroundings. *)

\* A stream keeps its command until TREADY.
Offers ==
    offer' = [s \in Streams |->
                IF inc # None /\ cmd.stream = s THEN None ELSE offer[s]]

\* External: the host controller takes a command with the last word of the
\* burst and hands out one completion with each status word it delivers.
Host(in) ==
    LET issued == reg.op = "Write" /\ reg.words = 1 /\ Transfers(in)
        reported == StatusSampled(in) /\ completed > 0
        left == IF reported THEN Tail(nvme) ELSE nvme
    IN  /\ nvme' = IF issued THEN Append(left, cmd) ELSE left
        /\ completed' = IF reported THEN completed - 1 ELSE completed

Clock(in) ==
    /\ Main(in) /\ CommandStreams /\ Counters /\ Fifo
    /\ Registers(in) /\ Offers /\ Host(in)

\* External: between two edges a stream comes up with a command.
Offer(s, d) ==
    /\ offer[s] = None
    /\ offer' = [offer EXCEPT ![s] = d]
    /\ UNCHANGED <<state, cmdState, cmd, inc, counters, free, pending, fifo,
                   reg, status, nvme, completed>>

\* External: the host controller completes its oldest open command.
Complete ==
    /\ completed < Len(nvme)
    /\ completed' = completed + 1
    /\ UNCHANGED <<state, cmdState, cmd, inc, counters, free, pending, fifo,
                   reg, status, offer, nvme>>

Next ==
    \/ \E in \in Inputs : Clock(in)
    \/ \E s \in Streams, d \in Drives : Offer(s, d)
    \/ Complete

Spec == Init /\ [][Next]_vars

\* The clock ticks; a response stream that is offered an answer takes it, and
\* the host controller accepts addresses and words and completes commands.
Fairness ==
    /\ WF_vars(\E in \in Inputs : Clock(in))
    /\ WF_vars(state \in {"SendResRd", "SendResWr"}
               /\ \E in \in Inputs : in.rspReady /\ Clock(in))
    /\ WF_vars(reg.addr /\ \E in \in Inputs : in.addrReady /\ Clock(in))
    /\ WF_vars(reg.words > 0 /\ ~reg.addr
               /\ \E in \in Inputs : in.dataReady /\ Clock(in))
    /\ WF_vars(Complete)

FairSpec == Spec /\ Fairness

------------------------------------------------------------------------------
TypeOK ==
    /\ state \in {"Idle", "ReadStatus", "SendResRdPull", "SendResRd",
                  "SendResWrPull", "SendResWr", "WriteCommandPush",
                  "WriteCommand", "Ready"}
    /\ cmdState \in {"IdleRd", "IdleWr", "AckRd", "AckWr"}
    /\ cmd \in Commands \cup {None} /\ inc \in Drives \cup {None}
    /\ counters \in [Drives -> 0 .. Limit]
    /\ free \subseteq Drives /\ pending \in BOOLEAN
    /\ fifo \in Seq(Commands) /\ nvme \in Seq(Commands)
    /\ reg \in [op : {"Idle", "Read", "Write", "Done"}, addr : BOOLEAN,
                words : 0 .. BurstLength]
    /\ status \in Commands \cup {None}
    /\ offer \in [Streams -> Drives \cup {None}]
    /\ completed \in 0 .. Len(nvme)

\* The command that has been taken and is not in the queue yet.
Taken == IF CmdValid /\ state \notin {"WriteCommand", "Ready"}
         THEN <<cmd>> ELSE <<>>

\* The commands of drive d in a sequence of commands.
OnDrive(q, d) == {i \in DOMAIN q : q[i].drive = d}

\* The queue never gets near the end of its buffer (the assumption in the
\* comment of the queue process), and the counters count what is in it.
QueueFits ==
    /\ Len(fifo) <= Cardinality(Drives) * Limit
    /\ \A d \in Drives :
          counters[d] + (IF inc = d THEN 1 ELSE 0)
            = Cardinality(OnDrive(fifo \o Taken, d))

\* What the arbiter implements.
Promise == INSTANCE NvmeCommands WITH
    queue <- (IF Pulling THEN Tail(fifo) ELSE fifo) \o Taken,
    answer <- CASE state = "SendResRdPull" -> "Rd"
                [] state = "SendResWrPull" -> "Wr"
                [] OTHER -> None

\* Every step of the arbiter is a step of the abstract command queue.
ImplementsCommands == Promise!Spec

\* A command that is offered is taken: neither stream shuts the other out.
OffersTaken == \A s \in Streams : offer[s] # None ~> inc # None /\ cmd.stream = s

\* A command that has been taken is answered on its own stream.
CommandsAnswered ==
    \A s \in Streams :
        (\E i \in DOMAIN fifo : fifo[i].stream = s)
            ~> (Pulling /\ Head(fifo).stream = s)
=============================================================================
