----------------------------- MODULE AgentServer -----------------------------
(***************************************************************************)
(* The driver's server thread and the operator agents: the placeholder     *)
(* processes that a shell starts for `a | b | c'.  Each one looks up its   *)
(* neighbours in /proc, connects to the server, registers and then takes   *)
(* part in the processing loop; the server collects agents in its pool     *)
(* until they form a pipeline, builds it, runs it turn by turn and answers *)
(* everybody.                                                              *)
(*                                                                         *)
(* Sockets keep the order of messages and lose none.  What is transferred  *)
(* in a turn is left out here (module PipelineStreams has it), and so is   *)
(* what a failing step reports: any step that can throw may do so.         *)
(***************************************************************************)
EXTENDS Naturals, Sequences, FiniteSets

CONSTANTS
    Clients,
    None,
    Topologies,     \* the ways the shell may have connected the clients
    MaxTurns,       \* bound: turns of one pipeline
    MaxFaults       \* bound: crashes of clients and failures of the server

ASSUME AgentsAssumption ==
    /\ IsFiniteSet(Clients) /\ None \notin Clients
    /\ Topologies \subseteq [Clients -> Clients \cup {None}]
    /\ MaxTurns \in Nat \ {0} /\ MaxFaults \in Nat

\* The shell gives every pipe of a pipeline one writer.
ASSUME OneWriter ==
    \A t \in Topologies : \A c, d \in Clients : t[c] = t[d] /\ t[c] # None => c = d

VARIABLES
    next,           \* the client that each client's standard output goes to
    client,         \* where each client is in its main function
    inPid, outPid,  \* input_pid and output_pid it registers with
    sent,           \* for each client, what the server has yet to receive
    inbox,          \* for each client, what it has yet to receive
    backlog,        \* connections the server has not accepted yet
    server,         \* where the server thread is
    peer,           \* the client of the connection being processed
    registered,     \* _registered_agents
    outputAgent,    \* _outputAgent of every agent
    pipeline,       \* _pipeline_agents
    terminated,     \* the agents with _terminated set
    at,             \* agents of the pipeline that have signalled ready
    buffers,        \* whether the ends of the pipeline have shared buffers
    turns,          \* turns completed
    eof,            \* endOfInput of the present turn
    faults          \* history: crashes and failures so far

clientVars == <<next, client, inPid, outPid>>
socketVars == <<sent, inbox, backlog>>
poolVars == <<peer, registered, outputAgent>>
loopVars == <<pipeline, terminated, at, buffers, turns, eof>>
vars == <<clientVars, socketVars, server, poolVars, loopVars, faults>>

Init ==
    /\ next \in Topologies
    /\ client = [c \in Clients |-> "forked"]
    /\ inPid = [c \in Clients |-> None] /\ outPid = [c \in Clients |-> None]
    /\ sent = [c \in Clients |-> <<>>] /\ inbox = [c \in Clients |-> <<>>]
    /\ backlog = <<>>
    /\ server = "accept" /\ peer = None
    /\ registered = {} /\ outputAgent = [c \in Clients |-> None]
    /\ pipeline = <<>> /\ terminated = {} /\ at = 0
    /\ buffers = [input |-> FALSE, output |-> FALSE]
    /\ turns = 0 /\ eof = FALSE /\ faults = 0

Gone(c) == client[c] \in {"done", "failed", "crashed"}

\* The server has sent m(c) to every c in `to'; a client that is gone does not
\* notice (the signal for a broken pipe is ignored).
Delivered(to, m) ==
    [c \in Clients |->
        IF c \in to /\ ~Gone(c) THEN Append(inbox[c], m) ELSE inbox[c]]

------------------------------------------------------------------------------
(* The clients. *)

Goes(c, phase) == client' = [client EXCEPT ![c] = phase]

Sends(c, m) == sent' = [sent EXCEPT ![c] = Append(@, m)]

\* External: the shell's child becomes the placeholder program.
Exec(c) ==
    /\ client[c] = "forked"
    /\ Goes(c, "started")
    /\ UNCHANGED <<next, inPid, outPid, socketVars, server, poolVars,
                   loopVars, faults>>

\* A process shows up as an operator only while it runs the placeholder.
Visible(p) == client[p] # "forked" /\ ~Gone(p)

FindInput(c) ==
    LET writers == {p \in Clients : next[p] = c /\ Visible(p)}
    IN  /\ client[c] = "started"
        /\ inPid' = [inPid EXCEPT ![c] =
                        IF writers = {} THEN None ELSE CHOOSE p \in writers : TRUE]
        /\ Goes(c, "input")
        /\ UNCHANGED <<next, outPid, socketVars, server, poolVars, loopVars,
                       faults>>

FindOutput(c) ==
    /\ client[c] = "input"
    /\ outPid' = [outPid EXCEPT ![c] =
                    IF next[c] # None /\ Visible(next[c]) THEN next[c] ELSE None]
    /\ Goes(c, "connected")
    /\ backlog' = Append(backlog, c)
    /\ UNCHANGED <<next, inPid, sent, inbox, server, poolVars, loopVars, faults>>

Hello(c) ==
    /\ client[c] = "connected"
    /\ Goes(c, "registering")
    /\ Sends(c, "Registration")
    /\ UNCHANGED <<next, inPid, outPid, inbox, backlog, server, poolVars,
                   loopVars, faults>>

\* The next message: a valid registration or an answer that is not the last
\* one is followed by a request; a message of another type ends the client.
Answered(c) ==
    /\ client[c] \in {"registering", "running"} /\ inbox[c] # <<>>
    /\ LET m == Head(inbox[c])
           goesOn == \/ client[c] = "registering" /\ m = "valid"
                     \/ client[c] = "running" /\ m = "more"
       IN  IF goesOn
           THEN /\ Goes(c, "running")
                /\ Sends(c, "Processing")
                /\ inbox' = [inbox EXCEPT ![c] = Tail(@)]
           ELSE /\ Goes(c, IF client[c] = "running" /\ m = "eof"
                           THEN "done" ELSE "failed")
                /\ inbox' = [inbox EXCEPT ![c] = <<>>]
                /\ UNCHANGED sent
    /\ UNCHANGED <<next, inPid, outPid, backlog, server, poolVars, loopVars,
                   faults>>

\* A client is killed.
Crash(c) ==
    /\ client[c] # "forked" /\ ~Gone(c) /\ faults < MaxFaults
    /\ Goes(c, "crashed")
    /\ inbox' = [inbox EXCEPT ![c] = <<>>]
    /\ faults' = faults + 1
    /\ UNCHANGED <<next, inPid, outPid, sent, backlog, server, poolVars,
                   loopVars>>

------------------------------------------------------------------------------
(* Registration. *)

Accept ==
    /\ server = "accept" /\ backlog # <<>>
    /\ peer' = Head(backlog) /\ backlog' = Tail(backlog)
    /\ server' = "hello"
    /\ UNCHANGED <<clientVars, sent, inbox, registered, outputAgent, loopVars,
                   faults>>

\* Mutant: the new agent is not connected to one that registered before it.
LinkedForwardOnly(a) ==
    [c \in Clients |->
        IF c \in registered /\ outPid[c] = a THEN a ELSE outputAgent[c]]

\* registerAgent connects the new agent a with those already there.
Linked(a) ==
    [c \in Clients |->
        IF c \in registered /\ outPid[c] = a THEN a
        ELSE IF c = a /\ outPid[a] \in registered THEN outPid[a]
        ELSE outputAgent[c]]

\* The agents from a on, up to one that writes to no agent or is not
\* connected yet.
Walk(link, a) ==
    LET walk[n \in 0 .. Cardinality(Clients)] ==
            IF n = 0 THEN <<a>>
            ELSE LET w == walk[n - 1]
                     last == w[Len(w)]
                 IN  IF outPid[last] = None \/ link[last] = None THEN w
                     ELSE Append(w, link[last])
    IN  walk[Cardinality(Clients)]

\* Mutant: a walk that stops at an unconnected agent counts as a pipeline.
CompleteAlways(w) == Len(w) > 0

Complete(w) == outPid[w[Len(w)]] = None

\* The agent is registered.  The walk starts from whichever agent without
\* input comes first in the pool; when it is complete, its agents leave the
\* pool and everybody else in it is turned away.
Register ==
    /\ server = "hello" /\ sent[peer] # <<>>
    /\ LET pool == registered \cup {peer}
           link == Linked(peer)
           starts == {c \in pool : inPid[c] = None}
           waits == /\ registered' = pool /\ server' = "accept"
                    /\ UNCHANGED <<inbox, pipeline>>
       IN  /\ outputAgent' = link
           /\ \/ starts = {} /\ waits
              \/ \E a \in starts :
                    LET w == Walk(link, a)
                    IN  IF ~Complete(w) THEN waits
                        ELSE /\ pipeline' = w /\ registered' = {}
                             /\ inbox' = Delivered(
                                    pool \ {w[i] : i \in DOMAIN w}, "invalid")
                             /\ server' = "build"
    /\ sent' = [sent EXCEPT ![peer] = Tail(@)]
    /\ peer' = None
    /\ UNCHANGED <<clientVars, backlog, terminated, at, buffers, turns, eof,
                   faults>>

\* The peer hangs up without a hello.
NoHello ==
    /\ server = "hello" /\ sent[peer] = <<>> /\ Gone(peer)
    /\ server' = "accept" /\ peer' = None
    /\ UNCHANGED <<clientVars, socketVars, registered, outputAgent, loopVars,
                   faults>>

------------------------------------------------------------------------------
(* Building and running a pipeline. *)

Source == pipeline[1]
Sink == pipeline[Len(pipeline)]
SingleStage == Len(pipeline) = 1
Members == {pipeline[i] : i \in DOMAIN pipeline}
Idle == Members \ {Source, Sink}

\* Every agent of the pipeline is told that it has been accepted.
Build(b) ==
    /\ server = "build"
    /\ buffers' = b
    /\ inbox' = Delivered(Members, "valid")
    /\ at' = 1 /\ server' = IF Len(pipeline) > 2 THEN "ready" ELSE "source"
    /\ UNCHANGED <<clientVars, sent, backlog, poolVars, pipeline, terminated,
                   turns, eof, faults>>

\* receiveProcessingRequest of agent c, where it is needed.
Receives(c, needed) ==
    IF needed THEN /\ sent[c] # <<>>
                   /\ sent' = [sent EXCEPT ![c] = Tail(@)]
              ELSE UNCHANGED sent

\* The idle agents signal ready, in the order of the pipeline.
Ready ==
    /\ server = "ready"
    /\ Receives(pipeline[at + 1], TRUE)
    /\ at' = at + 1
    /\ server' = IF at + 2 < Len(pipeline) THEN "ready" ELSE "source"
    /\ UNCHANGED <<clientVars, inbox, backlog, poolVars, pipeline, terminated,
                   buffers, turns, eof, faults>>

\* Mutant: the end of the input is never seen.
SourceConfigureEndless ==
    /\ server = "source"
    /\ Receives(Source, turns = 0 \/ buffers.input)
    /\ eof' = FALSE
    /\ server' = "sink"
    /\ UNCHANGED <<clientVars, inbox, backlog, poolVars, pipeline, terminated,
                   at, buffers, turns, faults>>

SourceConfigure ==
    /\ server = "source"
    /\ Receives(Source, turns = 0 \/ buffers.input)
    /\ eof' \in IF turns + 1 = MaxTurns THEN {TRUE} ELSE BOOLEAN
    /\ server' = "sink"
    /\ UNCHANGED <<clientVars, inbox, backlog, poolVars, pipeline, terminated,
                   at, buffers, turns, faults>>

\* Mutant: the one agent of a pipeline is asked twice.
SinkConfigureAlways ==
    /\ server = "sink"
    /\ Receives(Sink, turns = 0 \/ buffers.output)
    /\ server' = "run"
    /\ UNCHANGED <<clientVars, inbox, backlog, poolVars, loopVars, faults>>

\* Mutant: the sink is asked in the first turn only.
SinkConfigureOnce ==
    /\ server = "sink"
    /\ Receives(Sink, turns = 0 /\ ~SingleStage)
    /\ server' = "run"
    /\ UNCHANGED <<clientVars, inbox, backlog, poolVars, loopVars, faults>>

SinkConfigure ==
    /\ server = "sink"
    /\ Receives(Sink, (turns = 0 \/ buffers.output) /\ ~SingleStage)
    /\ server' = "run"
    /\ UNCHANGED <<clientVars, inbox, backlog, poolVars, loopVars, faults>>

Answer == IF eof THEN "eof" ELSE "more"

\* The turn has run on the card; the source is answered.
SourceFinalize ==
    /\ server = "run"
    /\ inbox' = IF (eof \/ buffers.input) /\ ~SingleStage
                THEN Delivered({Source}, Answer) ELSE inbox
    /\ server' = "finalize"
    /\ UNCHANGED <<clientVars, sent, backlog, poolVars, loopVars, faults>>

\* The output file is truncated, then the sink is answered.
SinkFinalize ==
    /\ server = "finalize"
    /\ inbox' = IF eof \/ buffers.output \/ (buffers.input /\ SingleStage)
                THEN Delivered({Sink}, Answer) ELSE inbox
    /\ terminated' = IF eof THEN terminated \cup {Sink} ELSE terminated
    /\ turns' = turns + 1
    /\ server' = IF eof THEN "respond" ELSE "source"
    /\ UNCHANGED <<clientVars, sent, backlog, poolVars, pipeline, at, buffers,
                   eof, faults>>

\* Mutant: the idle agents are left without an answer.
RespondNobody ==
    /\ server = "respond"
    /\ server' = "reset"
    /\ UNCHANGED <<clientVars, socketVars, poolVars, loopVars, faults>>

Respond ==
    /\ server = "respond"
    /\ inbox' = Delivered(Idle, "eof")
    /\ server' = "reset"
    /\ UNCHANGED <<clientVars, sent, backlog, poolVars, loopVars, faults>>

\* Mutant: the pool forgets the agents without telling them.
ResetSilently ==
    /\ server = "reset"
    /\ pipeline' = <<>> /\ terminated' = {} /\ at' = 0 /\ turns' = 0
    /\ eof' = FALSE /\ buffers' = [input |-> FALSE, output |-> FALSE]
    /\ server' = "accept"
    /\ UNCHANGED <<clientVars, socketVars, poolVars, faults>>

\* AgentPool::reset; the agents, the loop and its contexts are gone as well.
Reset ==
    /\ server = "reset"
    /\ inbox' = Delivered((Members \ terminated) \cup registered, "invalid")
    /\ registered' = {}
    /\ pipeline' = <<>> /\ terminated' = {} /\ at' = 0 /\ turns' = 0
    /\ eof' = FALSE /\ buffers' = [input |-> FALSE, output |-> FALSE]
    /\ server' = "accept"
    /\ outputAgent' = [c \in Clients |-> None]
    /\ UNCHANGED <<clientVars, sent, backlog, peer, faults>>

\* The agent that the server is waiting for has hung up.
Waits(c, needed) == needed /\ sent[c] = <<>> /\ Gone(c)

HungUp ==
    \/ server = "ready" /\ Waits(pipeline[at + 1], TRUE)
    \/ server = "source" /\ Waits(Source, turns = 0 \/ buffers.input)
    \/ server = "sink"
       /\ Waits(Sink, (turns = 0 \/ buffers.output) /\ ~SingleStage)

Abandon ==
    /\ HungUp
    /\ server' = "reset"
    /\ UNCHANGED <<clientVars, socketVars, poolVars, loopVars, faults>>

\* The builder, a constructor before the loop, the card or the file system
\* throws.
Throw ==
    /\ server \in {"build", "ready", "source", "sink", "run", "finalize"}
    /\ server = "ready" => at = 1
    /\ server = "finalize" => eof /\ ~buffers.output
    /\ faults < MaxFaults
    /\ faults' = faults + 1
    /\ server' = "reset"
    /\ UNCHANGED <<clientVars, socketVars, poolVars, loopVars>>

------------------------------------------------------------------------------
ClientStep(c) ==
    Exec(c) \/ FindInput(c) \/ FindOutput(c) \/ Hello(c) \/ Answered(c)

ServerStep ==
    \/ Accept \/ Register \/ NoHello
    \/ \E b \in [input : BOOLEAN, output : BOOLEAN] : Build(b)
    \/ Ready \/ SourceConfigure \/ SinkConfigure
    \/ SourceFinalize \/ SinkFinalize \/ Respond \/ Reset \/ Abandon

Next ==
    \/ \E c \in Clients : ClientStep(c) \/ Crash(c)
    \/ ServerStep \/ Throw

Spec == Init /\ [][Next]_vars

\* Processes and the server thread are scheduled; nobody has to crash.
FairSpec == Spec /\ WF_vars(ServerStep) /\ \A c \in Clients : WF_vars(ClientStep(c))

------------------------------------------------------------------------------
TypeOK ==
    /\ next \in Topologies
    /\ client \in [Clients -> {"forked", "started", "input", "connected",
                "registering", "running", "done", "failed", "crashed"}]
    /\ inPid \in [Clients -> Clients \cup {None}]
    /\ outPid \in [Clients -> Clients \cup {None}]
    /\ sent \in [Clients -> Seq({"Registration", "Processing"})]
    /\ inbox \in [Clients -> Seq({"valid", "invalid", "more", "eof"})]
    /\ backlog \in Seq(Clients) /\ peer \in Clients \cup {None}
    /\ server \in {"accept", "hello", "build", "ready", "source", "sink", "run",
                   "finalize", "respond", "reset"}
    /\ registered \subseteq Clients /\ terminated \subseteq Clients
    /\ outputAgent \in [Clients -> Clients \cup {None}]
    /\ pipeline \in Seq(Clients) /\ at \in 0 .. Cardinality(Clients)
    /\ buffers \in [input : BOOLEAN, output : BOOLEAN]
    /\ turns \in 0 .. MaxTurns /\ eof \in BOOLEAN /\ faults \in 0 .. MaxFaults

\* The pipeline that runs leads from an agent without input to one without
\* output, every agent writes to the one behind it, and none of them is in the
\* pool any more (containsValidPipeline, releaseUnusedAgents).
PipelineIntact ==
    server \notin {"accept", "hello"} =>
        /\ pipeline # <<>>
        /\ inPid[Source] = None /\ outPid[Sink] = None
        /\ \A i \in 1 .. Len(pipeline) - 1 : outPid[pipeline[i]] = pipeline[i + 1]
        /\ Members \cap registered = {} /\ Cardinality(Members) = Len(pipeline)

Succeeds(c) == client[c] = "done" \/ \E i \in DOMAIN inbox[c] : inbox[c][i] = "eof"

\* The client fails, or the message that decides will make it fail.
Condemned(c) ==
    \/ client[c] = "failed"
    \/ ~Succeeds(c) /\ \E i \in DOMAIN inbox[c] : inbox[c][i] = "invalid"

\* An agent never ends well while the agent that feeds it is turned away: the
\* order of the last answers (source, sink, idle agents, reset) decides it.
AgreedEnd ==
    \A c, d \in Clients :
        inPid[d] = c /\ outPid[c] = d /\ Succeeds(d) => ~Condemned(c)

\* The one agent of a pipeline with internal input and a shared output buffer
\* sends requests that nobody receives after the first turn.
Unasked(c) == SingleStage /\ c = Source /\ ~buffers.input /\ buffers.output

\* While a turn runs on the card, no agent has a request open: it has been
\* received, and an agent sends the next one only when it has been answered.
\* Unasked agents are the exception.
TurnsInStep ==
    server = "run" => \A c \in Members : sent[c] = <<>> \/ Unasked(c)

\* When the server is back at its socket, every client that waits for it is
\* still on its way into a pipeline or has a message that ends it: no failure
\* makes the server forget an agent (processRequest, reset).
ForgetsNobody ==
    server \in {"accept", "hello"} =>
        \A c \in Clients :
            client[c] \in {"registering", "running"} =>
                \/ c \in registered \cup {peer}
                \/ \E i \in DOMAIN backlog : backlog[i] = c
                \/ \E i \in DOMAIN inbox[c] : inbox[c][i] \in {"invalid", "eof"}

\* The server never waits for good for an agent that waits for the server.
ServerReturns == server # "accept" ~> server = "accept"

\* One chain of clients, none of which was looked up before its start.
LoneChain ==
    /\ \A c \in Clients : next[c] = None => \A d \in Clients \ {c} : next[d] # None
    /\ \A c \in Clients : client[c] \notin {"forked", "started"} =>
            (inPid[c] = None <=> \A p \in Clients : next[p] # c)
    /\ \A c \in Clients : client[c] \notin {"forked", "started", "input"} =>
            outPid[c] = next[c]

\* A chain that has the server to itself runs to its end, in whatever order its
\* agents register, unless something fails.
LoneChainSucceeds ==
    [](LoneChain /\ faults = 0) => <>(\A c \in Clients : client[c] = "done")
=============================================================================
