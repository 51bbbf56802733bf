--------------------------- MODULE PipelineStreams ---------------------------
(***************************************************************************)
(* The data of one pipeline: the turns of PipelineLoop and the runner on   *)
(* the server thread, the data source and sink contexts, and the agents at *)
(* both ends with the shared double buffers, while threads of the file     *)
(* system run transfers of their own on the same card.                     *)
(*                                                                         *)
(* The input is the bytes 1 .. len; the operators pass bytes on or drop    *)
(* all of a turn.  A byte that did not go through them is negative, and 0  *)
(* is a byte that nobody has written.                                      *)
(***************************************************************************)
EXTENDS Integers, Sequences

CONSTANTS
    BufferSize,
    Lengths,        \* bound: the lengths of the input
    MaxForeign      \* bound: transfers that other threads run

ASSUME StreamsAssumption ==
    /\ BufferSize \in Nat \ {0} /\ Lengths \subseteq Nat /\ MaxForeign \in Nat

VARIABLES
    kind,       \* what the ends of the pipeline are
    len,        \* bytes of input
    card,       \* the thread that is attached to the card
    switch,     \* whether the switch on the card leads through the operators
    server,     \* where the server thread is
    started,    \* _initialized of the runner
    turn,       \* [size, eof, out] of the present turn
    consumed,   \* bytes of input in the turns before
    sink,       \* FileDataSinkContext: its address, the length it knows of the
                \* file, and the file's bytes
    inBuf, outBuf,  \* the shared buffers: two halves
    half,       \* the current half of each, for the server
    agents,     \* the placeholder processes
    requests, responses,    \* messages on the way
    stdin,      \* bytes read of, and delivered to, standard input; whether the
                \* writer has given up
    written,    \* bytes on standard output
    expected,   \* history: what the turns so far should yield
    gap,        \* history: a turn without output, not the last one
    foreign,    \* transfers other threads have run
    mixed       \* history: one of them came between two turns

pipeVars == <<started, turn, consumed, sink, half, expected, gap>>
agentVars == <<agents, written>>
envVars == <<foreign, mixed>>
vars == <<kind, len, card, switch, server, pipeVars, inBuf, outBuf, agentVars,
          requests, responses, stdin, envVars>>

Least(a, b) == IF a <= b THEN a ELSE b

Bytes(from, n) == [i \in 1 .. n |-> IF from + i <= len THEN from + i ELSE 0]

\* s over the bytes of t from position `from' on.
Over(t, from, s) ==
    [i \in 1 .. (IF Len(t) >= from + Len(s) THEN Len(t) ELSE from + Len(s)) |->
        IF i > from /\ i <= from + Len(s) THEN s[i - from]
        ELSE IF i <= Len(t) THEN t[i] ELSE 0]

\* The file, truncated or extended to n bytes.
Resized(t, n) == [i \in 1 .. n |-> IF i <= Len(t) THEN t[i] ELSE 0]

Empty == [i \in 1 .. BufferSize |-> 0]

Agents == {"source", "sink"}

\* A pipeline of one stage has one agent for both ends.
Src == IF kind.single THEN "sink" ELSE "source"

HasInput(a) == a = Src /\ kind.source = "buffer"
HasOutput(a) == a = "sink" /\ kind.sink = "buffer"
Takes(a) == a = "sink" \/ ~kind.single

\* FileDataSinkContext: an output file has at least the length of a buffer
\* once the constructor is through, and more if it was longer before.
SinkFiles ==
    {[addr |-> 0, total |-> n, data |-> Resized(<<>>, n)] :
        n \in {BufferSize, 2 * BufferSize + 1}}

Init ==
    /\ len \in Lengths
    /\ kind \in [source : {"buffer", "datagen", "file"}, sink : {"buffer", "file"},
                 single : BOOLEAN, fed : BOOLEAN]
    /\ kind.fed => kind.source = "buffer"
    /\ card = "free" /\ switch = "plain" /\ server = "attach"
    /\ started = FALSE
    /\ turn = [size |-> 0, eof |-> FALSE, out |-> 0]
    /\ consumed = 0
    /\ sink \in IF kind.sink = "file" THEN SinkFiles
               ELSE {[addr |-> 0, total |-> 0, data |-> <<>>]}
    /\ inBuf = [h \in {0, 1} |-> Empty] /\ outBuf = [h \in {0, 1} |-> Empty]
    /\ half = [input |-> 0, output |-> 0]
    /\ agents = [a \in Agents |->
            [pc |-> IF Takes(a) THEN "fill" ELSE "done", input |-> 0, output |-> 0,
             size |-> 0, eof |-> FALSE, answer |-> [size |-> 0, eof |-> FALSE]]]
    /\ requests = [a \in Agents |-> <<>>] /\ responses = [a \in Agents |-> <<>>]
    /\ stdin = [read |-> 0, fed |-> IF kind.fed THEN 0 ELSE len, cut |-> FALSE]
    /\ written = <<>> /\ expected = <<>> /\ gap = FALSE
    /\ foreign = 0 /\ mixed = FALSE

------------------------------------------------------------------------------
(* An agent: the processing loop of the placeholder program. *)


\* feof after fread: the stream had less than was asked for.
AtEnd(n) == n < BufferSize

\* Reads the next input, if there is any, into the current half.
Fill(a) ==
    LET me == agents[a]
        there == stdin.fed - stdin.read
        n == Least(BufferSize, there)
        next == IF me.pc = "fill" THEN "send" ELSE "wait"
    IN  /\ me.pc \in {"fill", "read"}
        /\ IF HasInput(a) /\ ~me.eof
           THEN /\ there >= BufferSize \/ stdin.fed = len \/ stdin.cut
                /\ inBuf' = [inBuf EXCEPT ![me.input] =
                                Over(@, 0, Bytes(stdin.read, n))]
                /\ agents' = [agents EXCEPT ![a] =
                        [@ EXCEPT !.pc = next, !.size = n, !.eof = AtEnd(n),
                                  !.input = 1 - @]]
                /\ stdin' = [stdin EXCEPT !.read = @ + n]
           ELSE /\ agents' = [agents EXCEPT ![a].pc = next]
                /\ UNCHANGED <<inBuf, stdin>>
    /\ UNCHANGED <<kind, len, card, switch, server, pipeVars, outBuf, written,
                   requests, responses, envVars>>

Send(a) ==
    /\ agents[a].pc = "send"
    /\ requests' = [requests EXCEPT ![a] =
            Append(@, [size |-> agents[a].size, eof |-> agents[a].eof])]
    /\ agents' = [agents EXCEPT ![a].pc = "write"]
    /\ UNCHANGED <<kind, len, card, switch, server, pipeVars, inBuf, outBuf,
                   written, responses, stdin, envVars>>

\* Writes out what the last answer announced and swaps the buffer, but only if
\* there was anything.
WriteOut(a) ==
    LET me == agents[a]
        some == me.answer.size > 0 /\ HasOutput(a)
    IN  /\ me.pc = "write"
        /\ written' = IF some
                THEN written \o SubSeq(outBuf[me.output], 1, me.answer.size)
                ELSE written
        /\ agents' = [agents EXCEPT ![a] =
                [@ EXCEPT !.pc = IF me.answer.eof THEN "done" ELSE "read",
                          !.output = IF some THEN 1 - @ ELSE @]]
    /\ UNCHANGED <<kind, len, card, switch, server, pipeVars, inBuf, outBuf,
                   requests, responses, stdin, envVars>>

\* The next answer; a message of another kind ends the agent.
Receive(a) ==
    /\ agents[a].pc = "wait" /\ responses[a] # <<>>
    /\ LET m == Head(responses[a])
       IN  agents' = [agents EXCEPT ![a] =
            IF ~m.valid THEN [@ EXCEPT !.pc = "failed"]
            ELSE [@ EXCEPT !.answer = m, !.pc = IF m.eof THEN "write" ELSE "send"]]
    /\ responses' = [responses EXCEPT ![a] = Tail(@)]
    /\ UNCHANGED <<kind, len, card, switch, server, pipeVars, inBuf, outBuf,
                   written, requests, stdin, envVars>>

AgentStep(a) == Fill(a) \/ Send(a) \/ WriteOut(a) \/ Receive(a)

------------------------------------------------------------------------------
(* The server: one run of the runner per turn. *)

\* The switch is set up in the first turn, and then taken to stay so.
Switched == IF started THEN switch ELSE "operators"

\* SnapAction attaches to the card.
Attach ==
    /\ server = "attach" /\ card = "free"
    /\ card' = "server" /\ server' = "source"
    /\ switch' = Switched
    /\ UNCHANGED <<kind, len, pipeVars, inBuf, outBuf, agentVars, requests,
                   responses, stdin, envVars>>

Take(a, needed) ==
    IF needed THEN requests[a] # <<>> /\ requests' = [requests EXCEPT ![a] = Tail(@)]
              ELSE UNCHANGED requests

\* FileDataSourceContext: the size set by the constructor.
FileSize == Least(BufferSize, len)

\* Its finalize and endOfInput: the size stays as it is.
FileTurn ==
    [size |-> FileSize, eof |-> consumed + FileSize >= len, out |-> 0]

\* Its configure throws if there are no extents, as in an empty file.
FileThrows == kind.source = "file" /\ len = 0

SourceConfigure ==
    /\ server = "source"
    /\ Take(Src, ~started \/ kind.source = "buffer")
    /\ turn' = CASE kind.source = "buffer" ->
                    LET r == Head(requests[Src])
                    IN  [size |-> r.size, eof |-> r.eof, out |-> 0]
                 [] kind.source = "datagen" ->
                    LET n == Least(len - consumed, BufferSize)
                    IN  [size |-> n, eof |-> len - consumed = n, out |-> 0]
                 [] kind.source = "file" -> FileTurn
    /\ server' = IF FileThrows THEN "throw" ELSE "sink"
    /\ UNCHANGED <<kind, len, card, switch, started, consumed, sink, half,
                   expected, gap, inBuf, outBuf, agentVars, responses, stdin,
                   envVars>>


\* prepareForTotalSize, where the file is too short for the turn.
Prepared(size) ==
    IF sink.addr + size <= sink.total THEN sink
    ELSE [sink EXCEPT !.total = sink.addr + size,
                      !.data = Resized(@, sink.addr + size)]

SinkConfigure ==
    /\ server = "sink"
    /\ Take("sink", (~started \/ kind.sink = "buffer") /\ ~kind.single)
    /\ sink' = IF kind.sink = "file" THEN Prepared(turn.size) ELSE sink
    /\ started' = TRUE
    /\ server' = "run"
    /\ UNCHANGED <<kind, len, card, switch, turn, consumed, half, expected, gap,
                   inBuf, outBuf, agentVars, responses, stdin, envVars>>

\* Where the card reads from.
Input == IF kind.source = "buffer" THEN SubSeq(inBuf[half.input], 1, turn.size)
         ELSE Bytes(consumed, turn.size)

\* The turn runs on the card (not at all without input) and ends as the
\* operators decide: with all of the bytes or with none.
Run(drop) ==
    LET through == [i \in 1 .. turn.size |->
                        IF switch = "operators" THEN Input[i] ELSE -Input[i]]
        out == IF drop THEN <<>> ELSE through
    IN  /\ server = "run"
        /\ drop => turn.size > 0
        /\ turn' = [turn EXCEPT !.out = Len(out)]
        /\ expected' = IF drop THEN expected
                       ELSE expected \o
                            Bytes(consumed, Least(turn.size, len - consumed))
        /\ gap' = (gap \/ (out = <<>> /\ ~turn.eof))
        /\ IF kind.sink = "buffer"
           THEN /\ outBuf' = [outBuf EXCEPT ![half.output] = Over(@, 0, out)]
                /\ UNCHANGED sink
           ELSE /\ sink' = [sink EXCEPT !.data = Over(@, sink.addr, out)]
                /\ UNCHANGED outBuf
        /\ server' = "source done"
    /\ UNCHANGED <<kind, len, card, switch, started, consumed, half, inBuf,
                   agentVars, requests, responses, stdin, envVars>>

Answers(a, needed, n) ==
    responses' = IF needed
        THEN [responses EXCEPT ![a] =
                Append(@, [valid |-> TRUE, size |-> n, eof |-> turn.eof])]
        ELSE responses


SourceFinalize ==
    /\ server = "source done"
    /\ consumed' = consumed + turn.size
    /\ half' = IF kind.source = "buffer" THEN [half EXCEPT !.input = 1 - @] ELSE half
    /\ Answers(Src, (turn.eof \/ kind.source = "buffer") /\ ~kind.single, 0)
    /\ server' = "sink done"
    /\ UNCHANGED <<kind, len, card, switch, started, turn, sink, expected, gap,
                   inBuf, outBuf, agentVars, requests, stdin, envVars>>

\* Mutant: a turn is answered only if there is output to fetch.
AnswerNeededForOutput == kind.sink = "buffer" \/ turn.eof

\* When the sink's agent is answered.
AnswerNeeded ==
    turn.eof \/ kind.sink = "buffer" \/ (kind.single /\ kind.source = "buffer")

\* FileDataSinkContext::finalize: the file is cut after the last turn.
SinkAdvanced ==
    LET to == sink.addr + turn.out
    IN  [sink EXCEPT !.addr = to,
                     !.data = IF turn.eof THEN Resized(@, to) ELSE @]

\* The run is over and the card is released.
SinkFinalize ==
    /\ server = "sink done"
    /\ half' = IF kind.sink = "buffer" THEN [half EXCEPT !.output = 1 - @] ELSE half
    /\ sink' = IF kind.sink = "buffer" THEN sink ELSE SinkAdvanced
    /\ Answers("sink", AnswerNeeded, IF kind.sink = "buffer" THEN turn.out ELSE 0)
    /\ card' = "free"
    /\ server' = IF turn.eof THEN "done" ELSE "attach"
    /\ UNCHANGED <<kind, len, switch, started, turn, consumed, expected, gap,
                   inBuf, outBuf, agentVars, requests, stdin, envVars>>

\* The exception ends the loop and every agent is told.
Unwind ==
    /\ server = "throw"
    /\ card' = "free" /\ server' = "failed"
    /\ responses' = [a \in Agents |->
            IF Takes(a) THEN Append(responses[a], [valid |-> FALSE]) ELSE responses[a]]
    /\ UNCHANGED <<kind, len, switch, pipeVars, inBuf, outBuf, agentVars,
                   requests, stdin, envVars>>

ServerStep ==
    \/ Attach \/ SourceConfigure \/ SinkConfigure
    \/ \E drop \in BOOLEAN : Run(drop)
    \/ SourceFinalize \/ SinkFinalize \/ Unwind

------------------------------------------------------------------------------
(* Threads of the file system (PipelineStorage::read and write): a runner  *)
(* of their own, without operators, for one transfer.                      *)

Foreign ==
    /\ card = "free"
    /\ switch' = "plain"
    /\ mixed' = (mixed \/ (started /\ server = "attach"))

ForeignTransfer ==
    /\ foreign < MaxForeign
    /\ Foreign
    /\ foreign' = foreign + 1
    /\ UNCHANGED <<kind, len, card, server, pipeVars, inBuf, outBuf, agentVars,
                   requests, responses, stdin>>

\* The agent's standard input is a pipe from a program that reads a file of
\* this file system: every read is a transfer.
Feed ==
    /\ stdin.fed < len /\ ~stdin.cut
    /\ Foreign
    /\ stdin' = [stdin EXCEPT !.fed = Least(@ + BufferSize, len)]
    /\ UNCHANGED <<kind, len, card, server, pipeVars, inBuf, outBuf, agentVars,
                   requests, responses, foreign>>

\* Its read cannot attach to the card in time and fails.
FeedTimeout ==
    /\ stdin.fed < len /\ ~stdin.cut /\ card = "server"
    /\ stdin' = [stdin EXCEPT !.cut = TRUE]
    /\ UNCHANGED <<kind, len, card, switch, server, pipeVars, inBuf, outBuf,
                   agentVars, requests, responses, envVars>>

Next ==
    \/ \E a \in Agents : AgentStep(a)
    \/ ServerStep
    \/ ForeignTransfer \/ Feed \/ FeedTimeout

Spec == Init /\ [][Next]_vars

\* Threads and processes are scheduled, and a read that cannot attach to the
\* card does time out.
FairSpec ==
    /\ Spec
    /\ WF_vars(ServerStep) /\ WF_vars(Feed \/ FeedTimeout)
    /\ \A a \in Agents : WF_vars(AgentStep(a))

------------------------------------------------------------------------------
Magnitude(s) == [i \in DOMAIN s |-> IF s[i] < 0 THEN -s[i] ELSE s[i]]

Output == IF kind.sink = "buffer" THEN written ELSE sink.data

\* Cases in which the code loses step: a file source whose last turn reads past
\* the end, a turn without output before the last one, and an agent of its own
\* whose requests nobody receives.
Overread == kind.source = "file" /\ len > BufferSize /\ len % BufferSize # 0
Desynced == gap /\ kind.sink = "buffer"
Unasked == kind.single /\ kind.source # "buffer" /\ kind.sink = "buffer"




\* The card never reads past the end of the file ("Make sure that the size is
\* not larger than the file").
ReadsWithinFile ==
    server = "run" /\ kind.source = "file" => consumed + turn.size <= len

\* The loop comes to its end and so do the agents, although the server holds
\* the card while it waits for them.
StreamEnds ==
    <>(/\ server \in {"done", "failed"}
       /\ \A a \in Agents : agents[a].pc \in {"done", "failed"})
=============================================================================
