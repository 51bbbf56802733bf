-------------------------- MODULE AgentServerProofs --------------------------
(***************************************************************************)
(* The safety properties of the server thread and its agents, for every    *)
(* set of clients, every way of connecting them and any number of turns    *)
(* and failures.                                                           *)
(***************************************************************************)
EXTENDS AgentServer, TLAPS

------------------------------------------------------------------------------
(* The inductive invariant. *)

Listening == server \in {"accept", "hello"}
Queued == {backlog[i] : i \in DOMAIN backlog}

\* A client is in one place at most: the backlog, the connection being
\* processed, the pool or the pipeline.
Places ==
    /\ \A i, j \in DOMAIN backlog : backlog[i] = backlog[j] => i = j
    /\ \A c \in Queued : c \notin registered /\ c # peer /\ c \notin Members
    /\ peer \notin registered
    /\ ~Listening => registered = {}
    /\ pipeline = <<>> <=> Listening
    /\ peer # None <=> server = "hello"

\* What a client has looked up is true of its pipes; it is nowhere before it
\* has looked up both sides.
Lookups ==
    \A c \in Clients :
        /\ client[c] \in {"forked", "started"} => inPid[c] = None
        /\ client[c] \in {"forked", "started", "input"} =>
               /\ outPid[c] = None
               /\ c \notin Queued \cup registered \cup Members /\ c # peer
        /\ inPid[c] # None => next[inPid[c]] = c
        /\ outPid[c] # None => next[c] = outPid[c]

\* An agent is connected to the one it names, and only within the pool.
Connections ==
    \A c \in Clients : outputAgent[c] # None =>
        /\ outPid[c] = outputAgent[c]
        /\ Listening => c \in registered /\ outputAgent[c] \in registered

Chain ==
    ~Listening =>
        /\ inPid[Source] = None /\ outPid[Sink] = None
        /\ \A i \in 1 .. Len(pipeline) - 1 : outPid[pipeline[i]] = pipeline[i + 1]
        /\ \A i, j \in DOMAIN pipeline : pipeline[i] = pipeline[j] => i = j
        /\ Cardinality(Members) = Len(pipeline)
        /\ Len(pipeline) <= Cardinality(Clients)

Counters ==
    /\ server = "ready" => at >= 1 /\ at + 1 < Len(pipeline)
    /\ server \in {"accept", "hello", "build", "ready"} => turns = 0
    /\ server \in {"build", "ready", "source", "sink", "run", "finalize"} =>
           turns < MaxTurns
    /\ server \in {"sink", "run", "finalize"} /\ turns + 1 = MaxTurns => eof
    /\ server \notin {"respond", "reset"} => terminated = {}

\* What is in the mailboxes of a client that takes no part in a pipeline yet,
\* and that one which is gone reads nothing.
Mailbox(c) ==
    /\ client[c] \in {"forked", "started", "input", "connected"} =>
           sent[c] = <<>> /\ inbox[c] = <<>>
    /\ Gone(c) => inbox[c] = <<>>
    /\ client[c] = "connected" => c \in Queued \cup {peer}
    /\ c \in Queued \cup {peer} =>
           /\ client[c] \in {"connected", "registering", "crashed"}
           /\ inbox[c] = <<>> /\ Len(sent[c]) <= 1
    /\ c \in registered \/ (server = "build" /\ c \in Members) =>
           /\ client[c] \in {"registering", "crashed"}
           /\ sent[c] = <<>> /\ inbox[c] = <<>>
    /\ c \in Members => client[c] \in {"registering", "running", "done", "crashed"}

Mailboxes == \A c \in Clients : Mailbox(c)

\* The members that may have a request open or an answer unread.
Due ==
    CASE server = "ready" -> Members \ {pipeline[i] : i \in 2 .. at}
      [] server = "source" ->
            {c \in Members :
                \/ c = Source /\ (turns = 0 \/ buffers.input)
                \/ c = Sink /\ ~SingleStage /\ (turns = 0 \/ buffers.output)}
      [] server = "sink" ->
            {c \in Members :
                c = Sink /\ ~SingleStage /\ (turns = 0 \/ buffers.output)}
      [] server = "finalize" ->
            {c \in Members : c = Source /\ ~SingleStage /\ (eof \/ buffers.input)}
      [] server = "respond" -> {c \in Members : c \in {Source, Sink}}
      [] OTHER -> {}

Load(c) == Len(sent[c]) + Len(inbox[c])

\* A member has at most one message on its way, and none unless it is due.
InStep ==
    server # "reset" =>
        \A c \in Members : Unasked(c) \/ Load(c) <= IF c \in Due THEN 1 ELSE 0

Has(c, m) == \E i \in DOMAIN inbox[c] : inbox[c][i] = m

\* The order of what an agent is told: first that it is accepted or turned
\* away, and nothing after it has been turned away.
Grammatical(c) ==
    /\ client[c] = "registering" /\ inbox[c] # <<>> =>
           inbox[c][1] \in {"valid", "invalid"}
    /\ \A i \in DOMAIN inbox[c] :
           /\ inbox[c][i] = "valid" => i = 1 /\ client[c] = "registering"
           /\ inbox[c][i] = "invalid" => i = Len(inbox[c])
    /\ c \in Members => ~Has(c, "invalid")
    /\ c \in Members /\ client[c] = "registering"
         /\ server \notin {"build", "reset"} => inbox[c] # <<>>

Grammar == \A c \in Clients : Grammatical(c)

\* Nobody who waits for the server has been forgotten.
Awaited(c) ==
    client[c] \in {"registering", "running"} =>
        \/ c \in registered \cup {peer} \cup Queued \cup (Members \ terminated)
        \/ Has(c, "invalid") \/ Has(c, "eof")

Remembered == \A c \in Clients : Awaited(c)

\* Whom the agent that feeds a successful one is: it succeeds as well, is dead,
\* or has yet to be told.
Agreed ==
    /\ \A c, d \in Clients : Succeeds(d) /\ inPid[d] = c =>
           /\ outPid[c] = d
           /\ \/ Succeeds(c) \/ client[c] = "crashed"
              \/ server = "respond" /\ c \in Members
    /\ server = "respond" \/ (server = "finalize" /\ eof /\ ~SingleStage) =>
           Succeeds(Source) \/ client[Source] = "crashed"

IndInv ==
    /\ TypeOK /\ Places /\ Lookups /\ Connections /\ Chain /\ Counters
    /\ Mailboxes /\ InStep /\ Grammar /\ Remembered /\ Agreed

------------------------------------------------------------------------------
(* The steps, by what they leave alone. *)

\* The steps of the processing loop, between two visits to the socket.
LoopStep ==
    \/ \E b \in [input : BOOLEAN, output : BOOLEAN] : Build(b)
    \/ Ready \/ SourceConfigure \/ SinkConfigure
    \/ SourceFinalize \/ SinkFinalize \/ Respond \/ Abandon \/ Throw

\* Sequences without an element, and with one.
LEMMA EmptyFacts ==
    /\ DOMAIN <<>> = {} /\ Len(<<>>) = 0
    /\ \A m : Append(<<>>, m) = <<m>> /\ Len(<<m>>) = 1
OBVIOUS

\* What taking the first element does to a queue.
LEMMA TailFacts ==
    ASSUME NEW S, NEW s \in Seq(S), s # <<>>
    PROVE  /\ Tail(s) \in Seq(S) /\ Len(Tail(s)) = Len(s) - 1
           /\ Len(s) \in Nat \ {0} /\ Head(s) = s[1] /\ s[1] \in S
           /\ DOMAIN s = 1 .. Len(s) /\ DOMAIN Tail(s) = 1 .. Len(s) - 1
           /\ \A i \in 1 .. Len(s) - 1 : Tail(s)[i] = s[i + 1]
OBVIOUS

\* The first element and the others were in the queue.
LEMMA TailMembers ==
    ASSUME NEW S, NEW s \in Seq(S), s # <<>>
    PROVE  /\ s[1] \in {s[i] : i \in DOMAIN s}
           /\ {Tail(s)[i] : i \in DOMAIN Tail(s)} \subseteq {s[i] : i \in DOMAIN s}
<1>1. 1 \in DOMAIN s
  BY TailFacts
<1>2. ASSUME NEW i \in DOMAIN Tail(s)
      PROVE  i + 1 \in DOMAIN s /\ Tail(s)[i] = s[i + 1]
  BY TailFacts
<1> QED  BY <1>1, <1>2, Zenon

\* The steps of the server, of its pool and of the agents, one by one.
LEMMA NextCases ==
    ASSUME [Next]_vars
    PROVE  \/ UNCHANGED vars
           \/ \E c \in Clients : \/ Exec(c) \/ FindInput(c) \/ FindOutput(c)
                                 \/ Hello(c) \/ Answered(c) \/ Crash(c)
           \/ Accept \/ Register \/ NoHello \/ LoopStep \/ Reset
BY DEF Next, ClientStep, ServerStep, LoopStep

\* The loop neither accepts a client nor touches the pool or its pipeline.
LEMMA LoopLeaves ==
    ASSUME TypeOK, LoopStep
    PROVE  /\ ~Listening /\ ~Listening'
           /\ UNCHANGED <<clientVars, backlog, poolVars, pipeline>>
<1>1. CASE \E b \in [input : BOOLEAN, output : BOOLEAN] : Build(b)
  BY <1>1 DEF Build, Listening
<1>2. CASE Ready
  BY <1>2 DEF Ready, Listening
<1>3. CASE SourceConfigure
  BY <1>3 DEF SourceConfigure, Listening
<1>4. CASE SinkConfigure
  BY <1>4 DEF SinkConfigure, Listening, loopVars
<1>5. CASE SourceFinalize
  BY <1>5 DEF SourceFinalize, Listening, loopVars
<1>6. CASE SinkFinalize
  BY <1>6 DEF SinkFinalize, Listening
<1>7. CASE Respond
  BY <1>7 DEF Respond, Listening, loopVars
<1>8. CASE Abandon
  BY <1>8, Zenon DEF Abandon, HungUp, Listening, loopVars, socketVars
<1>9. CASE Throw
  BY <1>9 DEF Throw, Listening, loopVars, socketVars
<1> QED
  BY LoopStep, <1>1, <1>2, <1>3, <1>4, <1>5, <1>6, <1>7, <1>8, <1>9 DEF LoopStep

\* A client changes neither the server nor the pipes, and no other client.
LEMMA ClientLeaves ==
    ASSUME NEW c \in Clients, TypeOK,
           \/ Exec(c) \/ FindInput(c) \/ FindOutput(c)
           \/ Hello(c) \/ Answered(c) \/ Crash(c)
    PROVE  /\ UNCHANGED <<next, server, poolVars, loopVars>>
           /\ \A d \in Clients \ {c} :
                  /\ client'[d] = client[d] /\ inPid'[d] = inPid[d]
                  /\ outPid'[d] = outPid[d] /\ sent'[d] = sent[d]
                  /\ inbox'[d] = inbox[d]
<1> USE DEF TypeOK, Goes, Sends
<1>1. CASE Exec(c)
  BY <1>1 DEF Exec, socketVars
<1>2. CASE FindInput(c)
  BY <1>2 DEF FindInput, socketVars
<1>3. CASE FindOutput(c)
  BY <1>3 DEF FindOutput
<1>4. CASE Hello(c)
  BY <1>4 DEF Hello
<1>5. CASE Answered(c)
  BY <1>5 DEF Answered
<1>6. CASE Crash(c)
  BY <1>6 DEF Crash
<1> QED  BY <1>1, <1>2, <1>3, <1>4, <1>5, <1>6

\* Registering connects an agent to the one it names and only in the pool.
LEMMA LinkedConnects ==
    ASSUME TypeOK, Connections, Listening, peer \in Clients
    PROVE  /\ Linked(peer) \in [Clients -> Clients \cup {None}]
           /\ \A c \in Clients : Linked(peer)[c] # None =>
                  /\ outPid[c] = Linked(peer)[c]
                  /\ c \in registered \cup {peer}
                  /\ Linked(peer)[c] \in registered \cup {peer}
BY DEF Linked, TypeOK, Connections, Listening

\* What a registration leads to: the agent waits in the pool, or a complete
\* chain of agents leaves it and the others are turned away.
Queues ==
    /\ server' = "accept" /\ registered' = registered \cup {peer}
    /\ UNCHANGED <<inbox, pipeline>>

Starts ==
    /\ server' = "build" /\ registered' = {}
    /\ pipeline' \in Seq(Clients) /\ pipeline' # <<>>
    /\ Members' \subseteq registered \cup {peer}
    /\ inbox' = Delivered((registered \cup {peer}) \ Members', "invalid")
    /\ inPid[pipeline'[1]] = None /\ outPid[pipeline'[Len(pipeline')]] = None
    /\ \A i \in 1 .. Len(pipeline') - 1 : outPid[pipeline'[i]] = pipeline'[i + 1]
    /\ \A i, j \in DOMAIN pipeline' : pipeline'[i] = pipeline'[j] => i = j
    /\ Cardinality(Members') = Len(pipeline')
    /\ Len(pipeline') <= Cardinality(Clients)

\* What a registration changes, whether or not it completes a pipeline, and
\* that the agents can be counted.  The lemmas about the steps rest on it; it
\* is proved below, where it needs an induction along the pipeline.
Registration ==
    /\ Cardinality(Clients) \in Nat
    /\ Register => /\ peer \in Clients /\ Listening
                   /\ Queues \/ Starts
                   /\ outputAgent' = Linked(peer)

------------------------------------------------------------------------------
(* Where the clients are, and how they are connected. *)

\* Every agent stays in the one place where the server can find it.
LEMMA PlacesStep ==
    ASSUME Registration, TypeOK, Places, Lookups, Connections, [Next]_vars
    PROVE  Places'
<1> USE DEF Places, Queued, Listening, Members
<1>1. CASE UNCHANGED vars
  BY <1>1 DEF vars, socketVars, poolVars, loopVars
<1>2. ASSUME NEW c \in Clients,
             Exec(c) \/ FindInput(c) \/ Hello(c) \/ Answered(c) \/ Crash(c)
      PROVE  Places'
  <2>1. UNCHANGED <<backlog, server, poolVars, loopVars>>
    BY <1>2 DEF Exec, FindInput, Hello, Answered, Crash, socketVars
  <2> QED  BY <2>1 DEF poolVars, loopVars
<1>3. ASSUME NEW c \in Clients, FindOutput(c) PROVE Places'
  <2>1. backlog' = Append(backlog, c) /\ UNCHANGED <<server, poolVars, loopVars>>
    BY <1>3 DEF FindOutput
  <2>2. c \notin Queued \cup registered \cup Members /\ c # peer
    BY <1>3 DEF FindOutput, Lookups
  <2>3. /\ Len(backlog') = Len(backlog) + 1 /\ backlog'[Len(backlog) + 1] = c
        /\ \A i \in 1 .. Len(backlog) : backlog'[i] = backlog[i]
        /\ DOMAIN backlog' = 1 .. Len(backlog) + 1
        /\ DOMAIN backlog = 1 .. Len(backlog) /\ Len(backlog) \in Nat
    BY <2>1 DEF TypeOK
  <2>4. Queued' = Queued \cup {c}
    BY <2>3
  <2>5. \A i, j \in DOMAIN backlog' : backlog'[i] = backlog'[j] => i = j
    BY <2>2, <2>3
  <2> QED  BY <2>1, <2>2, <2>4, <2>5 DEF poolVars, loopVars
<1>4. CASE Accept
  <2>1. /\ backlog # <<>> /\ peer' = backlog[1] /\ backlog' = Tail(backlog)
        /\ server = "accept" /\ server' = "hello"
        /\ UNCHANGED <<registered, pipeline>>
    BY <1>4 DEF Accept, loopVars
  <2>2. /\ Len(backlog') = Len(backlog) - 1
        /\ DOMAIN backlog' = 1 .. Len(backlog) - 1
        /\ DOMAIN backlog = 1 .. Len(backlog) /\ Len(backlog) \in Nat \ {0}
        /\ \A i \in 1 .. Len(backlog) - 1 : backlog'[i] = backlog[i + 1]
    <3>1. backlog \in Seq(Clients)
      BY Zenon DEF TypeOK
    <3> QED  BY <2>1, <3>1, TailFacts, Zenon
  <2>3. peer' \in Queued /\ peer' \in Clients
    <3>1. 1 \in DOMAIN backlog
      BY <2>2
    <3>2. backlog[1] \in Queued
      BY <3>1
    <3>3. backlog[1] \in Clients
      BY <3>1 DEF TypeOK
    <3> QED  BY <2>1, <3>2, <3>3
  <2>4. \A i \in DOMAIN backlog' : backlog'[i] \in Queued /\ backlog'[i] # peer'
    BY <2>1, <2>2
  <2>5. \A i, j \in DOMAIN backlog' : backlog'[i] = backlog'[j] => i = j
    <3> SUFFICES ASSUME NEW i \in DOMAIN backlog', NEW j \in DOMAIN backlog',
                        backlog'[i] = backlog'[j]
                 PROVE  i = j
      BY Zenon
    <3>1. /\ i \in Nat /\ j \in Nat /\ i + 1 \in DOMAIN backlog /\ j + 1 \in DOMAIN backlog
          /\ i \in 1 .. Len(backlog) - 1 /\ j \in 1 .. Len(backlog) - 1
      BY <2>2
    <3>2. backlog[i + 1] = backlog[j + 1]
      BY <2>2, <3>1, Zenon
    <3>3. i + 1 = j + 1
      BY <3>1, <3>2, Zenon
    <3> QED  BY <3>1, <3>3
  <2> QED  BY <2>1, <2>3, <2>4, <2>5, AgentsAssumption
<1>5. CASE Register
  <2>1. peer' = None /\ backlog' = backlog
    BY <1>5 DEF Register
  <2>2. Queued' = Queued /\ Queued \subseteq Clients
    BY <2>1 DEF TypeOK
  <2>3. peer \in Clients /\ Listening /\ (Queues \/ Starts)
    BY <1>5 DEF Registration
  <2>4. \A i, j \in DOMAIN backlog' : backlog'[i] = backlog'[j] => i = j
    BY <2>1
  <2>5. CASE Queues
    <3>1. Members' = Members /\ pipeline' = pipeline
      BY <2>5 DEF Queues
    <3> HIDE DEF Queued, Members
    <3> QED
      BY <2>1, <2>2, <2>3, <2>4, <2>5, <3>1, AgentsAssumption DEF Queues, TypeOK
  <2>6. CASE Starts
    <3> HIDE DEF Queued, Members
    <3> QED  BY <2>1, <2>2, <2>3, <2>4, <2>6, AgentsAssumption DEF Starts
  <2> QED  BY <2>3, <2>5, <2>6
<1>6. CASE NoHello
  <2>1. /\ UNCHANGED <<backlog, registered, pipeline>> /\ peer' = None
        /\ server = "hello" /\ server' = "accept"
    BY <1>6 DEF NoHello, socketVars, loopVars
  <2>2. Queued' = Queued /\ Members' = Members /\ None \notin registered
    BY <2>1, AgentsAssumption DEF TypeOK
  <2>3. None \notin Queued
    BY AgentsAssumption DEF TypeOK
  <2> HIDE DEF Queued, Members
  <2> QED  BY <2>1, <2>2, <2>3
<1>7. CASE LoopStep
  BY <1>7, LoopLeaves DEF poolVars
<1>8. CASE Reset
  BY <1>8 DEF Reset
<1> QED
  BY <1>1, <1>2, <1>3, <1>4, <1>5, <1>6, <1>7, <1>8, NextCases

\* A lookup that was answered stays answered.
LEMMA LookupsStep ==
    ASSUME Registration, TypeOK, Places, Lookups, Connections, [Next]_vars
    PROVE  Lookups'
<1> USE DEF Lookups, Queued, Members
<1>1. CASE UNCHANGED vars
  BY <1>1 DEF vars, clientVars, socketVars, poolVars, loopVars
<1>2. ASSUME NEW c \in Clients, Exec(c) \/ Hello(c) \/ Answered(c) \/ Crash(c)
      PROVE  Lookups'
  <2>1. UNCHANGED <<next, inPid, outPid, backlog, registered, peer, pipeline>>
    BY <1>2, Zenon DEF Exec, Hello, Answered, Crash, socketVars, poolVars, loopVars
  <2>2. \A d \in Clients \ {c} : client'[d] = client[d]
    BY <1>2, ClientLeaves
  <2>3. \/ client[c] = "forked" /\ client'[c] = "started"
        \/ client'[c] \notin {"forked", "started", "input"}
    BY <1>2 DEF Exec, Hello, Answered, Crash, Goes, TypeOK
  <2> QED  BY <2>1, <2>2, <2>3
<1>3. ASSUME NEW c \in Clients, FindInput(c) PROVE Lookups'
  <2>1. UNCHANGED <<next, outPid, backlog, registered, peer, pipeline>>
    BY <1>3 DEF FindInput, socketVars, poolVars, loopVars
  <2>2. \A d \in Clients \ {c} : client'[d] = client[d] /\ inPid'[d] = inPid[d]
    BY <1>3, ClientLeaves
  <2>3. client[c] = "started" /\ client'[c] = "input"
    BY <1>3 DEF FindInput, Goes, TypeOK
  <2>4. inPid'[c] # None => next[inPid'[c]] = c
    <3> DEFINE writers == {p \in Clients : next[p] = c /\ Visible(p)}
    <3>1. inPid'[c] = IF writers = {} THEN None ELSE CHOOSE p \in writers : TRUE
      BY <1>3 DEF FindInput, TypeOK
    <3>2. writers # {} => (CHOOSE p \in writers : TRUE) \in writers
      OBVIOUS
    <3> QED  BY <3>1, <3>2
  <2> QED  BY <2>1, <2>2, <2>3, <2>4
<1>4. ASSUME NEW c \in Clients, FindOutput(c) PROVE Lookups'
  <2>1. /\ UNCHANGED <<next, inPid, registered, peer, pipeline>>
        /\ backlog' = Append(backlog, c)
    BY <1>4 DEF FindOutput, poolVars, loopVars
  <2>2. \A d \in Clients \ {c} : client'[d] = client[d] /\ outPid'[d] = outPid[d]
    BY <1>4, ClientLeaves
  <2>3. client'[c] = "connected"
    BY <1>4 DEF FindOutput, Goes, TypeOK
  <2>4. outPid'[c] # None => next[c] = outPid'[c]
    BY <1>4 DEF FindOutput, TypeOK
  <2>5. \A d \in Queued' : d \in Queued \cup {c}
    <3>1. backlog \in Seq(Clients)
      BY Zenon DEF TypeOK
    <3>2. ASSUME NEW i \in DOMAIN backlog'
          PROVE  backlog'[i] \in Queued \cup {c}
      <4>1. CASE i = Len(backlog) + 1
        BY <2>1, <3>1, <4>1
      <4>2. CASE i # Len(backlog) + 1
        <5>1. i \in DOMAIN backlog /\ backlog'[i] = backlog[i]
          BY <2>1, <3>1, <4>2
        <5> QED  BY <5>1, Zenon
      <4> QED  BY <4>1, <4>2
    <3> SUFFICES ASSUME NEW d \in Queued' PROVE d \in Queued \cup {c}
      OBVIOUS
    <3>3. PICK i \in DOMAIN backlog' : d = backlog'[i]
      BY Zenon DEF Queued
    <3> HIDE DEF Queued
    <3> QED  BY <3>2, <3>3, Zenon
  <2> HIDE DEF Queued
  <2> QED  BY <2>1, <2>2, <2>3, <2>4, <2>5
<1>5. CASE Accept
  <2>1. /\ UNCHANGED <<clientVars, registered, pipeline>> /\ peer' = backlog[1]
        /\ backlog' = Tail(backlog) /\ backlog # <<>>
    BY <1>5 DEF Accept, loopVars
  <2>2. \A d \in Queued' \cup {peer'} : d \in Queued
    <3>1. backlog \in Seq(Clients)
      BY Zenon DEF TypeOK
    <3>2. /\ backlog[1] \in Queued
          /\ {Tail(backlog)[i] : i \in DOMAIN Tail(backlog)} \subseteq Queued
      BY <2>1, <3>1, TailMembers
    <3>3. Queued' = {Tail(backlog)[i] : i \in DOMAIN Tail(backlog)}
      BY <2>1, Zenon
    <3> HIDE DEF Queued
    <3> QED  BY <2>1, <3>2, <3>3, Zenon
  <2> HIDE DEF Queued
  <2> QED  BY <2>1, <2>2 DEF clientVars
<1>6. CASE Register
  <2>1. peer' = None /\ backlog' = backlog /\ UNCHANGED clientVars
    BY <1>6 DEF Register
  <2>2. peer \in Clients /\ (Queues \/ Starts)
    BY <1>6 DEF Registration
  <2>3. registered' \cup Members' \subseteq registered \cup {peer} \cup Members
    BY <2>2 DEF Queues, Starts
  <2>4. Queued' = Queued
    BY <2>1
  <2> HIDE DEF Members, Queued
  <2> QED  BY <2>1, <2>2, <2>3, <2>4, AgentsAssumption DEF clientVars
<1>7. CASE NoHello
  BY <1>7, AgentsAssumption DEF NoHello, clientVars, socketVars, loopVars
<1>8. CASE LoopStep
  BY <1>8, LoopLeaves DEF clientVars, poolVars
<1>9. CASE Reset
  BY <1>9 DEF Reset, clientVars
<1> QED
  BY <1>1, <1>2, <1>3, <1>4, <1>5, <1>6, <1>7, <1>8, <1>9, NextCases, Zenon

\* The members of a pipeline that runs.
LEMMA Membership ==
    ASSUME TypeOK, Places
    PROVE  /\ Members \subseteq Clients /\ Len(pipeline) \in Nat
           /\ DOMAIN pipeline = 1 .. Len(pipeline)
           /\ \A i \in 1 .. Len(pipeline) : pipeline[i] \in Members
           /\ ~Listening => /\ Len(pipeline) \in Nat \ {0}
                            /\ Source \in Members /\ Sink \in Members
<1>1. /\ Len(pipeline) \in Nat /\ DOMAIN pipeline = 1 .. Len(pipeline)
      /\ \A i \in 1 .. Len(pipeline) : pipeline[i] \in Clients
  BY DEF TypeOK
<1>2. ~Listening => Len(pipeline) # 0
  BY DEF Places, TypeOK
<1> QED  BY <1>1, <1>2 DEF Members, Source, Sink

\* The two pids of a connection keep naming each other.
LEMMA ConnectionsStep ==
    ASSUME Registration, TypeOK, Places, Lookups, Connections, [Next]_vars
    PROVE  Connections'
<1> USE DEF Connections, Listening
<1>1. CASE UNCHANGED vars
  BY <1>1 DEF vars, clientVars, poolVars
<1>2. ASSUME NEW c \in Clients,
             \/ Exec(c) \/ FindInput(c) \/ FindOutput(c)
             \/ Hello(c) \/ Answered(c) \/ Crash(c)
      PROVE  Connections'
  <2>1. UNCHANGED <<server, registered, outputAgent>>
    BY <1>2, ClientLeaves DEF poolVars
  <2>2. ASSUME NEW d \in Clients, outPid[d] # None PROVE outPid'[d] = outPid[d]
    <3>1. CASE FindOutput(c)
      <4>1. client[c] = "input" /\ \E v : outPid' = [outPid EXCEPT ![c] = v]
        BY <3>1, Zenon DEF FindOutput
      <4>2. d # c
        BY <2>2, <4>1 DEF Lookups
      <4> QED  BY <4>1, <4>2 DEF TypeOK
    <3>2. CASE ~FindOutput(c)
      BY <1>2, <3>2, Zenon DEF Exec, FindInput, Hello, Answered, Crash
    <3> QED  BY <3>1, <3>2, Zenon
  <2> QED  BY <2>1, <2>2, AgentsAssumption, Zenon DEF TypeOK
<1>3. CASE Accept
  BY <1>3 DEF Accept, clientVars
<1>4. CASE Register
  <2>1. /\ peer \in Clients /\ Listening /\ (Queues \/ Starts)
        /\ outputAgent' = Linked(peer)
    BY <1>4 DEF Registration
  <2>2. outPid' = outPid
    BY <1>4 DEF Register, clientVars
  <2>3. \A c \in Clients : outputAgent'[c] # None =>
            /\ outPid[c] = outputAgent'[c]
            /\ c \in registered \cup {peer}
            /\ outputAgent'[c] \in registered \cup {peer}
    BY <2>1, LinkedConnects
  <2> QED  BY <2>1, <2>2, <2>3 DEF Queues, Starts
<1>5. CASE NoHello
  BY <1>5 DEF NoHello, clientVars
<1>6. CASE LoopStep
  BY <1>6, LoopLeaves DEF clientVars, poolVars
<1>7. CASE Reset
  BY <1>7, Zenon DEF Reset, clientVars
<1> QED  BY <1>1, <1>2, <1>3, <1>4, <1>5, <1>6, <1>7, NextCases

\* The agents of the running pipeline stay a chain.
LEMMA ChainStep ==
    ASSUME Registration, TypeOK, Places, Lookups, Connections, Chain, [Next]_vars
    PROVE  Chain'
<1> USE DEF Chain, Listening, Source, Sink
<1>1. CASE UNCHANGED vars
  BY <1>1 DEF vars, clientVars, loopVars, Members
<1>2. ASSUME NEW c \in Clients,
             \/ Exec(c) \/ FindInput(c) \/ FindOutput(c)
             \/ Hello(c) \/ Answered(c) \/ Crash(c)
      PROVE  Chain'
  <2>1. UNCHANGED <<server, pipeline>> /\ Members' = Members
    BY <1>2, ClientLeaves DEF loopVars, Members
  <2>2. ASSUME NEW d \in Members
        PROVE  inPid'[d] = inPid[d] /\ outPid'[d] = outPid[d]
    <3>1. d \in Clients
      BY DEF Members, TypeOK
    <3> QED
      BY <1>2, <3>1, ClientLeaves, Zenon
         DEF Exec, FindInput, FindOutput, Hello, Answered, Crash, Lookups, TypeOK
  <2>3. /\ \A i \in 1 .. Len(pipeline) : pipeline[i] \in Members
        /\ ~Listening => Len(pipeline) \in Nat \ {0}
    BY Membership, Zenon
  <2> HIDE DEF Members
  <2> QED  BY <2>1, <2>2, <2>3
<1>3. CASE Accept
  BY <1>3 DEF Accept
<1>4. CASE Register
  <2>1. Queues \/ Starts
    BY <1>4, Zenon DEF Registration
  <2>2. inPid' = inPid /\ outPid' = outPid
    BY <1>4 DEF Register, clientVars
  <2> QED  BY <2>1, <2>2 DEF Queues, Starts
<1>5. CASE NoHello
  BY <1>5 DEF NoHello
<1>6. CASE LoopStep
  BY <1>6, LoopLeaves DEF clientVars, Members
<1>7. CASE Reset
  BY <1>7, SMTT(20) DEF Reset
<1> QED  BY <1>1, <1>2, <1>3, <1>4, <1>5, <1>6, <1>7, NextCases, Zenon

\* The counters of the loop stay within the pipeline.
LEMMA CountersStep ==
    ASSUME Registration, TypeOK, Places, Connections, Chain, Counters, [Next]_vars
    PROVE  Counters'
<1> USE DEF Counters
<1>1. CASE UNCHANGED vars
  BY <1>1 DEF vars, loopVars
<1>2. ASSUME NEW c \in Clients,
             \/ Exec(c) \/ FindInput(c) \/ FindOutput(c)
             \/ Hello(c) \/ Answered(c) \/ Crash(c)
      PROVE  Counters'
  BY <1>2, ClientLeaves DEF loopVars
<1>3. CASE Accept
  BY <1>3 DEF Accept, loopVars
<1>4. CASE Register
  <2>1. Queues \/ Starts
    BY <1>4 DEF Registration
  <2>2. MaxTurns \in Nat \ {0}
    BY AgentsAssumption
  <2> QED  BY <1>4, <2>1, <2>2 DEF Register, Queues, Starts
<1>5. CASE NoHello
  BY <1>5 DEF NoHello, loopVars
<1>6. CASE \E b \in [input : BOOLEAN, output : BOOLEAN] : Build(b)
  BY <1>6 DEF Build, TypeOK
<1>7. CASE Ready
  BY <1>7 DEF Ready, TypeOK
<1>8. CASE SourceConfigure
  BY <1>8, Zenon DEF SourceConfigure, TypeOK
<1>9. CASE SinkConfigure
  BY <1>9 DEF SinkConfigure, loopVars
<1>10. CASE SourceFinalize
  BY <1>10 DEF SourceFinalize, loopVars
<1>11. CASE SinkFinalize
  BY <1>11, AgentsAssumption DEF SinkFinalize, TypeOK
<1>12. CASE Respond
  BY <1>12 DEF Respond, loopVars
<1>13. CASE Abandon
  BY <1>13 DEF Abandon, loopVars
<1>14. CASE Throw
  BY <1>14 DEF Throw, loopVars
<1>15. CASE Reset
  BY <1>15 DEF Reset
<1> QED
  BY <1>1, <1>2, <1>3, <1>4, <1>5, <1>6, <1>7, <1>8, <1>9, <1>10, <1>11, <1>12,
     <1>13, <1>14, <1>15, NextCases DEF LoopStep

------------------------------------------------------------------------------
(* Types. *)

Messages == {"valid", "invalid", "more", "eof"}
Requests == {"Registration", "Processing"}

\* What the server's delivery does to the mailboxes.
LEMMA Delivery ==
    ASSUME TypeOK, NEW to, NEW m \in Messages
    PROVE  /\ Delivered(to, m) \in [Clients -> Seq(Messages)]
           /\ \A c \in Clients :
                  /\ c \in to /\ ~Gone(c) => Delivered(to, m)[c] = Append(inbox[c], m)
                  /\ c \notin to \/ Gone(c) => Delivered(to, m)[c] = inbox[c]
BY DEF Delivered, TypeOK, Messages

\* Every step keeps the types.
LEMMA TypeStep ==
    ASSUME Registration, TypeOK, Places, Connections, Chain, Counters, [Next]_vars
    PROVE  TypeOK'
<1>0. Cardinality(Clients) \in Nat
  BY DEF Registration
<1>1. CASE UNCHANGED vars
  BY <1>1 DEF vars, clientVars, socketVars, poolVars, loopVars, TypeOK
<1>2. ASSUME NEW c \in Clients,
             \/ Exec(c) \/ FindInput(c) \/ FindOutput(c)
             \/ Hello(c) \/ Answered(c) \/ Crash(c)
      PROVE  TypeOK'
  <2>1. UNCHANGED <<next, server, poolVars, loopVars>>
    BY <1>2, ClientLeaves, Zenon
  <2>2. CASE Exec(c)
    BY <2>1, <2>2, Zenon DEF Exec, Goes, socketVars, poolVars, loopVars, TypeOK
  <2>3. CASE FindInput(c)
    <3> DEFINE writers == {p \in Clients : next[p] = c /\ Visible(p)}
    <3>1. (IF writers = {} THEN None ELSE CHOOSE p \in writers : TRUE)
              \in Clients \cup {None}
      OBVIOUS
    <3> QED
      BY <2>1, <2>3, <3>1, Zenon DEF FindInput, Goes, socketVars, poolVars, loopVars, TypeOK
  <2>4. CASE FindOutput(c)
    <3>1. backlog' \in Seq(Clients)
      <4>1. backlog \in Seq(Clients)
        BY Zenon DEF TypeOK
      <4>2. backlog' = Append(backlog, c)
        BY <2>4, Zenon DEF FindOutput
      <4> QED  BY <4>1, <4>2
    <3>2. outPid' \in [Clients -> Clients \cup {None}]
      <4>1. next[c] # None => next[c] \in Clients
        <5>1. next \in [Clients -> Clients \cup {None}]
          BY AgentsAssumption, Zenon DEF TypeOK
        <5> QED  BY <5>1
      <4> QED  BY <2>4, <4>1, Zenon DEF FindOutput, TypeOK
    <3>3. client' \in [Clients -> {"forked", "started", "input", "connected",
                "registering", "running", "done", "failed", "crashed"}]
      BY <2>4, Zenon DEF FindOutput, Goes, TypeOK
    <3> QED
      BY <2>1, <2>4, <3>1, <3>2, <3>3, ZenonT(30)
         DEF FindOutput, poolVars, loopVars, TypeOK
  <2>5. CASE Hello(c)
    BY <2>1, <2>5 DEF Hello, Goes, Sends, poolVars, loopVars, TypeOK
  <2>6. CASE Answered(c)
    <3>1. Tail(inbox[c]) \in Seq(Messages) /\ <<>> \in Seq(Messages)
      BY <2>6 DEF Answered, TypeOK, Messages
    <3>2. inbox' \in [Clients -> Seq(Messages)]
      BY <2>6, <3>1, Zenon DEF Answered, TypeOK, Messages
    <3>3. client' \in [Clients -> {"forked", "started", "input", "connected",
                "registering", "running", "done", "failed", "crashed"}]
      BY <2>6, ZenonT(30) DEF Answered, Goes, TypeOK
    <3>4. sent' \in [Clients -> Seq(Requests)]
      <4>1. sent \in [Clients -> Seq(Requests)]
        BY DEF TypeOK, Requests
      <4>2. Append(sent[c], "Processing") \in Seq(Requests)
        BY <4>1 DEF Requests
      <4>3. sent' = sent \/ sent' = [sent EXCEPT ![c] = Append(@, "Processing")]
        BY <2>6 DEF Answered, Sends
      <4> QED  BY <4>1, <4>2, <4>3, Zenon
    <3> QED
      BY <2>1, <2>6, <3>2, <3>3, <3>4
         DEF Answered, poolVars, loopVars, TypeOK, Messages, Requests
  <2>7. CASE Crash(c)
    <3>1. inbox' \in [Clients -> Seq(Messages)]
      BY <2>7 DEF Crash, TypeOK, Messages
    <3>2. faults' \in 0 .. MaxFaults
      BY <2>7, AgentsAssumption DEF Crash, TypeOK
    <3> QED
      BY <2>1, <2>7, <3>1, <3>2 DEF Crash, Goes, poolVars, loopVars, TypeOK, Messages
  <2> QED  BY <1>2, <2>2, <2>3, <2>4, <2>5, <2>6, <2>7
<1>3. CASE Accept
  <2>1. backlog' \in Seq(Clients) /\ peer' \in Clients
    <3>1. backlog \in Seq(Clients) /\ backlog # <<>>
      BY <1>3, Zenon DEF Accept, TypeOK
    <3> QED  BY <1>3, <3>1 DEF Accept
  <2>2. server' = "hello"
        /\ UNCHANGED <<clientVars, sent, inbox, registered, outputAgent, loopVars, faults>>
    BY <1>3, Zenon DEF Accept
  <2> QED  BY <2>1, <2>2, ZenonT(30) DEF clientVars, loopVars, TypeOK
<1>4. CASE Register
  <2>1. /\ peer \in Clients /\ Listening /\ (Queues \/ Starts)
        /\ outputAgent' = Linked(peer)
    BY <1>4 DEF Registration
  <2>2. outputAgent' \in [Clients -> Clients \cup {None}]
    BY <2>1, LinkedConnects, Zenon
  <2>3. inbox' \in [Clients -> Seq(Messages)]
    <3>1. "invalid" \in Messages /\ inbox \in [Clients -> Seq(Messages)]
      BY Zenon DEF TypeOK, Messages
    <3>2. inbox' = inbox \/ \E to : inbox' = Delivered(to, "invalid")
      BY <2>1, Zenon DEF Queues, Starts
    <3>3. CASE inbox' = inbox
      BY <3>1, <3>3
    <3>4. CASE \E to : inbox' = Delivered(to, "invalid")
      <4>1. PICK to : inbox' = Delivered(to, "invalid")
        BY <3>4, Zenon
      <4>2. Delivered(to, "invalid") \in [Clients -> Seq(Messages)]
        BY <3>1, Delivery
      <4> QED  BY <4>1, <4>2
    <3> QED  BY <3>2, <3>3, <3>4
  <2>4. sent' \in [Clients -> Seq(Requests)]
    <3>1. sent \in [Clients -> Seq(Requests)]
      BY Zenon DEF TypeOK, Requests
    <3>2. sent[peer] # <<>> /\ sent' = [sent EXCEPT ![peer] = Tail(@)]
      BY <1>4, Zenon DEF Register
    <3> QED  BY <2>1, <3>1, <3>2
  <2>5. /\ server' \in {"accept", "build"} /\ registered' \subseteq Clients
        /\ pipeline' \in Seq(Clients)
    BY <2>1, Zenon DEF Queues, Starts, TypeOK
  <2>6. peer' = None /\ UNCHANGED <<clientVars, backlog, terminated, at, buffers,
                                    turns, eof, faults>>
    BY <1>4, Zenon DEF Register
  <2> QED
    BY <2>2, <2>3, <2>4, <2>5, <2>6 DEF clientVars, TypeOK, Messages, Requests
<1>5. CASE NoHello
  BY <1>5 DEF NoHello, clientVars, socketVars, loopVars, TypeOK
<1>6. ASSUME NEW b \in [input : BOOLEAN, output : BOOLEAN], Build(b)
      PROVE  TypeOK'
  <2>1. inbox' \in [Clients -> Seq(Messages)]
    BY <1>6, Delivery DEF Build, Messages
  <2>2. at' \in 0 .. Cardinality(Clients)
    <3>1. Len(pipeline) \in Nat \ {0} /\ Len(pipeline) <= Cardinality(Clients)
      BY <1>6, Membership DEF Build, Listening, Chain
    <3> QED  BY <1>0, <1>6, <3>1 DEF Build
  <2> QED
    BY <1>6, <2>1, <2>2, Zenon DEF Build, clientVars, poolVars, TypeOK, Messages
<1>7. ASSUME NEW c \in Clients, NEW needed \in BOOLEAN, Receives(c, needed)
      PROVE  sent' \in [Clients -> Seq(Requests)]
  <2>1. sent \in [Clients -> Seq(Requests)]
    BY DEF TypeOK, Requests
  <2>2. sent[c] # <<>> => Tail(sent[c]) \in Seq(Requests)
    BY <2>1
  <2> QED  BY <1>7, <2>1, <2>2, Zenon DEF Receives
<1>8. CASE Ready
  <2>1. /\ at + 1 \in 1 .. Len(pipeline) /\ Len(pipeline) \in Nat
        /\ Len(pipeline) <= Cardinality(Clients)
    BY <1>8, Membership DEF Ready, Counters, Chain, Listening, TypeOK
  <2>2. pipeline[at + 1] \in Clients
    BY <2>1, Membership
  <2>3. sent' \in [Clients -> Seq(Requests)]
    BY <1>7, <1>8, <2>2, Zenon DEF Ready
  <2>4. at' \in 0 .. Cardinality(Clients)
    BY <1>0, <1>8, <2>1 DEF Ready, TypeOK
  <2>5. /\ server' \in {"ready", "source"}
        /\ UNCHANGED <<clientVars, inbox, backlog, poolVars, pipeline, terminated,
                       buffers, turns, eof, faults>>
    BY <1>8 DEF Ready
  <2> QED  BY <2>3, <2>4, <2>5, Zenon DEF clientVars, poolVars, TypeOK, Requests
<1>9. CASE SourceConfigure
  <2>1. Source \in Clients
    BY <1>9, Membership DEF SourceConfigure, Listening
  <2>2. sent' \in [Clients -> Seq(Requests)]
    BY <1>7, <1>9, <2>1, Zenon DEF SourceConfigure, Receives
  <2>3. eof' \in BOOLEAN
    BY <1>9, Zenon DEF SourceConfigure
  <2> QED
    BY <1>9, <2>2, <2>3 DEF SourceConfigure, clientVars, poolVars, TypeOK, Requests
<1>10. CASE SinkConfigure
  <2>1. Sink \in Clients
    BY <1>10, Membership DEF SinkConfigure, Listening
  <2>2. sent' \in [Clients -> Seq(Requests)]
    BY <1>7, <1>10, <2>1, Zenon DEF SinkConfigure, Receives
  <2> QED
    BY <1>10, <2>2
       DEF SinkConfigure, clientVars, poolVars, loopVars, TypeOK, Requests
<1>11. CASE SourceFinalize
  <2>1. inbox' \in [Clients -> Seq(Messages)]
    BY <1>11, Delivery DEF SourceFinalize, Answer, Messages, TypeOK
  <2> QED
    BY <1>11, <2>1, Zenon DEF SourceFinalize, clientVars, poolVars, loopVars, TypeOK, Messages
<1>12. CASE SinkFinalize
  <2>1. inbox' \in [Clients -> Seq(Messages)]
    BY <1>12, Delivery DEF SinkFinalize, Answer, Messages, TypeOK
  <2>2. Sink \in Clients
    BY <1>12, Membership DEF SinkFinalize, Listening
  <2>3. turns' \in 0 .. MaxTurns
    BY <1>12, AgentsAssumption DEF SinkFinalize, Counters, TypeOK
  <2>4. terminated' \subseteq Clients
    BY <1>12, <2>2 DEF SinkFinalize, TypeOK
  <2> QED
    BY <1>12, <2>1, <2>3, <2>4, Zenon DEF SinkFinalize, clientVars, poolVars, TypeOK, Messages
<1>13. CASE Respond
  <2>1. inbox' \in [Clients -> Seq(Messages)]
    BY <1>13, Delivery DEF Respond, Messages
  <2> QED
    BY <1>13, <2>1 DEF Respond, clientVars, poolVars, loopVars, TypeOK, Messages
<1>14. CASE Reset
  <2>1. inbox' \in [Clients -> Seq(Messages)]
    BY <1>14, Delivery DEF Reset, Messages
  <2>2. outputAgent' \in [Clients -> Clients \cup {None}]
    BY <1>14 DEF Reset
  <2>3. at' \in 0 .. Cardinality(Clients) /\ turns' \in 0 .. MaxTurns
    BY <1>0, <1>14, AgentsAssumption DEF Reset
  <2>4. /\ pipeline' \in Seq(Clients)
        /\ buffers' \in [input : BOOLEAN, output : BOOLEAN]
    BY <1>14 DEF Reset
  <2>5. /\ registered' = {} /\ terminated' = {} /\ eof' = FALSE
        /\ server' = "accept" /\ UNCHANGED <<clientVars, sent, backlog, peer, faults>>
    BY <1>14 DEF Reset
  <2> QED
    BY <2>1, <2>2, <2>3, <2>4, <2>5, Zenon DEF clientVars, TypeOK, Messages
<1>15. CASE Abandon
  BY <1>15 DEF Abandon, clientVars, socketVars, poolVars, loopVars, TypeOK
<1>16. CASE Throw
  <2>1. faults' \in 0 .. MaxFaults
    BY <1>16, AgentsAssumption DEF Throw, TypeOK
  <2> QED
    BY <1>16, <2>1 DEF Throw, clientVars, socketVars, poolVars, loopVars, TypeOK
<1> QED
  BY <1>1, <1>2, <1>3, <1>4, <1>5, <1>6, <1>8, <1>9, <1>10, <1>11, <1>12, <1>13,
     <1>14, <1>15, <1>16, NextCases DEF LoopStep

------------------------------------------------------------------------------
(* The mailboxes. *)

\* What the server tells an agent while it runs its pipeline.
Told == IF server = "build" THEN {"valid"} ELSE {"more", "eof"}

\* The loop talks to members only, and only to those that are there.
LEMMA LoopMail ==
    ASSUME TypeOK, Places, Counters, LoopStep
    PROVE  /\ server' # "build" /\ server # "reset"
           /\ \A d \in Clients :
                  /\ d \notin Members => sent'[d] = sent[d]
                  /\ \/ inbox'[d] = inbox[d]
                     \/ /\ d \in Members /\ ~Gone(d)
                        /\ \E m \in Told : inbox'[d] = Append(inbox[d], m)
                  /\ server = "build" /\ server' # "reset" /\ d \in Members
                       /\ ~Gone(d) => inbox'[d] = Append(inbox[d], "valid")
<1>1. ASSUME NEW c \in Members, NEW needed, Receives(c, needed)
      PROVE  \A d \in Clients : d \notin Members => sent'[d] = sent[d]
  BY <1>1 DEF Receives, TypeOK
<1>2. ~Listening /\ Source \in Members /\ Sink \in Members
  BY LoopLeaves, Membership
<1>3. CASE \E b \in [input : BOOLEAN, output : BOOLEAN] : Build(b)
  <2>1. /\ server = "build" /\ sent' = sent /\ inbox' = Delivered(Members, "valid")
        /\ server' \in {"ready", "source"}
    BY <1>3 DEF Build
  <2> QED  BY <2>1, Delivery DEF Told, Messages
<1>4. CASE Ready
  <2>1. at + 1 \in 1 .. Len(pipeline)
    BY <1>4, Membership DEF Ready, Counters, TypeOK
  <2>2. pipeline[at + 1] \in Members
    BY <2>1, Membership
  <2> QED  BY <1>1, <1>4, <2>2, ZenonT(30) DEF Ready
<1>5. CASE SourceConfigure
  BY <1>1, <1>2, <1>5, Zenon DEF SourceConfigure
<1>6. CASE SinkConfigure
  BY <1>1, <1>2, <1>6 DEF SinkConfigure
<1>7. CASE SourceFinalize
  <2>1. /\ server = "run" /\ server' = "finalize" /\ sent' = sent
        /\ inbox' = inbox \/ inbox' = Delivered({Source}, Answer)
    BY <1>7 DEF SourceFinalize
  <2>2. Answer \in Told /\ Answer \in Messages
    BY <2>1 DEF Answer, Told, Messages
  <2> QED  BY <1>2, <2>1, <2>2, Delivery
<1>8. CASE SinkFinalize
  <2>1. /\ server = "finalize" /\ server' \in {"respond", "source"} /\ sent' = sent
        /\ inbox' = inbox \/ inbox' = Delivered({Sink}, Answer)
    BY <1>8 DEF SinkFinalize
  <2>2. Answer \in Told /\ Answer \in Messages
    BY <2>1 DEF Answer, Told, Messages
  <2> QED  BY <1>2, <2>1, <2>2, Delivery
<1>9. CASE Respond
  <2>1. /\ server = "respond" /\ server' = "reset" /\ sent' = sent
        /\ inbox' = Delivered(Idle, "eof")
    BY <1>9 DEF Respond
  <2>2. Idle \subseteq Members
    BY DEF Idle
  <2> QED  BY <2>1, <2>2, Delivery, Zenon DEF Told, Messages
<1>10. CASE Abandon
  BY <1>10, Zenon DEF Abandon, HungUp, socketVars
<1>11. CASE Throw
  BY <1>11 DEF Throw, socketVars
<1> QED
  BY <1>3, <1>4, <1>5, <1>6, <1>7, <1>8, <1>9, <1>10, <1>11, Zenon DEF LoopStep

\* An agent that connects is queued for the server.
LEMMA FindOutputQueues ==
    ASSUME NEW c \in Clients, TypeOK, FindOutput(c)
    PROVE  Queued' = Queued \cup {c}
<1>1. backlog' = Append(backlog, c)
  BY DEF FindOutput
<1>2. /\ Len(backlog) \in Nat /\ backlog'[Len(backlog) + 1] = c
      /\ \A i \in 1 .. Len(backlog) : backlog'[i] = backlog[i]
      /\ DOMAIN backlog' = 1 .. Len(backlog) + 1
      /\ DOMAIN backlog = 1 .. Len(backlog)
  BY <1>1 DEF TypeOK
<1> QED  BY <1>2 DEF Queued

\* Accepting takes one of the queued agents.
LEMMA AcceptMoves ==
    ASSUME TypeOK, Places, Accept
    PROVE  Queued' \cup {peer'} = Queued /\ peer' \in Clients
<1>1. /\ backlog # <<>> /\ peer' = backlog[1] /\ backlog' = Tail(backlog)
  BY DEF Accept
<1>2. /\ DOMAIN backlog = 1 .. Len(backlog) /\ Len(backlog) \in Nat \ {0}
      /\ DOMAIN backlog' = 1 .. Len(backlog) - 1
      /\ \A i \in 1 .. Len(backlog) - 1 : backlog'[i] = backlog[i + 1]
  BY <1>1 DEF TypeOK
<1>3. ASSUME NEW i \in 1 .. Len(backlog) PROVE backlog[i] \in Queued' \cup {peer'}
  <2>1. CASE i = 1
    BY <1>1, <2>1
  <2>2. CASE i # 1
    <3>1. i - 1 \in DOMAIN backlog' /\ backlog'[i - 1] = backlog[i]
      BY <1>2, <2>2
    <3> QED  BY <3>1 DEF Queued
  <2> QED  BY <2>1, <2>2
<1>4. ASSUME NEW i \in 1 .. Len(backlog) - 1 PROVE backlog'[i] \in Queued
  <2>1. i + 1 \in DOMAIN backlog /\ backlog'[i] = backlog[i + 1]
    BY <1>2
  <2> QED  BY <2>1 DEF Queued
<1>5. backlog[1] \in Queued /\ backlog[1] \in Clients
  <2>1. 1 \in DOMAIN backlog
    BY <1>2
  <2>2. backlog[1] \in Queued
    BY <2>1 DEF Queued
  <2>3. backlog[1] \in Clients
    BY <2>1 DEF TypeOK
  <2> QED  BY <2>2, <2>3
<1> QED  BY <1>1, <1>2, <1>3, <1>4, <1>5 DEF Queued

\* What a registering agent has sent is received with its registration.
LEMMA RegisterMail ==
    ASSUME TypeOK, Places, Mailboxes, Register
    PROVE  /\ peer \in Clients /\ client[peer] \in {"registering", "crashed"}
           /\ inbox[peer] = <<>> /\ sent' = [sent EXCEPT ![peer] = <<>>]
           /\ peer' = None /\ UNCHANGED <<clientVars, backlog, terminated>>
<1>1. peer \in Clients /\ sent[peer] # <<>>
  BY DEF Register, Places, TypeOK
<1>2. Mailbox(peer)
  BY <1>1, Zenon DEF Mailboxes
<1>3. sent[peer] \in Seq(Requests) /\ Len(sent[peer]) <= 1
  BY <1>1, <1>2 DEF Mailbox, TypeOK, Requests
<1>4. Tail(sent[peer]) = <<>>
  BY <1>1, <1>3
<1> QED  BY <1>1, <1>2, <1>4, Zenon DEF Register, Mailbox

\* What lies in a mailbox stays of a kind its reader expects.
LEMMA MailboxesStep ==
    ASSUME Registration, TypeOK, Places, Lookups, Connections, Counters, Mailboxes, Grammar,
           [Next]_vars
    PROVE  Mailboxes'
<1> SUFFICES ASSUME NEW d \in Clients PROVE Mailbox(d)'
  BY DEF Mailboxes
<1>0. Mailbox(d) /\ Grammatical(d)
  BY DEF Mailboxes, Grammar
<1>1. CASE UNCHANGED vars
  BY <1>0, <1>1
     DEF vars, clientVars, socketVars, poolVars, loopVars, Mailbox, Queued, Members, Gone
<1>2. ASSUME NEW c \in Clients,
             \/ Exec(c) \/ FindInput(c) \/ FindOutput(c)
             \/ Hello(c) \/ Answered(c) \/ Crash(c)
      PROVE  Mailbox(d)'
  <2>1. /\ UNCHANGED <<server, peer, registered>> /\ Members' = Members
        /\ d # c => /\ client'[d] = client[d] /\ sent'[d] = sent[d]
                    /\ inbox'[d] = inbox[d]
    BY <1>2, ClientLeaves DEF poolVars, loopVars, Members
  <2>2. Queued' = IF FindOutput(c) THEN Queued \cup {c} ELSE Queued
    <3>1. CASE FindOutput(c)
      BY <3>1, FindOutputQueues
    <3>2. CASE ~FindOutput(c)
      BY <1>2, <3>2, ZenonT(30) DEF Exec, FindInput, Hello, Answered, Crash, socketVars, Queued
    <3> QED  BY <3>1, <3>2
  <2>3. CASE d # c
    BY <1>0, <2>1, <2>2, <2>3, Zenon DEF Mailbox, Gone
  <2> SUFFICES ASSUME d = c PROVE Mailbox(c)'
    BY <2>3
  <2>4. c \in Clients /\ Mailbox(c) /\ Grammatical(c)
    BY <1>0
  <2>5. CASE Exec(c)
    BY <2>1, <2>2, <2>4, <2>5, ZenonT(30)
       DEF Exec, Goes, TypeOK, Mailbox, Gone, Lookups, socketVars, FindOutput
  <2>6. CASE FindInput(c)
    BY <2>1, <2>2, <2>4, <2>6, ZenonT(30)
       DEF FindInput, Goes, TypeOK, Mailbox, Gone, Lookups, socketVars, FindOutput
  <2>7. CASE FindOutput(c)
    <3>1. /\ client[c] = "input" /\ client'[c] = "connected"
          /\ sent'[c] = sent[c] /\ inbox'[c] = inbox[c]
      BY <2>7, Zenon DEF FindOutput, Goes, TypeOK
    <3>2. sent[c] = <<>> /\ inbox[c] = <<>> /\ c \notin registered /\ c \notin Members
      BY <2>4, <3>1, Zenon DEF Mailbox
    <3>3. Len(sent'[c]) <= 1
      BY <3>1, <3>2, EmptyFacts
    <3> QED  BY <2>1, <2>2, <2>7, <3>1, <3>2, <3>3, Zenon DEF Mailbox, Gone
  <2>8. CASE Hello(c)
    <3>1. /\ client[c] = "connected" /\ client'[c] = "registering"
          /\ inbox'[c] = inbox[c] /\ sent'[c] = Append(sent[c], "Registration")
          /\ Queued' = Queued
      BY <2>2, <2>8 DEF Hello, Goes, Sends, TypeOK, FindOutput
    <3>2. sent[c] = <<>> /\ inbox[c] = <<>> /\ c \in Queued \cup {peer}
      BY <2>4, <3>1, ZenonT(30) DEF Mailbox
    <3>3. Len(sent'[c]) = 1
      BY <3>1, <3>2, EmptyFacts, Zenon
    <3>4. c \notin registered /\ c \notin Members
      BY <2>4, <3>1, <3>2, Zenon DEF Mailbox
    <3> QED  BY <2>1, <3>1, <3>2, <3>3, <3>4, SMTT(20) DEF Mailbox, Gone
  <2>9. CASE Answered(c)
    <3>1. inbox[c] # <<>> /\ client[c] \in {"registering", "running"}
      BY <2>9 DEF Answered
    <3>2. /\ c \notin Queued \cup {peer} /\ c \notin registered
          /\ ~ (server = "build" /\ c \in Members)
      BY <2>4, <3>1 DEF Mailbox
    <3>3. Queued' = Queued
      BY <2>2, <2>9, Zenon DEF Answered, FindOutput
    <3>4. \/ client'[c] = "running"
          \/ client'[c] \in {"done", "failed"} /\ inbox'[c] = <<>>
      BY <2>9, Zenon DEF Answered, Goes, TypeOK
    <3>5. c \in Members => client'[c] # "failed"
      <4>1. 1 \in DOMAIN inbox[c] /\ Head(inbox[c]) = inbox[c][1]
            /\ inbox[c][1] \in Messages
        BY <3>1 DEF TypeOK, Messages
      <4>2. c \in Members => inbox[c][1] # "invalid"
        BY <2>4, <4>1, Zenon DEF Grammatical, Has
      <4>3. client[c] = "registering" => inbox[c][1] \in {"valid", "invalid"}
        BY <2>4, <3>1, Zenon DEF Grammatical
      <4>4. client[c] = "running" => inbox[c][1] # "valid"
        BY <2>4, <4>1, Zenon DEF Grammatical
      <4> QED
        BY <2>9, <3>1, <4>1, <4>2, <4>3, <4>4 DEF Answered, Goes, TypeOK, Messages
    <3> QED  BY <2>1, <3>2, <3>3, <3>4, <3>5 DEF Mailbox, Gone
  <2>10. CASE Crash(c)
    <3>1. /\ client'[c] = "crashed" /\ inbox'[c] = <<>> /\ sent'[c] = sent[c]
          /\ Queued' = Queued
      BY <2>2, <2>10, ZenonT(30) DEF Crash, Goes, TypeOK, Gone, FindOutput, Queued
    <3> QED  BY <2>1, <2>4, <3>1 DEF Mailbox, Gone
  <2> QED  BY <1>2, <2>5, <2>6, <2>7, <2>8, <2>9, <2>10, SMTT(20)
<1>3. CASE Accept
  <2>1. /\ Queued' \cup {peer'} = Queued
        /\ server' = "hello"
        /\ UNCHANGED <<client, sent, inbox, registered>> /\ Members' = Members
    BY <1>3, AcceptMoves, Zenon DEF Accept, clientVars, loopVars, Members
  <2>2. peer = None
    BY <1>3 DEF Accept, Places
  <2> QED  BY <1>0, <1>3, <2>1, <2>2, AgentsAssumption DEF Mailbox, Gone, Accept
<1>4. CASE Register
  <2>1. /\ peer \in Clients /\ client[peer] \in {"registering", "crashed"}
        /\ inbox[peer] = <<>> /\ sent' = [sent EXCEPT ![peer] = <<>>]
        /\ peer' = None /\ UNCHANGED <<client, backlog>> /\ Queued' = Queued
    BY <1>4, RegisterMail DEF clientVars, Queued
  <2>2. /\ sent'[peer] = <<>>
        /\ d # peer => sent'[d] = sent[d]
    BY <2>1, Zenon DEF TypeOK
  <2>3. CASE Queues
    <3>1. Members' = Members
      BY <2>3 DEF Queues, Members
    <3> QED
      BY <1>0, <2>1, <2>2, <2>3, <3>1, AgentsAssumption DEF Queues, Mailbox, Gone
  <2>4. CASE Starts
    <3>1. d \in registered \cup {peer} =>
              /\ client[d] \in {"registering", "crashed"}
              /\ sent'[d] = <<>> /\ inbox[d] = <<>> /\ d \notin Queued
      BY <1>0, <2>1, <2>2 DEF Mailbox, Places
    <3>2. /\ d \notin (registered \cup {peer}) \ Members' \/ Gone(d) =>
                 inbox'[d] = inbox[d]
          /\ Members' \subseteq registered \cup {peer} /\ registered' = {}
      <4> DEFINE to == (registered \cup {peer}) \ Members'
      <4>1. inbox' = Delivered(to, "invalid") /\ "invalid" \in Messages
        BY <2>4, Zenon DEF Starts, Messages
      <4>2. d \notin to \/ Gone(d) => inbox'[d] = inbox[d]
        <5> HIDE DEF to
        <5> QED  BY <4>1, Delivery
      <4>3. Members' \subseteq registered \cup {peer} /\ registered' = {}
        BY <2>4, Zenon DEF Starts
      <4> QED  BY <4>2, <4>3, Zenon
    <3>3. d \notin registered \cup {peer} => d \notin Members' /\ sent'[d] = sent[d]
      BY <2>2, <3>2
    <3> QED
      BY <1>0, <2>1, <3>1, <3>2, <3>3, AgentsAssumption, Zenon DEF Mailbox, Gone
  <2> QED  BY <1>4, <2>3, <2>4, Zenon DEF Registration
<1>5. CASE NoHello
  <2>1. /\ UNCHANGED <<client, sent, inbox, registered>> /\ Members' = Members
        /\ Queued' = Queued /\ peer' = None /\ server' = "accept" /\ Gone(peer)
    BY <1>5, Zenon DEF NoHello, clientVars, socketVars, loopVars, Members, Queued
  <2> QED  BY <1>0, <2>1, AgentsAssumption, Zenon DEF Mailbox, Gone
<1>6. CASE LoopStep
  <2>1. /\ UNCHANGED <<client, registered, peer>> /\ Members' = Members
        /\ Queued' = Queued /\ server' # "build" /\ registered = {} /\ peer = None
    <3>1. /\ UNCHANGED <<clientVars, poolVars, backlog, pipeline>>
          /\ ~Listening /\ server' # "build"
      BY <1>6, LoopLeaves, LoopMail, Zenon
    <3>2. registered = {} /\ peer = None
      BY <3>1, Zenon DEF Places, Listening
    <3> QED  BY <3>1, <3>2, Zenon DEF clientVars, poolVars, Members, Queued
  <2>2. CASE d \notin Members
    BY <1>0, <1>6, <2>1, <2>2, LoopMail, Zenon DEF Mailbox, Gone
  <2>3. CASE d \in Members
    <3>1. Gone(d) => inbox'[d] = inbox[d]
      BY <1>6, LoopMail
    <3>2. d \notin Queued
      BY <2>3 DEF Places
    <3> QED
      BY <1>0, <2>1, <2>3, <3>1, <3>2, AgentsAssumption, Zenon DEF Mailbox, Gone
  <2> QED  BY <2>2, <2>3, Zenon
<1>7. CASE Reset
  <2>1. /\ UNCHANGED <<client, sent, peer>> /\ Members' = {} /\ Queued' = Queued
        /\ registered' = {} /\ registered = {} /\ peer = None
        /\ inbox' = Delivered((Members \ terminated) \cup registered, "invalid")
    BY <1>7 DEF Reset, clientVars, Members, Queued, Places, Listening
  <2>2. d \notin Members \/ Gone(d) => inbox'[d] = inbox[d]
    <3> DEFINE to == (Members \ terminated) \cup registered
    <3>1. d \notin Members => d \notin to
      BY <2>1
    <3> HIDE DEF to
    <3>2. d \notin to \/ Gone(d) => Delivered(to, "invalid")[d] = inbox[d]
      BY Delivery DEF Messages
    <3> QED  BY <2>1, <3>1, <3>2 DEF to
  <2>3. d \in Queued => d \notin Members
    BY DEF Places
  <2> QED  BY <1>0, <2>1, <2>2, <2>3, AgentsAssumption, ZenonT(30) DEF Mailbox, Gone
<1> QED  BY <1>1, <1>2, <1>3, <1>4, <1>5, <1>6, <1>7, NextCases

\* What appending a message does to the messages of a mailbox.
LEMMA AppendFacts ==
    ASSUME NEW S, NEW s \in Seq(S), NEW m \in S
    PROVE  LET t == Append(s, m)
           IN  /\ t \in Seq(S) /\ Len(t) = Len(s) + 1 /\ t[Len(s) + 1] = m
               /\ DOMAIN s = 1 .. Len(s) /\ DOMAIN t = 1 .. Len(s) + 1
               /\ \A i \in 1 .. Len(s) : t[i] = s[i]
               /\ Len(s) \in Nat /\ t # <<>>
               /\ s # <<>> => Len(s) > 0 /\ t[1] = s[1]
<1> DEFINE t == Append(s, m)
<1>1. /\ t \in Seq(S) /\ Len(t) = Len(s) + 1 /\ t[Len(s) + 1] = m
      /\ DOMAIN s = 1 .. Len(s) /\ DOMAIN t = 1 .. Len(s) + 1
      /\ \A i \in 1 .. Len(s) : t[i] = s[i]
      /\ Len(s) \in Nat
  OBVIOUS
<1>2. t # <<>>
  BY <1>1
<1>3. s # <<>> => Len(s) > 0
  BY <1>1
<1> QED  BY <1>1, <1>2, <1>3

\* What a client does with the first message that it has.
LEMMA AnsweredFacts ==
    ASSUME NEW c \in Clients, TypeOK, Answered(c)
    PROVE  /\ client[c] \in {"registering", "running"} /\ inbox[c] # <<>>
           /\ inbox[c] \in Seq(Messages)
           /\ \/ /\ inbox[c][1] = IF client[c] = "running" THEN "more" ELSE "valid"
                 /\ client'[c] = "running" /\ inbox'[c] = Tail(inbox[c])
                 /\ sent'[c] = Append(sent[c], "Processing")
              \/ /\ client'[c] = IF client[c] = "running" /\ inbox[c][1] = "eof"
                                 THEN "done" ELSE "failed"
                 /\ inbox[c][1] # IF client[c] = "running" THEN "more" ELSE "valid"
                 /\ inbox'[c] = <<>> /\ sent'[c] = sent[c]
<1>1. inbox[c] \in Seq(Messages) /\ inbox[c] # <<>>
  BY DEF Answered, TypeOK, Messages
<1>2. Head(inbox[c]) = inbox[c][1]
  BY <1>1
<1> QED  BY <1>1, <1>2, Zenon DEF Answered, Goes, Sends, TypeOK

\* Answers keep arriving in an order an agent understands.
LEMMA GrammarStep ==
    ASSUME Registration, TypeOK, Places, Lookups, Connections, Counters, Mailboxes, Grammar,
           [Next]_vars
    PROVE  Grammar'
<1> SUFFICES ASSUME NEW d \in Clients PROVE Grammatical(d)'
  BY Zenon DEF Grammar
<1>0. Mailbox(d) /\ Grammatical(d) /\ inbox[d] \in Seq(Messages)
  BY SMTT(20) DEF Mailboxes, Grammar, TypeOK, Messages
<1>1. CASE UNCHANGED vars
  BY <1>0, <1>1
     DEF vars, clientVars, socketVars, loopVars, Grammatical, Has, Members
<1>2. ASSUME inbox'[d] = inbox[d], client'[d] = client[d], d \notin Members'
      PROVE  Grammatical(d)'
  BY <1>0, <1>2, Zenon DEF Grammatical, Has
<1>3. ASSUME inbox'[d] = <<>>, d \notin Members' \/ client'[d] # "registering"
      PROVE  Grammatical(d)'
  BY <1>3 DEF Grammatical, Has
<1>4. ASSUME NEW c \in Clients,
             \/ Exec(c) \/ FindInput(c) \/ FindOutput(c)
             \/ Hello(c) \/ Answered(c) \/ Crash(c)
      PROVE  Grammatical(d)'
  <2>1. /\ server' = server /\ Members' = Members
        /\ d # c => client'[d] = client[d] /\ inbox'[d] = inbox[d]
    <3>1. /\ UNCHANGED <<server, loopVars>>
          /\ d # c => client'[d] = client[d] /\ inbox'[d] = inbox[d]
      BY <1>4, ClientLeaves, ZenonT(30)
    <3> QED  BY <3>1, Zenon DEF loopVars, Members
  <2>2. CASE d # c
    BY <1>0, <2>1, <2>2, Zenon DEF Grammatical, Has
  <2> SUFFICES ASSUME d = c PROVE Grammatical(c)'
    BY <2>2, Zenon
  <2>3. CASE Exec(c) \/ FindInput(c) \/ FindOutput(c) \/ Hello(c)
    <3>1. client[c] \in {"forked", "started", "input", "connected"}
          /\ inbox'[c] = inbox[c]
      BY <2>3, Zenon DEF Exec, FindInput, FindOutput, Hello, socketVars
    <3>2. inbox'[c] = <<>> /\ c \notin Members
      BY <1>0, <3>1, Zenon DEF Mailbox
    <3> QED  BY <1>3, <2>1, <3>2, Zenon
  <2>4. CASE Answered(c)
    <3>1. CASE inbox'[c] = <<>> /\ client'[c] \in {"done", "failed"}
      BY <1>3, <3>1, Zenon
    <3>2. CASE ~(inbox'[c] = <<>> /\ client'[c] \in {"done", "failed"})
      <4>1. inbox[c] # <<>> /\ client'[c] = "running" /\ inbox'[c] = Tail(inbox[c])
        BY <2>4, <3>2, AnsweredFacts, Zenon
      <4>2. /\ Len(inbox'[c]) = Len(inbox[c]) - 1 /\ Len(inbox[c]) \in Nat \ {0}
            /\ DOMAIN inbox[c] = 1 .. Len(inbox[c])
            /\ DOMAIN inbox'[c] = 1 .. Len(inbox[c]) - 1
            /\ \A i \in 1 .. Len(inbox[c]) - 1 : inbox'[c][i] = inbox[c][i + 1]
        BY <1>0, <4>1, TailFacts, Zenon
      <4>3. ASSUME NEW i \in DOMAIN inbox'[c]
            PROVE  /\ inbox'[c][i] # "valid"
                   /\ inbox'[c][i] = "invalid" => i = Len(inbox'[c]) /\ c \notin Members
        <5>1. i + 1 \in DOMAIN inbox[c] /\ inbox'[c][i] = inbox[c][i + 1] /\ i \in Nat
              /\ i # 0
          BY <4>2
        <5>2. i + 1 # 1 /\ (i + 1 = Len(inbox[c]) => i = Len(inbox'[c]))
          BY <4>2, <5>1
        <5> QED  BY <1>0, <5>1, <5>2, Zenon DEF Grammatical, Has
      <4> QED  BY <2>1, <4>1, <4>3, Zenon DEF Grammatical, Has
    <3> QED  BY <3>1, <3>2, Zenon
  <2>5. CASE Crash(c)
    BY <1>3, <2>5, Zenon DEF Crash, Goes, TypeOK
  <2> QED  BY <1>4, <2>3, <2>4, <2>5, Zenon
<1>5. CASE Accept
  BY <1>2, <1>5 DEF Accept, clientVars, loopVars, Members, Places, Listening
<1>6. CASE Register
  <2>1. client' = client
    BY <1>6 DEF Register, clientVars
  <2>2. CASE Queues
    <3>1. inbox' = inbox /\ Members' = {}
      <4>1. Listening /\ inbox' = inbox /\ pipeline' = pipeline
        BY <1>6, <2>2, Zenon DEF Queues, Registration
      <4> QED  BY <4>1 DEF Members, Places
    <3> QED  BY <1>2, <2>1, <3>1, Zenon
  <2>3. CASE Starts
    <3> DEFINE to == (registered \cup {peer}) \ Members'
    <3>1. /\ inbox' = Delivered(to, "invalid") /\ server' = "build"
          /\ Members' \subseteq registered \cup {peer}
      BY <2>3, Zenon DEF Starts
    <3>2. d \in registered \cup {peer} => inbox[d] = <<>>
      BY <1>0, <1>6, RegisterMail DEF Mailbox
    <3>3. d \notin to => inbox'[d] = inbox[d]
      <4> HIDE DEF to
      <4> QED  BY <3>1, Delivery DEF Messages
    <3>4. CASE d \in Members'
      <4>1. inbox'[d] = <<>>
        BY <3>1, <3>2, <3>3, <3>4
      <4>2. server' = "build"
        BY <3>1, Zenon
      <4> QED  BY <4>1, <4>2 DEF Grammatical, Has
    <3>5. CASE d \in to
      <4>1. inbox'[d] = <<>> \/ inbox'[d] = Append(<<>>, "invalid")
        <5> HIDE DEF to
        <5>1. inbox'[d] = inbox[d] \/ inbox'[d] = Append(inbox[d], "invalid")
          BY <3>1, Delivery, Zenon DEF Messages
        <5>2. inbox[d] = <<>>
          BY <3>2, <3>5 DEF to
        <5> QED  BY <5>1, <5>2
      <4>2. Append(<<>>, "invalid") = <<"invalid">>
        OBVIOUS
      <4>3. CASE inbox'[d] = <<"invalid">>
        BY <3>5, <4>3 DEF Grammatical
      <4> QED  BY <1>3, <3>5, <4>1, <4>2, <4>3
    <3> QED  BY <1>2, <2>1, <3>3, <3>4, <3>5, Zenon
  <2> QED  BY <1>6, <2>2, <2>3, Zenon DEF Registration
<1>7. CASE NoHello
  BY <1>2, <1>7 DEF NoHello, clientVars, socketVars, loopVars, Members, Places, Listening
<1>8. CASE LoopStep
  <2>1. client' = client /\ Members' = Members /\ server' # "build" /\ server # "reset"
    BY <1>8, LoopLeaves, LoopMail DEF clientVars, Members
  <2>2. CASE d \notin Members
    BY <1>2, <1>8, <2>1, <2>2, LoopMail, ZenonT(30)
  <2>3. CASE d \in Members /\ inbox'[d] = inbox[d]
    <3>1. server = "build" /\ server' # "reset" => Gone(d)
      <4>1. inbox[d] # Append(inbox[d], "valid")
        BY <1>0, AppendFacts DEF Messages
      <4> QED  BY <1>8, <2>3, <4>1, LoopMail
    <3> QED  BY <1>0, <2>1, <2>3, <3>1, Zenon DEF Grammatical, Has, Gone
  <2>4. CASE d \in Members /\ inbox'[d] # inbox[d]
    <3>1. PICK m \in Told : ~Gone(d) /\ inbox'[d] = Append(inbox[d], m)
      BY <1>8, <2>4, LoopMail, Zenon
    <3>2. /\ Len(inbox'[d]) = Len(inbox[d]) + 1 /\ Len(inbox[d]) \in Nat
          /\ inbox'[d][Len(inbox[d]) + 1] = m
          /\ DOMAIN inbox[d] = 1 .. Len(inbox[d])
          /\ DOMAIN inbox'[d] = 1 .. Len(inbox[d]) + 1
          /\ \A i \in 1 .. Len(inbox[d]) : inbox'[d][i] = inbox[d][i]
          /\ inbox'[d] # <<>>
          /\ inbox[d] # <<>> => inbox'[d][1] = inbox[d][1]
      <4>1. m \in Messages
        BY Zenon DEF Told, Messages
      <4> QED  BY <1>0, <3>1, <4>1, AppendFacts
    <3>3. ASSUME NEW i \in DOMAIN inbox'[d]
          PROVE  inbox'[d][i] = m \/ (i \in DOMAIN inbox[d] /\ inbox'[d][i] = inbox[d][i])
      BY <3>2, SMTT(20)
    <3>4. CASE server = "build"
      <4>1. /\ m = "valid" /\ inbox[d] = <<>> /\ client[d] = "registering"
        BY <1>0, <2>4, <3>1, <3>4, Zenon DEF Told, Mailbox, Gone
      <4>2. inbox'[d] = <<"valid">>
        BY <3>1, <4>1
      <4> QED  BY <2>1, <4>1, <4>2 DEF Grammatical, Has
    <3>5. CASE server # "build"
      <4>1. m \in {"more", "eof"}
        BY <3>5 DEF Told
      <4>2. \A i \in DOMAIN inbox[d] : inbox[d][i] # "invalid"
        BY <1>0, <2>4, Zenon DEF Grammatical, Has
      <4>3. client[d] = "registering" => inbox[d] # <<>>
        BY <1>0, <2>1, <2>4, <3>5 DEF Grammatical
      <4> QED
        BY <1>0, <2>1, <3>2, <3>3, <4>1, <4>2, <4>3, Zenon DEF Grammatical, Has
    <3> QED  BY <3>4, <3>5, Zenon
  <2> QED  BY <2>2, <2>3, <2>4, Zenon
<1>9. CASE Reset
  <2> DEFINE to == (Members \ terminated) \cup registered
  <2>1. /\ client' = client /\ Members' = {} /\ registered = {}
        /\ inbox' = Delivered(to, "invalid")
    BY <1>9 DEF Reset, clientVars, Members, Places, Listening
  <2>2. CASE d \notin to \/ Gone(d)
    <3> HIDE DEF to
    <3> QED  BY <1>2, <2>1, <2>2, Delivery, Zenon DEF Messages
  <2>3. CASE d \in to /\ ~Gone(d)
    <3>1. inbox'[d] = Append(inbox[d], "invalid")
      <4> HIDE DEF to
      <4> QED  BY <2>1, <2>3, Delivery, Zenon DEF Messages
    <3>2. \A i \in DOMAIN inbox[d] : inbox[d][i] # "invalid"
      BY <1>0, <2>1, <2>3, Zenon DEF Grammatical, Has
    <3>3. /\ Len(inbox'[d]) = Len(inbox[d]) + 1 /\ Len(inbox[d]) \in Nat
          /\ inbox'[d][Len(inbox[d]) + 1] = "invalid"
          /\ DOMAIN inbox[d] = 1 .. Len(inbox[d])
          /\ DOMAIN inbox'[d] = 1 .. Len(inbox[d]) + 1
          /\ \A i \in 1 .. Len(inbox[d]) : inbox'[d][i] = inbox[d][i]
          /\ inbox[d] # <<>> => inbox'[d][1] = inbox[d][1]
      <4>1. inbox[d] \in Seq(Messages) /\ "invalid" \in Messages
        BY <1>0, Zenon DEF Messages
      <4> DEFINE t == Append(inbox[d], "invalid")
      <4>2. /\ Len(t) = Len(inbox[d]) + 1 /\ Len(inbox[d]) \in Nat
            /\ t[Len(inbox[d]) + 1] = "invalid"
            /\ DOMAIN inbox[d] = 1 .. Len(inbox[d])
            /\ DOMAIN t = 1 .. Len(inbox[d]) + 1
            /\ \A i \in 1 .. Len(inbox[d]) : t[i] = inbox[d][i]
            /\ inbox[d] # <<>> => t[1] = inbox[d][1]
        BY <4>1, AppendFacts
      <4>3. inbox'[d] = t
        BY <3>1
      <4> HIDE DEF t
      <4> QED  BY <4>2, <4>3, Zenon
    <3>4. inbox[d] = <<>> => inbox'[d][1] = "invalid"
      BY <3>3
    <3>5. client'[d] = "registering" => inbox'[d][1] \in {"valid", "invalid"}
      BY <1>0, <2>1, <3>3, <3>4, ZenonT(30) DEF Grammatical
    <3>6. ASSUME NEW i \in DOMAIN inbox'[d]
          PROVE  /\ inbox'[d][i] = "valid" => i = 1 /\ client'[d] = "registering"
                 /\ inbox'[d][i] = "invalid" => i = Len(inbox'[d])
      <4>1. CASE i = Len(inbox[d]) + 1
        BY <3>3, <4>1, Zenon
      <4>2. CASE i \in DOMAIN inbox[d]
        <5>1. inbox'[d][i] = inbox[d][i] /\ inbox[d][i] # "invalid"
          BY <3>2, <3>3, <4>2, Zenon
        <5>2. inbox[d][i] = "valid" => i = 1 /\ client[d] = "registering"
          BY <1>0, <4>2, Zenon DEF Grammatical
        <5> QED  BY <2>1, <5>1, <5>2, Zenon
      <4>3. i = Len(inbox[d]) + 1 \/ i \in DOMAIN inbox[d]
        <5> HIDE <3>6
        <5>1. i \in 1 .. Len(inbox[d]) + 1 /\ Len(inbox[d]) \in Nat
          BY <3>3, Zenon
        <5>2. i = Len(inbox[d]) + 1 \/ i \in 1 .. Len(inbox[d])
          BY <5>1
        <5> QED  BY <3>3, <5>2, Zenon
      <4> QED  BY <4>1, <4>2, <4>3, Zenon
    <3> QED  BY <2>1, <3>5, <3>6, ZenonT(40) DEF Grammatical
  <2> QED  BY <2>2, <2>3, Zenon
<1> QED
  BY <1>1, <1>4, <1>5, <1>6, <1>7, <1>8, <1>9, NextCases

------------------------------------------------------------------------------
(* Nobody is forgotten. *)

\* A message stays in a mailbox behind which others are put.
LEMMA AppendHas ==
    ASSUME NEW s \in Seq(Messages), NEW m \in Messages
    PROVE  /\ \E i \in DOMAIN Append(s, m) : Append(s, m)[i] = m
           /\ \A n : (\E i \in DOMAIN s : s[i] = n) =>
                     \E i \in DOMAIN Append(s, m) : Append(s, m)[i] = n
           /\ \A n : (\E i \in DOMAIN Append(s, m) : Append(s, m)[i] = n) =>
                     n = m \/ \E i \in DOMAIN s : s[i] = n
<1> DEFINE t == Append(s, m)
<1>1. /\ DOMAIN s = 1 .. Len(s) /\ DOMAIN t = 1 .. Len(s) + 1 /\ Len(s) \in Nat
      /\ t[Len(s) + 1] = m /\ \A i \in 1 .. Len(s) : t[i] = s[i]
  BY AppendFacts
<1> HIDE DEF t
<1>2. Len(s) + 1 \in DOMAIN t
  BY <1>1
<1>3. \A i \in DOMAIN s : i \in DOMAIN t /\ t[i] = s[i]
  BY <1>1
<1>4. \A i \in DOMAIN t : i \in DOMAIN s \/ t[i] = m
  BY <1>1
<1> QED  BY <1>1, <1>2, <1>3, <1>4, Zenon DEF t

\* What is left when the first message is taken.
LEMMA TailHas ==
    ASSUME NEW s \in Seq(Messages), s # <<>>
    PROVE  \A n : (\E i \in DOMAIN s : s[i] = n) =>
                  s[1] = n \/ \E i \in DOMAIN Tail(s) : Tail(s)[i] = n
<1> SUFFICES ASSUME NEW n, NEW i \in DOMAIN s, s[i] = n, s[1] # n
             PROVE  \E j \in DOMAIN Tail(s) : Tail(s)[j] = n
  OBVIOUS
<1>1. /\ Len(s) \in Nat \ {0} /\ DOMAIN s = 1 .. Len(s)
      /\ DOMAIN Tail(s) = 1 .. Len(s) - 1
      /\ \A j \in 1 .. Len(s) - 1 : Tail(s)[j] = s[j + 1]
  BY TailFacts
<1>2. i - 1 \in 1 .. Len(s) - 1 /\ (i - 1) + 1 = i
  BY <1>1
<1> QED  BY <1>1, <1>2

\* An agent that waits for an answer stays with the server.
LEMMA RememberedStep ==
    ASSUME Registration, TypeOK, Places, Lookups, Connections, Counters, Mailboxes, Remembered,
           [Next]_vars
    PROVE  Remembered'
<1> SUFFICES ASSUME NEW d \in Clients,
                    client'[d] \in {"registering", "running"}
             PROVE  Awaited(d)'
  BY Zenon DEF Remembered, Awaited
<1>0. Mailbox(d) /\ Awaited(d) /\ inbox[d] \in Seq(Messages)
  BY Zenon DEF Mailboxes, Remembered, TypeOK, Messages
<1>1. CASE UNCHANGED vars
  BY <1>0, <1>1, Zenon DEF vars, clientVars, socketVars, poolVars, loopVars, Awaited, Has,
                    Members, Queued
<1>2. ASSUME NEW c \in Clients,
             \/ Exec(c) \/ FindInput(c) \/ FindOutput(c)
             \/ Hello(c) \/ Answered(c) \/ Crash(c)
      PROVE  Awaited(d)'
  <2>1. /\ Members' = Members /\ UNCHANGED <<registered, peer, terminated>>
        /\ d # c => client'[d] = client[d] /\ inbox'[d] = inbox[d]
    BY <1>2, ClientLeaves, Zenon DEF poolVars, loopVars, Members
  <2>2. Queued \subseteq Queued'
    <3>1. CASE FindOutput(c)
      BY <3>1, FindOutputQueues
    <3>2. CASE ~FindOutput(c)
      BY <1>2, <3>2, ZenonT(30) DEF Exec, FindInput, Hello, Answered, Crash, socketVars, Queued
    <3> QED  BY <3>1, <3>2
  <2>3. CASE d # c
    BY <1>0, <2>1, <2>2, <2>3, Zenon DEF Awaited, Has
  <2> SUFFICES ASSUME d = c PROVE Awaited(c)'
    BY <2>3
  <2>4. CASE Exec(c) \/ FindInput(c) \/ FindOutput(c) \/ Crash(c)
    BY <2>4, ZenonT(30) DEF Exec, FindInput, FindOutput, Crash, Goes, TypeOK
  <2>5. CASE Hello(c)
    <3>1. c \in Queued \cup {peer}
      BY <1>0, <2>5, Zenon DEF Hello, Mailbox
    <3> QED  BY <2>1, <2>2, <3>1, Zenon DEF Awaited
  <2>6. CASE Answered(c)
    <3>1. /\ client[c] \in {"registering", "running"} /\ inbox[c] # <<>>
          /\ inbox[c][1] \in {"more", "valid"} /\ inbox'[c] = Tail(inbox[c])
      BY <2>6, AnsweredFacts, ZenonT(30)
    <3>2. ASSUME NEW n \in {"invalid", "eof"}, Has(c, n) PROVE Has(c, n)'
      <4>1. inbox[c] \in Seq(Messages) /\ inbox[c][1] # n
        BY <1>0, <3>1, Zenon
      <4>2. \E i \in DOMAIN Tail(inbox[c]) : Tail(inbox[c])[i] = n
        BY <3>1, <3>2, <4>1, TailHas, ZenonT(40) DEF Has
      <4> QED  BY <3>1, <4>2, ZenonT(30) DEF Has
    <3> QED  BY <1>0, <2>1, <2>2, <3>1, <3>2, ZenonT(30) DEF Awaited
  <2> QED  BY <1>2, <2>4, <2>5, <2>6
<1>3. CASE Accept
  <2>1. /\ Queued' \cup {peer'} = Queued /\ Members' = Members
        /\ UNCHANGED <<client, inbox, registered, terminated>>
    BY <1>3, AcceptMoves, Zenon DEF Accept, clientVars, loopVars, Members
  <2>2. peer = None
    BY <1>3 DEF Accept, Places
  <2> QED  BY <1>0, <2>1, <2>2, AgentsAssumption DEF Awaited, Has
<1>4. CASE Register
  <2>1. UNCHANGED <<client, terminated>> /\ Queued' = Queued
    BY <1>4, RegisterMail, Zenon DEF clientVars, Queued
  <2>2. peer \in Clients /\ Listening /\ (Queues \/ Starts)
    BY <1>4, Zenon DEF Registration
  <2>3. Members = {} /\ terminated = {}
    <3>1. pipeline = <<>> /\ terminated = {}
      BY <2>2, Zenon DEF Places, Counters, Listening
    <3> QED  BY <3>1 DEF Members
  <2>4. CASE Queues
    <3>1. inbox' = inbox /\ registered' = registered \cup {peer}
      BY <2>4 DEF Queues
    <3> QED  BY <1>0, <2>1, <2>3, <3>1 DEF Awaited, Has
  <2>5. CASE Starts
    <3> DEFINE to == (registered \cup {peer}) \ Members'
    <3>1. inbox' = Delivered(to, "invalid")
      BY <2>5 DEF Starts
    <3>2. CASE d \in to
      <4>1. inbox'[d] = Append(inbox[d], "invalid")
        <5> HIDE DEF to
        <5> QED  BY <2>1, <3>1, <3>2, Delivery, Zenon DEF Messages, Gone
      <4>2. Has(d, "invalid")'
        <5>1. inbox[d] \in Seq(Messages) /\ "invalid" \in Messages
          BY <1>0, Zenon DEF Messages
        <5>2. \E i \in DOMAIN Append(inbox[d], "invalid") :
                  Append(inbox[d], "invalid")[i] = "invalid"
          BY <5>1, AppendHas, Zenon
        <5> QED  BY <4>1, <5>2, Zenon DEF Has
      <4> QED  BY <4>2 DEF Awaited
    <3>3. CASE d \notin to
      <4>1. inbox'[d] = inbox[d]
        <5> HIDE DEF to
        <5> QED  BY <3>1, <3>3, Delivery DEF Messages
      <4>2. CASE d \in registered \cup {peer}
        BY <2>1, <2>3, <3>3, <4>2, Zenon DEF Awaited
      <4>3. CASE d \notin registered \cup {peer}
        BY <1>0, <2>1, <2>3, <4>1, <4>3, Zenon DEF Awaited, Has
      <4> QED  BY <4>2, <4>3
    <3> QED  BY <3>2, <3>3, Zenon
  <2> QED  BY <2>2, <2>4, <2>5
<1>5. CASE NoHello
  <2>1. /\ UNCHANGED <<client, inbox, registered, terminated>> /\ Members' = Members
        /\ Queued' = Queued /\ Gone(peer)
    BY <1>5, ZenonT(30) DEF NoHello, clientVars, socketVars, loopVars, Members, Queued
  <2> QED  BY <1>0, <2>1 DEF Awaited, Has, Gone
<1>6. CASE LoopStep
  <2>1. /\ UNCHANGED <<client, registered, peer>> /\ Members' = Members
        /\ Queued' = Queued
    BY <1>6, LoopLeaves, Zenon DEF clientVars, poolVars, Members, Queued
  <2>2. ASSUME NEW n, Has(d, n) PROVE Has(d, n)'
    <3>1. CASE inbox'[d] = inbox[d]
      BY <2>2, <3>1, Zenon DEF Has
    <3>2. CASE inbox'[d] # inbox[d]
      <4>1. PICK m \in Told : inbox'[d] = Append(inbox[d], m)
        BY <1>6, <3>2, LoopMail
      <4>2. m \in Messages
        BY DEF Told, Messages
      <4>3. inbox[d] \in Seq(Messages) /\ \E i \in DOMAIN inbox[d] : inbox[d][i] = n
        BY <1>0, <2>2, Zenon DEF Has
      <4>4. \E i \in DOMAIN Append(inbox[d], m) : Append(inbox[d], m)[i] = n
        <5>1. PICK i \in DOMAIN inbox[d] : inbox[d][i] = n
          BY <4>3, Zenon
        <5>2. inbox[d] \in Seq(Messages)
          BY <4>3, Zenon
        <5>3. i \in DOMAIN Append(inbox[d], m) /\ Append(inbox[d], m)[i] = inbox[d][i]
          BY <4>2, <5>2
        <5> QED  BY <5>1, <5>3, Zenon
      <4> QED  BY <4>1, <4>4, Zenon DEF Has
    <3> QED  BY <3>1, <3>2, Zenon
  <2>3. \/ d \in terminated' => d \in terminated
        \/ Has(d, "eof")'
    <3>1. CASE SinkFinalize /\ eof
      <4>1. terminated' = terminated \cup {Sink} /\ inbox' = Delivered({Sink}, "eof")
        BY <3>1, Zenon DEF SinkFinalize, Answer
      <4>2. CASE d = Sink
        <5>1. inbox'[d] = Append(inbox[d], "eof")
          BY <2>1, <4>1, <4>2, Delivery, Zenon DEF Messages, Gone
        <5> QED  BY <1>0, <5>1, AppendHas DEF Messages, Has
      <4> QED  BY <4>1, <4>2
    <3>2. CASE ~(SinkFinalize /\ eof)
      <4>1. terminated' = terminated
        BY <1>6, <3>2, Zenon DEF LoopStep, Build, Ready, SourceConfigure, SinkConfigure,
              SourceFinalize, SinkFinalize, Respond, Abandon, Throw, loopVars
      <4> QED  BY <4>1
    <3> QED  BY <3>1, <3>2
  <2> QED  BY <1>0, <2>1, <2>2, <2>3, Zenon DEF Awaited
<1>7. CASE Reset
  <2> DEFINE to == (Members \ terminated) \cup registered
  <2>1. UNCHANGED <<client, peer>> /\ Queued' = Queued /\ inbox' = Delivered(to, "invalid")
    BY <1>7, ZenonT(30) DEF Reset, clientVars, Queued
  <2>2. CASE d \in to
    <3>1. inbox'[d] = Append(inbox[d], "invalid")
      <4> HIDE DEF to
      <4> QED  BY <2>1, <2>2, Delivery, ZenonT(30) DEF Messages, Gone
    <3>2. Has(d, "invalid")'
      BY <1>0, <3>1, AppendHas DEF Messages, Has
    <3> QED  BY <3>2 DEF Awaited
  <2>3. CASE d \notin to
    <3>1. inbox'[d] = inbox[d]
      <4> HIDE DEF to
      <4> QED  BY <2>1, <2>3, Delivery, Zenon DEF Messages
    <3> QED  BY <1>0, <2>1, <2>3, <3>1, Zenon DEF Awaited, Has
  <2> QED  BY <2>2, <2>3
<1> QED
  BY <1>1, <1>2, <1>3, <1>4, <1>5, <1>6, <1>7, NextCases, Zenon

------------------------------------------------------------------------------
(* Requests and answers keep step. *)

\* The number of messages that wait for an agent is a number.
LEMMA LoadType ==
    ASSUME TypeOK, NEW c \in Clients
    PROVE  /\ Len(sent[c]) \in Nat /\ Len(inbox[c]) \in Nat /\ Load(c) \in Nat
           /\ Load(c) = 0 <=> sent[c] = <<>> /\ inbox[c] = <<>>
<1>1. sent[c] \in Seq(Requests) /\ inbox[c] \in Seq(Messages)
  BY DEF TypeOK, Requests, Messages
<1>2. /\ Len(sent[c]) \in Nat /\ Len(inbox[c]) \in Nat
      /\ Len(sent[c]) = 0 <=> sent[c] = <<>>
  BY <1>1
<1>3. Len(inbox[c]) = 0 <=> inbox[c] = <<>>
  BY <1>1
<1>4. ASSUME NEW m \in Nat, NEW n \in Nat
      PROVE  m + n \in Nat /\ (m + n = 0 <=> m = 0 /\ n = 0)
  OBVIOUS
<1>5. /\ Len(sent[c]) + Len(inbox[c]) \in Nat
      /\ Len(sent[c]) + Len(inbox[c]) = 0 <=> Len(sent[c]) = 0 /\ Len(inbox[c]) = 0
  BY <1>2, <1>4, Zenon
<1> QED  BY <1>2, <1>3, <1>5, Zenon DEF Load

\* The same after a step.
LEMMA LoadTypePrimed ==
    ASSUME TypeOK', NEW c \in Clients
    PROVE  Load(c)' \in Nat
<1>1. sent'[c] \in Seq(Requests) /\ inbox'[c] \in Seq(Messages)
  BY DEF TypeOK, Requests, Messages
<1>2. Len(sent'[c]) \in Nat /\ Len(inbox'[c]) \in Nat
  BY <1>1
<1>3. Load(c)' = Len(sent'[c]) + Len(inbox'[c])
  BY DEF Load
<1>4. ASSUME NEW m \in Nat, NEW n \in Nat PROVE m + n \in Nat
  OBVIOUS
<1> QED  BY <1>2, <1>3, <1>4, Zenon

\* A request received takes one message out of a client's way.
LEMMA ReceivesLoad ==
    ASSUME TypeOK, NEW c \in Clients, NEW needed \in BOOLEAN, Receives(c, needed),
           inbox' = inbox, NEW d \in Clients
    PROVE  Load(d)' = IF d = c /\ needed THEN Load(d) - 1 ELSE Load(d)
<1>1. sent[c] \in Seq(Requests) /\ sent \in [Clients -> Seq(Requests)]
  BY DEF TypeOK, Requests
<1>2. Len(sent[d]) \in Nat /\ Len(inbox[d]) \in Nat
  BY LoadType
<1>3. CASE d = c /\ needed
  <2>1. sent[c] # <<>> /\ sent'[c] = Tail(sent[c])
    BY <1>1, <1>3, Zenon DEF Receives
  <2>2. Len(sent'[c]) = Len(sent[c]) - 1
    BY <1>1, <2>1, TailFacts
  <2> QED  BY <1>2, <1>3, <2>2 DEF Load
<1>4. CASE ~(d = c /\ needed)
  <2>1. sent'[d] = sent[d]
    BY <1>1, <1>4, Zenon DEF Receives
  <2> QED  BY <1>4, <2>1, Zenon DEF Load
<1> QED  BY <1>3, <1>4, Zenon

\* A message delivered adds one, and none for a client that is gone.
LEMMA DeliveredLoad ==
    ASSUME TypeOK, NEW to, NEW m \in Messages, inbox' = Delivered(to, m),
           sent' = sent, NEW d \in Clients
    PROVE  /\ Load(d)' <= Load(d) + 1
           /\ d \notin to => Load(d)' = Load(d)
<1>1. inbox[d] \in Seq(Messages)
  BY Zenon DEF TypeOK, Messages
<1>2. Len(sent[d]) \in Nat /\ Len(inbox[d]) \in Nat
  BY LoadType
<1>3. CASE d \in to /\ ~Gone(d)
  <2>1. Len(inbox'[d]) = Len(inbox[d]) + 1
    BY <1>1, <1>3, Delivery, AppendFacts
  <2>2. Load(d)' = Len(sent[d]) + Len(inbox'[d]) /\ Load(d) = Len(sent[d]) + Len(inbox[d])
    BY DEF Load
  <2>3. ASSUME NEW k \in Nat, NEW n \in Nat PROVE k + (n + 1) <= k + n + 1
    OBVIOUS
  <2> QED  BY <1>2, <1>3, <2>1, <2>2, <2>3, Zenon
<1>4. CASE d \notin to \/ Gone(d)
  <2>1. inbox'[d] = inbox[d]
    BY <1>4, Delivery, Zenon
  <2>2. Load(d)' = Load(d)
    BY <2>1 DEF Load
  <2>3. Load(d) \in Nat
    BY LoadType
  <2> QED  BY <2>2, <2>3
<1> QED  BY <1>3, <1>4, Zenon

\* A client that is a member never has more to do than before.
LEMMA ClientLoad ==
    ASSUME TypeOK, Places, Lookups, Mailboxes, NEW c \in Clients,
           \/ Exec(c) \/ FindInput(c) \/ FindOutput(c)
           \/ Hello(c) \/ Answered(c) \/ Crash(c),
           NEW d \in Members
    PROVE  Load(d)' <= Load(d)
<1>1. d \in Clients
  BY Membership, Zenon
<1>2. Len(sent[d]) \in Nat /\ Len(inbox[d]) \in Nat
  BY <1>1, LoadType, Zenon
<1>3. CASE d # c
  <2>1. sent'[d] = sent[d] /\ inbox'[d] = inbox[d]
    BY <1>1, <1>3, ClientLeaves, Zenon
  <2>2. Len(sent'[d]) + Len(inbox'[d]) <= Len(sent[d]) + Len(inbox[d])
    BY <1>2, <2>1
  <2> QED  BY <2>2, Zenon DEF Load
<1> SUFFICES ASSUME d = c PROVE Load(c)' <= Load(c)
  BY <1>3, Zenon
<1>4. client[c] \notin {"forked", "started", "input", "connected"}
  BY <1>1, Zenon DEF Mailboxes, Mailbox
<1>5. CASE Answered(c)
  <2>1. /\ inbox[c] \in Seq(Messages) /\ sent[c] \in Seq(Requests)
        /\ inbox[c] # <<>>
    BY <1>5, AnsweredFacts, ZenonT(30) DEF TypeOK, Requests
  <2>2. CASE inbox'[c] = <<>> /\ sent'[c] = sent[c]
    <3>1. Len(inbox'[c]) = 0
      BY <2>2
    <3>2. Len(sent'[c]) + Len(inbox'[c]) <= Len(sent[c]) + Len(inbox[c])
      BY <1>2, <2>2, <3>1
    <3> QED  BY <3>2, Zenon DEF Load
  <2>3. CASE inbox'[c] = Tail(inbox[c]) /\ sent'[c] = Append(sent[c], "Processing")
    <3>1. Len(inbox'[c]) = Len(inbox[c]) - 1
      BY <2>1, <2>3, TailFacts, Zenon
    <3>2. Len(sent'[c]) = Len(sent[c]) + 1
      BY <2>1, <2>3, AppendFacts DEF Requests
    <3>3. /\ Load(c)' = Len(sent'[c]) + Len(inbox'[c])
          /\ Load(c) = Len(sent[c]) + Len(inbox[c])
      BY DEF Load
    <3>4. Len(sent[c]) \in Nat /\ Len(inbox[c]) \in Nat
      BY <1>2
    <3>5. ASSUME NEW k \in Nat, NEW n \in Nat PROVE (k + 1) + (n - 1) <= k + n
      OBVIOUS
    <3> QED  BY <3>1, <3>2, <3>3, <3>4, <3>5, ZenonT(40)
  <2> QED  BY <1>5, <2>2, <2>3, AnsweredFacts, ZenonT(30)
<1>6. CASE Crash(c)
  <2>1. inbox'[c] = <<>> /\ sent'[c] = sent[c]
    BY <1>6, Zenon DEF Crash, TypeOK
  <2>2. Len(inbox'[c]) = 0
    BY <2>1
  <2> QED  BY <1>2, <2>1, <2>2 DEF Load
<1> QED
  BY <1>4, <1>5, <1>6, Zenon DEF Exec, FindInput, FindOutput, Hello

\* Every step keeps turns, requests and answers in step.
LEMMA InStepStep ==
    ASSUME Registration, TypeOK, TypeOK', Places, Lookups, Connections, Chain, Counters,
           Mailboxes, InStep, [Next]_vars
    PROVE  InStep'
<1> DEFINE Bound(c) == IF c \in Due THEN 1 ELSE 0
<1> SUFFICES ASSUME NEW d \in Members', server' # "reset", ~Unasked(d)'
             PROVE  Load(d)' <= Bound(d)'
  BY DEF InStep
<1> USE DEF Source, Sink, SingleStage
<1>1. CASE UNCHANGED vars
  BY <1>1, ZenonT(30) DEF vars, socketVars, loopVars, InStep, Due, Load, Members, Unasked
<1>2. ASSUME NEW c \in Clients,
             \/ Exec(c) \/ FindInput(c) \/ FindOutput(c)
             \/ Hello(c) \/ Answered(c) \/ Crash(c)
      PROVE  Load(d)' <= Bound(d)'
  <2>1. UNCHANGED <<server, loopVars>>
    BY <1>2, ClientLeaves, Zenon
  <2>2. /\ Members' = Members /\ Due' = Due /\ Unasked(d)' = Unasked(d)
    BY <2>1 DEF loopVars, Members, Due, Unasked
  <2>3. d \in Members /\ d \in Clients
    BY <2>2, Membership
  <2>4. Load(d) <= Bound(d)
    BY <2>1, <2>2, <2>3 DEF InStep
  <2>5. Load(d)' <= Load(d) /\ Load(d)' \in Nat /\ Load(d) \in Nat
    BY <1>2, <2>3, ClientLoad, LoadType, LoadTypePrimed, Zenon
  <2> QED  BY <2>2, <2>4, <2>5
<1>3. CASE Accept \/ NoHello
  <2>1. pipeline' = <<>>
    BY <1>3 DEF Accept, NoHello, loopVars, Places, Listening
  <2>2. Members' = {}
    BY <2>1, EmptyFacts, Zenon DEF Members
  <2> QED  BY <2>2
<1>4. CASE Register
  <2>1. CASE Queues
    <3>1. pipeline' = <<>>
      BY <1>4, <2>1 DEF Queues, Registration, Places
    <3>2. Members' = {}
      BY <3>1, EmptyFacts DEF Members
    <3> QED  BY <3>2
  <2>2. CASE Starts
    <3>1. /\ d \in registered \cup {peer} /\ peer \in Clients /\ inbox'[d] = inbox[d]
          /\ d \in Clients
      <4> DEFINE to == (registered \cup {peer}) \ Members'
      <4>1. d \in registered \cup {peer} /\ d \notin to /\ inbox' = Delivered(to, "invalid")
            /\ peer \in Clients
        BY <1>4, <2>2, RegisterMail, Zenon DEF Starts
      <4>2. d \in Clients
        BY <4>1 DEF TypeOK
      <4> HIDE DEF to
      <4> QED  BY <4>1, <4>2, Delivery, Zenon DEF Messages
    <3>2. inbox'[d] = <<>> /\ sent'[d] = <<>>
      BY <1>4, <3>1, RegisterMail, Zenon DEF Mailboxes, Mailbox, TypeOK
    <3>3. Load(d)' = 0
      BY <3>1, <3>2, LoadType DEF Load
    <3> QED  BY <3>3
  <2> QED  BY <1>4, <2>1, <2>2, Zenon DEF Registration
<1>5. ASSUME NEW b \in [input : BOOLEAN, output : BOOLEAN], Build(b)
      PROVE  Load(d)' <= Bound(d)'
  <2>1. /\ server = "build" /\ inbox' = Delivered(Members, "valid") /\ sent' = sent
        /\ at' = 1 /\ server' = IF Len(pipeline) > 2 THEN "ready" ELSE "source"
        /\ UNCHANGED <<pipeline, turns>>
    BY <1>5 DEF Build
  <2>2. d \in Members /\ d \in Clients /\ Members' = Members
    BY <2>1, Membership, ZenonT(30) DEF Members
  <2>3. Load(d) = 0
    BY <2>1, <2>2, LoadType, Zenon DEF Mailboxes, Mailbox
  <2>4. Load(d)' <= 1
    BY <2>1, <2>2, <2>3, DeliveredLoad DEF Messages
  <2>5. d \in Due'
    <3>1. CASE Len(pipeline) > 2
      <4>1. Due' = Members' \ {pipeline'[i] : i \in 2 .. 1}
        BY <2>1, <3>1 DEF Due
      <4>2. {pipeline'[i] : i \in 2 .. 1} = {}
        OBVIOUS
      <4> QED  BY <2>2, <4>1, <4>2
    <3>2. CASE ~(Len(pipeline) > 2)
      <4>1. turns' = 0 /\ server' = "source"
        BY <2>1, <3>2 DEF Counters
      <4>2. Due' = {c \in Members' : c = pipeline'[1]
                        \/ (c = pipeline'[Len(pipeline')] /\ Len(pipeline') # 1)}
        BY <4>1 DEF Due
      <4>3. PICK i \in 1 .. Len(pipeline) : d = pipeline[i]
        BY <2>2, Membership DEF Members
      <4>4. i = 1 \/ (i = Len(pipeline) /\ Len(pipeline) # 1)
        <5>1. Len(pipeline) \in Nat
          BY Membership
        <5> QED  BY <3>2, <4>3, <5>1
      <4> QED  BY <2>1, <2>2, <4>2, <4>3, <4>4
    <3> QED  BY <3>1, <3>2, Zenon
  <2> QED  BY <2>4, <2>5, Zenon
<1>6. ASSUME LoopStep, buffers' = buffers
      PROVE  /\ d \in Members /\ d \in Clients /\ Members' = Members
             /\ pipeline' = pipeline /\ Load(d) <= Bound(d)
             /\ Load(d) \in Nat /\ Load(d)' \in Nat
  <2>1. pipeline' = pipeline /\ server # "reset"
    BY <1>6, LoopLeaves, LoopMail, Zenon
  <2>2. Members' = Members /\ Unasked(d)' = Unasked(d)
    BY <1>6, <2>1 DEF Members, Unasked
  <2>3. d \in Members /\ d \in Clients
    BY <2>2, Membership, Zenon
  <2>4. Load(d) \in Nat /\ Load(d)' \in Nat
    BY <2>3, LoadType, LoadTypePrimed, Zenon
  <2> QED  BY <2>1, <2>2, <2>3, <2>4, Zenon DEF InStep
<1>7. CASE Ready
  <2>1. /\ server = "ready" /\ Receives(pipeline[at + 1], TRUE) /\ inbox' = inbox
        /\ at' = at + 1 /\ buffers' = buffers
        /\ server' = IF at + 2 < Len(pipeline) THEN "ready" ELSE "source"
        /\ UNCHANGED turns
    BY <1>7, Zenon DEF Ready
  <2>2. /\ at \in Nat \ {0} /\ at + 1 \in 1 .. Len(pipeline) /\ Len(pipeline) \in Nat
        /\ at + 1 < Len(pipeline)
    <3>1. at >= 1 /\ at + 1 < Len(pipeline) /\ at \in 0 .. Cardinality(Clients)
      BY <2>1, Zenon DEF Counters, TypeOK
    <3>2. Len(pipeline) \in Nat /\ Cardinality(Clients) \in Nat
      BY Membership DEF Registration
    <3> QED  BY <3>1, <3>2
  <2>3. /\ d \in Members /\ d \in Clients /\ Members' = Members
        /\ pipeline' = pipeline /\ Load(d) <= Bound(d)
        /\ Load(d) \in Nat /\ Load(d)' \in Nat
    BY <1>6, <1>7, <2>1 DEF LoopStep
  <2>4. Due = Members \ {pipeline[i] : i \in 2 .. at}
    BY <2>1 DEF Due
  <2>5. pipeline[at + 1] \in Clients
    BY <2>2, Membership
  <2>6. Load(d)' = IF d = pipeline[at + 1] THEN Load(d) - 1 ELSE Load(d)
    BY <2>1, <2>3, <2>5, ReceivesLoad, Zenon
  <2>7. Load(d)' = 0 \/ (Load(d)' = 1 /\ d \notin {pipeline[i] : i \in 2 .. at + 1})
    <3>1. CASE d \in {pipeline[i] : i \in 2 .. at}
      BY <2>3, <2>4, <2>6, <3>1, SMTT(20)
    <3>2. CASE d = pipeline[at + 1]
      BY <2>3, <2>4, <2>6, <3>2
    <3>3. CASE d \notin {pipeline[i] : i \in 2 .. at} /\ d # pipeline[at + 1]
      <4>1. ASSUME NEW i \in 2 .. at + 1 PROVE d # pipeline[i]
        BY <2>2, <3>3
      <4>2. Load(d)' = 0 \/ Load(d)' = 1
        BY <2>3, <2>6, <3>3
      <4> QED  BY <4>1, <4>2, Zenon
    <3> QED  BY <3>1, <3>2, <3>3, Zenon
  <2>8. CASE Load(d)' = 0
    BY <2>8
  <2>9. CASE Load(d)' = 1 /\ d \notin {pipeline[i] : i \in 2 .. at + 1}
    <3>1. CASE server' = "ready"
      <4>1. Due' = Members \ {pipeline[i] : i \in 2 .. at + 1}
        BY <2>1, <2>3, <3>1, Zenon DEF Due
      <4> QED  BY <2>3, <2>9, <4>1
    <3>2. CASE server' = "source"
      <4>1. turns' = 0 /\ at + 2 >= Len(pipeline)
        BY <2>1, <2>2, <3>2 DEF Counters
      <4>2. Due' = {c \in Members : c = pipeline[1]
                        \/ (c = pipeline[Len(pipeline)] /\ Len(pipeline) # 1)}
        BY <2>3, <3>2, <4>1, Zenon DEF Due
      <4>3. PICK i \in 1 .. Len(pipeline) : d = pipeline[i]
        BY <2>3, Membership, Zenon DEF Members
      <4>4. i \notin 2 .. at + 1
        BY <2>9, <4>3, Zenon
      <4>5. i = 1 \/ (i = Len(pipeline) /\ Len(pipeline) # 1)
        BY <2>2, <4>1, <4>3, <4>4
      <4> QED  BY <2>3, <2>9, <4>2, <4>3, <4>5
    <3> QED  BY <2>1, <3>1, <3>2, Zenon
  <2> QED  BY <2>7, <2>8, <2>9
<1>8. CASE SourceConfigure
  <2> DEFINE needed == turns = 0 \/ buffers.input
  <2>1. /\ server = "source" /\ Receives(Source, needed) /\ inbox' = inbox
        /\ server' = "sink" /\ UNCHANGED <<turns, buffers>> /\ needed \in BOOLEAN
    BY <1>8, Zenon DEF SourceConfigure
  <2>2. /\ d \in Members /\ d \in Clients /\ Members' = Members
        /\ pipeline' = pipeline /\ Load(d) <= Bound(d)
        /\ Load(d) \in Nat /\ Load(d)' \in Nat
    BY <1>6, <1>8, <2>1, Zenon DEF LoopStep
  <2>3. Source \in Clients
    BY <2>1, Membership, Zenon DEF Listening
  <2>4. Load(d)' = IF d = Source /\ needed THEN Load(d) - 1 ELSE Load(d)
    <3> HIDE DEF needed
    <3> QED  BY <2>1, <2>2, <2>3, ReceivesLoad
  <2>5. d \in Due => \/ d = Source /\ needed
                     \/ d = Sink /\ ~SingleStage /\ (turns = 0 \/ buffers.output)
    BY <2>1 DEF Due
  <2>6. d \in Due' <=> d = Sink /\ ~SingleStage /\ (turns = 0 \/ buffers.output)
    BY <2>1, <2>2, Zenon DEF Due
  <2> QED  BY <2>2, <2>4, <2>5, <2>6
<1>9. CASE SinkConfigure
  <2> DEFINE needed == (turns = 0 \/ buffers.output) /\ ~SingleStage
  <2>1. /\ server = "sink" /\ Receives(Sink, needed) /\ inbox' = inbox
        /\ buffers' = buffers /\ needed \in BOOLEAN
    BY <1>9, Zenon DEF SinkConfigure, loopVars
  <2>2. /\ d \in Members /\ d \in Clients /\ Load(d) <= Bound(d)
        /\ Load(d) \in Nat /\ Load(d)' \in Nat
    BY <1>6, <1>9, <2>1, Zenon DEF LoopStep
  <2>3. Sink \in Clients
    BY <2>1, Membership, Zenon DEF Listening
  <2>4. Load(d)' = IF d = Sink /\ needed THEN Load(d) - 1 ELSE Load(d)
    <3> HIDE DEF needed
    <3> QED  BY <2>1, <2>2, <2>3, ReceivesLoad
  <2>5. d \in Due => d = Sink /\ needed
    BY <2>1, Zenon DEF Due
  <2> QED  BY <2>2, <2>4, <2>5
<1>10. CASE SourceFinalize
  <2> DEFINE told == (eof \/ buffers.input) /\ ~SingleStage
  <2>1. /\ server = "run" /\ server' = "finalize" /\ sent' = sent
        /\ inbox' = IF told THEN Delivered({Source}, Answer) ELSE inbox
        /\ UNCHANGED <<pipeline, buffers, eof>>
    BY <1>10, Zenon DEF SourceFinalize, loopVars
  <2>2. /\ d \in Members /\ d \in Clients /\ Members' = Members
        /\ Load(d) <= Bound(d) /\ Load(d) \in Nat /\ Load(d)' \in Nat
    BY <1>6, <1>10, <2>1 DEF LoopStep
  <2>3. Load(d) = 0
    BY <2>1, <2>2 DEF Due
  <2>4. Answer \in Messages
    BY Zenon DEF Answer, Messages
  <2>5. CASE told
    <3>1. Load(d)' <= 1 /\ (d # Source => Load(d)' = 0)
      BY <2>1, <2>2, <2>3, <2>4, <2>5, DeliveredLoad
    <3>2. d = Source => d \in Due'
      BY <2>1, <2>2, <2>5 DEF Due
    <3> QED  BY <2>2, <3>1, <3>2
  <2>6. CASE ~told
    <3>1. Load(d)' = 0
      BY <2>1, <2>3, <2>6, Zenon DEF Load
    <3> QED  BY <3>1
  <2> QED  BY <2>5, <2>6, Zenon
<1>11. CASE SinkFinalize
  <2> DEFINE told == eof \/ buffers.output \/ (buffers.input /\ SingleStage)
  <2>1. /\ server = "finalize" /\ server' = IF eof THEN "respond" ELSE "source"
        /\ sent' = sent /\ turns' = turns + 1
        /\ inbox' = IF told THEN Delivered({Sink}, Answer) ELSE inbox
        /\ UNCHANGED <<pipeline, buffers, eof>>
    BY <1>11, Zenon DEF SinkFinalize
  <2>2. /\ d \in Members /\ d \in Clients /\ Members' = Members
        /\ Load(d) <= Bound(d) /\ Load(d) \in Nat /\ Load(d)' \in Nat
    BY <1>6, <1>11, <2>1 DEF LoopStep
  <2>3. d \in Due <=> d = Source /\ ~SingleStage /\ (eof \/ buffers.input)
    BY <2>1, <2>2, Zenon DEF Due
  <2>4. Answer \in Messages
    BY DEF Answer, Messages
  <2>5. told => Load(d)' <= Load(d) + 1 /\ (d # Sink => Load(d)' = Load(d))
    <3> HIDE DEF told
    <3> QED  BY <2>1, <2>2, <2>4, DeliveredLoad
  <2>6. ~told => Load(d)' = Load(d)
    BY <2>1, Zenon DEF Load
  <2>7. d = Source /\ ~SingleStage => d # Sink
    <3>1. DOMAIN pipeline = 1 .. Len(pipeline) /\ Len(pipeline) \in Nat \ {0}
      BY <2>1, Membership, Zenon DEF Listening
    <3>2. \A i, j \in DOMAIN pipeline : pipeline[i] = pipeline[j] => i = j
      BY <2>1, Zenon DEF Chain, Listening
    <3>3. 1 \in DOMAIN pipeline /\ Len(pipeline) \in DOMAIN pipeline
      BY <3>1
    <3> QED  BY <3>2, <3>3, Zenon DEF Source, Sink, SingleStage
  <2>8. CASE eof
    <3>1. d \in Due' <=> d \in {Source, Sink}
      BY <2>1, <2>2, <2>8, Zenon DEF Due
    <3> QED  BY <2>2, <2>3, <2>5, <2>7, <2>8, <3>1
  <2>9. CASE ~eof
    <3>1. turns' # 0
      BY <2>1 DEF TypeOK
    <3>2. d \in Due' <=> \/ d = Source /\ buffers.input
                         \/ d = Sink /\ ~SingleStage /\ buffers.output
      BY <2>1, <2>2, <2>9, <3>1 DEF Due
    <3>3. SingleStage => Source = Sink
      BY Zenon
    <3>4. ~(SingleStage /\ d = Source /\ ~buffers.input /\ buffers.output)
      BY <2>1 DEF Unasked
    <3> HIDE DEF SingleStage, Source, Sink
    <3>5. CASE told
      BY <2>2, <2>3, <2>5, <2>7, <2>9, <3>2, <3>3, <3>4, <3>5
    <3>6. CASE ~told
      BY <2>2, <2>3, <2>6, <2>9, <3>2, <3>6
    <3> QED  BY <3>5, <3>6, Zenon
  <2> QED  BY <2>8, <2>9, Zenon
<1>12. CASE Respond \/ Abandon \/ Throw \/ Reset
  <2>1. server' = "reset" \/ Reset
    BY <1>12, Zenon DEF Respond, Abandon, Throw
  <2>2. Reset => Members' = {}
    BY DEF Reset, Members
  <2> QED  BY <2>1, <2>2, Zenon
<1> QED
  BY Zenon, <1>1, <1>2, <1>3, <1>4, <1>5, <1>7, <1>8, <1>9, <1>10, <1>11, <1>12,
     NextCases DEF LoopStep

------------------------------------------------------------------------------
(* The agents of a pipeline end alike. *)

\* A client that is to succeed does, unless it crashes first.
LEMMA SuccessStays ==
    ASSUME Registration, TypeOK, Places, Connections, Counters, Mailboxes, Grammar,
           [Next]_vars, NEW d \in Clients, Succeeds(d)
    PROVE  Succeeds(d)' \/ client'[d] = "crashed"
<1>0. Mailbox(d) /\ Grammatical(d) /\ inbox[d] \in Seq(Messages)
  BY Zenon DEF Mailboxes, Grammar, TypeOK, Messages
<1>1. ASSUME client'[d] = client[d],
             \/ inbox'[d] = inbox[d]
             \/ \E m \in Messages : inbox'[d] = Append(inbox[d], m)
      PROVE  Succeeds(d)'
  <2>1. CASE inbox'[d] = inbox[d]
    BY <1>1, <2>1, Zenon DEF Succeeds
  <2>2. CASE \E m \in Messages : inbox'[d] = Append(inbox[d], m)
    <3>1. PICK m \in Messages : inbox'[d] = Append(inbox[d], m)
      BY <2>2, Zenon
    <3>2. ASSUME NEW i \in DOMAIN inbox[d], inbox[d][i] = "eof"
          PROVE  i \in DOMAIN inbox'[d] /\ inbox'[d][i] = "eof"
      <4>1. i \in DOMAIN Append(inbox[d], m) /\ Append(inbox[d], m)[i] = inbox[d][i]
        BY <1>0
      <4> QED  BY <3>1, <3>2, <4>1, Zenon
    <3> QED  BY <1>1, <3>2, Zenon DEF Succeeds
  <2> QED  BY <1>1, <2>1, <2>2, Zenon
<1>2. ASSUME NEW to, NEW m \in Messages, inbox' = Delivered(to, m)
      PROVE  inbox'[d] = inbox[d] \/ inbox'[d] = Append(inbox[d], m)
  BY <1>2, Delivery
<1>3. CASE UNCHANGED vars
  BY <1>1, <1>3 DEF vars, clientVars, socketVars
<1>4. ASSUME NEW c \in Clients,
             \/ Exec(c) \/ FindInput(c) \/ FindOutput(c)
             \/ Hello(c) \/ Answered(c) \/ Crash(c)
      PROVE  Succeeds(d)' \/ client'[d] = "crashed"
  <2>1. CASE d # c
    BY <1>1, <1>4, <2>1, ClientLeaves, Zenon
  <2> SUFFICES ASSUME d = c PROVE Succeeds(c)' \/ client'[c] = "crashed"
    BY <2>1
  <2>2. client[c] \notin {"forked", "started", "input", "connected"}
    <3>1. inbox[c] = <<>> => client[c] = "done"
      BY EmptyFacts, Zenon DEF Succeeds
    <3> QED  BY <1>0, <3>1, ZenonT(30) DEF Mailbox
  <2>3. CASE Answered(c)
    <3>1. /\ client[c] \in {"registering", "running"} /\ inbox[c] # <<>>
          /\ inbox[c] \in Seq(Messages)
      BY <2>3, AnsweredFacts, Zenon
    <3>2. PICK i \in DOMAIN inbox[c] : inbox[c][i] = "eof"
      BY <3>1, Zenon DEF Succeeds
    <3>3. /\ DOMAIN inbox[c] = 1 .. Len(inbox[c]) /\ Len(inbox[c]) \in Nat \ {0}
          /\ inbox[c][1] \in Messages /\ 1 \in DOMAIN inbox[c]
      BY <3>1, TailFacts
    <3>4. inbox[c][1] # "invalid"
      <4>1. inbox[c][1] = "invalid" => Len(inbox[c]) = 1
        BY <1>0, <3>3, Zenon DEF Grammatical
      <4>2. Len(inbox[c]) = 1 => i = 1
        BY <3>3
      <4> QED  BY <3>2, <4>1, <4>2
    <3>5. /\ client[c] = "registering" => inbox[c][1] = "valid"
          /\ client[c] = "running" => inbox[c][1] # "valid"
      BY <1>0, <3>1, <3>3, <3>4, Zenon DEF Grammatical
    <3>6. CASE inbox[c][1] = "eof"
      <4>1. client[c] = "running"
        BY <3>1, <3>5, <3>6
      <4>2. client'[c] = "done"
        BY <2>3, <3>6, <4>1, AnsweredFacts, Zenon
      <4> QED  BY <4>2, Zenon DEF Succeeds
    <3>7. CASE inbox[c][1] # "eof"
      <4>1. inbox[c][1] = IF client[c] = "running" THEN "more" ELSE "valid"
        BY <3>1, <3>3, <3>4, <3>5, <3>7, Zenon DEF Messages
      <4>2. inbox'[c] = Tail(inbox[c])
        BY <2>3, <4>1, AnsweredFacts
      <4>3. \E j \in DOMAIN Tail(inbox[c]) : Tail(inbox[c])[j] = "eof"
        BY <3>1, <3>2, <3>7, TailHas, ZenonT(30)
      <4> QED  BY <4>2, <4>3, Zenon DEF Succeeds
    <3> QED  BY <3>6, <3>7, Zenon
  <2>4. CASE Crash(c)
    BY <2>4 DEF Crash, Goes, TypeOK
  <2> QED  BY <1>4, <2>2, <2>3, <2>4, ZenonT(30) DEF Exec, FindInput, FindOutput, Hello
<1>5. CASE Accept \/ NoHello
  BY <1>1, <1>5, Zenon DEF Accept, NoHello, clientVars, socketVars
<1>6. CASE Register
  <2>1. client' = client
    BY <1>6, Zenon DEF Register, clientVars
  <2>2. inbox' = inbox
        \/ inbox' = Delivered((registered \cup {peer}) \ Members', "invalid")
    <3>1. CASE Queues
      BY <3>1, Zenon DEF Queues
    <3>2. CASE Starts
      BY <3>2, Zenon DEF Starts
    <3> QED  BY <1>6, <3>1, <3>2 DEF Registration
  <2>3. "invalid" \in Messages
    BY Zenon DEF Messages
  <2> QED  BY <1>1, <1>2, <2>1, <2>2, <2>3, ZenonT(30)
<1>7. CASE LoopStep
  <2>1. client' = client
    BY <1>7, LoopLeaves DEF clientVars
  <2>2. Told \subseteq Messages
    BY DEF Told, Messages
  <2> QED  BY <1>1, <1>7, <2>1, <2>2, LoopMail, Zenon
<1>8. CASE Reset
  <2>1. client' = client
        /\ inbox' = Delivered((Members \ terminated) \cup registered, "invalid")
    BY <1>8, Zenon DEF Reset, clientVars
  <2>2. "invalid" \in Messages
    BY DEF Messages
  <2> QED  BY <1>1, <1>2, <2>1, <2>2, Zenon
<1> QED  BY <1>3, <1>4, <1>5, <1>6, <1>7, <1>8, NextCases, Zenon

\* A client comes to succeed when it is the source, the sink or an idle agent
\* of a pipeline that has reached the end of its input.
LEMMA SuccessComes ==
    ASSUME Registration, TypeOK, Places, Connections, Counters, Mailboxes,
           [Next]_vars, NEW d \in Clients, ~Succeeds(d), Succeeds(d)'
    PROVE  \/ SourceFinalize /\ d = Source
           \/ SinkFinalize /\ eof /\ d = Sink
           \/ Respond /\ d \in Idle
<1>0. inbox[d] \in Seq(Messages) /\ client[d] # "done"
  BY Zenon DEF TypeOK, Messages, Succeeds
<1>1. ASSUME client'[d] = client[d] PROVE inbox'[d] # inbox[d]
  BY <1>1, Zenon DEF Succeeds
<1>2. ASSUME client'[d] = client[d], NEW m \in Messages,
             inbox'[d] = Append(inbox[d], m)
      PROVE  m = "eof"
  <2>1. ~ \E i \in DOMAIN inbox[d] : inbox[d][i] = "eof"
    BY Zenon DEF Succeeds
  <2>2. \E i \in DOMAIN inbox'[d] : inbox'[d][i] = "eof"
    BY <1>0, <1>2, Zenon DEF Succeeds
  <2>3. \E i \in DOMAIN Append(inbox[d], m) : Append(inbox[d], m)[i] = "eof"
    BY <1>2, <2>2, Zenon
  <2>4. \A n : (\E i \in DOMAIN Append(inbox[d], m) : Append(inbox[d], m)[i] = n) =>
                n = m \/ \E i \in DOMAIN inbox[d] : inbox[d][i] = n
    BY <1>0, <1>2, AppendHas, Zenon
  <2> QED  BY <2>1, <2>3, <2>4, Zenon
<1>3. CASE UNCHANGED vars
  BY <1>1, <1>3, Zenon DEF vars, clientVars, socketVars
<1>4. ASSUME NEW c \in Clients,
             \/ Exec(c) \/ FindInput(c) \/ FindOutput(c)
             \/ Hello(c) \/ Answered(c) \/ Crash(c)
      PROVE  FALSE
  <2>1. d = c
    BY <1>1, <1>4, ClientLeaves, ZenonT(30)
  <2>2. CASE Answered(c)
    <3>1. inbox[c] # <<>> /\ inbox[c] \in Seq(Messages)
      BY <2>2, AnsweredFacts, Zenon
    <3>2. /\ DOMAIN inbox[c] = 1 .. Len(inbox[c]) /\ Len(inbox[c]) \in Nat \ {0}
          /\ DOMAIN Tail(inbox[c]) = 1 .. Len(inbox[c]) - 1
          /\ \A i \in 1 .. Len(inbox[c]) - 1 : Tail(inbox[c])[i] = inbox[c][i + 1]
      BY <3>1, TailFacts, Zenon
    <3>3. \A i \in DOMAIN inbox[c] : inbox[c][i] # "eof"
      BY <2>1, Zenon DEF Succeeds
    <3>4. \A i \in DOMAIN Tail(inbox[c]) : Tail(inbox[c])[i] # "eof"
      BY <3>2, <3>3
    <3>5. inbox[c][1] # "eof"
      BY <3>2, <3>3
    <3>6. client'[c] # "done" /\ (inbox'[c] = Tail(inbox[c]) \/ inbox'[c] = <<>>)
      BY <2>2, <3>5, AnsweredFacts, Zenon
    <3>7. \A i \in DOMAIN inbox'[c] : inbox'[c][i] # "eof"
      <4>1. CASE inbox'[c] = Tail(inbox[c])
        BY <3>4, <4>1, Zenon
      <4>2. CASE inbox'[c] = <<>>
        BY <4>2
      <4> QED  BY <3>6, <4>1, <4>2, Zenon
    <3> QED  BY <2>1, <3>6, <3>7, Zenon DEF Succeeds
  <2>3. CASE Exec(c) \/ FindInput(c) \/ FindOutput(c) \/ Hello(c)
    <3>1. inbox' = inbox /\ client'[c] # "done"
      BY <2>3, Zenon DEF Exec, FindInput, FindOutput, Hello, Goes, socketVars, TypeOK
    <3> QED  BY <2>1, <3>1 DEF Succeeds
  <2>4. CASE Crash(c)
    <3>1. inbox'[c] = <<>> /\ client'[c] # "done"
      BY <2>4 DEF Crash, Goes, TypeOK
    <3> QED  BY <2>1, <3>1 DEF Succeeds
  <2> QED  BY <1>4, <2>2, <2>3, <2>4
<1>5. CASE Accept \/ NoHello
  BY <1>1, <1>5, ZenonT(30) DEF Accept, NoHello, clientVars, socketVars
<1>6. CASE Register
  <2>1. client' = client
    BY <1>6, Zenon DEF Register, clientVars
  <2>2. inbox' = inbox
        \/ inbox' = Delivered((registered \cup {peer}) \ Members', "invalid")
    <3>1. CASE Queues
      BY <3>1, Zenon DEF Queues
    <3>2. CASE Starts
      BY <3>2, Zenon DEF Starts
    <3> QED  BY <1>6, <3>1, <3>2 DEF Registration
  <2>3. inbox'[d] = inbox[d] \/ inbox'[d] = Append(inbox[d], "invalid")
    <3> DEFINE to == (registered \cup {peer}) \ Members'
    <3>1. "invalid" \in Messages
      BY DEF Messages
    <3>2. inbox' = inbox \/ inbox' = Delivered(to, "invalid")
      BY <2>2
    <3> HIDE DEF to
    <3> QED  BY <3>1, <3>2, Delivery
  <2> QED  BY <1>1, <1>2, <2>1, <2>3 DEF Messages
<1>7. CASE LoopStep
  <2>1. client' = client
    BY <1>7, LoopLeaves, SMTT(20) DEF clientVars
  <2>2. CASE SourceFinalize
    <3>1. inbox' = Delivered({Source}, Answer) /\ Answer \in Messages
      BY <1>1, <2>1, <2>2 DEF SourceFinalize, Answer, Messages
    <3>2. d \notin {Source} => inbox'[d] = inbox[d]
      BY <3>1, Delivery, ZenonT(30)
    <3> QED  BY <1>1, <2>1, <2>2, <3>2
  <2>3. CASE SinkFinalize
    <3>1. inbox' = Delivered({Sink}, Answer) /\ Answer \in Messages
      BY <1>1, <2>1, <2>3 DEF SinkFinalize, Answer, Messages
    <3>2. d = Sink /\ inbox'[d] = Append(inbox[d], Answer)
      <4>1. inbox'[d] # inbox[d]
        BY <1>1, <2>1
      <4> HIDE DEF Answer, Sink
      <4> QED  BY <3>1, <4>1, Delivery
    <3>3. Answer = "eof"
      BY <1>2, <2>1, <3>1, <3>2, Zenon
    <3> QED  BY <2>3, <3>2, <3>3 DEF Answer
  <2>4. CASE Respond
    <3>1. inbox' = Delivered(Idle, "eof") /\ "eof" \in Messages
      BY <2>4 DEF Respond, Messages
    <3> QED  BY <1>1, <2>1, <2>4, <3>1, Delivery, Zenon
  <2>5. CASE ~(SourceFinalize \/ SinkFinalize \/ Respond)
    <3>1. \/ inbox' = inbox
          \/ inbox' = Delivered(Members, "valid")
      BY <1>7, <2>5, Zenon DEF LoopStep, Build, Ready, SourceConfigure, SinkConfigure,
                        Abandon, Throw, socketVars
    <3>2. inbox'[d] = inbox[d] \/ inbox'[d] = Append(inbox[d], "valid")
      <4>1. "valid" \in Messages
        BY DEF Messages
      <4>2. CASE inbox' = inbox
        BY <4>2, Zenon
      <4>3. CASE inbox' = Delivered(Members, "valid")
        BY <4>1, <4>3, Delivery
      <4> QED  BY <3>1, <4>2, <4>3
    <3> QED  BY <1>1, <1>2, <2>1, <3>2, ZenonT(30) DEF Messages
  <2> QED  BY <2>2, <2>3, <2>4, <2>5
<1>8. CASE Reset
  <2>1. client' = client
        /\ inbox' = Delivered((Members \ terminated) \cup registered, "invalid")
    BY <1>8 DEF Reset, clientVars
  <2>2. inbox'[d] = inbox[d] \/ inbox'[d] = Append(inbox[d], "invalid")
    BY <2>1, Delivery, Zenon DEF Messages
  <2> QED  BY <1>1, <1>2, <2>1, <2>2, Zenon DEF Messages
<1> QED  BY <1>3, <1>4, <1>5, <1>6, <1>7, <1>8, NextCases, Zenon

\* The agent that feeds a member, if it has been looked up, is the member
\* before it.
LEMMA FeederIsMember ==
    ASSUME TypeOK, Places, Lookups, Chain, ~Listening,
           NEW c \in Clients, NEW d \in Members, inPid[d] = c
    PROVE  outPid[c] = d /\ c \in Members
<1>1. PICK i \in 1 .. Len(pipeline) : d = pipeline[i]
  BY Membership, Zenon DEF Members
<1>2. Len(pipeline) \in Nat \ {0} /\ d \in Clients
  BY Membership, Zenon
<1>3. i # 1
  BY <1>1, AgentsAssumption, Zenon DEF Chain, Source
<1>4. i - 1 \in 1 .. Len(pipeline) - 1 /\ i - 1 \in 1 .. Len(pipeline) /\ (i - 1) + 1 = i
  BY <1>1, <1>2, <1>3
<1> DEFINE p == pipeline[i - 1]
<1>5. p \in Members /\ p \in Clients /\ outPid[p] = d
  BY <1>1, <1>4, Membership, ZenonT(40) DEF Chain
<1>6. next[p] = d /\ next[c] = d
  BY <1>2, <1>5, AgentsAssumption, Zenon DEF Lookups
<1>7. p = c
  <2>1. next \in Topologies /\ d # None
    BY <1>2, AgentsAssumption, Zenon DEF TypeOK
  <2>2. next[p] = next[c] /\ next[p] # None
    BY <1>6, <2>1, Zenon
  <2> HIDE DEF p
  <2> QED  BY <1>5, <2>1, <2>2, OneWriter, Zenon
<1> QED  BY <1>5, <1>7

\* Every step keeps the ends of two connected agents in agreement.
LEMMA AgreedStep ==
    ASSUME Registration, TypeOK, Places, Lookups, Connections, Chain, Counters, Mailboxes,
           Grammar, Agreed, [Next]_vars
    PROVE  Agreed'
<1> DEFINE Fine(c) == Succeeds(c) \/ client[c] = "crashed"
<1>1. ASSUME NEW c \in Clients, Fine(c) PROVE Fine(c)'
  <2>1. CASE Succeeds(c)
    BY <2>1, SuccessStays
  <2>2. CASE client[c] = "crashed"
    <3>1. client'[c] = "crashed"
      <4>1. CASE client' = client
        BY <2>2, <4>1
      <4>2. ASSUME NEW e \in Clients,
                   \/ Exec(e) \/ FindInput(e) \/ FindOutput(e)
                   \/ Hello(e) \/ Answered(e) \/ Crash(e)
            PROVE  client'[c] = "crashed"
        BY <2>2, <4>2, ClientLeaves, ZenonT(30)
           DEF Exec, FindInput, FindOutput, Hello, Answered, Crash, Gone
      <4> QED
        BY <4>1, <4>2, NextCases, LoopLeaves, Zenon
           DEF vars, clientVars, Accept, Register, NoHello, Reset
    <3> QED  BY <3>1
  <2> QED  BY <1>1, <2>1, <2>2
<1>2. ASSUME NEW c \in Clients PROVE outPid[c] # None => outPid'[c] = outPid[c]
  <2>1. CASE outPid' = outPid
    BY <2>1
  <2>2. ASSUME NEW e \in Clients, FindOutput(e)
        PROVE  outPid[c] # None => outPid'[c] = outPid[c]
    BY <2>2, ClientLeaves, ZenonT(30) DEF FindOutput, Lookups
  <2> QED
    BY <2>1, <2>2, NextCases, LoopLeaves, Zenon
       DEF vars, clientVars, Exec, FindInput, Hello, Answered, Crash, Accept,
           Register, NoHello, Reset
<1>3. ASSUME NEW d \in Clients, Succeeds(d) PROVE inPid'[d] = inPid[d]
  <2>1. client[d] # "started"
    <3>1. inbox[d] = <<>> => client[d] = "done"
      BY <1>3, EmptyFacts, Zenon DEF Succeeds
    <3> QED  BY <3>1, Zenon DEF Mailboxes, Mailbox
  <2>2. CASE inPid' = inPid
    BY <2>2
  <2>3. ASSUME NEW e \in Clients, FindInput(e) PROVE inPid'[d] = inPid[d]
    BY <2>1, <2>3, ClientLeaves, Zenon DEF FindInput
  <2> QED
    BY <2>2, <2>3, NextCases, LoopLeaves, ZenonT(30)
       DEF vars, clientVars, Exec, FindOutput, Hello, Answered, Crash, Accept,
           Register, NoHello, Reset
\* When the idle agents have been answered, every member that feeds one is fine.
<1>4. ASSUME Respond, NEW c \in Members, NEW d \in Clients, outPid[c] = d
      PROVE  Fine(c)'
  <2>1. server = "respond" /\ inbox' = Delivered(Idle, "eof") /\ client' = client
    BY <1>4, Zenon DEF Respond, clientVars
  <2>2. c \in Clients /\ Mailbox(c) /\ c # Sink
    BY <1>4, <2>1, Membership, AgentsAssumption, Zenon DEF Mailboxes, Chain, Listening
  <2>3. CASE c = Source
    BY <1>1, <2>1, <2>2, <2>3, ZenonT(40) DEF Agreed
  <2>4. CASE c # Source /\ Gone(c)
    <3>1. Fine(c)
      BY <2>2, <2>4, Zenon DEF Mailbox, Gone, Succeeds
    <3> QED  BY <1>1, <2>2, <3>1, Zenon
  <2>5. CASE c # Source /\ ~Gone(c)
    <3>1. c \in Idle
      BY <2>2, <2>5 DEF Idle
    <3>2. inbox'[c] = Append(inbox[c], "eof") /\ inbox[c] \in Seq(Messages)
      BY <2>1, <2>2, <2>5, <3>1, Delivery, Zenon DEF Messages, TypeOK
    <3>3. \E i \in DOMAIN Append(inbox[c], "eof") : Append(inbox[c], "eof")[i] = "eof"
      BY <3>2, AppendHas DEF Messages
    <3>4. Succeeds(c)'
      BY <3>2, <3>3 DEF Succeeds
    <3> QED  BY <3>4
  <2> QED  BY <2>3, <2>4, <2>5, Zenon
<1>5. ASSUME server = "respond"
      PROVE  Respond \/ (server' = "respond" /\ Members' = Members)
  <2>1. ASSUME NEW e \in Clients,
               \/ Exec(e) \/ FindInput(e) \/ FindOutput(e)
               \/ Hello(e) \/ Answered(e) \/ Crash(e)
        PROVE  server' = server /\ Members' = Members
    BY <2>1, ClientLeaves, ZenonT(30) DEF loopVars, Members
  <2> QED
    BY <1>5, <2>1, NextCases, Zenon
       DEF vars, loopVars, Members, Accept, Register, NoHello, Reset, LoopStep, Build,
           Ready, SourceConfigure, SinkConfigure, SourceFinalize, SinkFinalize,
           Abandon, HungUp, Throw
<1>6. ASSUME NEW c \in Clients, NEW d \in Clients, Succeeds(d)', inPid'[d] = c
      PROVE  /\ outPid'[c] = d
             /\ Fine(c)' \/ (server' = "respond" /\ c \in Members')
  <2>1. CASE Succeeds(d)
    <3>1. outPid[c] = d /\ (Fine(c) \/ (server = "respond" /\ c \in Members))
      BY <1>3, <1>6, <2>1, Zenon DEF Agreed
    <3>2. outPid'[c] = d
      BY <1>2, <3>1, AgentsAssumption, Zenon
    <3>3. CASE Fine(c)
      BY <1>1, <3>2, <3>3
    <3>4. CASE server = "respond" /\ c \in Members
      BY <1>4, <1>5, <3>1, <3>2, <3>4, Zenon
    <3> QED  BY <3>1, <3>3, <3>4, Zenon
  <2>2. CASE ~Succeeds(d)
    <3>1. \/ SourceFinalize /\ d = Source
          \/ SinkFinalize /\ eof /\ d = Sink
          \/ Respond /\ d \in Idle
      BY <1>6, <2>2, SuccessComes
    <3>2. /\ UNCHANGED <<inPid, outPid>> /\ Members' = Members /\ ~Listening
          /\ d \in Members
      BY <3>1, LoopLeaves, Membership, ZenonT(30) DEF LoopStep, clientVars, Members, Idle
    <3>3. outPid[c] = d /\ c \in Members
      BY <1>6, <3>2, FeederIsMember
    <3>4. CASE SourceFinalize /\ d = Source
      BY <1>6, <3>2, <3>4, AgentsAssumption, ZenonT(40) DEF Chain
    <3>5. CASE SinkFinalize /\ eof
      BY <3>2, <3>3, <3>5, Zenon DEF SinkFinalize
    <3>6. CASE Respond
      BY <1>4, <3>2, <3>3, <3>6, Zenon
    <3> QED  BY <3>1, <3>4, <3>5, <3>6, Zenon
  <2> QED  BY <2>1, <2>2, Zenon
<1>7. ASSUME server' = "respond" \/ (server' = "finalize" /\ eof' /\ ~SingleStage')
      PROVE  Fine(Source)'
  <2>1. \/ UNCHANGED <<server, loopVars>> \/ SourceFinalize \/ (SinkFinalize /\ eof)
    <3>1. ASSUME NEW e \in Clients,
                 \/ Exec(e) \/ FindInput(e) \/ FindOutput(e)
                 \/ Hello(e) \/ Answered(e) \/ Crash(e)
          PROVE  UNCHANGED <<server, loopVars>>
      BY <3>1, ClientLeaves, ZenonT(30)
    <3>2. ~Register
      BY <1>7, Zenon DEF Registration, Queues, Starts
    <3> QED
      BY <1>7, <3>1, <3>2, NextCases, ZenonT(30)
         DEF vars, Accept, NoHello, Reset, LoopStep, Build, Ready, SourceConfigure,
             SinkConfigure, SinkFinalize, Respond, Abandon, Throw
  <2>2. ~Listening /\ pipeline' = pipeline /\ eof' = eof
    BY <1>7, <2>1 DEF SourceFinalize, SinkFinalize, loopVars, Listening
  <2>3. PICK s \in Members : s = Source
    BY <2>2, Membership, Zenon
  <2>4. s \in Clients /\ Source' = s /\ SingleStage' = SingleStage
    BY <2>2, <2>3, Membership, Zenon DEF Source, SingleStage
  <2>5. ASSUME client' = client, inbox' = Delivered({s}, "eof") PROVE Fine(s)'
    <3>1. CASE Gone(s)
      <4>1. Fine(s)
        BY <2>4, <3>1, Zenon DEF Mailboxes, Mailbox, Gone, Succeeds
      <4> QED  BY <1>1, <2>4, <4>1
    <3>2. CASE ~Gone(s)
      <4>1. inbox'[s] = Append(inbox[s], "eof") /\ inbox[s] \in Seq(Messages)
        BY <2>4, <2>5, <3>2, Delivery, Zenon DEF Messages, TypeOK
      <4>2. \E i \in DOMAIN Append(inbox[s], "eof") : Append(inbox[s], "eof")[i] = "eof"
        BY <4>1, AppendHas, Zenon DEF Messages
      <4>3. Succeeds(s)'
        BY <4>1, <4>2, Zenon DEF Succeeds
      <4> QED  BY <4>3
    <3> QED  BY <3>1, <3>2, Zenon
  <2>6. CASE server = "respond" \/ (server = "finalize" /\ eof /\ ~SingleStage)
    <3>1. Fine(s)
      BY <2>3, <2>6, Zenon DEF Agreed
    <3> QED  BY <1>1, <2>4, <3>1, Zenon
  <2>7. CASE SourceFinalize
    BY <1>7, <2>2, <2>3, <2>4, <2>5, <2>7 DEF SourceFinalize, clientVars, Answer
  <2>8. CASE SinkFinalize /\ eof /\ SingleStage
    BY <2>3, <2>5, <2>8, ZenonT(30)
       DEF SinkFinalize, clientVars, Answer, SingleStage, Source, Sink
  <2>9. Fine(s)'
    BY <1>7, <2>1, <2>2, <2>4, <2>6, <2>7, <2>8, Zenon DEF SinkFinalize
  <2> QED  BY <2>4, <2>9 DEF Succeeds
<1> QED  BY <1>6, <1>7, Zenon DEF Agreed

\* The agents can be counted, and distinct ones are no more than there are.
Counted ==
    /\ Cardinality(Clients) \in Nat
    /\ \A w \in Seq(Clients) :
         (\A i, j \in DOMAIN w : w[i] = w[j] => i = j) =>
             /\ Cardinality({w[i] : i \in DOMAIN w}) = Len(w)
             /\ Len(w) <= Cardinality(Clients)

\* The server starts in a state that satisfies the invariant.
LEMMA InitIndInv ==
    ASSUME Counted, Init
    PROVE  IndInv
<1>1. TypeOK
  <2>1. /\ sent \in [Clients -> Seq(Requests)] /\ inbox \in [Clients -> Seq(Messages)]
        /\ backlog \in Seq(Clients) /\ pipeline \in Seq(Clients)
    BY DEF Init
  <2>2. /\ at \in 0 .. Cardinality(Clients) /\ turns \in 0 .. MaxTurns
        /\ faults \in 0 .. MaxFaults
    BY AgentsAssumption DEF Init, Counted
  <2>3. buffers \in [input : BOOLEAN, output : BOOLEAN]
    BY Zenon DEF Init
  <2> QED  BY <2>1, <2>2, <2>3, Zenon DEF Init, TypeOK, Requests, Messages
<1>2. Members = {} /\ Queued = {} /\ Listening
  BY DEF Init, Members, Queued, Listening
<1>3. Places
  <2>1. DOMAIN backlog = {}
    BY DEF Init
  <2> QED  BY <1>2, <2>1, Zenon DEF Init, Places, Listening
<1>4. Lookups /\ Connections /\ Chain
  BY <1>2, AgentsAssumption, ZenonT(30) DEF Init, Lookups, Connections, Chain
<1>5. Counters
  BY AgentsAssumption, Zenon DEF Init, Counters
<1>6. Mailboxes /\ Grammar /\ Remembered
  <2> SUFFICES ASSUME NEW c \in Clients
               PROVE  Mailbox(c) /\ Grammatical(c) /\ Awaited(c)
    BY DEF Mailboxes, Grammar, Remembered
  <2>1. /\ client[c] = "forked" /\ sent[c] = <<>> /\ inbox[c] = <<>>
        /\ c \notin Queued \cup {peer} /\ c \notin registered \cup Members
    BY <1>2, AgentsAssumption DEF Init
  <2>2. DOMAIN inbox[c] = {}
    BY <2>1, EmptyFacts, SMTT(20)
  <2>3. Grammatical(c)
    BY <2>1, <2>2 DEF Grammatical, Has
  <2> QED  BY <2>1, <2>3, Zenon DEF Mailbox, Gone, Awaited
<1>7. InStep
  BY <1>2 DEF InStep
<1>8. Agreed
  BY DEF Init, Agreed, Succeeds
<1> QED  BY <1>1, <1>3, <1>4, <1>5, <1>6, <1>7, <1>8 DEF IndInv

------------------------------------------------------------------------------
(* What the invariant implies. *)

\* The invariant implies what is to be shown of a turn.
LEMMA TurnsImplied == IndInv => TurnsInStep
<1>1. ASSUME IndInv, server = "run", NEW c \in Members, ~Unasked(c)
      PROVE  sent[c] = <<>>
  <2>1. c \in Clients
    BY <1>1, Membership DEF IndInv
  <2>2. c \notin Due
    BY <1>1, Zenon DEF Due
  <2>3. Load(c) <= 0 /\ Load(c) \in Nat
    BY <1>1, <2>1, <2>2, LoadType DEF IndInv, InStep
  <2> QED  BY <1>1, <2>1, <2>3, LoadType DEF IndInv
<1> QED  BY <1>1, Zenon DEF TurnsInStep

\* It implies that nobody is forgotten.
LEMMA ForgetsImplied == IndInv => ForgetsNobody
<1> SUFFICES ASSUME IndInv, Listening, NEW c \in Clients,
                    client[c] \in {"registering", "running"}
             PROVE  \/ c \in registered \cup {peer}
                    \/ \E i \in DOMAIN backlog : backlog[i] = c
                    \/ \E i \in DOMAIN inbox[c] : inbox[c][i] \in {"invalid", "eof"}
  BY DEF ForgetsNobody, Listening
<1>1. Members = {}
  BY DEF IndInv, Places, Members
<1>2. Awaited(c)
  BY Zenon DEF IndInv, Remembered
<1> QED  BY <1>1, <1>2, Zenon DEF Awaited, Has, Queued

\* It implies that the ends agree.
LEMMA EndsImplied == IndInv => AgreedEnd
<1>1. ASSUME IndInv, NEW c \in Clients, NEW d \in Clients,
             inPid[d] = c, outPid[c] = d, Succeeds(d)
      PROVE  ~Condemned(c)
  <2>1. Mailbox(c) /\ Grammatical(c)
    BY <1>1 DEF IndInv, Mailboxes, Grammar
  <2>2. \/ Succeeds(c) \/ client[c] = "crashed"
        \/ server = "respond" /\ c \in Members
    BY <1>1, ZenonT(30) DEF IndInv, Agreed
  <2>3. client[c] = "failed" => inbox[c] = <<>> /\ c \notin Members
    BY <2>1, ZenonT(30) DEF Mailbox, Gone
  <2>4. client[c] = "crashed" => inbox[c] = <<>>
    BY <2>1, Zenon DEF Mailbox, Gone
  <2>5. c \in Members => \A i \in DOMAIN inbox[c] : inbox[c][i] # "invalid"
    BY <2>1, Zenon DEF Grammatical, Has
  <2>6. client[c] # "failed"
    BY <2>2, <2>3 DEF Succeeds
  <2>7. Succeeds(c) \/ \A i \in DOMAIN inbox[c] : inbox[c][i] # "invalid"
    BY <2>2, <2>4, <2>5
  <2> QED  BY <2>6, <2>7, Zenon DEF Condemned
<1> QED  BY <1>1 DEF AgreedEnd

\* It implies that pipelines are chains.
LEMMA ChainsImplied == IndInv => PipelineIntact
BY Zenon DEF IndInv, Places, Chain, PipelineIntact, Listening

------------------------------------------------------------------------------
(* The walk along the connected agents, by induction. *)

LOCAL INSTANCE WellFoundedInduction

(* A set that has 0, and with every number the next one, has all numbers.  *)
(* The library's induction is about predicates, which the provers cannot   *)
(* supply.                                                                 *)
LEMMA Inductive ==
    ASSUME NEW S, 0 \in S, \A n \in Nat : n \in S => n + 1 \in S
    PROVE  \A n \in Nat : n \in S
<1> SUFFICES ASSUME NEW n \in Nat, n \notin S
             PROVE  FALSE
  OBVIOUS
<1> DEFINE R == {ss \in Nat \X Nat : ss[1] < ss[2]}
           T == {k \in Nat : k \notin S}
<1>1. IsWellFoundedOn(R, Nat)
  <2>1. OpToRel(<, Nat) = R
    BY DEF OpToRel
  <2> HIDE DEF R
  <2> QED  BY <2>1, NatLessThanWellFounded, Zenon
<1>2. PICK m \in T : \A k \in T : ~ (<<k, m>> \in R)
  <2>1. T \subseteq Nat /\ T # {}
    OBVIOUS
  <2> HIDE DEF R, T
  <2> QED  BY <1>1, <2>1, WFMin, Zenon
<1>3. m - 1 \in T /\ <<m - 1, m>> \in R
  <2>1. m \in Nat /\ m \notin S /\ m # 0
    OBVIOUS
  <2>2. m - 1 \in Nat /\ (m - 1) + 1 = m /\ m - 1 < m
    BY <2>1
  <2> QED  BY <2>1, <2>2
<1> QED  BY <1>2, <1>3, Zenon

WalkStep(link, a, g) ==
    [n \in 0 .. Cardinality(Clients) |->
        IF n = 0 THEN <<a>>
        ELSE LET w == g[n - 1]
                 last == w[Len(w)]
             IN  IF outPid[last] = None \/ link[last] = None THEN w
                 ELSE Append(w, link[last])]

\* The recursion that containsValidPipeline's loop is modelled with has a
\* solution.
LEMMA WalkExists ==
    ASSUME Counted, outPid \in [Clients -> Clients \cup {None}],
           NEW link \in [Clients -> Clients \cup {None}], NEW a \in Clients
    PROVE  \E g \in [0 .. Cardinality(Clients) -> Seq(Clients) \ {<<>>}] :
              g = WalkStep(link, a, g)
<1> DEFINE N == Cardinality(Clients)
           S == Seq(Clients) \ {<<>>}
           onward(w) == IF outPid[w[Len(w)]] = None \/ link[w[Len(w)]] = None
                        THEN w ELSE Append(w, link[w[Len(w)]])
           Part(n, g) == /\ g \in [0 .. n -> S] /\ g[0] = <<a>>
                         /\ \A k \in 1 .. n : g[k] = onward(g[k - 1])
           T == {n \in Nat : \E g : Part(n, g)}
<1>1. N \in Nat
  BY Zenon DEF Counted
<1>2. <<a>> \in S
  OBVIOUS
<1>3. ASSUME NEW w \in S PROVE onward(w) \in S
  <2>1. Len(w) \in 1 .. Len(w) /\ w[Len(w)] \in Clients
    OBVIOUS
  <2> QED  BY <2>1
<1> HIDE DEF onward, S, N
<1>4. \A n \in Nat : n \in T
  <2>1. 0 \in T
    <3> DEFINE h == [k \in 0 .. 0 |-> <<a>>]
    <3>1. Part(0, h)
      BY <1>2
    <3> HIDE DEF h, Part
    <3> QED  BY <3>1
  <2>2. ASSUME NEW n \in Nat, n \in T PROVE n + 1 \in T
    <3>1. PICK g : Part(n, g)
      BY <2>2
    <3> DEFINE h == [k \in 0 .. n + 1 |-> IF k <= n THEN g[k] ELSE onward(g[n])]
    <3>2. h \in [0 .. n + 1 -> S] /\ h[0] = <<a>>
      BY <1>3, <3>1
    <3>3. ASSUME NEW k \in 1 .. n + 1 PROVE h[k] = onward(h[k - 1])
      <4>1. CASE k <= n
        <5>1. k \in 1 .. n /\ h[k] = g[k] /\ h[k - 1] = g[k - 1]
          BY <4>1
        <5> QED  BY <3>1, <5>1, Zenon
      <4>2. CASE ~(k <= n)
        <5>1. h[k] = onward(g[n]) /\ h[k - 1] = g[n]
          BY <4>2
        <5> QED  BY <5>1, Zenon
      <4> QED  BY <4>1, <4>2
    <3> HIDE DEF h
    <3>4. Part(n + 1, h)
      BY <3>2, <3>3, Zenon
    <3>5. n + 1 \in Nat
      OBVIOUS
    <3> HIDE DEF Part
    <3> QED  BY <3>4, <3>5, Zenon
  <2> HIDE DEF T
  <2> QED  BY <2>1, <2>2, Inductive, Zenon
<1>5. PICK g : Part(N, g)
  BY <1>1, <1>4, Zenon
<1>6. ASSUME NEW k \in 0 .. N
      PROVE  g[k] = IF k = 0 THEN <<a>> ELSE onward(g[k - 1])
  <2>1. CASE k = 0
    BY <1>5, <2>1, Zenon
  <2>2. CASE k # 0
    <3>1. k \in 1 .. N
      BY <1>1, <2>2
    <3> QED  BY <1>5, <2>2, <3>1, Zenon
  <2> QED  BY <2>1, <2>2, Zenon
<1>7. WalkStep(link, a, g) = [k \in 0 .. N |-> IF k = 0 THEN <<a>> ELSE onward(g[k - 1])]
  BY DEF WalkStep, onward, N
<1>8. g = WalkStep(link, a, g)
  BY <1>5, <1>6, <1>7, Zenon
<1> QED  BY <1>5, <1>8, Zenon DEF S, N

\* The walk starts at a, and every agent on it but the last writes to the next.
LEMMA WalkLinks ==
    ASSUME Counted, outPid \in [Clients -> Clients \cup {None}],
           NEW link \in [Clients -> Clients \cup {None}], NEW a \in Clients
    PROVE  LET w == Walk(link, a)
           IN  /\ w \in Seq(Clients) /\ w # <<>> /\ w[1] = a
               /\ \A i \in 1 .. Len(w) - 1 :
                      outPid[w[i]] # None /\ link[w[i]] = w[i + 1]
<1> DEFINE walk == CHOOSE g : g = WalkStep(link, a, g)
           N == Cardinality(Clients)
           Good(w) == /\ w \in Seq(Clients) /\ w # <<>> /\ w[1] = a
                      /\ \A i \in 1 .. Len(w) - 1 :
                             outPid[w[i]] # None /\ link[w[i]] = w[i + 1]
           T == {n \in Nat : n <= N => Good(walk[n])}
<1>1. Walk(link, a) = walk[N]
  BY DEF Walk, WalkStep
<1>2. walk = WalkStep(link, a, walk)
  <2> HIDE DEF WalkStep
  <2> QED  BY WalkExists, Zenon
<1> HIDE DEF walk
<1>3. N \in Nat
  BY DEF Counted
<1>4. 0 \in T
  <2>1. walk[0] = <<a>>
    BY <1>2, <1>3 DEF WalkStep
  <2>2. Good(<<a>>)
    OBVIOUS
  <2> HIDE DEF Good
  <2> QED  BY <2>1, <2>2, Zenon
<1>5. ASSUME NEW n \in Nat, n \in T PROVE n + 1 \in T
  <2>0. n + 1 \in Nat
    OBVIOUS
  <2> SUFFICES ASSUME n + 1 <= N PROVE Good(walk[n + 1])
    BY <2>0, Zenon
  <2> DEFINE w == walk[n]
             last == w[Len(w)]
  <2>1. Good(w)
    BY <1>3, <1>5
  <2>2. walk[n + 1] = IF outPid[last] = None \/ link[last] = None THEN w
                      ELSE Append(w, link[last])
    <3>1. n + 1 \in 0 .. N /\ n + 1 # 0 /\ (n + 1) - 1 = n
      BY <1>3
    <3>2. walk[n + 1] = WalkStep(link, a, walk)[n + 1]
      BY <1>2, Zenon
    <3> QED  BY <3>1, <3>2, Zenon DEF WalkStep
  <2> HIDE DEF w
  <2>3. CASE outPid[last] = None \/ link[last] = None
    BY <2>1, <2>2, <2>3, Zenon
  <2>4. CASE ~ (outPid[last] = None \/ link[last] = None)
    <3> DEFINE v == Append(w, link[last])
    <3>1. Len(w) \in Nat \ {0} /\ last \in Clients
      BY <2>1
    <3>2. link[last] \in Clients
      BY <2>4, <3>1, Zenon
    <3>3. v \in Seq(Clients) /\ Len(v) = Len(w) + 1 /\ v[Len(v)] = link[last]
          /\ \A i \in 1 .. Len(w) : v[i] = w[i]
      BY <2>1, <3>1, <3>2
    <3>4. ASSUME NEW i \in 1 .. Len(v) - 1
          PROVE  outPid[v[i]] # None /\ link[v[i]] = v[i + 1]
      BY <2>1, <2>4, <3>1, <3>3
    <3>5. v # <<>> /\ v[1] = a
      BY <2>1, <3>1, <3>3
    <3> QED  BY <2>2, <2>4, <3>3, <3>4, <3>5, Zenon
  <2> QED  BY <2>3, <2>4, ZenonT(30)
<1>6. N \in T
  <2> HIDE DEF T, N
  <2> QED  BY <1>3, <1>4, <1>5, Inductive, Zenon
<1>7. Good(walk[N])
  BY <1>3, <1>6
<1> HIDE DEF Good
<1>8. Good(Walk(link, a))
  BY <1>1, <1>7, Zenon
<1> QED  BY <1>8 DEF Good

\* No agent is twice on a walk that is complete: it would write to an agent
\* both times or not at all.
LEMMA WalkDistinct ==
    ASSUME NEW w \in Seq(Clients), NEW link, Complete(w),
           \A i \in 1 .. Len(w) - 1 : outPid[w[i]] # None /\ link[w[i]] = w[i + 1]
    PROVE  \A i, j \in DOMAIN w : w[i] = w[j] => i = j
<1>1. ASSUME NEW i \in 1 .. Len(w), NEW j \in 1 .. Len(w), w[i] = w[j], i < j
      PROVE  FALSE
  <2> DEFINE T == {k \in Nat : j + k <= Len(w) => w[i + k] = w[j + k]}
  <2>1. i \in Nat /\ j \in Nat /\ Len(w) \in Nat
    OBVIOUS
  <2>2. 0 \in T
    BY <1>1, <2>1
  <2>3. ASSUME NEW k \in Nat, k \in T PROVE k + 1 \in T
    <3>0. k + 1 \in Nat
      OBVIOUS
    <3> SUFFICES ASSUME j + (k + 1) <= Len(w)
                 PROVE  w[i + (k + 1)] = w[j + (k + 1)]
      BY <3>0, Zenon
    <3>1. w[i + k] = w[j + k] /\ i + k \in 1 .. Len(w) - 1
          /\ j + k \in 1 .. Len(w) - 1
      <4>1. j + k <= Len(w) - 1 /\ i + k <= Len(w) - 1 /\ i + k >= 1 /\ j + k >= 1
            /\ i + k \in Nat /\ j + k \in Nat
        BY <1>1, <2>1
      <4>2. w[i + k] = w[j + k]
        BY <2>1, <2>3, <4>1
      <4> QED  BY <2>1, <4>1, <4>2
    <3>2. link[w[i + k]] = w[(i + k) + 1] /\ link[w[j + k]] = w[(j + k) + 1]
      BY <3>1, Zenon
    <3>3. (i + k) + 1 = i + (k + 1) /\ (j + k) + 1 = j + (k + 1)
      BY <2>1
    <3> QED  BY <3>1, <3>2, <3>3, Zenon
  <2>4. Len(w) - j \in T
    <3>1. Len(w) - j \in Nat
      BY <2>1
    <3> HIDE DEF T
    <3> QED  BY <2>2, <2>3, <3>1, Inductive, Zenon
  <2>5. j + (Len(w) - j) = Len(w) /\ i + (Len(w) - j) \in 1 .. Len(w) - 1
    BY <1>1, <2>1
  <2>6. w[i + (Len(w) - j)] = w[Len(w)]
    BY <2>4, <2>5
  <2> QED  BY <2>5, <2>6 DEF Complete
<1> SUFFICES ASSUME NEW i \in DOMAIN w, NEW j \in DOMAIN w, w[i] = w[j]
             PROVE  i = j
  OBVIOUS
<1>2. i \in 1 .. Len(w) /\ j \in 1 .. Len(w) /\ Len(w) \in Nat
  OBVIOUS
<1>3. ~(i < j) /\ ~(j < i)
  BY <1>1, <1>2
<1> QED  BY <1>2, <1>3

\* What a registration changes, whether or not it completes a pipeline.
LEMMA RegisterOutcome ==
    ASSUME Counted, TypeOK, Places, Connections, Register
    PROVE  /\ peer \in Clients /\ Listening
           /\ Queues \/ Starts
           /\ outputAgent' = Linked(peer)
<1>1. peer \in Clients /\ Listening
  BY ZenonT(30) DEF TypeOK, Places, Register, Listening
<1> DEFINE pool == registered \cup {peer}
           link == Linked(peer)
<1>2. pool \subseteq Clients /\ link \in [Clients -> Clients \cup {None}]
  BY <1>1, LinkedConnects, ZenonT(30) DEF TypeOK
<1>3. ASSUME NEW a \in pool, inPid[a] = None, Complete(Walk(link, a)),
             pipeline' = Walk(link, a), registered' = {}, server' = "build",
             inbox' = Delivered(pool \ {Walk(link, a)[i] : i \in DOMAIN Walk(link, a)},
                                "invalid")
      PROVE  Starts
  <2> DEFINE w == Walk(link, a)
  <2>1. /\ w \in Seq(Clients) /\ w # <<>> /\ w[1] = a
        /\ \A i \in 1 .. Len(w) - 1 :
               outPid[w[i]] # None /\ link[w[i]] = w[i + 1]
    <3>1. a \in Clients /\ outPid \in [Clients -> Clients \cup {None}]
      BY <1>2 DEF TypeOK
    <3> HIDE DEF link
    <3> QED  BY <1>2, <3>1, WalkLinks, ZenonT(30)
  <2> HIDE DEF w
  <2>2. \A i, j \in DOMAIN w : w[i] = w[j] => i = j
    BY <1>3, <2>1, WalkDistinct, ZenonT(30) DEF w
  <2>3. /\ Cardinality({w[i] : i \in DOMAIN w}) = Len(w)
        /\ Len(w) <= Cardinality(Clients)
    BY <2>1, <2>2, Zenon DEF Counted
  <2>4. ASSUME NEW i \in 1 .. Len(w) - 1
        PROVE  outPid[w[i]] = w[i + 1] /\ w[i + 1] \in pool
    <3>1. link[w[i]] = w[i + 1] /\ w[i] \in Clients /\ w[i + 1] \in Clients
      BY <2>1
    <3> QED  BY <1>1, <3>1, LinkedConnects, AgentsAssumption, Zenon
  <2>5. ASSUME NEW i \in DOMAIN w PROVE w[i] \in pool
    <3>1. CASE i = 1
      BY <1>3, <2>1, <3>1, ZenonT(30)
    <3>2. CASE i # 1
      <4>1. i \in 1 .. Len(w) /\ i - 1 \in 1 .. Len(w) - 1 /\ (i - 1) + 1 = i
        BY <2>1, <3>2
      <4> QED  BY <2>4, <4>1, Zenon
    <3> QED  BY <3>1, <3>2, Zenon
  <2>6. pipeline' = w /\ Members' = {w[i] : i \in DOMAIN w}
    BY <1>3, ZenonT(30) DEF w, Members
  <2>7. inbox' = Delivered(pool \ Members', "invalid")
    BY <1>3, <2>6, ZenonT(30) DEF w
  <2>8. outPid[w[Len(w)]] = None
    BY <1>3, ZenonT(30) DEF w, Complete
  <2> QED
    BY <1>3, <2>1, <2>2, <2>3, <2>4, <2>5, <2>6, <2>7, <2>8, ZenonT(60) DEF Starts
<1>4. CASE Queues
  BY <1>1, <1>4, Zenon DEF Register
<1>5. CASE ~Queues
  <2>1. outputAgent' = link
    BY ZenonT(30) DEF Register
  <2>2. PICK a \in pool : /\ inPid[a] = None /\ Complete(Walk(link, a))
                          /\ pipeline' = Walk(link, a) /\ registered' = {}
                          /\ server' = "build"
                          /\ inbox' = Delivered(pool \ {Walk(link, a)[i] :
                                        i \in DOMAIN Walk(link, a)}, "invalid")
    BY <1>5, ZenonT(30) DEF Register, Queues
  <2>3. Starts
    BY <1>3, <2>2, Zenon
  <2> QED  BY <1>1, <2>1, <2>3
<1> QED  BY <1>4, <1>5, Zenon

------------------------------------------------------------------------------
(* Counting the agents. *)

Finite == INSTANCE FiniteSetTheorems

\* The library's facts are about the same notions.
LEMMA SameCount == \A S : Finite!Cardinality(S) = Cardinality(S)
BY Zenon DEF Finite!Cardinality, Cardinality

\* Finiteness is the same notion as well.
LEMMA SameFinite == \A S : Finite!IsFiniteSet(S) <=> IsFiniteSet(S)
BY Zenon DEF Finite!IsFiniteSet, IsFiniteSet

\* There are finitely many agents.
LEMMA ClientsFinite == IsFiniteSet(Clients) /\ Cardinality(Clients) \in Nat
BY AgentsAssumption, SameCount, SameFinite, Finite!FS_CardinalityType, Zenon

\* A sequence of distinct clients is no longer than there are clients.
LEMMA DistinctLength ==
    ASSUME NEW w \in Seq(Clients), \A i, j \in DOMAIN w : w[i] = w[j] => i = j
    PROVE  /\ Cardinality({w[i] : i \in DOMAIN w}) = Len(w)
           /\ Len(w) <= Cardinality(Clients)
<1> DEFINE M == {w[i] : i \in DOMAIN w}
           n == Len(w)
<1>1. n \in Nat /\ DOMAIN w = 1 .. n /\ M \subseteq Clients
  OBVIOUS
<1>2. IsFiniteSet(1 .. n) /\ Cardinality(1 .. n) = n
  <2>1. Cardinality(1 .. n) = IF 1 > n THEN 0 ELSE n - 1 + 1
    BY <1>1, SameCount, Finite!FS_Interval
  <2> QED  BY <1>1, <2>1, SameFinite, Finite!FS_Interval
<1>3. w \in Finite!Bijection(1 .. n, M)
  BY <1>1 DEF Finite!Bijection, Finite!Injection, Finite!Surjection, Finite!IsInjective
<1>4. Cardinality(M) = n
  <2>1. Finite!ExistsBijection(1 .. n, M)
    BY <1>3, Zenon DEF Finite!ExistsBijection
  <2> HIDE DEF M, n
  <2> QED  BY <1>2, <2>1, SameCount, SameFinite, Finite!FS_Bijection, Zenon
<1>5. Cardinality(M) <= Cardinality(Clients)
  BY <1>1, ClientsFinite, SameCount, SameFinite, Finite!FS_Subset
<1> QED  BY <1>4, <1>5, Zenon

\* The agents are counted so.
LEMMA AllCounted == Counted
BY ClientsFinite, DistinctLength, ZenonT(30) DEF Counted

\* What the steps rest on, whenever mtl_register comes to an end.
LEMMA RegistrationHolds ==
    ASSUME TypeOK, Places, Connections
    PROVE  Registration
<1>1. Counted
  BY AllCounted
<1> QED  BY <1>1, RegisterOutcome DEF Registration, Counted

------------------------------------------------------------------------------
(* The theorems. *)

\* Every step keeps the invariant.
LEMMA NextIndInv == IndInv /\ [Next]_vars => IndInv'
<1> SUFFICES ASSUME IndInv, [Next]_vars PROVE IndInv'
  OBVIOUS
<1> USE DEF IndInv
<1>0. Registration
  BY RegistrationHolds
<1>1. TypeOK' /\ Counters'
  BY <1>0, TypeStep, CountersStep
<1>2. Places' /\ Lookups' /\ Connections' /\ Chain'
  BY <1>0, PlacesStep, LookupsStep, ConnectionsStep, ChainStep
<1>3. Mailboxes' /\ Grammar' /\ Remembered'
  BY <1>0, MailboxesStep, GrammarStep, RememberedStep
<1>4. InStep' /\ Agreed'
  BY <1>0, <1>1, InStepStep, AgreedStep
<1> QED  BY <1>1, <1>2, <1>3, <1>4

\* The inductive invariant holds in every state of the server.
LEMMA Invariance == Spec => []IndInv
<1>1. Init => IndInv
  BY AllCounted, InitIndInv
<1> QED  BY <1>1, NextIndInv, PTL DEF Spec

\* The server thread and its agents keep their types: turns and ready signals
\* are never counted past their limits.
THEOREM TypeCorrect == Spec => []TypeOK
<1>1. IndInv => TypeOK
  BY Zenon DEF IndInv
<1> QED  BY <1>1, Invariance, PTL

\* Whatever the order in which agents look each other up, register, crash and
\* are turned away, a pipeline that runs is a chain of distinct agents, each of
\* which writes to the next (containsValidPipeline, releaseUnusedAgents).
THEOREM PipelinesAreChains == Spec => []PipelineIntact
BY ChainsImplied, Invariance, PTL

\* No request is open while a turn runs on the card, for pipelines of any
\* length and any mixture of buffers (the processing loop).
THEOREM TurnsKeepStep == Spec => []TurnsInStep
BY TurnsImplied, Invariance, PTL

\* No failure of an agent or of the server makes the server forget an agent
\* that waits for it (processRequest, reset).
THEOREM NobodyForgotten == Spec => []ForgetsNobody
BY ForgetsImplied, Invariance, PTL

\* An agent never ends well while the agent that feeds it is turned away or
\* fails: the order of the last answers, of the pool's reset and of every crash
\* in between allows it for no pipeline (SourceFinalize to Reset).
THEOREM EndsAgree == Spec => []AgreedEnd
BY EndsImplied, Invariance, PTL
=============================================================================
