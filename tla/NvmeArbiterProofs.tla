-------------------------- MODULE NvmeArbiterProofs --------------------------
(***************************************************************************)
(* Safety of the NVMe arbiter for every number of drives, every limit per  *)
(* drive and every length of the queue that exceeds their product.         *)
(***************************************************************************)
EXTENDS NvmeArbiter, TLAPS, FiniteSetTheorems, FunctionTheorems

------------------------------------------------------------------------------
(* Counting the commands of a drive in a sequence. *)

\* An interval is finite.
LEMMA UptoFinite ==
    ASSUME NEW n \in Nat
    PROVE  IsFiniteSet(1 .. n) /\ Cardinality(1 .. n) = n
<1>1. 1 \in Int /\ n \in Int
  OBVIOUS
<1>2. IsFiniteSet(1 .. n) /\ Cardinality(1 .. n) = IF 1 > n THEN 0 ELSE n - 1 + 1
  BY ONLY <1>1, FS_Interval, Zenon
<1> QED  BY <1>2

\* The commands for one drive in a queue can be counted.
LEMMA OnDriveFinite ==
    ASSUME NEW q \in Seq(Commands), NEW d
    PROVE  IsFiniteSet(OnDrive(q, d)) /\ Cardinality(OnDrive(q, d)) \in Nat
<1>1. Len(q) \in Nat /\ DOMAIN q = 1 .. Len(q)
  OBVIOUS
<1>2. IsFiniteSet(1 .. Len(q))
  BY <1>1, UptoFinite
<1>3. OnDrive(q, d) \in SUBSET (1 .. Len(q))
  BY <1>1 DEF OnDrive
<1> QED  BY <1>2, <1>3, FS_Subset, FS_CardinalityType

\* A queued command is counted for its drive.
LEMMA AppendCount ==
    ASSUME NEW q \in Seq(Commands), NEW c \in Commands, NEW d
    PROVE  Cardinality(OnDrive(Append(q, c), d))
             = Cardinality(OnDrive(q, d)) + (IF c.drive = d THEN 1 ELSE 0)
<1> DEFINE n == Len(q) + 1
<1>1. Len(q) \in Nat /\ DOMAIN q = 1 .. Len(q) /\ DOMAIN Append(q, c) = 1 .. n
  OBVIOUS
<1>2. Append(q, c)[n] = c /\ \A i \in 1 .. Len(q) : Append(q, c)[i] = q[i]
  OBVIOUS
<1>3. n \notin OnDrive(q, d)
  BY <1>1 DEF OnDrive
<1>4. CASE c.drive = d
  <2>1. OnDrive(Append(q, c), d) = OnDrive(q, d) \cup {n}
    BY <1>1, <1>2, <1>4 DEF OnDrive
  <2>2. IsFiniteSet(OnDrive(q, d))
    BY OnDriveFinite
  <2>3. Cardinality(OnDrive(q, d) \cup {n}) = Cardinality(OnDrive(q, d)) + 1
    <3> HIDE DEF n
    <3> QED  BY ONLY <1>3, <2>2, FS_AddElement, Zenon
  <2> QED  BY <2>1, <2>3, <1>4
<1>5. CASE c.drive # d
  <2>1. OnDrive(Append(q, c), d) = OnDrive(q, d)
    BY <1>1, <1>2, <1>5 DEF OnDrive
  <2> QED  BY <2>1, <1>5, OnDriveFinite
<1> QED  BY <1>4, <1>5

\* A command that leaves the queue is no longer counted.
LEMMA TailCount ==
    ASSUME NEW q \in Seq(Commands), q # <<>>, NEW d
    PROVE  Cardinality(OnDrive(Tail(q), d))
             = Cardinality(OnDrive(q, d)) - (IF Head(q).drive = d THEN 1 ELSE 0)
<1> DEFINE S == OnDrive(Tail(q), d)
           T == OnDrive(q, d) \ {1}
           f == [i \in S |-> i + 1]
<1>1. Len(q) \in Nat \ {0} /\ DOMAIN q = 1 .. Len(q) /\ Tail(q) \in Seq(Commands)
      /\ Head(q) = q[1]
  OBVIOUS
<1>2. DOMAIN Tail(q) = 1 .. Len(q) - 1 /\ \A i \in 1 .. Len(q) - 1 : Tail(q)[i] = q[i + 1]
  BY <1>1
<1>3. f \in Bijection(S, T)
  <2>1. \A i \in S : i \in Int /\ i + 1 \in T
    BY <1>1, <1>2 DEF OnDrive
  <2>2. \A j \in T : j \in Int /\ j - 1 \in S
    BY <1>1, <1>2 DEF OnDrive
  <2>3. f \in [S -> T]
    BY <2>1
  <2>4. \A a, b \in S : f[a] = f[b] => a = b
    BY <2>1
  <2>5. \A j \in T : \E i \in S : f[i] = j
    <3> TAKE j \in T
    <3>1. j - 1 \in S /\ f[j - 1] = j
      BY <2>2
    <3> QED  BY <3>1
  <2> HIDE DEF S, T, f
  <2> QED  BY <2>3, <2>4, <2>5 DEF Bijection, Injection, Surjection, IsInjective
<1>4. IsFiniteSet(S)
  BY <1>1, OnDriveFinite, Zenon
<1>5. Cardinality(T) = Cardinality(S)
  <2>1. ExistsBijection(S, T)
    BY <1>3, Zenon DEF ExistsBijection
  <2> HIDE DEF S, T
  <2> QED  BY <1>4, <2>1, FS_Bijection
<1>6. 1 \in OnDrive(q, d) <=> Head(q).drive = d
  BY <1>1 DEF OnDrive
<1>7. Cardinality(T) = IF 1 \in OnDrive(q, d) THEN Cardinality(OnDrive(q, d)) - 1
                       ELSE Cardinality(OnDrive(q, d))
  BY OnDriveFinite, FS_RemoveElement, Zenon
<1>8. Cardinality(OnDrive(q, d)) \in Nat
  BY OnDriveFinite
<1> HIDE DEF T
<1> QED  BY <1>5, <1>6, <1>7, <1>8

(* If no drive has more than Limit commands in the sequence, numbering     *)
(* the commands of each drive maps the positions one to one into Drives    *)
(* times 1 .. Limit.                                                       *)
LEMMA LengthBound ==
    ASSUME NEW q \in Seq(Commands),
           \A d \in Drives : Cardinality(OnDrive(q, d)) <= Limit
    PROVE  Len(q) <= Cardinality(Drives) * Limit
<1> DEFINE I == 1 .. Len(q)
           Upto(i) == {j \in OnDrive(q, q[i].drive) : j <= i}
           rank(i) == Cardinality(Upto(i))
           P == Drives \X (1 .. Limit)
           f == [i \in I |-> <<q[i].drive, rank(i)>>]
<1>1. Len(q) \in Nat /\ DOMAIN q = I /\ \A i \in I : q[i] \in Commands
  OBVIOUS
<1>2. \A i \in I : q[i].drive \in Drives
  BY <1>1 DEF Commands
<1>3. Limit \in Nat
  BY ArbiterAssumption
<1>4. ASSUME NEW i \in I
      PROVE  IsFiniteSet(Upto(i)) /\ rank(i) \in 1 .. Limit
  <2>1. Upto(i) \in SUBSET OnDrive(q, q[i].drive)
    OBVIOUS
  <2>2. IsFiniteSet(OnDrive(q, q[i].drive)) /\ Cardinality(OnDrive(q, q[i].drive)) \in Nat
    BY OnDriveFinite
  <2>3. IsFiniteSet(Upto(i)) /\ rank(i) <= Cardinality(OnDrive(q, q[i].drive))
    BY <2>1, <2>2, FS_Subset
  <2>4. rank(i) \in Nat
    BY <2>3, FS_CardinalityType
  <2>5. i \in Upto(i)
    BY <1>1 DEF OnDrive
  <2>6. rank(i) # 0
    BY <2>3, <2>5, FS_EmptySet, Zenon
  <2>7. Cardinality(OnDrive(q, q[i].drive)) <= Limit
    BY <1>2
  <2> HIDE DEF rank, Upto
  <2> QED  BY <2>2, <2>3, <2>4, <2>6, <2>7, <1>3
<1>5. ASSUME NEW i \in I, NEW j \in I, i < j, q[i].drive = q[j].drive
      PROVE  rank(i) # rank(j)
  <2>1. Upto(i) \cup {j} \in SUBSET Upto(j) /\ j \notin Upto(i)
    BY <1>1, <1>5 DEF OnDrive
  <2>2. IsFiniteSet(Upto(i)) /\ IsFiniteSet(Upto(j)) /\ rank(i) \in 1 .. Limit
        /\ rank(j) \in 1 .. Limit
    BY <1>4
  <2>3. Cardinality(Upto(i) \cup {j}) = rank(i) + 1
    BY <2>1, <2>2, FS_AddElement, Zenon
  <2>4. Cardinality(Upto(i) \cup {j}) <= rank(j)
    BY <2>1, <2>2, FS_Subset
  <2> HIDE DEF rank, Upto
  <2> QED  BY <2>2, <2>3, <2>4, <1>3
<1>6. f \in Injection(I, P)
  <2> HIDE DEF rank
  <2>1. f \in [I -> P]
    BY <1>2, <1>4, Zenon
  <2>2. \A i, j \in I : f[i] = f[j] => i = j
    <3> SUFFICES ASSUME NEW i \in I, NEW j \in I, f[i] = f[j], i # j PROVE FALSE
      OBVIOUS
    <3>1. q[i].drive = q[j].drive /\ rank(i) = rank(j)
      OBVIOUS
    <3>2. i < j \/ j < i
      BY <1>1
    <3> QED  BY <3>1, <3>2, <1>5
  <2> HIDE DEF f, P, I
  <2> QED  BY <2>1, <2>2 DEF Injection, IsInjective
<1>7. IsFiniteSet(1 .. Limit) /\ Cardinality(1 .. Limit) = Limit
  BY <1>3, UptoFinite
<1>8. IsFiniteSet(P) /\ Cardinality(P) = Cardinality(Drives) * Limit
  BY <1>7, FS_Product, ArbiterAssumption, Zenon
<1>9. Cardinality(I) = Len(q)
  BY <1>1, UptoFinite
<1> HIDE DEF I, P, f
<1> QED  BY <1>6, <1>8, <1>9, FS_Injection
------------------------------------------------------------------------------
(* The inductive invariant. *)

One(b) == IF b THEN 1 ELSE 0

\* What the state machines know of each other.
Control ==
    /\ reg.op = "Idle" => reg.words = 0
    /\ reg.op = "Read" => state = "ReadStatus" /\ reg.words <= 1
    /\ reg.op = "Write" => state = "WriteCommand"
    /\ reg.op = "Done" => state \in {"ReadStatus", "WriteCommand"} /\ reg.words = 0
    /\ state = "WriteCommand" => reg.op \in {"Write", "Done"}
    /\ state \in {"WriteCommandPush", "WriteCommand", "Ready"} => CmdValid /\ inc = None
    /\ CmdValid => cmd \in Commands
    /\ inc # None => CmdValid /\ cmd.drive = inc

\* The counters count, no drive is above its limit, and free, which is a cycle
\* late, is right whenever a command can be taken.
Counted ==
    /\ \A d \in Drives :
          /\ counters[d] + One(inc = d) = Cardinality(OnDrive(fifo \o Taken, d))
          /\ counters[d] + One(inc = d) <= Limit
    /\ ~CmdValid => \A d \in free : counters[d] < Limit

\* The status word reports a command that is still at the head of the queue.
Reported ==
    \/ Pulling
    \/ /\ state = "ReadStatus" /\ reg.op \in {"Read", "Done"}
       /\ reg.words = 0 /\ status # None

\* The host controller has not yet got the command at the end of the queue.
Unissued == reg.op = "Write" /\ reg.words > 0

\* The two queues have the same length but for what is on its way.
Matched == Len(fifo) = Len(nvme) + One(Reported) + One(Unissued)

IInv == TypeOK /\ Control /\ Counted /\ Matched

------------------------------------------------------------------------------
(* What one cycle does. *)

\* A command is taken in this cycle.
Accepts ==
    /\ ~CmdValid /\ CmdValid'
    /\ inc' \in Drives /\ inc' \in free
    /\ cmd' \in Commands /\ cmd'.drive = inc'

\* None is taken; the present one is given up in state Ready.
Keeps ==
    /\ inc' = None /\ cmd' = cmd
    /\ CmdValid' <=> CmdValid /\ state # "Ready"

\* Choosing a stream accepts a command or keeps the queue.
LEMMA ChooseStep ==
    ASSUME TypeOK, NEW s \in Streams, Choose(s), ~CmdValid
    PROVE  Accepts \/ Keeps
<1>1. \A t \in Streams : offer[t] \in Drives \cup {None}
  BY DEF TypeOK
<1>2. ASSUME NEW t \in Streams, Acceptable(t), Accept(t) PROVE Accepts
  <2>1. offer[t] \in Drives /\ offer[t] \in free
    BY <1>1, <1>2 DEF Acceptable
  <2>2. cmd' = [stream |-> t, drive |-> offer[t]] /\ inc' = offer[t] /\ CmdValid'
    BY <1>2 DEF Accept, CmdValid
  <2>3. cmd' \in Commands /\ cmd'.drive = inc'
    BY <2>1, <2>2 DEF Commands
  <2> QED  BY <2>1, <2>2, <2>3 DEF Accepts
<1>3. Other(s) \in Streams
  BY DEF Other, Streams
<1>4. CASE inc' = None /\ UNCHANGED <<cmd, cmdState>>
  BY <1>4 DEF Keeps, CmdValid
<1> QED  BY <1>2, <1>3, <1>4 DEF Choose

\* What a clock of the command streams does.
LEMMA CommandStep ==
    ASSUME TypeOK, CommandStreams
    PROVE  (Accepts \/ Keeps) /\ cmdState' \in {"IdleRd", "IdleWr", "AckRd", "AckWr"}
<1>1. cmdState \in {"IdleRd", "IdleWr", "AckRd", "AckWr"}
  BY DEF TypeOK
<1>2. CASE cmdState = "IdleRd"
  <2>1. Choose("Rd") /\ ~CmdValid
    BY <1>2 DEF CommandStreams, CmdValid
  <2>2. cmdState' \in {"IdleRd", "IdleWr", "AckRd", "AckWr"}
    BY <2>1, <1>1 DEF Choose, Accept
  <2> QED  BY <2>1, <2>2, ChooseStep DEF Streams
<1>3. CASE cmdState = "IdleWr"
  <2>1. Choose("Wr") /\ ~CmdValid
    BY <1>3 DEF CommandStreams, CmdValid
  <2>2. cmdState' \in {"IdleRd", "IdleWr", "AckRd", "AckWr"}
    BY <2>1, <1>1 DEF Choose, Accept
  <2> QED  BY <2>1, <2>2, ChooseStep DEF Streams
<1>4. CASE CmdValid
  <2>1. Acknowledge
    BY <1>4, Zenon DEF CommandStreams, CmdValid
  <2> QED  BY <2>1, <1>1, <1>4 DEF Acknowledge, Keeps, CmdValid
<1> QED  BY <1>1, <1>2, <1>3, <1>4 DEF CmdValid

\* The main state machine.
LEMMA MainStep ==
    ASSUME TypeOK, NEW in \in Inputs, Main(in)
    PROVE  /\ state' \in {"Idle", "ReadStatus", "SendResRdPull", "SendResRd",
                          "SendResWrPull", "SendResWr", "WriteCommandPush",
                          "WriteCommand", "Ready"}
           /\ state' = "WriteCommandPush" <=> state = "Idle" /\ CmdValid
           /\ state' = "WriteCommand"
                <=> state \in {"WriteCommandPush", "WriteCommand"} /\ ~RegDone
           /\ state' = "Ready"
                <=> state \in {"WriteCommandPush", "WriteCommand"} /\ RegDone
           /\ state = "ReadStatus" /\ ~RegDone => state' = "ReadStatus"
           /\ state = "ReadStatus" /\ RegDone /\ status = None => state' = "Idle"
           /\ Pulling' <=> state = "ReadStatus" /\ RegDone /\ status # None
           /\ Pulling' => state' = IF Head(fifo).stream = "Rd" THEN "SendResRdPull"
                                                               ELSE "SendResWrPull"
<1>1. state \in {"Idle", "ReadStatus", "SendResRdPull", "SendResRd",
                 "SendResWrPull", "SendResWr", "WriteCommandPush",
                 "WriteCommand", "Ready"}
  BY DEF TypeOK
<1> QED  BY <1>1 DEF Main, NextState, Pulling

\* The register logic.
LEMMA RegisterStep ==
    ASSUME TypeOK, Control, NEW in \in Inputs, Registers(in)
    PROVE  /\ reg' \in [op : {"Idle", "Read", "Write", "Done"}, addr : BOOLEAN,
                        words : 0 .. BurstLength]
           /\ reg.op = "Idle" => reg' = RegStart
           /\ reg.op = "Done" => reg' = RegIdle
           /\ reg.op \in {"Read", "Write"} =>
                 /\ reg'.op \in {reg.op, "Done"}
                 /\ reg'.op = "Done" => reg'.words = 0
                 /\ reg'.words = IF Transfers(in) THEN reg.words - 1 ELSE reg.words
<1>1. /\ reg \in [op : {"Idle", "Read", "Write", "Done"}, addr : BOOLEAN,
                  words : 0 .. BurstLength]
      /\ in.addrReady \in BOOLEAN /\ in.dataReady \in BOOLEAN
      /\ BurstLength \in Nat \ {0}
  BY ArbiterAssumption DEF TypeOK, Inputs
<1>2. CASE reg.op = "Idle"
  <2>1. reg' = RegStart
    BY <1>2 DEF Registers
  <2> QED  BY <1>1, <1>2, <2>1 DEF RegStart, RegIdle
<1>3. CASE reg.op = "Done"
  <2>1. reg' = RegIdle
    BY <1>3 DEF Registers
  <2> QED  BY <1>1, <1>3, <2>1 DEF RegIdle
<1>4. CASE reg.op \in {"Read", "Write"}
  <2>1. reg' = RegAfter(in)
    BY <1>4 DEF Registers
  <2> QED  BY <1>1, <1>4, <2>1 DEF RegAfter, Transfers
<1> QED  BY <1>1, <1>2, <1>3, <1>4

\* Every clock keeps the state machines in step with each other.
LEMMA ControlStep ==
    ASSUME TypeOK, Control, NEW in \in Inputs, Clock(in)
    PROVE  Control'
<1>1. Main(in) /\ CommandStreams /\ Registers(in)
  BY DEF Clock
<1>2. Accepts \/ Keeps
  BY <1>1, CommandStep
<1>3. (reg.op = "Idle" => reg.words = 0)'
  BY <1>1, RegisterStep DEF RegStart, RegIdle, TypeOK
<1>4. /\ (reg.op = "Read" => state = "ReadStatus" /\ reg.words <= 1)'
      /\ (reg.op = "Write" => state = "WriteCommand")'
      /\ (reg.op = "Done" => state \in {"ReadStatus", "WriteCommand"} /\ reg.words = 0)'
      /\ (state = "WriteCommand" => reg.op \in {"Write", "Done"})'
  <2>1. CASE reg.op = "Idle"
    BY <2>1, <1>1, RegisterStep, MainStep DEF RegStart, RegIdle, RegDone, Control
  <2>2. CASE reg.op = "Done"
    BY <2>2, <1>1, RegisterStep, MainStep DEF RegIdle, RegDone, Control
  <2>3. CASE reg.op \in {"Read", "Write"}
    BY <2>3, <1>1, RegisterStep, MainStep DEF RegDone, Control, TypeOK
  <2> QED  BY <2>1, <2>2, <2>3 DEF TypeOK
<1>5. (state \in {"WriteCommandPush", "WriteCommand", "Ready"} => CmdValid /\ inc = None)'
  <2>1. ASSUME state' \in {"WriteCommandPush", "WriteCommand", "Ready"}
        PROVE  CmdValid /\ state # "Ready"
    BY <2>1, <1>1, MainStep DEF Control
  <2> QED  BY <2>1, <1>2 DEF Accepts, Keeps
<1>6. (CmdValid => cmd \in Commands)'
  BY <1>2 DEF Accepts, Keeps, Control, Commands
<1>7. (inc # None => CmdValid /\ cmd.drive = inc)'
  BY <1>2 DEF Accepts, Keeps
<1> QED  BY <1>3, <1>4, <1>5, <1>6, <1>7 DEF Control

\* The queue and the command that is not in it yet.
Rest == IF Pulling THEN Tail(fifo) ELSE fifo

\* A completion that is reported belongs to a queued command.
LEMMA HeadReported ==
    ASSUME TypeOK, Matched, Reported
    PROVE  fifo # <<>>
<1>1. Len(nvme) \in Nat
  BY DEF TypeOK
<1>2. Len(fifo) = Len(nvme) + 1 + (IF Unissued THEN 1 ELSE 0)
  BY DEF Matched, One
<1>3. Len(fifo) # 0
  BY <1>1, <1>2
<1> QED  BY <1>3

\* A queue that takes and loses a command in one clock.
LEMMA ConcatFacts ==
    ASSUME NEW q \in Seq(Commands), NEW c \in Commands
    PROVE  /\ q \o <<c>> = Append(q, c) /\ q \o <<>> = q
           /\ q # <<>> => /\ Tail(q) \o <<c>> = Tail(Append(q, c))
                          /\ Head(Append(q, c)) = Head(q)
                          /\ Tail(q) \in Seq(Commands) /\ Head(q) \in Commands
           /\ Append(q, c) \in Seq(Commands) /\ Append(q, c) # <<>>
  OBVIOUS

(* The order of Tail and of appending at most one command does not matter. *)
LEMMA ShortConcat ==
    ASSUME NEW q \in Seq(Commands), NEW t,
           t = <<>> \/ \E c \in Commands : t = <<c>>
    PROVE  /\ q \o t \in Seq(Commands)
           /\ q # <<>> => /\ q \o t # <<>> /\ Head(q \o t) = Head(q)
                          /\ Tail(q \o t) = Tail(q) \o t
<1>1. CASE t = <<>>
  <2>1. q \o t = q
    BY <1>1
  <2>2. q # <<>> => Tail(q) \o <<>> = Tail(q)
    OBVIOUS
  <2> QED  BY <1>1, <2>1, <2>2
<1>2. ASSUME NEW c \in Commands, t = <<c>>
      PROVE  /\ q \o t \in Seq(Commands)
             /\ q # <<>> => /\ q \o t # <<>> /\ Head(q \o t) = Head(q)
                            /\ Tail(q \o t) = Tail(q) \o t
  BY <1>2, ConcatFacts
<1> QED  BY <1>1, <1>2

\* The sequence of all commands loses the head that is answered and gains the
\* command that is taken.
LEMMA QueueStep ==
    ASSUME IInv, NEW in \in Inputs, Clock(in)
    PROVE  /\ fifo' \in Seq(Commands) /\ Rest \in Seq(Commands)
           /\ Pulling => fifo # <<>>
           /\ \/ /\ Pushing /\ ~Pulling /\ Keeps /\ cmd \in Commands
                 /\ Taken = <<cmd>> /\ Taken' = <<>> /\ fifo' = Append(fifo, cmd)
              \/ Keeps /\ ~Pushing /\ Taken' = Taken /\ fifo' = Rest
              \/ Accepts /\ ~Pushing /\ Taken = <<>> /\ Taken' = <<cmd'>> /\ fifo' = Rest
<1>1. Main(in) /\ CommandStreams /\ Fifo /\ TypeOK /\ Control /\ Matched
  BY DEF Clock, IInv
<1>2. Accepts \/ Keeps
  BY <1>1, CommandStep
<1>3. Pulling => fifo # <<>>
  BY <1>1, HeadReported DEF Reported
<1>4. fifo \in Seq(Commands) /\ Rest \in Seq(Commands)
  BY <1>1, <1>3 DEF TypeOK, Rest
<1>5. CASE Pushing
  <2>1. state = "WriteCommandPush" /\ ~Pulling /\ CmdValid /\ ~RegDone /\ cmd \in Commands
    BY <1>1, <1>5 DEF Pushing, Pulling, Control, RegDone
  <2>2. Keeps /\ CmdValid' /\ state' = "WriteCommand"
    BY <1>1, <1>2, <2>1, MainStep DEF Accepts, Keeps
  <2>3. Taken = <<cmd>> /\ Taken' = <<>>
    BY <2>1, <2>2 DEF Taken
  <2>4. Len(fifo) + 1 # FifoSize
    <3>1. fifo \o Taken = Append(fifo, cmd) /\ Append(fifo, cmd) \in Seq(Commands)
      BY <1>4, <2>1, <2>3, ConcatFacts
    <3>2. \A d \in Drives : Cardinality(OnDrive(Append(fifo, cmd), d)) <= Limit
      BY <3>1 DEF IInv, Counted
    <3>3. Len(Append(fifo, cmd)) <= Cardinality(Drives) * Limit
      BY <3>1, <3>2, LengthBound, Zenon
    <3>4. Cardinality(Drives) \in Nat /\ Cardinality(Drives) * Limit \in Nat
      BY ArbiterAssumption, FS_CardinalityType
    <3> QED  BY <3>3, <3>4, <1>4, ArbiterAssumption
  <2>5. fifo' = Append(fifo, cmd)
    BY <1>1, <1>5, <2>1, <2>4 DEF Fifo
  <2> QED  BY <1>3, <1>4, <1>5, <2>1, <2>2, <2>3, <2>5
<1>6. CASE ~Pushing
  <2>1. fifo' = Rest
    BY <1>1, <1>6 DEF Fifo, Rest
  <2>2. ASSUME Keeps PROVE Taken' = Taken
    <3>1. CASE CmdValid /\ state # "Ready"
      <4>1. CmdValid' /\ cmd' = cmd
        BY <2>2, <3>1 DEF Keeps
      <4>2. state' \in {"WriteCommand", "Ready"} <=> state = "WriteCommand"
        BY <1>1, <1>6, <3>1, MainStep DEF Pushing
      <4> QED  BY <3>1, <4>1, <4>2 DEF Taken
    <3>2. CASE ~(CmdValid /\ state # "Ready")
      BY <2>2, <3>2 DEF Taken, Keeps
    <3> QED  BY <3>1, <3>2
  <2>3. ASSUME Accepts PROVE Taken = <<>> /\ Taken' = <<cmd'>>
    <3>1. ~CmdValid /\ CmdValid'
      BY <2>3 DEF Accepts
    <3>2. state' \notin {"WriteCommand", "Ready"}
      BY <1>1, <3>1, MainStep DEF Control
    <3> QED  BY <3>1, <3>2 DEF Taken
  <2> QED  BY <1>2, <1>3, <1>4, <1>6, <2>1, <2>2, <2>3
<1> QED  BY <1>5, <1>6

\* Whether a command of drive d is answered in this cycle.
Pulled(d) == One(Pulling /\ Head(fifo).drive = d)

\* What the counters have counted, one drive at a time.
LEMMA CounterStep ==
    ASSUME IInv, NEW in \in Inputs, Clock(in), NEW d \in Drives
    PROVE  /\ counters[d] \in Nat
           /\ counters'[d] = counters[d] + One(inc = d) - Pulled(d)
           /\ Cardinality(OnDrive(fifo' \o Taken', d))
                = Cardinality(OnDrive(fifo \o Taken, d)) - Pulled(d) + One(inc' = d)
           /\ Cardinality(OnDrive(fifo \o Taken, d)) - Pulled(d) \in Nat
<1> DEFINE Q == fifo \o Taken
           N(q) == Cardinality(OnDrive(q, d))
<1>1. TypeOK /\ Control /\ fifo \in Seq(Commands) /\ counters[d] \in Nat /\ d # None
  BY ArbiterAssumption DEF IInv, TypeOK
<1>2. counters'[d] = counters[d] + One(inc = d) - Pulled(d)
  BY <1>1 DEF Clock, Counters, Pulled, One
<1>3. Taken = <<>> \/ (Taken = <<cmd>> /\ cmd \in Commands)
  BY <1>1 DEF Taken, Control
<1>4. Q \in Seq(Commands) /\ (fifo # <<>> => Q # <<>> /\ Head(Q) = Head(fifo)
                                              /\ Tail(Q) = Tail(fifo) \o Taken)
  BY <1>1, <1>3, ShortConcat, Zenon
<1>5. N(Rest \o Taken) = N(Q) - Pulled(d) /\ Rest \o Taken \in Seq(Commands)
  <2>1. CASE Pulling
    <3>1. fifo # <<>> /\ Rest \o Taken = Tail(Q)
      BY <2>1, <1>4, QueueStep DEF Rest
    <3>2. Tail(Q) \in Seq(Commands)
      BY <3>1, <1>4
    <3>3. N(Tail(Q)) = N(Q) - (IF Head(fifo).drive = d THEN 1 ELSE 0)
      BY <3>1, <1>4, TailCount, Zenon
    <3> QED  BY <3>1, <3>2, <3>3, <2>1 DEF Pulled, One
  <2>2. CASE ~Pulling
    <3>1. Rest \o Taken = Q
      BY <2>2 DEF Rest
    <3>2. N(Q) \in Nat
      BY <1>4, OnDriveFinite, Zenon
    <3> QED  BY <2>2, <3>1, <3>2, <1>4 DEF Pulled, One
  <2> QED  BY <2>1, <2>2
<1>6. N(Rest \o Taken) \in Nat
  BY <1>5, OnDriveFinite, Zenon
<1>7. N(fifo' \o Taken') = N(Rest \o Taken) + One(inc' = d)
      /\ fifo' \o Taken' \in Seq(Commands)
  <2>1. CASE /\ Pushing /\ ~Pulling /\ Keeps /\ cmd \in Commands
             /\ Taken = <<cmd>> /\ Taken' = <<>> /\ fifo' = Append(fifo, cmd)
    <3>1. fifo' \o Taken' = Rest \o Taken
      BY <2>1, <1>1, ConcatFacts DEF Rest
    <3> QED  BY <3>1, <2>1, <1>1, <1>5, <1>6 DEF Keeps, One
  <2>2. CASE Keeps /\ ~Pushing /\ Taken' = Taken /\ fifo' = Rest
    <3>1. fifo' \o Taken' = Rest \o Taken
      BY <2>2
    <3> QED  BY <3>1, <2>2, <1>1, <1>5, <1>6 DEF Keeps, One
  <2>3. CASE Accepts /\ ~Pushing /\ Taken = <<>> /\ Taken' = <<cmd'>> /\ fifo' = Rest
    <3>1. Rest \in Seq(Commands) /\ cmd' \in Commands /\ cmd'.drive = inc'
      BY <2>3, QueueStep DEF Accepts
    <3>2. fifo' \o Taken' = Append(Rest, cmd') /\ Rest \o Taken = Rest
          /\ Append(Rest, cmd') \in Seq(Commands)
      BY <2>3, <3>1, ConcatFacts
    <3>3. N(Append(Rest, cmd')) = N(Rest) + (IF cmd'.drive = d THEN 1 ELSE 0)
      BY <3>1, AppendCount
    <3> QED  BY <3>1, <3>2, <3>3 DEF One
  <2> QED  BY <2>1, <2>2, <2>3, QueueStep
<1> QED  BY <1>1, <1>2, <1>5, <1>6, <1>7

\* Every clock keeps the counters equal to the commands in flight.
LEMMA CountedStep ==
    ASSUME IInv, NEW in \in Inputs, Clock(in)
    PROVE  Counted' /\ counters' \in [Drives -> 0 .. Limit]
<1>1. TypeOK /\ Control /\ Counted /\ Limit \in Nat /\ (Accepts \/ Keeps)
  BY CommandStep, ArbiterAssumption DEF IInv, Clock
<1>2. ASSUME NEW d \in Drives
      PROVE  /\ counters'[d] + One(inc' = d) = Cardinality(OnDrive(fifo' \o Taken', d))
             /\ counters'[d] + One(inc' = d) <= Limit
             /\ counters'[d] \in 0 .. Limit
             /\ counters'[d] <= counters[d] + One(inc = d)
  <2> DEFINE now == Cardinality(OnDrive(fifo \o Taken, d))
             then == Cardinality(OnDrive(fifo' \o Taken', d))
  <2>1. /\ counters[d] \in Nat /\ now - Pulled(d) \in Nat
        /\ counters'[d] = counters[d] + One(inc = d) - Pulled(d)
        /\ then = now - Pulled(d) + One(inc' = d)
    BY CounterStep
  <2>2. counters[d] + One(inc = d) = now /\ counters[d] + One(inc = d) <= Limit
    BY <1>1 DEF Counted
  <2>3. /\ Pulled(d) \in {0, 1} /\ One(inc = d) \in {0, 1} /\ One(inc' = d) \in {0, 1}
    BY DEF Pulled, One
  <2>4. One(inc' = d) = 1 => One(inc = d) = 0 /\ counters[d] < Limit
    <3>1. ASSUME inc' = d PROVE inc # d /\ counters[d] < Limit
      <4>1. Accepts
        BY <3>1, <1>1, ArbiterAssumption DEF Keeps
      <4> QED  BY <4>1, <3>1, <1>1, ArbiterAssumption DEF Accepts, Counted, Control
    <3> QED  BY <3>1 DEF One
  <2> HIDE DEF now, then
  <2> QED  BY <1>1, <2>1, <2>2, <2>3, <2>4 DEF then
<1>3. ASSUME ~CmdValid', NEW d \in free' PROVE counters'[d] < Limit
  <2>1. d \in Drives /\ counters[d] < Limit
    BY <1>3 DEF Clock, Counters
  <2>2. inc = None
    BY <1>1, <1>3 DEF Accepts, Keeps, Control
  <2>3. One(inc = d) = 0 /\ counters[d] \in Nat
    BY <1>1, <2>1, <2>2, ArbiterAssumption DEF One, TypeOK
  <2> QED  BY <1>1, <1>2, <2>1, <2>3
<1>4. counters' \in [Drives -> 0 .. Limit]
  <2>1. \E g : counters' = [d \in Drives |-> g[d]]
    BY DEF Clock, Counters
  <2> QED  BY <1>2, <2>1
<1> QED  BY <1>2, <1>3, <1>4 DEF Counted

\* Every clock keeps the completions matched to the queue.
LEMMA MatchedStep ==
    ASSUME IInv, NEW in \in Inputs, Clock(in)
    PROVE  Matched'
<1>1. /\ TypeOK /\ Control /\ Matched /\ Main(in) /\ Registers(in) /\ Host(in) /\ Fifo
      /\ Len(nvme) \in Nat /\ nvme \in Seq(Commands) /\ fifo \in Seq(Commands)
      /\ reg.words \in Nat /\ BurstLength \in Nat \ {0}
  BY ArbiterAssumption DEF IInv, Clock, TypeOK
<1>3. CASE reg.op = "Idle"
  <2>1. nvme' = nvme /\ reg' = RegStart /\ ~Unissued /\ ~RegDone
    BY <1>1, <1>3, RegisterStep DEF Control, Host, StatusSampled, Transfers, Unissued, RegDone
  <2>2. ~Pulling' /\ (Reported <=> Pulling)
    BY <1>1, <1>3, <2>1, MainStep DEF Reported
  <2>3. CASE Pushing
    <3>1. fifo' = Append(fifo, cmd) /\ ~Pulling
      BY <2>3, QueueStep
    <3>2. reg'.op = "Write" /\ reg'.words > 0
      BY <1>1, <2>1, <2>3 DEF RegStart, Pushing
    <3>3. ~Reported /\ ~Reported' /\ Unissued'
      BY <2>2, <3>1, <3>2 DEF Reported, Unissued
    <3>4. Len(fifo) = Len(nvme)
      BY <1>1, <2>1, <3>3 DEF Matched, One
    <3>5. Len(fifo') = Len(nvme') + 1
      BY <1>1, <2>1, <3>1, <3>4
    <3> QED  BY <1>1, <2>1, <3>3, <3>5 DEF Matched, One
  <2>4. CASE Pulling
    <3>1. fifo' = Tail(fifo) /\ fifo # <<>>
      BY <1>1, <2>4, QueueStep DEF Fifo
    <3>2. reg' = RegIdle
      BY <2>1, <2>4 DEF RegStart, Pulling
    <3>3. Reported /\ ~Reported' /\ ~Unissued'
      BY <2>2, <2>4, <3>2 DEF Reported, Unissued, RegIdle
    <3>4. Len(fifo) = Len(nvme) + 1
      BY <1>1, <2>1, <3>3 DEF Matched, One
    <3>5. Len(fifo') = Len(nvme')
      BY <1>1, <2>1, <3>1, <3>4
    <3> QED  BY <1>1, <2>1, <3>3, <3>5 DEF Matched, One
  <2>5. CASE ~Pushing /\ ~Pulling
    <3>1. fifo' = fifo
      BY <1>1, <2>5 DEF Fifo
    <3>2. ~Reported' /\ ~Unissued'
      <4>1. state # "WriteCommand"
        BY <1>1, <1>3 DEF Control
      <4> QED  BY <2>1, <2>2, <2>5, <4>1 DEF Reported, Unissued, RegStart, RegIdle, Pushing
    <3> QED  BY <1>1, <2>1, <2>2, <2>5, <3>1, <3>2 DEF Matched, One
  <2> QED  BY <2>3, <2>4, <2>5
<1>4. CASE reg.op = "Done"
  <2>1. /\ nvme' = nvme /\ status' = status /\ reg' = RegIdle /\ RegDone
        /\ state \in {"ReadStatus", "WriteCommand"} /\ reg.words = 0
    BY <1>1, <1>4, RegisterStep
       DEF Control, Host, Registers, StatusSampled, Transfers, RegDone
  <2>2. fifo' = fifo /\ ~Pulling
    BY <1>1, <2>1 DEF Fifo, Pulling, Pushing
  <2>3. ~Unissued /\ ~Unissued' /\ (Reported' <=> Pulling')
    BY <1>4, <2>1 DEF Unissued, Reported, RegIdle
  <2>4. Pulling' <=> Reported
    BY <1>1, <1>4, <2>1, <2>2, MainStep DEF Reported
  <2> QED  BY <1>1, <2>1, <2>2, <2>3, <2>4 DEF Matched, One
<1>5. CASE reg.op = "Read"
  <2>1. state = "ReadStatus" /\ state' = "ReadStatus" /\ reg.words \in {0, 1}
    BY <1>1, <1>5, MainStep DEF Control, RegDone
  <2>2. fifo' = fifo /\ ~Pulling /\ ~Pulling' /\ ~Unissued /\ ~Unissued'
    <3>1. reg'.op # "Write"
      BY <1>1, <1>5, RegisterStep
    <3> QED  BY <1>1, <1>5, <2>1, <3>1 DEF Fifo, Pulling, Pushing, Unissued
  <2>3. reg'.op \in {"Read", "Done"}
        /\ reg'.words = IF Transfers(in) THEN reg.words - 1 ELSE reg.words
    BY <1>1, <1>5, RegisterStep
  <2>4. CASE ~Transfers(in)
    <3>1. nvme' = nvme /\ status' = status
      BY <1>1, <2>4 DEF Host, Registers, StatusSampled
    <3>2. Reported' <=> Reported
      BY <1>5, <2>1, <2>2, <2>3, <2>4, <3>1 DEF Reported
    <3> QED  BY <1>1, <2>2, <3>1, <3>2 DEF Matched, One
  <2>5. CASE Transfers(in)
    <3>1. reg.words = 1 /\ reg'.words = 0 /\ ~Reported
      BY <2>1, <2>2, <2>3, <2>5 DEF Transfers, Reported
    <3>2. Len(fifo) = Len(nvme)
      BY <1>1, <2>2, <3>1 DEF Matched, One
    <3>3. CASE completed > 0
      <4>1. nvme # <<>> /\ nvme' = Tail(nvme) /\ status' = Head(nvme)
        BY <1>1, <1>5, <2>5, <3>3 DEF Host, Registers, StatusSampled, TypeOK
      <4>2. status' # None
        <5>1. Head(nvme) \in Commands
          BY <1>1, <4>1
        <5>2. None \notin Commands
          BY ArbiterAssumption DEF Commands, Streams
        <5> QED  BY <4>1, <5>1, <5>2
      <4>3. Reported'
        BY <2>1, <2>3, <3>1, <4>2 DEF Reported
      <4>4. Len(fifo') = Len(nvme') + 1
        BY <1>1, <2>2, <3>2, <4>1
      <4>5. Len(nvme') \in Nat
        BY <1>1, <4>1
      <4> QED  BY <2>2, <4>3, <4>4, <4>5 DEF Matched, One
    <3>4. CASE ~(completed > 0)
      <4>1. nvme' = nvme /\ status' = None
        BY <1>1, <1>5, <2>5, <3>4 DEF Host, Registers, StatusSampled
      <4>2. ~Reported'
        BY <2>2, <4>1 DEF Reported
      <4> QED  BY <1>1, <2>2, <3>2, <4>1, <4>2 DEF Matched, One
    <3> QED  BY <3>3, <3>4
  <2> QED  BY <2>4, <2>5
<1>6. CASE reg.op = "Write"
  <2>1. state = "WriteCommand" /\ state' = "WriteCommand"
    BY <1>1, <1>6, MainStep DEF Control, RegDone
  <2>2. fifo' = fifo /\ ~Reported /\ ~Reported'
    BY <1>1, <2>1 DEF Fifo, Pulling, Pushing, Reported
  <2>3. /\ reg'.op \in {"Write", "Done"} /\ (reg'.op = "Done" => reg'.words = 0)
        /\ reg'.words = IF Transfers(in) THEN reg.words - 1 ELSE reg.words
    BY <1>1, <1>6, RegisterStep
  <2>4. nvme' = IF reg.words = 1 /\ Transfers(in) THEN Append(nvme, cmd) ELSE nvme
    BY <1>1, <1>6 DEF Host, StatusSampled
  <2>5. Unissued <=> reg.words > 0
    BY <1>6 DEF Unissued
  <2>6. Unissued' <=> reg'.words > 0
    BY <2>3 DEF Unissued
  <2>7. Len(fifo) = Len(nvme) + (IF reg.words > 0 THEN 1 ELSE 0)
    BY <1>1, <2>2, <2>5 DEF Matched, One
  <2>8. Len(nvme') = Len(nvme) + (IF reg.words = 1 /\ Transfers(in) THEN 1 ELSE 0)
    BY <1>1, <2>4
  <2>9. Len(fifo') = Len(nvme') + (IF reg'.words > 0 THEN 1 ELSE 0)
    <3>1. CASE Transfers(in)
      <4>1. reg.words > 0 /\ reg'.words = reg.words - 1
        BY <3>1, <2>3 DEF Transfers
      <4>2. Len(fifo') = Len(nvme) + 1
        BY <2>2, <2>7, <4>1
      <4>3. CASE reg.words = 1
        <5>1. Len(nvme') = Len(nvme) + 1 /\ ~(reg'.words > 0)
          BY <2>8, <3>1, <4>1, <4>3
        <5> QED  BY <1>1, <4>2, <5>1
      <4>4. CASE reg.words # 1
        <5>1. Len(nvme') = Len(nvme) /\ reg'.words > 0
          BY <1>1, <2>8, <4>1, <4>4
        <5> QED  BY <4>2, <5>1
      <4> QED  BY <4>3, <4>4
    <3>2. CASE ~Transfers(in)
      <4>1. reg'.words = reg.words /\ Len(nvme') = Len(nvme)
        BY <3>2, <2>3, <2>8, <1>1
      <4> QED  BY <2>2, <2>7, <4>1
    <3> QED  BY <3>1, <3>2
  <2>10. Len(nvme') \in Nat
    BY <1>1, <2>8
  <2>11. Len(fifo') = Len(nvme') + (IF Unissued' THEN 1 ELSE 0)
    BY <2>6, <2>9
  <2>12. Len(fifo') = Len(nvme') + 0 + (IF Unissued' THEN 1 ELSE 0)
    BY <2>10, <2>11
  <2> QED  BY <2>2, <2>12 DEF Matched, One
<1> QED  BY <1>3, <1>4, <1>5, <1>6 DEF IInv, TypeOK

\* Every clock keeps the types.
LEMMA TypeStep ==
    ASSUME IInv, NEW in \in Inputs, Clock(in)
    PROVE  TypeOK'
<1>1. /\ TypeOK /\ Control /\ Main(in) /\ CommandStreams /\ Counters /\ Registers(in)
      /\ Offers /\ Host(in)
  BY DEF IInv, Clock
<1>2. (Accepts \/ Keeps) /\ cmdState' \in {"IdleRd", "IdleWr", "AckRd", "AckWr"}
  BY <1>1, CommandStep
<1>3. cmd' \in Commands \cup {None} /\ inc' \in Drives \cup {None}
  BY <1>1, <1>2 DEF Accepts, Keeps, TypeOK
<1>4. free' \subseteq Drives /\ pending' \in BOOLEAN
  BY <1>1 DEF Counters
<1>5. offer' \in [Streams -> Drives \cup {None}]
  BY <1>1 DEF Offers, TypeOK
<1>6. nvme \in Seq(Commands) /\ completed \in 0 .. Len(nvme)
      /\ (completed > 0 => nvme # <<>> /\ Head(nvme) \in Commands /\ Tail(nvme) \in Seq(Commands))
  BY <1>1 DEF TypeOK
<1>7. status' \in Commands \cup {None}
  BY <1>1, <1>6 DEF Registers, TypeOK
<1>8. nvme' \in Seq(Commands) /\ completed' \in 0 .. Len(nvme')
  <2> DEFINE reported == StatusSampled(in) /\ completed > 0
             left == IF reported THEN Tail(nvme) ELSE nvme
             rest == IF reported THEN completed - 1 ELSE completed
             issued == reg.op = "Write" /\ reg.words = 1 /\ Transfers(in)
  <2>1. left \in Seq(Commands) /\ rest \in 0 .. Len(left)
    BY <1>6
  <2>2. issued => cmd \in Commands
    BY <1>1 DEF Control
  <2>3. nvme' = IF issued THEN Append(left, cmd) ELSE left
    BY <1>1 DEF Host
  <2>4. completed' = rest
    BY <1>1 DEF Host
  <2> HIDE DEF left, rest, issued
  <2> QED  BY <2>1, <2>2, <2>3, <2>4
<1> QED  BY <1>1, <1>2, <1>3, <1>4, <1>5, <1>7, <1>8, MainStep, RegisterStep, QueueStep,
            CountedStep
         DEF TypeOK

(* Offers of the streams and completions leave the arbiter alone. *)
LEMMA OutsideStep ==
    ASSUME IInv,
           \/ \E s \in Streams, d \in Drives : Offer(s, d)
           \/ Complete
           \/ UNCHANGED vars
    PROVE  IInv'
<1>1. /\ UNCHANGED <<state, cmdState, cmd, inc, counters, free, pending, fifo, reg, status,
                     nvme>>
      /\ offer' \in [Streams -> Drives \cup {None}] /\ completed' \in 0 .. Len(nvme)
  <2>1. ASSUME NEW s \in Streams, NEW d \in Drives, Offer(s, d) PROVE <1>1!1 /\ <1>1!2
    BY <2>1 DEF Offer, IInv, TypeOK
  <2>2. CASE Complete
    BY <2>2 DEF Complete, IInv, TypeOK
  <2>3. CASE UNCHANGED vars
    BY <2>3 DEF vars, IInv, TypeOK
  <2> QED  BY <2>1, <2>2, <2>3
<1>2. TypeOK'
  BY <1>1 DEF IInv, TypeOK
<1>3. Control'
  BY <1>1 DEF IInv, Control, CmdValid
<1>4. Taken' = Taken /\ CmdValid' = CmdValid /\ Reported' = Reported /\ Unissued' = Unissued
  BY <1>1 DEF Taken, CmdValid, Reported, Unissued, Pulling
<1>5. Counted'
  BY <1>1, <1>4 DEF IInv, Counted
<1>6. Matched'
  BY <1>1, <1>4 DEF IInv, Matched
<1> QED  BY <1>2, <1>3, <1>5, <1>6 DEF IInv

\* The arbiter comes out of reset in its invariant.
LEMMA InitIInv == Init => IInv
<1> SUFFICES ASSUME Init PROVE IInv
  OBVIOUS
<1>1. Limit \in Nat \ {0} /\ BurstLength \in Nat \ {0} /\ None \notin Drives
  BY ArbiterAssumption
<1>2. ~CmdValid /\ Taken = <<>> /\ ~Reported /\ ~Unissued
  BY DEF Init, CmdValid, Taken, Reported, Unissued, Pulling, RegIdle
<1>3. TypeOK
  <2>1. <<>> \in Seq(Commands) /\ Len(<<>>) = 0
    OBVIOUS
  <2>2. reg \in [op : {"Idle", "Read", "Write", "Done"}, addr : BOOLEAN,
                words : 0 .. BurstLength]
    BY <1>1 DEF Init, RegIdle
  <2>3. counters \in [Drives -> 0 .. Limit] /\ offer \in [Streams -> Drives \cup {None}]
    BY <1>1 DEF Init
  <2>4. fifo \in Seq(Commands) /\ nvme \in Seq(Commands) /\ completed \in 0 .. Len(nvme)
    BY <2>1 DEF Init
  <2> QED  BY <2>2, <2>3, <2>4, Zenon DEF Init, TypeOK
<1>4. Control
  BY <1>2 DEF Init, Control, RegIdle
<1>5. Counted
  <2>1. fifo \o Taken = <<>>
    BY <1>2 DEF Init
  <2>2. \A d \in Drives : OnDrive(<<>>, d) = {}
    BY DEF OnDrive
  <2>3. Cardinality({}) = 0
    BY FS_EmptySet
  <2>4. \A d \in Drives : counters[d] = 0 /\ One(inc = d) = 0
    BY <1>1 DEF Init, One
  <2>5. \A d \in free : counters[d] < Limit
    BY <1>1, <2>4 DEF Init
  <2>6. \A d \in Drives : Cardinality(OnDrive(fifo \o Taken, d)) = 0
    BY <2>1, <2>2, <2>3, Zenon
  <2> QED  BY <1>1, <2>4, <2>5, <2>6 DEF Counted
<1>6. Matched
  BY <1>2 DEF Matched, Init, One
<1> QED  BY <1>3, <1>4, <1>5, <1>6 DEF IInv

\* Every clock keeps the invariant.
LEMMA NextIInv == IInv /\ [Next]_vars => IInv'
<1> SUFFICES ASSUME IInv, [Next]_vars PROVE IInv'
  OBVIOUS
<1>1. ASSUME NEW in \in Inputs, Clock(in) PROVE IInv'
  <2>1. Control'
    BY <1>1, ControlStep DEF IInv
  <2> QED  BY <1>1, <2>1, TypeStep, CountedStep, MatchedStep DEF IInv
<1> QED  BY <1>1, OutsideStep DEF Next

\* The invariant holds in every reachable state.
LEMMA Invariance == Spec => []IInv
  BY InitIInv, NextIInv, PTL DEF Spec

------------------------------------------------------------------------------
(* The registers of the arbiter keep their types; in particular no counter *)
(* goes below zero or above the limit (NvmeController.vhd, drive command   *)
(* counters).                                                              *)
THEOREM ArbiterTyped == Spec => []TypeOK
<1>1. IInv => TypeOK
  BY DEF IInv
<1> QED  BY <1>1, Invariance, PTL

\* The invariant bounds the queue.
LEMMA IInvFits == IInv => QueueFits
<1> SUFFICES ASSUME IInv PROVE QueueFits
  OBVIOUS
<1>1. fifo \in Seq(Commands) /\ Control /\ Counted
  BY DEF IInv, TypeOK
<1>2. fifo \o Taken \in Seq(Commands) /\ Len(fifo) <= Len(fifo \o Taken)
  <2>1. CASE Taken = <<>>
    <3>1. fifo \o Taken = fifo
      BY <1>1, <2>1
    <3> QED  BY <1>1, <3>1
  <2>2. CASE Taken = <<cmd>> /\ cmd \in Commands
    <3>1. fifo \o Taken = Append(fifo, cmd)
      BY <1>1, <2>2, ConcatFacts
    <3> QED  BY <1>1, <2>2, <3>1
  <2> QED  BY <1>1, <2>1, <2>2 DEF Taken, Control
<1>3. \A d \in Drives : Cardinality(OnDrive(fifo \o Taken, d)) <= Limit
  BY <1>1 DEF Counted
<1>4. Len(fifo \o Taken) <= Cardinality(Drives) * Limit
  BY <1>2, <1>3, LengthBound, Zenon
<1>5. Cardinality(Drives) * Limit \in Nat /\ Len(fifo) \in Nat /\ Len(fifo \o Taken) \in Nat
  BY <1>1, <1>2, ArbiterAssumption, FS_CardinalityType
<1>6. Len(fifo) <= Cardinality(Drives) * Limit
  BY <1>2, <1>4, <1>5
<1> QED  BY <1>1, <1>6 DEF QueueFits, Counted, One

(* The queue of stream identifiers never overflows, which the comment in   *)
(* its process assumes, and the counters agree with it, whatever the       *)
(* number of drives, their limit and the speed of all partners.            *)
THEOREM QueueCorrect == Spec => []QueueFits
  BY IInvFits, Invariance, PTL

\* The promise counts as the arbiter does.
LEMMA SameCardinality == \A S : Promise!Cardinality(S) = Cardinality(S)
  BY DEF Promise!Cardinality, Cardinality

(* Every cycle takes at most one command to the end of the queue, answers  *)
(* at most the oldest one on its own stream, or does neither.              *)
LEMMA ClockImplements ==
    ASSUME IInv, IInv', NEW in \in Inputs, Clock(in)
    PROVE  Promise!Next
<1> DEFINE new == IF Accepts THEN <<cmd'>> ELSE <<>>
           Short(t) == t = <<>> \/ \E c \in Commands : t = <<c>>
           queue == Rest \o Taken
           all == fifo' \o Taken'
<1>1. /\ Main(in) /\ TypeOK /\ Matched /\ TypeOK' /\ Counted'
      /\ fifo \in Seq(Commands) /\ fifo' \in Seq(Commands) /\ Rest \in Seq(Commands)
  BY QueueStep, Zenon DEF IInv, Clock, TypeOK
<1>2. Short(Taken) /\ Short(Taken') /\ Short(new)
  <2>1. Control /\ Control'
    BY DEF IInv
  <2> QED  BY <2>1 DEF Taken, Control, Accepts
<1>3. queue \in Seq(Commands) /\ all \in Seq(Commands)
  BY <1>1, <1>2, ShortConcat
<1>4. ~(Accepts /\ Keeps)
  BY DEF Accepts, Keeps
<1>5. all = queue \o new
  <2>1. CASE /\ Pushing /\ ~Pulling /\ Keeps /\ cmd \in Commands
             /\ Taken = <<cmd>> /\ Taken' = <<>> /\ fifo' = Append(fifo, cmd)
    <3>1. queue = Append(fifo, cmd) /\ all = Append(fifo, cmd)
      BY <1>1, <2>1, ConcatFacts DEF Rest
    <3> QED  BY <1>3, <1>4, <2>1, <3>1, Zenon
  <2>2. CASE Keeps /\ ~Pushing /\ Taken' = Taken /\ fifo' = Rest
    BY <1>3, <1>4, <2>2
  <2>3. CASE Accepts /\ ~Pushing /\ Taken = <<>> /\ Taken' = <<cmd'>> /\ fifo' = Rest
    BY <1>1, <2>3
  <2> QED  BY <2>1, <2>2, <2>3, QueueStep
<1>6. \A d \in Drives : Cardinality(OnDrive(all, d)) <= Limit
  <2>1. \A d \in Drives :
           /\ counters'[d] + One(inc' = d) = Cardinality(OnDrive(fifo' \o Taken', d))
           /\ counters'[d] + One(inc' = d) <= Limit
    BY <1>1 DEF Counted
  <2> QED  BY <2>1
<1>7. CASE ~Pulling'
  <2>1. Rest' \o Taken' = all
    BY <1>7 DEF Rest
  <2>2. Promise!Step(FALSE, new)
    <3>1. state' \notin {"SendResRdPull", "SendResWrPull"}
      BY <1>7 DEF Pulling
    <3> HIDE DEF new
    <3> QED  BY <2>1, <3>1, <1>5, <1>6, SameCardinality, Zenon
             DEF Promise!Step, Promise!OnDrive, OnDrive, Rest
  <2> HIDE DEF new
  <2> QED  BY <2>2, <1>2, Zenon DEF Promise!Next, Promise!Commands, Commands
<1>8. CASE Pulling'
  <2>1. /\ state = "ReadStatus" /\ RegDone /\ status # None
        /\ state' = IF Head(fifo).stream = "Rd" THEN "SendResRdPull" ELSE "SendResWrPull"
    BY <1>1, <1>8, MainStep
  <2>2. fifo # <<>> /\ ~Pulling /\ ~Pushing
    <3>1. Reported /\ ~Pulling /\ ~Pushing
      <4>1. reg.words = 0
        BY <2>1 DEF IInv, Control, RegDone
      <4> QED  BY <2>1, <4>1 DEF Reported, RegDone, Pulling, Pushing
    <3> QED  BY <1>1, <3>1, HeadReported
  <2>3. Rest = fifo /\ fifo' = fifo
    BY <2>2 DEF Clock, Fifo, Rest
  <2>4. queue # <<>> /\ Head(queue) = Head(fifo) /\ all # <<>>
        /\ Tail(all) = Tail(fifo) \o Taken'
    BY <1>1, <1>2, <2>2, <2>3, ShortConcat
  <2>5. Rest' \o Taken' = Tail(all)
    BY <1>8, <2>3, <2>4, Zenon DEF Rest
  <2>6. Tail(all) = Tail(queue) \o new
    <3>1. queue \in Seq(Commands) /\ queue # <<>> /\ Short(new)
      BY <1>2, <1>3, <2>4
    <3>2. Tail(queue \o new) = Tail(queue) \o new
      <4> HIDE DEF queue, new
      <4> QED  BY <3>1, ShortConcat
    <3> HIDE DEF queue, new, all
    <3> QED  BY <1>5, <3>2
  <2>7. Head(queue).stream \in {"Rd", "Wr"}
    <3>1. Head(queue) \in Commands
      BY <1>3, <2>4
    <3> QED  BY <3>1, Zenon DEF Commands, Streams
  <2>8. \A d \in Drives : Cardinality(OnDrive(Tail(all), d)) <= Limit
    <3> TAKE d \in Drives
    <3>1. Cardinality(OnDrive(Tail(all), d))
            = Cardinality(OnDrive(all, d)) - (IF Head(all).drive = d THEN 1 ELSE 0)
      BY <1>3, <2>4, TailCount, Zenon
    <3>2. Cardinality(OnDrive(all, d)) \in Nat /\ Cardinality(OnDrive(all, d)) <= Limit
      BY <1>3, <1>6, OnDriveFinite, ZenonT(30)
    <3>3. Limit \in Nat
      BY ArbiterAssumption
    <3> QED  BY <3>1, <3>2, <3>3
  <2>9. Promise!Step(TRUE, new)
    <3> HIDE DEF new, all
    <3> QED  BY <2>1, <2>4, <2>5, <2>6, <2>7, <2>8, SameCardinality, Zenon
             DEF Promise!Step, Promise!OnDrive, OnDrive, Rest
  <2> HIDE DEF new
  <2> QED  BY <2>9, <1>2, Zenon DEF Promise!Next, Promise!Commands, Commands
<1> QED  BY <1>7, <1>8

(* The arbiter implements the queue of commands of NvmeCommands: commands  *)
(* are answered in the order they were taken, each on the stream it came   *)
(* from, and no drive ever has more than Limit of them.                    *)
THEOREM CommandsImplemented == Spec => ImplementsCommands
<1>1. Init => Promise!Init
  BY DEF Init, Promise!Init, Pulling, Taken, CmdValid
<1>2. IInv /\ IInv' /\ [Next]_vars
        => [Promise!Next]_<<Rest \o Taken,
                            CASE state = "SendResRdPull" -> "Rd"
                              [] state = "SendResWrPull" -> "Wr"
                              [] OTHER -> None>>
  <2> SUFFICES ASSUME IInv, IInv', [Next]_vars
               PROVE  \/ Promise!Next
                      \/ UNCHANGED <<state, fifo, cmdState, cmd>>
    BY Zenon DEF Rest, Taken, Pulling, CmdValid
  <2>1. ASSUME NEW in \in Inputs, Clock(in) PROVE Promise!Next
    BY <2>1, ClockImplements
  <2>2. ASSUME NEW s \in Streams, NEW d \in Drives, Offer(s, d)
        PROVE  UNCHANGED <<state, fifo, cmdState, cmd>>
    BY <2>2 DEF Offer
  <2>3. CASE Complete
    BY <2>3 DEF Complete
  <2>4. CASE UNCHANGED vars
    BY <2>4 DEF vars
  <2> QED  BY <2>1, <2>2, <2>3, <2>4 DEF Next
<1> QED  BY <1>1, <1>2, Invariance, PTL DEF Spec, ImplementsCommands, Promise!Spec, Rest
=============================================================================
