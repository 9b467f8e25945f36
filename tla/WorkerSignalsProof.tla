--------------------------- MODULE WorkerSignalsProof ---------------------------
(***************************************************************************)
(* For any machine, tensors, partitions and priorities: the signals that   *)
(* devices send each other are counted once, no ready count is ever        *)
(* exceeded, a device always holds the task that its signal root           *)
(* announces, and the devices of a switch launch the same NCCL calls in    *)
(* the same order.                                                         *)
(*                                                                         *)
(* The argument counts the rounds of a task.  Done is how often a device   *)
(* has passed a stage of it and Used how often it has taken the task for   *)
(* the stage; a signal is a round that a sender has done and the receiver  *)
(* has not used.                                                           *)
(***************************************************************************)
EXTENDS WorkerPipelineProof

-----------------------------------------------------------------------------
(* The stages of a task, in the order in which they are passed.            *)

\* The place of a stage; the queue list of a task goes up in it.
Rank(op) ==
    CASE op = "COORDINATE_REDUCE" -> 1
      [] op = "REDUCE" -> 2
      [] op = "COPYD2H" -> 3
      [] op = "PCIE_REDUCE" -> 4
      [] op = "COORDINATE_PUSH" -> 5
      [] op = "COMPRESS" -> 6
      [] op = "PUSH" -> 7
      [] op = "PULL" -> 8
      [] op = "DECOMPRESS" -> 9
      [] op = "COPYH2D" -> 10
      [] op = "COORDINATE_BROADCAST" -> 11
      [] op = "BROADCAST" -> 12

\* The places of the stages.
LEMMA Ranks ==
    /\ Rank("COORDINATE_REDUCE") = 1 /\ Rank("REDUCE") = 2 /\ Rank("COPYD2H") = 3
    /\ Rank("PCIE_REDUCE") = 4 /\ Rank("COORDINATE_PUSH") = 5 /\ Rank("COMPRESS") = 6
    /\ Rank("PUSH") = 7 /\ Rank("PULL") = 8 /\ Rank("DECOMPRESS") = 9
    /\ Rank("COPYH2D") = 10 /\ Rank("COORDINATE_BROADCAST") = 11 /\ Rank("BROADCAST") = 12
    /\ \A op \in QueueType : Rank(op) \in 1..12
<1>1. /\ Rank("COORDINATE_REDUCE") = 1 /\ Rank("REDUCE") = 2 /\ Rank("COPYD2H") = 3
      /\ Rank("PCIE_REDUCE") = 4 /\ Rank("COORDINATE_PUSH") = 5 /\ Rank("COMPRESS") = 6
      /\ Rank("PUSH") = 7 /\ Rank("PULL") = 8 /\ Rank("DECOMPRESS") = 9
      /\ Rank("COPYH2D") = 10 /\ Rank("COORDINATE_BROADCAST") = 11 /\ Rank("BROADCAST") = 12
  BY DEF Rank
<1>2. QueueType = {"COORDINATE_REDUCE", "REDUCE", "COPYD2H", "PCIE_REDUCE", "COORDINATE_PUSH",
                   "COMPRESS", "PUSH", "PULL", "DECOMPRESS", "COPYH2D",
                   "COORDINATE_BROADCAST", "BROADCAST"}
  BY DEF QueueType, Coordinates, Coordinated, Calls
<1> QED BY <1>1, <1>2

\* A part of a list of stages: rising, with ranks above lo and up to hi.
Run(s, lo, hi) ==
    /\ s \in Seq(QueueType)
    /\ \A i \in 1..Len(s) : lo < Rank(s[i]) /\ Rank(s[i]) <= hi
    /\ \A i, j \in 1..Len(s) : i < j => Rank(s[i]) < Rank(s[j])

\* The stages in a list.
Holding(s) == {s[i] : i \in 1..Len(s)}

\* A list of one stage.
LEMMA RunOne ==
    ASSUME NEW op \in QueueType, NEW lo \in Nat, NEW hi \in Nat,
           lo < Rank(op), Rank(op) <= hi
    PROVE  Run(<<op>>, lo, hi) /\ Holding(<<op>>) = {op}
<1>1. <<op>> \in Seq(QueueType) /\ Len(<<op>>) = 1 /\ <<op>>[1] = op /\ 1..1 = {1}
  OBVIOUS
<1> QED BY <1>1 DEF Run, Holding

\* A stage that a list has or has not.
LEMMA RunIf ==
    ASSUME NEW c, NEW s, NEW lo \in Nat, NEW hi \in Nat, c => Run(s, lo, hi)
    PROVE  Run(If(c, s), lo, hi) /\ Holding(If(c, s)) = IF c THEN Holding(s) ELSE {}
<1>1. <<>> \in Seq(QueueType) /\ Len(<<>>) = 0 /\ 1..0 = {}
  OBVIOUS
<1> QED BY <1>1 DEF Run, Holding, If

\* A list after another whose stages are all earlier.
LEMMA RunJoin ==
    ASSUME NEW a, NEW b, NEW lo \in Nat, NEW mid \in Nat, NEW hi \in Nat,
           Run(a, lo, mid), Run(b, mid, hi), lo <= mid, mid <= hi
    PROVE  Run(a \o b, lo, hi) /\ Holding(a \o b) = Holding(a) \cup Holding(b)
<1>1. \A op \in QueueType : Rank(op) \in Int
  BY Ranks
<1>2. /\ a \in Seq(QueueType) /\ b \in Seq(QueueType)
      /\ \A i \in 1..Len(a) : a[i] \in QueueType /\ lo < Rank(a[i]) /\ Rank(a[i]) <= mid
      /\ \A i, j \in 1..Len(a) : i < j => Rank(a[i]) < Rank(a[j])
      /\ \A i \in 1..Len(b) : b[i] \in QueueType /\ mid < Rank(b[i]) /\ Rank(b[i]) <= hi
      /\ \A i, j \in 1..Len(b) : i < j => Rank(b[i]) < Rank(b[j])
  BY DEF Run
<1>a. PICK u, v : u = a /\ v = b
  OBVIOUS
<1>b. u \in Seq(QueueType) /\ v \in Seq(QueueType)
  BY <1>2, <1>a
<1>c. u \o v \in Seq(QueueType)
  BY <1>b
<1>3. PICK r \in Seq(QueueType) : r = u \o v
  BY <1>c, Zenon
<1>4. /\ Len(r) = Len(u) + Len(v) /\ Len(u) \in Nat /\ Len(v) \in Nat
      /\ \A i \in 1..Len(r) : IF i <= Len(u) THEN i \in 1..Len(u) /\ r[i] = u[i]
                              ELSE i - Len(u) \in 1..Len(v) /\ r[i] = v[i - Len(u)]
      /\ \A i \in 1..Len(u) : i \in 1..Len(r) /\ r[i] = u[i]
      /\ \A i \in 1..Len(v) : Len(u) + i \in 1..Len(r) /\ r[Len(u) + i] = v[i]
  BY <1>3, <1>b
<1>5. /\ \A i \in 1..Len(u) : Rank(u[i]) \in Int /\ lo < Rank(u[i]) /\ Rank(u[i]) <= mid
      /\ \A i, j \in 1..Len(u) : i < j => Rank(u[i]) < Rank(u[j])
      /\ \A i \in 1..Len(v) : Rank(v[i]) \in Int /\ mid < Rank(v[i]) /\ Rank(v[i]) <= hi
      /\ \A i, j \in 1..Len(v) : i < j => Rank(v[i]) < Rank(v[j])
  BY <1>1, <1>2, <1>a
<1>6. \A i \in 1..Len(r) : lo < Rank(r[i]) /\ Rank(r[i]) <= hi
  <2> TAKE i \in 1..Len(r)
  <2>1. CASE i <= Len(u)
    <3>1. i \in 1..Len(u) /\ r[i] = u[i]
      BY <1>4, <2>1
    <3> QED BY <1>5, <3>1
  <2>2. CASE ~(i <= Len(u))
    <3>1. i - Len(u) \in 1..Len(v) /\ r[i] = v[i - Len(u)]
      BY <1>4, <2>2
    <3>2. PICK n \in 1..Len(v) : r[i] = v[n]
      BY <3>1
    <3> QED BY <1>5, <3>2
  <2> QED BY <2>1, <2>2
<1>7. \A i, j \in 1..Len(r) : i < j => Rank(r[i]) < Rank(r[j])
  <2> SUFFICES ASSUME NEW i \in 1..Len(r), NEW j \in 1..Len(r), i < j
               PROVE  Rank(r[i]) < Rank(r[j])
    OBVIOUS
  <2>1. CASE j <= Len(u)
    BY <1>4, <1>5, <2>1
  <2>2. CASE ~(i <= Len(u))
    <3>1. i - Len(u) \in 1..Len(v) /\ j - Len(u) \in 1..Len(v) /\ i - Len(u) < j - Len(u)
      BY <1>4, <2>2
    <3>2. r[i] = v[i - Len(u)] /\ r[j] = v[j - Len(u)]
      BY <1>4, <2>2
    <3> QED BY <1>5, <3>1, <3>2
  <2>3. CASE i <= Len(u) /\ ~(j <= Len(u))
    <3>1. Rank(r[i]) \in Int /\ Rank(r[i]) <= mid
      BY <1>4, <1>5, <2>3
    <3>2. Rank(r[j]) \in Int /\ mid < Rank(r[j])
      BY <1>4, <1>5, <2>3
    <3> QED BY <3>1, <3>2
  <2> QED BY <2>1, <2>2, <2>3
<1>8. Holding(r) = Holding(u) \cup Holding(v)
  <2>1. ASSUME NEW x \in Holding(r) PROVE x \in Holding(u) \cup Holding(v)
    <3>1. PICK i \in 1..Len(r) : x = r[i]
      BY DEF Holding
    <3> QED BY <1>4, <3>1 DEF Holding
  <2>2. ASSUME NEW x \in Holding(u) \cup Holding(v) PROVE x \in Holding(r)
    <3>1. CASE x \in Holding(u)
      BY <1>4, <3>1 DEF Holding
    <3>2. CASE x \in Holding(v)
      <4>1. PICK i \in 1..Len(v) : x = v[i]
        BY <3>2 DEF Holding
      <4>2. Len(u) + i \in 1..Len(r) /\ r[Len(u) + i] = x
        BY <1>4, <4>1
      <4> QED BY <4>2 DEF Holding
    <3> QED BY <3>1, <3>2
  <2> QED BY <2>1, <2>2
<1>9. Run(r, lo, hi)
  BY <1>3, <1>6, <1>7 DEF Run
<1>10. r = a \o b
  BY <1>a, <1>3
<1> QED BY <1>a, <1>8, <1>9, <1>10

\* The stages of a task of tensor t on device d.
Stages(d, t) == Holding(QueueList(d, t))

\* The stages of the two parts of a queue list, as sets.
PushStages(d, t) ==
    (IF ~IsSignalRoot(d) THEN {"COORDINATE_REDUCE"} ELSE {}) \cup {"REDUCE"}
    \cup (IF HostCopies THEN {"COPYD2H"} ELSE {})
    \cup (IF CrossPcie THEN {"PCIE_REDUCE"} ELSE {})
    \cup (IF HostCopies /\ d # Root THEN {"COORDINATE_PUSH"} ELSE {})
    \cup (IF HostCopies /\ d = Root
          THEN (IF HasCompressor(t) THEN {"COMPRESS"} ELSE {}) \cup {"PUSH"} ELSE {})
PullStages(d, t) ==
    (IF machine.is_distributed /\ d = Root
     THEN {"PULL"} \cup (IF HasCompressor(t) THEN {"DECOMPRESS"} ELSE {}) ELSE {})
    \cup (IF HostCopies THEN {"COPYH2D"} ELSE {})
    \cup (IF ~IsSignalRoot(d) THEN {"COORDINATE_BROADCAST"} ELSE {}) \cup {"BROADCAST"}

\* What the two parts of a list of stages hold.
LEMMA StageSets ==
    ASSUME NEW d, NEW t
    PROVE  /\ Run(QueueList(d, t), 0, 12)
           /\ Stages(d, t) = PushStages(d, t) \cup PullStages(d, t)
<1>1. QueueType = {"COORDINATE_REDUCE", "REDUCE", "COPYD2H", "PCIE_REDUCE", "COORDINATE_PUSH",
                   "COMPRESS", "PUSH", "PULL", "DECOMPRESS", "COPYH2D",
                   "COORDINATE_BROADCAST", "BROADCAST"}
  BY DEF QueueType, Coordinates, Coordinated, Calls
<1>2. /\ Run(<<"COORDINATE_REDUCE">>, 0, 1) /\ Holding(<<"COORDINATE_REDUCE">>) = {"COORDINATE_REDUCE"}
      /\ Run(<<"REDUCE">>, 1, 2) /\ Holding(<<"REDUCE">>) = {"REDUCE"}
      /\ Run(<<"COPYD2H">>, 2, 3) /\ Holding(<<"COPYD2H">>) = {"COPYD2H"}
      /\ Run(<<"PCIE_REDUCE">>, 3, 4) /\ Holding(<<"PCIE_REDUCE">>) = {"PCIE_REDUCE"}
      /\ Run(<<"COORDINATE_PUSH">>, 4, 5) /\ Holding(<<"COORDINATE_PUSH">>) = {"COORDINATE_PUSH"}
      /\ Run(<<"COMPRESS">>, 5, 6) /\ Holding(<<"COMPRESS">>) = {"COMPRESS"}
      /\ Run(<<"PUSH">>, 6, 7) /\ Holding(<<"PUSH">>) = {"PUSH"}
      /\ Run(<<"PULL">>, 7, 8) /\ Holding(<<"PULL">>) = {"PULL"}
      /\ Run(<<"DECOMPRESS">>, 8, 9) /\ Holding(<<"DECOMPRESS">>) = {"DECOMPRESS"}
      /\ Run(<<"COPYH2D">>, 9, 10) /\ Holding(<<"COPYH2D">>) = {"COPYH2D"}
      /\ Run(<<"COORDINATE_BROADCAST">>, 10, 11)
      /\ Holding(<<"COORDINATE_BROADCAST">>) = {"COORDINATE_BROADCAST"}
      /\ Run(<<"BROADCAST">>, 11, 12) /\ Holding(<<"BROADCAST">>) = {"BROADCAST"}
  BY <1>1, Ranks, RunOne
<1> DEFINE p1 == If(~IsSignalRoot(d), <<"COORDINATE_REDUCE">>)
           p3 == If(HostCopies, <<"COPYD2H">>)
           p4 == If(CrossPcie, <<"PCIE_REDUCE">>)
           p5 == If(HostCopies /\ d # Root, <<"COORDINATE_PUSH">>)
           p6 == If(HasCompressor(t), <<"COMPRESS">>)
           p7 == If(HostCopies /\ d = Root, p6 \o <<"PUSH">>)
           p8 == If(HasCompressor(t), <<"DECOMPRESS">>)
           p9 == If(machine.is_distributed /\ d = Root, <<"PULL">> \o p8)
           p10 == If(HostCopies, <<"COPYH2D">>)
           p11 == If(~IsSignalRoot(d), <<"COORDINATE_BROADCAST">>)
<1>3. /\ Run(p1, 0, 1) /\ Holding(p1) = IF ~IsSignalRoot(d) THEN {"COORDINATE_REDUCE"} ELSE {}
      /\ Run(p3, 2, 3) /\ Holding(p3) = IF HostCopies THEN {"COPYD2H"} ELSE {}
      /\ Run(p4, 3, 4) /\ Holding(p4) = IF CrossPcie THEN {"PCIE_REDUCE"} ELSE {}
      /\ Run(p5, 4, 5) /\ Holding(p5) = IF HostCopies /\ d # Root THEN {"COORDINATE_PUSH"} ELSE {}
      /\ Run(p6, 5, 6) /\ Holding(p6) = IF HasCompressor(t) THEN {"COMPRESS"} ELSE {}
      /\ Run(p8, 8, 9) /\ Holding(p8) = IF HasCompressor(t) THEN {"DECOMPRESS"} ELSE {}
      /\ Run(p10, 9, 10) /\ Holding(p10) = IF HostCopies THEN {"COPYH2D"} ELSE {}
      /\ Run(p11, 10, 11) /\ Holding(p11) = IF ~IsSignalRoot(d) THEN {"COORDINATE_BROADCAST"} ELSE {}
  BY <1>2, RunIf
<1> HIDE DEF p1, p3, p4, p5, p6, p8, p10, p11
<1>4. /\ Run(p6 \o <<"PUSH">>, 5, 7)
      /\ Holding(p6 \o <<"PUSH">>) = Holding(p6) \cup {"PUSH"}
      /\ Run(<<"PULL">> \o p8, 7, 9)
      /\ Holding(<<"PULL">> \o p8) = {"PULL"} \cup Holding(p8)
  BY <1>2, <1>3, RunJoin
<1>5. /\ Run(p7, 5, 7)
      /\ Holding(p7) = IF HostCopies /\ d = Root THEN Holding(p6) \cup {"PUSH"} ELSE {}
      /\ Run(p9, 7, 9)
      /\ Holding(p9) = IF machine.is_distributed /\ d = Root
                       THEN {"PULL"} \cup Holding(p8) ELSE {}
  BY <1>4, RunIf
<1> HIDE DEF p7, p9
<1> DEFINE a1 == p1 \o <<"REDUCE">>
           a2 == a1 \o p3
           a3 == a2 \o p4
           a4 == a3 \o p5
           a5 == a4 \o p7
           b1 == p9 \o p10
           b2 == b1 \o p11
           b3 == b2 \o <<"BROADCAST">>
<1>6. Run(a1, 0, 2) /\ Holding(a1) = Holding(p1) \cup {"REDUCE"}
  BY <1>2, <1>3, RunJoin
<1>7. Run(b1, 7, 10) /\ Holding(b1) = Holding(p9) \cup Holding(p10)
  BY <1>3, <1>5, RunJoin
<1> HIDE DEF a1, b1
<1>8. Run(a2, 0, 3) /\ Holding(a2) = Holding(a1) \cup Holding(p3)
  BY <1>3, <1>6, RunJoin
<1>9. Run(b2, 7, 11) /\ Holding(b2) = Holding(b1) \cup Holding(p11)
  BY <1>3, <1>7, RunJoin
<1> HIDE DEF a2, b2
<1>10. Run(a3, 0, 4) /\ Holding(a3) = Holding(a2) \cup Holding(p4)
  BY <1>3, <1>8, RunJoin
<1>11. Run(b3, 7, 12) /\ Holding(b3) = Holding(b2) \cup {"BROADCAST"}
  BY <1>2, <1>9, RunJoin
<1> HIDE DEF a3, b3
<1>12. Run(a4, 0, 5) /\ Holding(a4) = Holding(a3) \cup Holding(p5)
  BY <1>3, <1>10, RunJoin
<1> HIDE DEF a4
<1>13. Run(a5, 0, 7) /\ Holding(a5) = Holding(a4) \cup Holding(p7)
  BY <1>5, <1>12, RunJoin
<1> HIDE DEF a5
<1>14. Run(a5 \o b3, 0, 12) /\ Holding(a5 \o b3) = Holding(a5) \cup Holding(b3)
  BY <1>11, <1>13, RunJoin
<1>15. QueueList(d, t) = a5 \o b3
  BY DEF QueueList, PushQueueList, PullQueueList, p1, p3, p4, p5, p6, p7, p8, p9, p10, p11,
         a1, a2, a3, a4, a5, b1, b2, b3
<1>16. Holding(a5) = PushStages(d, t)
  BY <1>3, <1>5, <1>6, <1>8, <1>10, <1>12, <1>13, Zenon DEF PushStages
<1>17. Holding(b3) = PullStages(d, t)
  BY <1>3, <1>5, <1>7, <1>9, <1>11, Zenon DEF PullStages
<1> QED BY <1>14, <1>15, <1>16, <1>17 DEF Stages

\* The stages that a task of tensor t has on device d.
LEMMA HasStage ==
    ASSUME NEW d, NEW t
    PROVE  /\ "REDUCE" \in Stages(d, t) /\ "BROADCAST" \in Stages(d, t)
           /\ "COORDINATE_REDUCE" \in Stages(d, t) <=> ~IsSignalRoot(d)
           /\ "COORDINATE_BROADCAST" \in Stages(d, t) <=> ~IsSignalRoot(d)
           /\ "COPYD2H" \in Stages(d, t) <=> HostCopies
           /\ "COPYH2D" \in Stages(d, t) <=> HostCopies
           /\ "PCIE_REDUCE" \in Stages(d, t) <=> CrossPcie
           /\ "COORDINATE_PUSH" \in Stages(d, t) <=> HostCopies /\ d # Root
           /\ "COMPRESS" \in Stages(d, t) <=> HostCopies /\ d = Root /\ HasCompressor(t)
           /\ "PUSH" \in Stages(d, t) <=> HostCopies /\ d = Root
           /\ "PULL" \in Stages(d, t) <=> machine.is_distributed /\ d = Root
           /\ "DECOMPRESS" \in Stages(d, t) <=>
                 machine.is_distributed /\ d = Root /\ HasCompressor(t)
           /\ CrossPcie => HostCopies
           /\ HasCompressor(t) => machine.is_distributed
           /\ machine.is_distributed => HostCopies
           /\ Stages(d, t) \subseteq QueueType
<1>1. Stages(d, t) = PushStages(d, t) \cup PullStages(d, t)
  BY StageSets
<1>2. Stages(d, t) \subseteq QueueType
  BY StageSets DEF Run, Stages, Holding
<1>3. /\ CrossPcie => HostCopies
      /\ HasCompressor(t) => machine.is_distributed
      /\ machine.is_distributed => HostCopies
  BY DEF HostCopies, HasCompressor
<1> QED BY <1>1, <1>2, <1>3 DEF PushStages, PullStages

\* The stages of a task are those of the machine.
LEMMA SameStages ==
    ASSUME machine' = machine, NEW d, NEW t
    PROVE  /\ QueueList(d, t)' = QueueList(d, t) /\ Stages(d, t)' = Stages(d, t)
           /\ HostCopies' = HostCopies /\ CrossPcie' = CrossPcie
           /\ HasCompressor(t)' = HasCompressor(t)
<1>1. /\ HostCopies' = HostCopies /\ CrossPcie' = CrossPcie
      /\ HasCompressor(t)' = HasCompressor(t) /\ Root' = Root
      /\ IsSignalRoot(d)' = IsSignalRoot(d)
  BY SameMachine DEF HostCopies, CrossPcie, HasCompressor, IsSignalRoot, SignalRoot, SwitchOf
<1>2. PushQueueList(d, t)' = PushQueueList(d, t)
  BY <1>1 DEF PushQueueList, If
<1>3. PullQueueList(d, t)' = PullQueueList(d, t)
  BY <1>1 DEF PullQueueList, If
<1>4. QueueList(d, t)' = QueueList(d, t)
  BY <1>2, <1>3 DEF QueueList
<1> QED BY <1>1, <1>4 DEF Stages, Holding

\* What the task of k still has to pass is the end of the list of its stages.
Left(d, k) == Holding(queue_list[d][k])

\* A list that goes up in rank, to the end of the queue list of the tensor.
EndOfList(s, d, t) ==
    /\ Run(s, 0, 12) /\ Holding(s) \subseteq Stages(d, t)
    /\ \A a \in Stages(d, t), i \in 1..Len(s) : Rank(s[i]) < Rank(a) => a \in Holding(s)

\* What is left of a task is an end of its list.
Ordered(d, k) == EndOfList(queue_list[d][k], d, TensorOf(k))

\* The head of what is left is the earliest stage of it.
LEMMA EndFacts ==
    ASSUME NEW s, NEW d, NEW t, EndOfList(s, d, t), s # <<>>
    PROVE  /\ Head(s) \in Stages(d, t) /\ Head(s) \in QueueType
           /\ \A a \in Stages(d, t) : a \in Holding(s) <=> Rank(Head(s)) <= Rank(a)
           /\ EndOfList(Tail(s), d, t)
           /\ Holding(Tail(s)) = Holding(s) \ {Head(s)}
<1>1. \A op \in QueueType : Rank(op) \in 1..12
  BY Ranks
<1>2. /\ s \in Seq(QueueType) /\ Len(s) \in Nat \ {0} /\ Head(s) = s[1] /\ 1 \in 1..Len(s)
      /\ \A i \in 1..Len(s) : s[i] \in QueueType
      /\ \A i, j \in 1..Len(s) : i < j => Rank(s[i]) < Rank(s[j])
  BY DEF EndOfList, Run
<1>3. PICK r \in Seq(QueueType) : r = Tail(s)
  <2>1. Tail(s) \in Seq(QueueType)
    BY <1>2
  <2> QED BY <2>1, Zenon
<1>4. /\ Len(r) = Len(s) - 1 /\ Len(r) \in Nat
      /\ \A i \in 1..Len(r) : i + 1 \in 1..Len(s) /\ r[i] = s[i + 1]
      /\ \A i \in 1..Len(s) : i # 1 => i - 1 \in 1..Len(r) /\ r[i - 1] = s[i]
  BY <1>2, <1>3
<1>5. Holding(s) \subseteq Stages(d, t) /\ Stages(d, t) \subseteq QueueType
  BY HasStage DEF EndOfList
<1>6. s[1] \in Holding(s)
  BY <1>2 DEF Holding
<1>7. ASSUME NEW a \in Stages(d, t) PROVE a \in Holding(s) <=> Rank(s[1]) <= Rank(a)
  <2>1. ASSUME a \in Holding(s) PROVE Rank(s[1]) <= Rank(a)
    <3>1. PICK i \in 1..Len(s) : a = s[i]
      BY <2>1 DEF Holding
    <3>2. Rank(s[1]) \in 1..12 /\ Rank(a) \in 1..12
      BY <1>1, <1>2, <1>5
    <3>3. CASE i = 1
      BY <3>1, <3>2, <3>3
    <3>4. CASE i # 1
      BY <1>2, <3>1, <3>2, <3>4
    <3> QED BY <3>3, <3>4
  <2>2. ASSUME Rank(s[1]) <= Rank(a) PROVE a \in Holding(s)
    <3>1. CASE Rank(s[1]) < Rank(a)
      BY <1>2, <3>1 DEF EndOfList
    <3>2. CASE Rank(s[1]) = Rank(a)
      <4>1. a = s[1]
        <5>1. \A x, y \in QueueType : Rank(x) = Rank(y) => x = y
          <6>1. QueueType = {"COORDINATE_REDUCE", "REDUCE", "COPYD2H", "PCIE_REDUCE",
                   "COORDINATE_PUSH", "COMPRESS", "PUSH", "PULL", "DECOMPRESS", "COPYH2D",
                   "COORDINATE_BROADCAST", "BROADCAST"}
            BY DEF QueueType, Coordinates, Coordinated, Calls
          <6> QED BY <6>1, Ranks
        <5> QED BY <1>2, <1>5, <3>2, <5>1
      <4> QED BY <1>6, <4>1
    <3>3. Rank(s[1]) \in 1..12 /\ Rank(a) \in 1..12
      BY <1>1, <1>2, <1>5
    <3> QED BY <2>2, <3>1, <3>2, <3>3
  <2> QED BY <2>1, <2>2
<1>8. Holding(r) = Holding(s) \ {s[1]}
  <2>1. ASSUME NEW x \in Holding(r) PROVE x \in Holding(s) /\ x # s[1]
    <3>1. PICK i \in 1..Len(r) : x = r[i]
      BY <2>1 DEF Holding
    <3>2. i + 1 \in 1..Len(s) /\ x = s[i + 1] /\ 1 < i + 1
      BY <1>4, <3>1
    <3>3. Rank(s[1]) < Rank(s[i + 1]) /\ Rank(s[1]) \in 1..12
      BY <1>1, <1>2, <3>2
    <3> QED BY <3>2, <3>3 DEF Holding
  <2>2. ASSUME NEW x \in Holding(s), x # s[1] PROVE x \in Holding(r)
    <3>1. PICK i \in 1..Len(s) : x = s[i]
      BY <2>2 DEF Holding
    <3>2. i - 1 \in 1..Len(r) /\ r[i - 1] = x
      BY <1>4, <2>2, <3>1
    <3> QED BY <3>2 DEF Holding
  <2> QED BY <1>6, <2>1, <2>2
<1>9. Run(r, 0, 12)
  <2>1. \A i \in 1..Len(r) : 0 < Rank(r[i]) /\ Rank(r[i]) <= 12
    BY <1>1, <1>2, <1>4
  <2>2. \A i, j \in 1..Len(r) : i < j => Rank(r[i]) < Rank(r[j])
    <3> SUFFICES ASSUME NEW i \in 1..Len(r), NEW j \in 1..Len(r), i < j
                 PROVE  Rank(r[i]) < Rank(r[j])
      OBVIOUS
    <3>1. /\ i + 1 \in 1..Len(s) /\ j + 1 \in 1..Len(s) /\ i + 1 < j + 1
          /\ r[i] = s[i + 1] /\ r[j] = s[j + 1]
      BY <1>4
    <3> QED BY <1>2, <3>1
  <2> QED BY <1>3, <2>1, <2>2 DEF Run
<1>10. ASSUME NEW a \in Stages(d, t), NEW i \in 1..Len(r), Rank(r[i]) < Rank(a)
       PROVE  a \in Holding(r)
  <2>1. i + 1 \in 1..Len(s) /\ r[i] = s[i + 1] /\ 1 < i + 1
    BY <1>4
  <2>2. a \in Holding(s)
    BY <1>10, <2>1 DEF EndOfList
  <2>3. Rank(s[1]) < Rank(s[i + 1])
    BY <1>2, <2>1
  <2>4. Rank(s[1]) \in 1..12 /\ Rank(a) \in 1..12 /\ Rank(s[i + 1]) \in 1..12
    BY <1>1, <1>2, <1>5, <2>1
  <2>5. a # s[1]
    BY <1>10, <2>1, <2>3, <2>4
  <2> QED BY <1>8, <2>2, <2>5
<1>11. EndOfList(r, d, t)
  BY <1>5, <1>8, <1>9, <1>10 DEF EndOfList
<1> QED BY <1>2, <1>3, <1>5, <1>6, <1>7, <1>8, <1>11

\* The list of a task that is enqueued is an end of itself.
LEMMA WholeList ==
    ASSUME NEW d, NEW t
    PROVE  EndOfList(QueueList(d, t), d, t)
<1>1. Run(QueueList(d, t), 0, 12) /\ \A op \in QueueType : Rank(op) \in 1..12
  BY StageSets, Ranks
<1> QED BY <1>1 DEF EndOfList, Stages

\* The empty list is an end, too.
LEMMA NothingLeft ==
    ASSUME NEW d, NEW t
    PROVE  EndOfList(<<>>, d, t) /\ Holding(<<>>) = {}
<1>1. <<>> \in Seq(QueueType) /\ 1..Len(<<>>) = {}
  OBVIOUS
<1> QED BY <1>1 DEF EndOfList, Run, Holding

-----------------------------------------------------------------------------
(* Rounds.                                                                 *)

\* 1 for a fact that holds.
Bit(b) == IF b THEN 1 ELSE 0

\* How often device d has passed stage op of the task of k.
Done(d, op, k) == Step(d, k) - Bit(op \in Left(d, k))

\* The task is at stage op and in a group or in a call: it was taken.
Took(d, op, k) == InStage(d, op, k) /\ ~Holds(sq, d, op, k)

\* How often device d has taken the task of k for stage op.
Used(d, op, k) == Done(d, op, k) + Bit(Took(d, op, k))

\* All tasks.
Orders == \A d \in Devices, k \in Keys : Ordered(d, k)

\* The rounds of a stage done and used, and the steps of the tensor.
LEMMA Numbers ==
    ASSUME TaskTyped, Orders, NEW d \in Devices, NEW k \in Keys, NEW op
    PROVE  /\ Step(d, k) \in Nat /\ Done(d, op, k) \in Int /\ Used(d, op, k) \in Int
           /\ Done(d, op, k) <= Used(d, op, k) /\ Used(d, op, k) <= Done(d, op, k) + 1
           /\ Used(d, op, k) <= Step(d, k) /\ Step(d, k) <= Done(d, op, k) + 1
           /\ Took(d, op, k) => /\ Used(d, op, k) = Step(d, k)
                                /\ Done(d, op, k) = Step(d, k) - 1
           /\ InStage(d, op, k) => /\ op \in Left(d, k) /\ op \in Stages(d, TensorOf(k))
                                   /\ Done(d, op, k) = Step(d, k) - 1
           /\ Holds(sq, d, op, k) => Used(d, op, k) = Done(d, op, k)
<1>1. Step(d, k) \in Nat
  BY KeyFacts DEF TaskTyped, Step
<1>2. ASSUME InStage(d, op, k) PROVE op \in Left(d, k) /\ op \in Stages(d, TensorOf(k))
  <2>1. EndOfList(queue_list[d][k], d, TensorOf(k)) /\ queue_list[d][k] # <<>>
    BY <1>2 DEF Orders, Ordered, InStage
  <2>2. op = Head(queue_list[d][k])
    BY <1>2 DEF InStage
  <2>3. op \in Stages(d, TensorOf(k)) /\ op \in QueueType /\ (op \in Left(d, k) <=> Rank(op) <= Rank(op))
    BY <2>1, <2>2, EndFacts DEF Left
  <2>4. Rank(op) \in 1..12
    BY <2>3, Ranks
  <2> QED BY <2>3, <2>4
<1>3. Took(d, op, k) => op \in Left(d, k) /\ ~Holds(sq, d, op, k)
  BY <1>2 DEF Took
<1> QED BY <1>1, <1>2, <1>3 DEF Done, Used, Bit

\* A stage is passed after the stages before it and within the same step.
LEMMA InOrder ==
    ASSUME TaskTyped, Orders, NEW d \in Devices, NEW k \in Keys,
           NEW a \in Stages(d, TensorOf(k)), NEW b \in Stages(d, TensorOf(k)), Rank(a) < Rank(b)
    PROVE  /\ Done(d, b, k) <= Done(d, a, k) /\ Done(d, a, k) <= Done(d, b, k) + 1
           /\ Used(d, b, k) <= Done(d, a, k)
           /\ InStage(d, a, k) => Done(d, a, k) = Done(d, b, k)
           /\ InStage(d, b, k) => Done(d, a, k) = Done(d, b, k) + 1
<1> DEFINE s == queue_list[d][k]
           t == TensorOf(k)
<1>1. Step(d, k) \in Nat
  BY Numbers
<1>2. a \in QueueType /\ b \in QueueType /\ Rank(a) \in 1..12 /\ Rank(b) \in 1..12
  BY HasStage, Ranks
<1>3. EndOfList(s, d, t)
  BY DEF Orders, Ordered
<1>4. CASE s = <<>>
  <2>1. Left(d, k) = {} /\ ~InStage(d, b, k) /\ ~InStage(d, a, k)
    BY <1>4, NothingLeft DEF Left, InStage
  <2> QED BY <1>1, <2>1 DEF Done, Used, Took, Bit
<1>5. CASE s # <<>>
  <2>1. /\ Head(s) \in QueueType
        /\ a \in Left(d, k) <=> Rank(Head(s)) <= Rank(a)
        /\ b \in Left(d, k) <=> Rank(Head(s)) <= Rank(b)
    BY <1>3, <1>5, EndFacts DEF Left
  <2>2. Rank(Head(s)) \in 1..12
    BY <2>1, Ranks
  <2>3. a \in Left(d, k) => b \in Left(d, k)
    BY <1>2, <2>1, <2>2
  <2>4. /\ InStage(d, b, k) => a \notin Left(d, k) /\ b \in Left(d, k)
        /\ InStage(d, a, k) => a \in Left(d, k) /\ b \in Left(d, k)
    BY <1>2, <2>1, <2>2 DEF InStage
  <2>5. Took(d, b, k) => InStage(d, b, k)
    BY DEF Took
  <2> QED BY <1>1, <2>3, <2>4, <2>5 DEF Done, Used, Bit
<1> QED BY <1>4, <1>5

\* How the rounds change: those of one stage, by a and by b, or none.
Rounds(d, op, k, a, b) ==
    \A e \in Devices, j \in Keys : \A o \in Stages(e, TensorOf(j)) :
        IF e = d /\ o = op /\ j = k
        THEN Done(e, o, j)' = Done(e, o, j) + a /\ Used(e, o, j)' = Used(e, o, j) + b
        ELSE Done(e, o, j)' = Done(e, o, j) /\ Used(e, o, j)' = Used(e, o, j)

\* No task passes a stage or is taken.
NoRounds ==
    \A e \in Devices, j \in Keys : \A o \in Stages(e, TensorOf(j)) :
        Done(e, o, j)' = Done(e, o, j) /\ Used(e, o, j)' = Used(e, o, j)

\* A task that a device has taken is in a group or with a call.
LEMMA TookIs ==
    ASSUME NEW d, Once(d), NEW k \in Keys, NEW op \in QueueType
    PROVE  Took(d, op, k) <=> Grouped(d, op, k) \/ Called(d, op, k)
BY DEF Once, Took

\* A task goes on to its next stage.
LEMMA Passes ==
    ASSUME TaskTyped, Orders, machine' = machine, NEW d \in Devices, NEW k \in Keys, NEW op, NEW q,
           InStage(d, op, k), MovedOn(d, k, q), enqueued' = enqueued,
           \A e \in Devices : e # d => q[e] = sq[e],
           \A j \in Keys, o \in QueueType : j # k => (Holds(q, d, o, j) <=> Holds(sq, d, o, j))
    PROVE  /\ Orders' /\ op \in Stages(d, TensorOf(k)) /\ op \in Left(d, k)
           /\ \A o \in QueueType : ~Took(d, o, k)'
           /\ Rounds(d, op, k, 1, Bit(Holds(sq, d, op, k)))
<1>1. Devices' = Devices
  BY SameMachine
<1>2. \A e, t : Stages(e, t)' = Stages(e, t) /\ Stages(e, t) \subseteq QueueType
  BY SameStages, HasStage
<1>3. EndOfList(queue_list[d][k], d, TensorOf(k)) /\ queue_list[d][k] # <<>>
      /\ op = Head(queue_list[d][k])
  BY DEF Orders, Ordered, InStage
<1>4. /\ EndOfList(Tail(queue_list[d][k]), d, TensorOf(k))
      /\ Holding(Tail(queue_list[d][k])) = Left(d, k) \ {op}
      /\ op \in Stages(d, TensorOf(k))
      /\ op \in Left(d, k)
  BY <1>3, EndFacts, Numbers DEF Left
<1>5. /\ \A e \in Devices, j \in Keys : ~(e = d /\ j = k) => queue_list'[e][j] = queue_list[e][j]
      /\ queue_list'[d][k] = Tail(queue_list[d][k])
  BY DEF MovedOn
<1>6. Orders'
  <2>1. ASSUME NEW e \in Devices, NEW j \in Keys
        PROVE  EndOfList(queue_list'[e][j], e, TensorOf(j))
    <3>1. CASE e = d /\ j = k
      BY <1>4, <1>5, <3>1
    <3>2. CASE ~(e = d /\ j = k)
      <4>1. queue_list'[e][j] = queue_list[e][j]
        BY <1>5, <3>2
      <4> QED BY <4>1 DEF Orders, Ordered
    <3> QED BY <3>1, <3>2
  <2>2. \A e, t, s : EndOfList(s, e, t)' <=> EndOfList(s', e, t)
    BY <1>2 DEF EndOfList, Run, Holding
  <2> QED BY <1>1, <2>1, <2>2 DEF Orders, Ordered
<1>7. \A e \in Devices, j \in Keys :
         /\ Step(e, j)' = Step(e, j)
         /\ Left(e, j)' = IF e = d /\ j = k THEN Left(e, j) \ {op} ELSE Left(e, j)
  <2>1. \A e, j : Step(e, j)' = Step(e, j)
    BY DEF Step
  <2>2. \A e, j : Left(e, j)' = Holding(queue_list'[e][j])
    BY DEF Left, Holding
  <2>3. \A e, j : Left(e, j) = Holding(queue_list[e][j])
    BY DEF Left
  <2> QED BY <1>4, <1>5, <2>1, <2>2, <2>3
<1>8. \A o \in QueueType : ~Took(d, o, k)'
  <2>1. \A o \in QueueType : InStage(d, o, k)' => Holds(sq, d, o, k)'
    <3>1. \A o \in QueueType : InStage(d, o, k)' => NextStage(d, k, o)
      BY <1>5 DEF InStage, NextStage
    <3>2. \A o \in QueueType : NextStage(d, k, o) => Holds(sq', d, o, k)
      BY DEF MovedOn
    <3> QED BY <3>1, <3>2 DEF Holds
  <2> QED BY <2>1 DEF Took
<1>9. ASSUME NEW e \in Devices, NEW j \in Keys, ~(e = d /\ j = k), NEW o \in QueueType
      PROVE  Took(e, o, j)' <=> Took(e, o, j)
  <2>1. InStage(e, o, j)' <=> InStage(e, o, j)
    BY <1>5, <1>9 DEF InStage
  <2>2. Holds(sq, e, o, j)' <=> Holds(sq, e, o, j)
    <3>1. CASE e # d
      BY <3>1 DEF MovedOn, Holds
    <3>2. CASE e = d
      <4>1. j # k
        BY <1>9, <3>2
      <4>2. Holds(sq', d, o, j) <=> Holds(q, d, o, j)
        BY <4>1 DEF MovedOn
      <4> QED BY <3>2, <4>1, <4>2 DEF Holds
    <3> QED BY <3>1, <3>2
  <2> QED BY <2>1, <2>2 DEF Took
<1>10. \A o \in QueueType : Took(d, o, k) <=> o = op /\ ~Holds(sq, d, op, k)
  BY DEF Took, InStage
<1>11. ASSUME NEW e \in Devices, NEW j \in Keys, NEW o \in Stages(e, TensorOf(j))
       PROVE  IF e = d /\ o = op /\ j = k
              THEN /\ Done(e, o, j)' = Done(e, o, j) + 1
                   /\ Used(e, o, j)' = Used(e, o, j) + Bit(Holds(sq, d, op, k))
              ELSE Done(e, o, j)' = Done(e, o, j) /\ Used(e, o, j)' = Used(e, o, j)
  <2>1. o \in QueueType /\ Step(e, j) \in Nat
    BY <1>2, Numbers
  <2>2. CASE ~(e = d /\ j = k)
    BY <1>7, <1>9, <2>1, <2>2 DEF Done, Used, Bit
  <2>3. CASE e = d /\ j = k
    <3>1. Step(d, k)' = Step(d, k) /\ Left(d, k)' = Left(d, k) \ {op}
      BY <1>7
    <3>2. ~Took(d, o, k)' /\ (Took(d, o, k) <=> o = op /\ ~Holds(sq, d, op, k))
      BY <1>8, <1>10, <2>1
    <3> QED BY <1>4, <2>1, <2>3, <3>1, <3>2 DEF Done, Used, Bit
  <2> QED BY <2>2, <2>3
<1>12. Rounds(d, op, k, 1, Bit(Holds(sq, d, op, k)))
  BY <1>11 DEF Rounds
<1> QED BY <1>4, <1>6, <1>8, <1>12


\* What a step does to the rounds.
Move(d, op, k, a, b) ==
    Orders' /\ op \in Stages(d, TensorOf(k)) /\ Rounds(d, op, k, a, b)

\* A step that moves no task.
Still == Orders' /\ NoRounds

\* A task goes on from a queue.
LEMMA MovesFromQueue ==
    ASSUME IInv, Orders, machine' = machine, NEW d \in Devices, NEW op \in QueueType,
           NEW k \in Keys, k \in Range(sq[d][op]), FinishOrProceed(d, k, Taken(d, op, k)),
           UNCHANGED <<nccl_tasks, nccl_pipeline, calls>>
    PROVE  InStage(d, op, k) /\ Move(d, op, k, 1, 1)
<1>1. TaskTyped /\ Once(d) /\ \A t \in Tensors : Progress(d, t)
  BY DEF IInv, TasksKept, Kept
<1>2. Groups(d)' = Groups(d)
  BY DEF Groups
<1>3. PICK q : q = Taken(d, op, k)
  OBVIOUS
<1>4. /\ InStage(d, op, k) /\ MovedOn(d, k, q)
      /\ \A e \in Devices : e # d => q[e] = sq[e]
  BY <1>1, <1>2, <1>3, ProceedsFromQueue
<1>5. /\ \A o \in QueueType : o # op => q[d][o] = sq[d][o]
      /\ Range(q[d][op]) = Range(sq[d][op]) \ {k}
  <2>1. sq \in Queues /\ IsInjective(sq[d][op])
    BY <1>1 DEF TaskTyped, Once
  <2> QED BY <1>3, <2>1, TakenFacts
<1>6. \A j \in Keys, o \in QueueType : j # k => (Holds(q, d, o, j) <=> Holds(sq, d, o, j))
  BY <1>5 DEF Holds
<1>7. enqueued' = enqueued
  BY DEF FinishOrProceed
<1>8. /\ Orders' /\ op \in Stages(d, TensorOf(k))
      /\ Rounds(d, op, k, 1, Bit(Holds(sq, d, op, k)))
  BY <1>1, <1>4, <1>6, <1>7, Passes
<1>9. Bit(Holds(sq, d, op, k)) = 1
  BY DEF Bit, Holds
<1> QED BY <1>4, <1>8, <1>9 DEF Move

\* A task goes on from the oldest group.
LEMMA MovesFromGroup ==
    ASSUME IInv, Orders, machine' = machine, NEW d \in Devices, SyncNccl(d)
    PROVE  \E op \in {"REDUCE", "BROADCAST"}, k \in Keys :
              /\ NcclTask(op, k) = Head(nccl_pipeline[d])[1] /\ InStage(d, op, k)
              /\ Move(d, op, k, 1, 0)
<1>1. TaskTyped /\ NcclTyped /\ Once(d) /\ \A t \in Tensors : Progress(d, t)
  BY DEF IInv, TasksKept, Kept
<1>2. PICK x : x = Head(nccl_pipeline[d])[1]
  OBVIOUS
<1>3. PICK r : r = IF Len(Head(nccl_pipeline[d])) = 1 THEN Tail(nccl_pipeline[d])
                   ELSE <<Tail(Head(nccl_pipeline[d]))>> \o Tail(nccl_pipeline[d])
  OBVIOUS
<1>4. /\ nccl_pipeline[d] # <<>> /\ FinishOrProceed(d, x.key, sq)
      /\ nccl_pipeline' = [nccl_pipeline EXCEPT ![d] = r]
      /\ UNCHANGED <<nccl_msgs, nccl_phase, nccl_tasks, calls>>
  BY <1>2, <1>3 DEF SyncNccl, GroupDone
<1>5. /\ x \in CallTask /\ InStage(d, x.op, x.key)
      /\ MovedOn(d, x.key, sq) /\ Grouped(d, x.op, x.key)
  BY <1>1, <1>2, <1>3, <1>4, ProceedsFromGroup
<1>6. PICK k \in Keys, op \in {"REDUCE", "BROADCAST"} :
         k = x.key /\ op = x.op /\ x = NcclTask(op, k)
  BY <1>5, NcclTasks
<1>7. enqueued' = enqueued
  BY <1>4 DEF FinishOrProceed
<1>8. InStage(d, op, k) /\ MovedOn(d, k, sq) /\ Grouped(d, op, k)
  BY <1>5, <1>6
<1>9. /\ Orders' /\ op \in Stages(d, TensorOf(k))
      /\ Rounds(d, op, k, 1, Bit(Holds(sq, d, op, k)))
  BY <1>1, <1>7, <1>8, Passes
<1>10. ~Holds(sq, d, op, k)
  BY <1>1, <1>8 DEF Once, QueueType
<1>11. Bit(Holds(sq, d, op, k)) = 0
  BY <1>10 DEF Bit
<1>12. Move(d, op, k, 1, 0)
  BY <1>9, <1>11 DEF Move
<1> QED BY <1>2, <1>6, <1>8, <1>12

\* A task goes on from a call of the root.
LEMMA MovesFromCall ==
    ASSUME IInv, Orders, machine' = machine, NEW op \in Calls, NEW k \in Keys, Return(op, k),
           UNCHANGED ncclVars, NEW d \in Devices, d = Root
    PROVE  InStage(d, op, k) /\ Move(d, op, k, 1, 0) /\ Took(d, op, k)
<1>1. TaskTyped /\ NcclTyped /\ Once(d) /\ \A t \in Tensors : Progress(d, t)
  BY DEF IInv, TasksKept, Kept
<1>2. Groups(d)' = Groups(d)
  BY DEF Groups, ncclVars
<1>3. /\ k \in calls[op] /\ calls' = [calls EXCEPT ![op] = @ \ {k}]
      /\ FinishOrProceed(d, k, sq)
  BY DEF Return
<1>4. InStage(d, op, k) /\ MovedOn(d, k, sq)
  BY <1>1, <1>2, <1>3, ProceedsFromCall
<1>5. enqueued' = enqueued
  BY <1>3 DEF FinishOrProceed
<1>6. /\ Orders' /\ op \in Stages(d, TensorOf(k))
      /\ Rounds(d, op, k, 1, Bit(Holds(sq, d, op, k)))
  BY <1>1, <1>4, <1>5, Passes
<1>7. ~Holds(sq, d, op, k)
  BY <1>1, <1>3 DEF Once, QueueType, Called
<1>8. Bit(Holds(sq, d, op, k)) = 0
  BY <1>7 DEF Bit
<1> QED BY <1>4, <1>6, <1>7, <1>8 DEF Move, Took

\* The lists of stages stay.
LEMMA OrdersStay ==
    ASSUME Orders, machine' = machine, queue_list' = queue_list
    PROVE  Orders'
<1>1. Devices' = Devices
  BY SameMachine
<1>2. \A e, t, s : EndOfList(s, e, t)' <=> EndOfList(s', e, t)
  BY SameStages DEF EndOfList, Run, Holding
<1> QED BY <1>1, <1>2 DEF Orders, Ordered

\* A task is taken from its queue.
LEMMA MovesOut ==
    ASSUME IInv, Orders, machine' = machine, NEW d \in Devices, NEW op \in QueueType,
           NEW k \in Keys, k \in Range(sq[d][op]), sq' = Taken(d, op, k),
           queue_list' = queue_list, enqueued' = enqueued
    PROVE  InStage(d, op, k) /\ Move(d, op, k, 0, 1)
<1>1. TaskTyped /\ Once(d)
  BY DEF IInv, TasksKept, Kept
<1>2. InStage(d, op, k) /\ Holds(sq, d, op, k)
  BY <1>1 DEF Once, Holds
<1>3. /\ \A e \in Devices : e # d => sq'[e] = sq[e]
      /\ \A o \in QueueType : o # op => sq'[d][o] = sq[d][o]
      /\ Range(sq'[d][op]) = Range(sq[d][op]) \ {k}
  <2>1. sq \in Queues /\ IsInjective(sq[d][op])
    BY <1>1 DEF TaskTyped, Once
  <2> QED BY <2>1, TakenFacts
<1>4. Orders' /\ op \in Stages(d, TensorOf(k)) /\ op \in Left(d, k)
  BY <1>1, <1>2, OrdersStay, Numbers
<1>5. \A e, j, o : /\ Done(e, o, j)' = Done(e, o, j)
                   /\ InStage(e, o, j)' <=> InStage(e, o, j)
  <2>1. \A e, j : Left(e, j)' = Left(e, j) /\ Step(e, j)' = Step(e, j)
    BY DEF Left, Step, Holding
  <2> QED BY <2>1 DEF Done, InStage, Bit
<1>6. ASSUME NEW e \in Devices, NEW j \in Keys, NEW o \in QueueType
      PROVE  Holds(sq, e, o, j)' <=> Holds(sq, e, o, j) /\ ~(e = d /\ o = op /\ j = k)
  BY <1>3 DEF Holds
<1>7. ASSUME NEW e \in Devices, NEW j \in Keys, NEW o \in Stages(e, TensorOf(j))
      PROVE  IF e = d /\ o = op /\ j = k
             THEN /\ Done(e, o, j)' = Done(e, o, j) + 0
                  /\ Used(e, o, j)' = Used(e, o, j) + 1
             ELSE Done(e, o, j)' = Done(e, o, j) /\ Used(e, o, j)' = Used(e, o, j)
  <2>1. o \in QueueType /\ Done(e, o, j) \in Int
    BY <1>1, HasStage, Numbers
  <2>2. CASE e = d /\ o = op /\ j = k
    <3>1. Took(d, op, k)' /\ ~Took(d, op, k)
      BY <1>2, <1>5, <1>6 DEF Took
    <3> QED BY <1>5, <2>1, <2>2, <3>1 DEF Used, Bit
  <2>3. CASE ~(e = d /\ o = op /\ j = k)
    <3>1. Took(e, o, j)' <=> Took(e, o, j)
      BY <1>5, <1>6, <2>1, <2>3 DEF Took
    <3> QED BY <1>5, <2>3, <3>1 DEF Used, Bit
  <2> QED BY <2>2, <2>3
<1>8. Rounds(d, op, k, 0, 1)
  BY <1>7 DEF Rounds
<1> QED BY <1>2, <1>4, <1>8 DEF Move

\* No task moves.
LEMMA NoneMoves ==
    ASSUME Orders, machine' = machine, queue_list' = queue_list, sq' = sq, enqueued' = enqueued
    PROVE  Still
<1>1. \A e, j : Left(e, j)' = Left(e, j) /\ Step(e, j)' = Step(e, j)
  BY DEF Left, Step, Holding
<1>2. \A e, j, o : Took(e, o, j)' <=> Took(e, o, j)
  BY DEF Took, InStage, Holds
<1>3. \A e, j, o : Done(e, o, j)' = Done(e, o, j) /\ Used(e, o, j)' = Used(e, o, j)
  BY <1>1, <1>2 DEF Done, Used, Bit
<1> QED BY <1>3, OrdersStay DEF Still, NoRounds

\* The framework enqueues a tensor: its tasks begin a new step.
LEMMA EnqueuesRounds ==
    ASSUME IInv, IInv', Orders, machine' = machine, NEW d \in Devices, NEW t \in Tensors,
           EnqueueTensor(d, t)
    PROVE  Still
<1>1. TaskTyped /\ (\A e \in Devices : Once(e)) /\ Progress(d, t)
  BY DEF IInv, TasksKept, Kept
<1>2. \A e \in Devices : Once(e)'
  BY SameMachine DEF IInv, TasksKept, Kept
<1>3. /\ \A k \in Keys : TensorOf(k) \in Tensors /\ k \in Range(KeyList[TensorOf(k)])
      /\ \A k \in Range(KeyList[t]) : k \in Keys /\ TensorOf(k) = t
  BY KeyFacts
<1>4. /\ enqueued[d][t] = step_cnt[d][t]
      /\ enqueued' = [enqueued EXCEPT ![d][t] = @ + 1]
      /\ queue_list' = [queue_list EXCEPT ![d] = [k \in Keys |->
                           IF k \in Range(KeyList[t]) THEN QueueList(d, t) ELSE @[k]]]
      /\ nccl_tasks' = nccl_tasks /\ nccl_pipeline' = nccl_pipeline /\ calls' = calls
  BY DEF EnqueueTensor, ncclVars
<1>5. enqueued[d][t] \in Nat /\ step_cnt[d][t] \in Nat
  BY <1>1 DEF TaskTyped
<1>6. Finished(d, t) = Range(KeyList[t])
  BY <1>1, <1>4, <1>5 DEF Progress
<1>7. \A k \in Range(KeyList[t]) : queue_list[d][k] = <<>>
  BY <1>6 DEF Finished
<1>8. \A e \in Devices, k \in Keys :
         /\ queue_list'[e][k] = IF e = d /\ TensorOf(k) = t THEN QueueList(d, t)
                                ELSE queue_list[e][k]
         /\ Step(e, k)' = IF e = d /\ TensorOf(k) = t THEN Step(e, k) + 1 ELSE Step(e, k)
  <2>1. \A k \in Keys : k \in Range(KeyList[t]) <=> TensorOf(k) = t
    BY <1>3
  <2>2. queue_list \in [Devices -> [Keys -> Seq(QueueType)]] /\ enqueued \in [Devices -> [Tensors -> Nat]]
    BY <1>1 DEF TaskTyped
  <2>3. \A e \in Devices, k \in Keys :
           queue_list'[e][k] = IF e = d /\ k \in Range(KeyList[t]) THEN QueueList(d, t)
                               ELSE queue_list[e][k]
    BY <1>4, <2>2
  <2>4. \A e \in Devices, u \in Tensors :
           enqueued'[e][u] = IF e = d /\ u = t THEN enqueued[e][u] + 1 ELSE enqueued[e][u]
    BY <1>4, <2>2
  <2> QED BY <1>3, <2>1, <2>3, <2>4 DEF Step
<1>9. \A e, u : Stages(e, u)' = Stages(e, u) /\ Stages(e, u) \subseteq QueueType
  BY SameStages, HasStage
<1>10. Orders'
  <2>1. ASSUME NEW e \in Devices, NEW k \in Keys
        PROVE  EndOfList(queue_list'[e][k], e, TensorOf(k))
    <3>1. CASE e = d /\ TensorOf(k) = t
      BY <1>8, <3>1, WholeList
    <3>2. CASE ~(e = d /\ TensorOf(k) = t)
      <4>1. queue_list'[e][k] = queue_list[e][k]
        BY <1>8, <3>2
      <4> QED BY <4>1 DEF Orders, Ordered
    <3> QED BY <3>1, <3>2
  <2>2. \A e, u, s : EndOfList(s, e, u)' <=> EndOfList(s', e, u)
    BY <1>9 DEF EndOfList, Run, Holding
  <2> QED BY <2>1, <2>2, SameMachine DEF Orders, Ordered
<1>11. ASSUME NEW e \in Devices, NEW k \in Keys, NEW o \in QueueType
       PROVE  Took(e, o, k)' <=> Took(e, o, k)
  <2>1. Took(e, o, k) <=> Grouped(e, o, k) \/ Called(e, o, k)
    BY <1>1, TookIs
  <2>2. Took(e, o, k)' <=> Grouped(e, o, k)' \/ Called(e, o, k)'
    BY <1>2 DEF Once, Took
  <2>3. Groups(e)' = Groups(e)
    BY <1>4 DEF Groups
  <2>4. (Grouped(e, o, k)' <=> Grouped(e, o, k)) /\ (Called(e, o, k)' <=> Called(e, o, k))
    BY <1>4, <2>3, SameMachine DEF Grouped, Called
  <2> QED BY <2>1, <2>2, <2>4
<1>12. ASSUME NEW e \in Devices, NEW k \in Keys, NEW o \in Stages(e, TensorOf(k))
       PROVE  Done(e, o, k)' = Done(e, o, k)
  <2>1. Left(e, k)' = Holding(queue_list'[e][k]) /\ Left(e, k) = Holding(queue_list[e][k])
    BY DEF Left, Holding
  <2>2. Step(e, k) \in Nat
    BY <1>1, Numbers
  <2>3. CASE e = d /\ TensorOf(k) = t
    <3>1. o \in Left(e, k)'
      BY <1>8, <2>1, <2>3 DEF Stages
    <3>2. o \notin Left(e, k)
      <4>1. queue_list[d][k] = <<>>
        BY <1>3, <1>7, <2>3
      <4> QED BY <2>1, <2>3, <4>1, NothingLeft
    <3> QED BY <1>8, <2>2, <2>3, <3>1, <3>2 DEF Done, Bit
  <2>4. CASE ~(e = d /\ TensorOf(k) = t)
    BY <1>8, <2>1, <2>4 DEF Done, Bit
  <2> QED BY <2>3, <2>4
<1>13. NoRounds
  <2>1. ASSUME NEW e \in Devices, NEW k \in Keys, NEW o \in Stages(e, TensorOf(k))
        PROVE  Used(e, o, k)' = Used(e, o, k)
    <3>1. o \in QueueType
      BY <1>9
    <3>2. Took(e, o, k)' <=> Took(e, o, k)
      BY <1>11, <3>1
    <3>3. Done(e, o, k)' = Done(e, o, k)
      BY <1>12
    <3> QED BY <3>2, <3>3 DEF Used, Bit
  <2> QED BY <1>12, <2>1 DEF NoRounds
<1> QED BY <1>10, <1>13 DEF Still

-----------------------------------------------------------------------------
(* Signals.                                                                *)

\* A table is used on this machine; the stage whose end is a signal to it, and
\* the stage whose loop clears its count.
Active(T) ==
    CASE T \in {"REDUCE", "BROADCAST"} -> TRUE
      [] T = "PCIE_REDUCE" -> CrossPcie
      [] OTHER -> HostCopies

\* The stage at whose end a sender signals to a table.
SignalStage(T) ==
    CASE T = "REDUCE" -> "COORDINATE_REDUCE"
      [] T = "BROADCAST" -> "COORDINATE_BROADCAST"
      [] T = "PUSH" -> "COORDINATE_PUSH"
      [] OTHER -> T

\* The stage for which the counts of a table are used.
UseStage(T, k) == IF T = "PUSH" /\ HasCompressor(TensorOf(k)) THEN "COMPRESS" ELSE T

\* The devices that signal to table T of device d.
Senders(d, T) ==
    IF Active(T) /\ HasTable(d, T)
    THEN CASE T \in {"REDUCE", "BROADCAST"} -> Peers(d) \ {d}
           [] T = "PCIE_REDUCE" -> {e \in Devices : ReducerRoot(e) = d} \ {d}
           [] T = "PUSH" -> Devices \ {Root}
           [] OTHER -> {Root}
    ELSE {}

\* The signals of e to table T: one for a round, once its loop has sent it.
Owes(e, op, k) == op \in Coordinates /\ owed[e][op] = k

\* The signals of e to table T: one for a round, once its loop has sent it.
Signalled(e, T, k) == Done(e, SignalStage(T), k) - Bit(Owes(e, SignalStage(T), k))

\* The senders whose signal the device has not used.
Outstanding(d, T, k) ==
    {e \in Senders(d, T) : Used(d, UseStage(T, k), k) < Signalled(e, T, k)}

\* The count that the compressor has put back for the push.
Restored(d, T, k) ==
    IF /\ T = "PUSH" /\ d = Root /\ HasCompressor(TensorOf(k))
       /\ Used(d, "PUSH", k) < Done(d, "COMPRESS", k)
    THEN machine.local_size - 1 ELSE 0

\* A device uses no signal that was not sent, and keeps the others in its table
\* or on their way.
Lower(d, T, k) == \A e \in Senders(d, T) : Used(d, UseStage(T, k), k) <= Signalled(e, T, k)

\* The signals that are outstanding are in the table or on their way.
Count(d, T, k) ==
    ready_table[d][T][k] + signals[d][T][k] =
        Cardinality(Outstanding(d, T, k)) + Restored(d, T, k)

\* All tables of all devices.
Lowers == \A d \in Devices, T \in Tables, k \in Keys : Lower(d, T, k)
CountsKept == \A d \in Devices, T \in Tables, k \in Keys : Count(d, T, k)

\* A signal that is owed is one of a stage that the task has.
Owing ==
    \A d \in Devices, op \in Coordinates :
        owed[d][op] # NoKey => op \in Stages(d, TensorOf(owed[d][op]))

\* The signal root of a switch is ahead of the others by what it has told them.
Waits(p, op, k) == \E i \in 1..Len(nccl_msgs[p]) : nccl_msgs[p][i] = NcclTask(op, k)

\* No task is announced twice in the messages to a device.
ToldOnce(p) ==
    \A i, j \in 1..Len(nccl_msgs[p]) :
        nccl_msgs[p][i] = nccl_msgs[p][j] /\ nccl_msgs[p][i] # DoGroup => i = j

\* A device is behind its signal root by the tasks it waits to take.
Follows(r, p) ==
    /\ ToldOnce(p)
    /\ \A op \in {"REDUCE", "BROADCAST"}, k \in Keys :
          Used(r, op, k) = Used(p, op, k) + Bit(Waits(p, op, k))

\* All devices of all switches.
Followed ==
    \A r \in Devices : IsSignalRoot(r) => \A p \in Peers(r) \ {r} : Follows(r, p)

\* The stages of a table are stages of those who use it.
LEMMA TableStages ==
    ASSUME NEW d \in Devices, NEW T \in Tables, NEW k \in Keys, NEW e \in Senders(d, T),
           Root \in Devices
    PROVE  /\ e \in Devices /\ e # d /\ HasTable(d, T)
           /\ T \in Stages(d, TensorOf(k)) /\ UseStage(T, k) \in Stages(d, TensorOf(k))
           /\ SignalStage(T) \in Stages(e, TensorOf(k))
           /\ T \in {"REDUCE", "BROADCAST"} =>
                 IsSignalRoot(d) /\ ~IsSignalRoot(e) /\ e \in Peers(d)
           /\ T = "PCIE_REDUCE" => HostCopies /\ e # d /\ ReducerRoot(e) = d
           /\ T = "PUSH" => HostCopies /\ d = Root
           /\ T = "COPYH2D" => HostCopies /\ d # Root /\ e = Root
<1>1. Active(T) /\ HasTable(d, T)
  BY DEF Senders
<1>2. T \in {"REDUCE", "BROADCAST", "PCIE_REDUCE", "PUSH", "COPYH2D"}
  BY DEF Tables
<1>3. CASE T \in {"REDUCE", "BROADCAST"}
  <2>1. e \in Peers(d) \ {d} /\ IsSignalRoot(d)
    BY <1>1, <1>3 DEF Senders, HasTable
  <2>2. e \in Peers(e) /\ e \in Devices
    BY <2>1 DEF Peers
  <2>3. ~IsSignalRoot(e)
    BY <2>1, <2>2, OneRoot
  <2>4. SignalStage(T) \in {"COORDINATE_REDUCE", "COORDINATE_BROADCAST"} /\ UseStage(T, k) = T
    BY <1>3 DEF SignalStage, UseStage
  <2> QED BY <1>1, <1>3, <2>1, <2>2, <2>3, <2>4, HasStage
<1>4. CASE T = "PCIE_REDUCE"
  <2>1. e \in Devices /\ e # d /\ ReducerRoot(e) = d /\ CrossPcie
    BY <1>1, <1>4 DEF Senders, Active
  <2>2. SignalStage(T) = T /\ UseStage(T, k) = T
    BY <1>4 DEF SignalStage, UseStage
  <2> QED BY <1>1, <1>4, <2>1, <2>2, HasStage
<1>5. CASE T = "PUSH"
  <2>1. e \in Devices /\ e # Root /\ HostCopies /\ d = Root
    BY <1>1, <1>5 DEF Senders, Active, HasTable
  <2>2. SignalStage(T) = "COORDINATE_PUSH"
    BY <1>5 DEF SignalStage
  <2>3. UseStage(T, k) = IF HasCompressor(TensorOf(k)) THEN "COMPRESS" ELSE "PUSH"
    BY <1>5 DEF UseStage
  <2> QED BY <1>1, <1>5, <2>1, <2>2, <2>3, HasStage
<1>6. CASE T = "COPYH2D"
  <2>1. e = Root /\ HostCopies /\ d # Root
    BY <1>1, <1>6 DEF Senders, Active, HasTable
  <2>2. SignalStage(T) = T /\ UseStage(T, k) = T
    BY <1>6 DEF SignalStage, UseStage
  <2> QED BY <1>1, <1>6, <2>1, <2>2, HasStage
<1> QED BY <1>2, <1>3, <1>4, <1>5, <1>6

\* The signals sent are at most the rounds done.
LEMMA SignalNumbers ==
    ASSUME TaskTyped, Orders, NEW e \in Devices, NEW T, NEW k \in Keys
    PROVE  /\ Signalled(e, T, k) \in Int
           /\ Signalled(e, T, k) <= Done(e, SignalStage(T), k)
           /\ T \in {"PCIE_REDUCE", "COPYH2D"} => Signalled(e, T, k) = Done(e, T, k)
<1>1. Done(e, SignalStage(T), k) \in Int
  BY Numbers
<1>2. T \in {"PCIE_REDUCE", "COPYH2D"} => SignalStage(T) = T /\ ~Owes(e, T, k)
  BY DEF SignalStage, Owes, Coordinates, Coordinated
<1> QED BY <1>1, <1>2 DEF Signalled, Bit

\* No sender is more than a round ahead of the device, or, at the stage of the
\* signal, ahead at all: it waits for what the device does with the last one.
LEMMA Upper ==
    ASSUME TaskTyped, Orders, Lowers, Followed, NEW d \in Devices, NEW T \in Tables,
           NEW k \in Keys, NEW e \in Senders(d, T)
    PROVE  /\ Done(e, SignalStage(T), k) <= Used(d, UseStage(T, k), k) + 1
           /\ InStage(e, SignalStage(T), k) =>
                 Done(e, SignalStage(T), k) <= Used(d, UseStage(T, k), k)
           /\ T = "PUSH" => Done(e, SignalStage(T), k) <= Done(d, "PUSH", k) + 1
<1>1. Root \in Devices
  BY Geometry DEF TaskTyped
<1>2. /\ e \in Devices /\ e # d /\ HasTable(d, T)
      /\ T \in {"REDUCE", "BROADCAST"} =>
            IsSignalRoot(d) /\ ~IsSignalRoot(e) /\ e \in Peers(d)
      /\ T = "PCIE_REDUCE" => HostCopies /\ e # d /\ ReducerRoot(e) = d
      /\ T = "PUSH" => HostCopies /\ d = Root
      /\ T = "COPYH2D" => HostCopies /\ d # Root /\ e = Root
  BY <1>1, TableStages
<1>3. T \in {"REDUCE", "BROADCAST", "PCIE_REDUCE", "PUSH", "COPYH2D"}
  BY DEF Tables
<1> DEFINE t == TensorOf(k)
           P == UseStage("PUSH", k)
<1>4. \A f \in Devices : \A o : /\ Done(f, o, k) \in Int /\ Used(f, o, k) \in Int
                                /\ Done(f, o, k) <= Used(f, o, k)
  BY Numbers
<1>5. \A f \in Devices : \A a, b \in Stages(f, t) : Rank(a) < Rank(b) =>
         /\ Done(f, b, k) <= Done(f, a, k) /\ Done(f, a, k) <= Done(f, b, k) + 1
         /\ Used(f, b, k) <= Done(f, a, k)
         /\ InStage(f, a, k) => Done(f, a, k) = Done(f, b, k)
         /\ InStage(f, b, k) => Done(f, a, k) = Done(f, b, k) + 1
  BY InOrder
<1>6. CASE T = "REDUCE"
  <2>1. SignalStage(T) = "COORDINATE_REDUCE" /\ UseStage(T, k) = "REDUCE"
    BY <1>6 DEF SignalStage, UseStage
  <2>2. "COORDINATE_REDUCE" \in Stages(e, t) /\ "REDUCE" \in Stages(e, t)
    BY <1>2, <1>6, HasStage
  <2>3. Rank("COORDINATE_REDUCE") < Rank("REDUCE")
    BY Ranks
  <2>4. Follows(d, e)
    BY <1>2, <1>6 DEF Followed
  <2>5. Used(d, "REDUCE", k) = Used(e, "REDUCE", k) + Bit(Waits(e, "REDUCE", k))
    BY <2>4 DEF Follows
  <2> QED BY <1>2, <1>4, <1>5, <1>6, <2>1, <2>2, <2>3, <2>5 DEF Bit
<1>7. CASE T = "BROADCAST"
  <2>1. SignalStage(T) = "COORDINATE_BROADCAST" /\ UseStage(T, k) = "BROADCAST"
    BY <1>7 DEF SignalStage, UseStage
  <2>2. "COORDINATE_BROADCAST" \in Stages(e, t) /\ "BROADCAST" \in Stages(e, t)
    BY <1>2, <1>7, HasStage
  <2>3. Rank("COORDINATE_BROADCAST") < Rank("BROADCAST")
    BY Ranks
  <2>4. Follows(d, e)
    BY <1>2, <1>7 DEF Followed
  <2>5. Used(d, "BROADCAST", k) = Used(e, "BROADCAST", k) + Bit(Waits(e, "BROADCAST", k))
    BY <2>4 DEF Follows
  <2> QED BY <1>2, <1>4, <1>5, <1>7, <2>1, <2>2, <2>3, <2>5 DEF Bit
<1>8. CASE T \in {"PCIE_REDUCE", "PUSH", "COPYH2D"}
  <2>1. HostCopies
    BY <1>2, <1>8
  <2>2. P \in {"PUSH", "COMPRESS"} /\ P \in Stages(Root, t) /\ "PUSH" \in Stages(Root, t)
        /\ Rank(P) <= 7 /\ 6 <= Rank(P) /\ Rank(P) \in Int
    BY <1>1, <2>1, HasStage, Ranks DEF UseStage
  <2>3. "COPYH2D" \in Stages(Root, t) /\ Rank("COPYH2D") = 10 /\ Rank("PUSH") = 7
    BY <2>1, HasStage, Ranks
  <2>4. Done(Root, "COPYH2D", k) <= Done(Root, "PUSH", k)
    BY <1>1, <1>5, <2>2, <2>3
  <2>5. Done(Root, "PUSH", k) <= Used(Root, P, k)
    <3>1. CASE P = "PUSH"
      BY <1>1, <1>4, <3>1
    <3>2. CASE P = "COMPRESS"
      <4>1. Rank("COMPRESS") < Rank("PUSH")
        BY Ranks
      <4>2. Done(Root, "PUSH", k) <= Done(Root, "COMPRESS", k)
        BY <1>1, <1>5, <2>2, <3>2, <4>1
      <4> QED BY <1>1, <1>4, <3>2, <4>2
    <3> QED BY <2>2, <3>1, <3>2
  <2>6. ASSUME NEW p \in Devices, p # Root
        PROVE  /\ Done(p, "COPYH2D", k) <= Done(Root, "COPYH2D", k)
               /\ Used(Root, P, k) <= Done(p, "COORDINATE_PUSH", k)
    <3>1. "PUSH" \in Tables /\ "COPYH2D" \in Tables
      BY DEF Tables
    <3>2. Root \in Senders(p, "COPYH2D") /\ p \in Senders(Root, "PUSH")
      BY <2>1, <2>6 DEF Senders, Active, HasTable
    <3>3. Used(p, UseStage("COPYH2D", k), k) <= Signalled(Root, "COPYH2D", k)
      BY <3>1, <3>2 DEF Lowers, Lower
    <3>4. UseStage("COPYH2D", k) = "COPYH2D" /\ SignalStage("PUSH") = "COORDINATE_PUSH"
      BY DEF UseStage, SignalStage
    <3>5. Signalled(Root, "COPYH2D", k) = Done(Root, "COPYH2D", k)
      BY <1>1, SignalNumbers
    <3>6. Used(Root, P, k) <= Signalled(p, "PUSH", k)
      BY <1>1, <3>1, <3>2 DEF Lowers, Lower
    <3>7. Signalled(p, "PUSH", k) <= Done(p, "COORDINATE_PUSH", k) /\ Signalled(p, "PUSH", k) \in Int
      BY <3>4, SignalNumbers
    <3>8. Done(p, "COPYH2D", k) <= Done(Root, "COPYH2D", k)
      BY <1>1, <1>4, <3>3, <3>4, <3>5
    <3>9. Used(Root, P, k) <= Done(p, "COORDINATE_PUSH", k)
      BY <1>1, <1>4, <3>6, <3>7
    <3> QED BY <3>8, <3>9
  <2>7. \A p \in Devices : Done(p, "COPYH2D", k) <= Done(Root, "COPYH2D", k)
    BY <1>1, <1>4, <2>6
  <2>8. /\ \A p \in Devices : "COPYH2D" \in Stages(p, t)
        /\ \A p \in Devices : p # Root => "COORDINATE_PUSH" \in Stages(p, t)
        /\ Rank("COORDINATE_PUSH") = 5 /\ Rank("PCIE_REDUCE") = 4
    BY <2>1, HasStage, Ranks
  <2> HIDE DEF P
  <2>9. CASE T = "PUSH"
    <3>1. SignalStage(T) = "COORDINATE_PUSH" /\ UseStage(T, k) = P /\ d = Root /\ e # Root
      BY <1>2, <2>9 DEF SignalStage, P
    <3>2. /\ Done(e, "COORDINATE_PUSH", k) <= Done(e, "COPYH2D", k) + 1
          /\ InStage(e, "COORDINATE_PUSH", k) =>
                Done(e, "COORDINATE_PUSH", k) = Done(e, "COPYH2D", k)
      BY <1>2, <1>5, <2>3, <2>8, <3>1
    <3>3. Done(e, "COPYH2D", k) <= Done(Root, "PUSH", k)
      BY <1>1, <1>2, <1>4, <2>4, <2>7
    <3> QED BY <1>1, <1>2, <1>4, <2>5, <2>9, <3>1, <3>2, <3>3
  <2>10. CASE T = "COPYH2D"
    <3>1. SignalStage(T) = "COPYH2D" /\ UseStage(T, k) = "COPYH2D" /\ d # Root /\ e = Root
      BY <1>2, <2>10 DEF SignalStage, UseStage
    <3>2. /\ Done(d, "COORDINATE_PUSH", k) <= Done(d, "COPYH2D", k) + 1
      BY <1>5, <2>3, <2>8, <3>1
    <3>3. InStage(Root, "COPYH2D", k) => Done(Root, "PUSH", k) = Done(Root, "COPYH2D", k) + 1
      BY <1>1, <1>5, <2>2, <2>3
    <3>4. Used(Root, P, k) <= Done(d, "COORDINATE_PUSH", k)
      BY <2>6, <3>1
    <3>5. Done(Root, "PUSH", k) <= Used(d, "COPYH2D", k) + 1
      BY <1>1, <1>4, <2>5, <3>2, <3>4
    <3> QED BY <1>1, <1>4, <2>4, <2>10, <3>1, <3>3, <3>5
  <2>11. CASE T = "PCIE_REDUCE"
    <3>1. SignalStage(T) = T /\ UseStage(T, k) = T
      BY <2>11 DEF SignalStage, UseStage
    <3>2. T \in Stages(e, t) /\ T \in Stages(d, t)
      BY <1>1, <3>1, TableStages
    <3>3. /\ Done(e, T, k) <= Done(e, "COPYH2D", k) + 1
          /\ InStage(e, T, k) => Done(e, T, k) = Done(e, "COPYH2D", k)
      BY <1>2, <1>5, <2>3, <2>8, <2>11, <3>2
    <3>4. Done(e, "COPYH2D", k) <= Used(Root, P, k)
      BY <1>1, <1>2, <1>4, <2>4, <2>5, <2>7
    <3>5. Used(Root, P, k) <= Done(d, T, k)
      <4>1. CASE d = Root
        BY <1>1, <1>5, <2>2, <2>8, <2>11, <3>2, <4>1
      <4>2. CASE d # Root
        <5>1. Done(d, "COORDINATE_PUSH", k) <= Done(d, T, k)
          BY <1>5, <2>8, <2>11, <3>2, <4>2
        <5>2. Used(Root, P, k) <= Done(d, "COORDINATE_PUSH", k)
          BY <2>6, <4>2
        <5> QED BY <1>1, <1>4, <5>1, <5>2
      <4> QED BY <4>1, <4>2
    <3>6. Done(d, T, k) <= Used(d, T, k)
      BY <1>4
    <3> QED BY <1>1, <1>2, <1>4, <2>11, <3>1, <3>3, <3>4, <3>5, <3>6
  <2> QED BY <1>8, <2>9, <2>10, <2>11
<1> QED BY <1>3, <1>6, <1>7, <1>8

-----------------------------------------------------------------------------
(* The roots, and how many devices signal to them.                         *)

\* The quotient and the remainder of a division are unique.
LEMMA DivisionIs ==
    ASSUME NEW b \in Nat \ {0}, NEW q \in Nat, NEW r \in Nat, r < b
    PROVE  (q * b + r) \div b = q /\ (q * b + r) % b = r
<1>1. PICK x \in Nat : x = q * b
  <2>1. q * b \in Nat
    OBVIOUS
  <2> QED BY <2>1
<1>2. x + r \in Nat
  OBVIOUS
<1>3. PICK m \in Nat, n \in 0..b - 1 : m = (x + r) \div b /\ n = (x + r) % b /\ x + r = m * b + n
  <2>1. (x + r) \div b \in Nat /\ (x + r) % b \in 0..b - 1
        /\ x + r = ((x + r) \div b) * b + ((x + r) % b)
    BY <1>2, Division
  <2> QED BY <2>1, Zenon
<1>4. m = q
  <2>1. CASE m < q
    <3>1. PICK y \in Nat : q = m + 1 + y
      <4>1. q - m - 1 \in Nat /\ q = m + 1 + (q - m - 1)
        BY <2>1
      <4> QED BY <4>1
    <3>2. q * b = m * b + b + y * b /\ y * b \in Nat
      BY <3>1
    <3> QED BY <1>1, <1>3, <3>2
  <2>2. CASE m > q
    <3>1. PICK y \in Nat : m = q + 1 + y
      <4>1. m - q - 1 \in Nat /\ m = q + 1 + (m - q - 1)
        BY <2>2
      <4> QED BY <4>1
    <3>2. m * b = q * b + b + y * b /\ y * b \in Nat
      BY <3>1
    <3> QED BY <1>1, <1>3, <3>2
  <2> QED BY <2>1, <2>2
<1>5. n = r
  BY <1>1, <1>3, <1>4
<1> QED BY <1>1, <1>3, <1>4, <1>5

\* A device is what its switch and its slice say; a root is its own root.
LEMMA Places ==
    ASSUME machine \in Machines, NEW d \in Devices
    PROVE  /\ d = SwitchOf(d) * PcieSize + SliceOf(d)
           /\ SwitchOf(d) \in Nat /\ SliceOf(d) \in 0..PcieSize - 1
           /\ SwitchOf(SignalRoot(d)) = SwitchOf(d) /\ IsSignalRoot(SignalRoot(d))
           /\ SliceOf(ReducerRoot(d)) = SliceOf(d) /\ IsReducerRoot(ReducerRoot(d))
<1>1. PICK s \in Nat \ {0}, m \in Nat \ {0} : s = PcieSize /\ m = PcieNum
  BY Geometry
<1>2. d \in Nat
  BY Geometry DEF Devices
<1>3. PICK q \in Nat, r \in 0..s - 1 : q = d \div s /\ r = d % s /\ d = q * s + r
  <2>1. d \div s \in Nat /\ d % s \in 0..s - 1 /\ d = (d \div s) * s + (d % s)
    BY <1>2, Division
  <2> QED BY <2>1, Zenon
<1>4. SwitchOf(d) = q /\ SliceOf(d) = r
  BY <1>1, <1>3 DEF SwitchOf, SliceOf
<1>5. SwitchOf(SignalRoot(d)) = q
  <2>1. (q * s + (s - 1)) \div s = q
    <3>1. s - 1 \in Nat /\ s - 1 < s
      OBVIOUS
    <3> QED BY <3>1, DivisionIs
  <2>2. SignalRoot(d) = q * s + s - 1
    BY <1>1, <1>4 DEF SignalRoot
  <2>3. q * s + s - 1 = q * s + (s - 1)
    OBVIOUS
  <2> QED BY <1>1, <2>1, <2>2, <2>3 DEF SwitchOf
<1>6. SliceOf(ReducerRoot(d)) = r
  <2>1. ((m - 1) * s + r) % s = r
    <3>1. m - 1 \in Nat /\ r \in Nat /\ r < s
      OBVIOUS
    <3> QED BY <3>1, DivisionIs
  <2> QED BY <1>1, <1>4, <2>1 DEF ReducerRoot, SliceOf
<1>7. IsSignalRoot(SignalRoot(d)) /\ IsReducerRoot(ReducerRoot(d))
  BY <1>4, <1>5, <1>6 DEF IsSignalRoot, IsReducerRoot, SignalRoot, ReducerRoot
<1> QED BY <1>1, <1>3, <1>4, <1>5, <1>6, <1>7

\* A finite set of m elements, one of which is taken away.
LEMMA OneLess ==
    ASSUME NEW m \in Nat \ {0}, NEW x \in 0..m - 1
    PROVE  /\ IsFiniteSet((0..m - 1) \ {x}) /\ Cardinality((0..m - 1) \ {x}) = m - 1
           /\ Cardinality(0..m - 1) = m /\ IsFiniteSet(0..m - 1)
<1>1. IsFiniteSet(0..m - 1) /\ Cardinality(0..m - 1) = m
  <2>1. m - 1 \in Int /\ ~(0 > m - 1) /\ (m - 1) - 0 + 1 = m
    OBVIOUS
  <2>2. /\ IsFiniteSet(0..m - 1)
        /\ Cardinality(0..m - 1) = IF 0 > m - 1 THEN 0 ELSE (m - 1) - 0 + 1
    BY <2>1, FS_Interval
  <2> QED BY <2>1, <2>2
<1>2. PICK R : R = 0..m - 1
  OBVIOUS
<1>3. IsFiniteSet(R) /\ Cardinality(R) = m /\ x \in R
  BY <1>1, <1>2
<1>4. IsFiniteSet(R \ {x}) /\ Cardinality(R \ {x}) = Cardinality(R) - 1
  BY <1>3, FS_RemoveElement
<1> QED BY <1>1, <1>2, <1>3, <1>4

\* A set that is mapped into another one to one is not larger.
LEMMA Injected ==
    ASSUME NEW S, NEW T, IsFiniteSet(T), NEW f \in [S -> T],
           \A x, y \in S : f[x] = f[y] => x = y
    PROVE  IsFiniteSet(S) /\ Cardinality(S) <= Cardinality(T)
<1>1. f \in Injection(S, T)
  BY DEF Injection, IsInjective
<1> QED BY <1>1, FS_Injection

\* No more devices signal to a table than it waits for.
LEMMA SendersFew ==
    ASSUME machine \in Machines, NEW d \in Devices, NEW T \in Tables
    PROVE  /\ IsFiniteSet(Senders(d, T)) /\ Cardinality(Senders(d, T)) \in Nat
           /\ Cardinality(Senders(d, T)) <= ReadyCount(T) /\ ReadyCount(T) \in Nat
           /\ T = "PUSH" => ReadyCount(T) = machine.local_size - 1
<1>1. ReadyCount(T) \in Nat
  BY ReadyCounts
<1>2. machine.local_size \in Nat \ {0} /\ PcieSize \in Nat \ {0} /\ PcieNum \in Nat \ {0}
      /\ Root \in Devices
  BY Geometry
<1>3. IsFiniteSet(Senders(d, T)) /\ Cardinality(Senders(d, T)) <= ReadyCount(T)
  <2>1. CASE Senders(d, T) = {}
    BY <1>1, <2>1, FS_EmptySet
  <2>2. CASE Active(T) /\ HasTable(d, T) /\ T \in {"REDUCE", "BROADCAST"}
    <3>1. Senders(d, T) = Peers(d) \ {d} /\ ReadyCount(T) = PcieSize - 1
      BY <2>2 DEF Senders, ReadyCount
    <3>2. PICK R : R = Slices \ {SliceOf(d)}
      OBVIOUS
    <3>3. IsFiniteSet(R) /\ Cardinality(R) = PcieSize - 1
      BY <1>2, <3>2, OneLess, Places DEF Slices
    <3>4. PICK f : f = [p \in Senders(d, T) |-> SliceOf(p)]
      OBVIOUS
    <3>5. ASSUME NEW p \in Senders(d, T), NEW q \in Peers(d), SliceOf(p) = SliceOf(q) PROVE p = q
      <4>1. p \in Devices /\ q \in Devices /\ SwitchOf(p) = SwitchOf(q)
        BY <3>1 DEF Peers
      <4>2. p = SwitchOf(p) * PcieSize + SliceOf(p) /\ q = SwitchOf(q) * PcieSize + SliceOf(q)
        BY <4>1, Places
      <4> QED BY <3>5, <4>1, <4>2
    <3>6. \A p \in Senders(d, T) : SliceOf(p) \in R
      <4>1. d \in Peers(d)
        BY DEF Peers
      <4>2. \A p \in Senders(d, T) : p \in Devices /\ p # d
        BY <3>1 DEF Peers
      <4>3. \A p \in Senders(d, T) : SliceOf(p) \in Slices
        BY <4>2, OfDevice
      <4>4. \A p \in Senders(d, T) : SliceOf(p) # SliceOf(d)
        BY <3>5, <4>1, <4>2
      <4> QED BY <3>2, <4>3, <4>4
    <3>7. f \in [Senders(d, T) -> R] /\ \A x, y \in Senders(d, T) : f[x] = f[y] => x = y
      BY <3>1, <3>4, <3>5, <3>6
    <3>8. IsFiniteSet(Senders(d, T)) /\ Cardinality(Senders(d, T)) <= Cardinality(R)
      BY <3>3, <3>7, Injected
    <3> QED BY <3>1, <3>3, <3>8
  <2>3. CASE Active(T) /\ HasTable(d, T) /\ T = "PCIE_REDUCE"
    <3>1. /\ Senders(d, T) = {e \in Devices : ReducerRoot(e) = d} \ {d}
          /\ ReadyCount(T) = PcieNum - 1 /\ ReducerRoot(d) = d
      BY <2>3 DEF Senders, ReadyCount, HasTable, IsReducerRoot
    <3>2. PICK R : R = Switches \ {SwitchOf(d)}
      OBVIOUS
    <3>3. IsFiniteSet(R) /\ Cardinality(R) = PcieNum - 1
      <4>1. SwitchOf(d) \in 0..PcieNum - 1
        BY OfDevice DEF Switches
      <4> QED BY <1>2, <3>2, <4>1, OneLess DEF Switches
    <3>4. PICK f : f = [p \in Senders(d, T) |-> SwitchOf(p)]
      OBVIOUS
    <3>5. ASSUME NEW p \in Devices, NEW q \in Devices, ReducerRoot(p) = d, ReducerRoot(q) = d,
                 SwitchOf(p) = SwitchOf(q)
          PROVE  p = q
      <4>1. SliceOf(p) = SliceOf(d) /\ SliceOf(q) = SliceOf(d)
        BY <3>5, Places
      <4>2. p = SwitchOf(p) * PcieSize + SliceOf(p) /\ q = SwitchOf(q) * PcieSize + SliceOf(q)
        BY Places
      <4> QED BY <3>5, <4>1, <4>2
    <3>6. \A p \in Senders(d, T) : SwitchOf(p) \in R
      <4>1. \A p \in Senders(d, T) : p \in Devices /\ p # d /\ ReducerRoot(p) = d
        BY <3>1
      <4>2. \A p \in Senders(d, T) : SwitchOf(p) \in Switches
        BY <4>1, OfDevice
      <4>3. \A p \in Senders(d, T) : SwitchOf(p) # SwitchOf(d)
        BY <3>1, <3>5, <4>1
      <4> QED BY <3>2, <4>2, <4>3
    <3>7. f \in [Senders(d, T) -> R] /\ \A x, y \in Senders(d, T) : f[x] = f[y] => x = y
      BY <3>1, <3>4, <3>5, <3>6
    <3>8. IsFiniteSet(Senders(d, T)) /\ Cardinality(Senders(d, T)) <= Cardinality(R)
      BY <3>3, <3>7, Injected
    <3> QED BY <3>1, <3>3, <3>8
  <2>4. CASE Active(T) /\ HasTable(d, T) /\ T = "PUSH"
    <3>1. Senders(d, T) = Devices \ {Root} /\ ReadyCount(T) = machine.local_size - 1
      BY <2>4 DEF Senders, ReadyCount
    <3>2. IsFiniteSet(Devices \ {Root}) /\ Cardinality(Devices \ {Root}) = machine.local_size - 1
      <4>1. Root \in 0..machine.local_size - 1
        BY <1>2 DEF Devices
      <4> QED BY <1>2, <4>1, OneLess DEF Devices
    <3> QED BY <3>1, <3>2, <1>2
  <2>5. CASE Active(T) /\ HasTable(d, T) /\ T = "COPYH2D"
    <3>1. Senders(d, T) = {Root} /\ ReadyCount(T) = 1
      BY <2>5 DEF Senders, ReadyCount
    <3>2. IsFiniteSet({Root}) /\ Cardinality({Root}) = 1
      BY FS_Singleton, Zenon
    <3> QED BY <3>1, <3>2
  <2>6. T \in {"REDUCE", "BROADCAST", "PCIE_REDUCE", "PUSH", "COPYH2D"}
    BY DEF Tables
  <2>7. ~(Active(T) /\ HasTable(d, T)) => Senders(d, T) = {}
    BY DEF Senders
  <2> QED BY <2>1, <2>2, <2>3, <2>4, <2>5, <2>6, <2>7
<1>4. T = "PUSH" => ReadyCount(T) = machine.local_size - 1
  BY DEF ReadyCount
<1> QED BY <1>1, <1>3, <1>4, FS_CardinalityType

-----------------------------------------------------------------------------
(* What a step does to the signals of one key.                             *)

\* Who signals to whom depends on the machine only.
LEMMA SameSenders ==
    ASSUME machine' = machine, NEW d, NEW T, NEW k
    PROVE  /\ Senders(d, T)' = Senders(d, T) /\ UseStage(T, k)' = UseStage(T, k)
           /\ HasTable(d, T)' <=> HasTable(d, T)
           /\ ReadyCount(T)' = ReadyCount(T)
<1>1. /\ IsSignalRoot(d)' <=> IsSignalRoot(d)
      /\ IsReducerRoot(d)' <=> IsReducerRoot(d)
      /\ Peers(d)' = Peers(d) /\ Devices' = Devices /\ Root' = Root
      /\ PcieSize' = PcieSize /\ PcieNum' = PcieNum
  BY SameDevice, SameMachine
<1>2. /\ HostCopies' = HostCopies /\ CrossPcie' = CrossPcie
      /\ HasCompressor(TensorOf(k))' = HasCompressor(TensorOf(k))
  BY SameStages
<1>3. \A e : ReducerRoot(e)' = ReducerRoot(e)
  BY <1>1 DEF ReducerRoot, SliceOf
<1>4. HasTable(d, T)' <=> HasTable(d, T)
  BY <1>1 DEF HasTable
<1>5. Active(T)' <=> Active(T)
  BY <1>2 DEF Active
<1>6. Senders(d, T)' = Senders(d, T)
  BY <1>1, <1>3, <1>4, <1>5 DEF Senders
<1>7. UseStage(T, k)' = UseStage(T, k)
  BY <1>2 DEF UseStage
<1>8. ReadyCount(T)' = ReadyCount(T)
  BY <1>1 DEF ReadyCount
<1> QED BY <1>4, <1>6, <1>7, <1>8

\* The signals of a key after a step, in terms of the rounds after it.
LEMMA SignalsAfter ==
    ASSUME machine' = machine, NEW d, NEW T, NEW k, NEW u, u = UseStage(T, k)
    PROVE  /\ Lower(d, T, k)' <=> \A e \in Senders(d, T) : Used(d, u, k)' <= Signalled(e, T, k)'
           /\ Outstanding(d, T, k)' =
                 {e \in Senders(d, T) : Used(d, u, k)' < Signalled(e, T, k)'}
           /\ Restored(d, T, k)' =
                 IF /\ T = "PUSH" /\ d = Root /\ HasCompressor(TensorOf(k))
                    /\ Used(d, "PUSH", k)' < Done(d, "COMPRESS", k)'
                 THEN machine.local_size - 1 ELSE 0
           /\ Count(d, T, k)' <=>
                 ready_table'[d][T][k] + signals'[d][T][k] =
                    Cardinality(Outstanding(d, T, k)') + Restored(d, T, k)'
<1>1. Senders(d, T)' = Senders(d, T) /\ UseStage(T, k)' = u
  BY SameSenders
<1>2. Used(d, UseStage(T, k), k)' = Used(d, u, k)'
  BY <1>1 DEF Used, Done, Took, InStage, Holds
<1>4. Lower(d, T, k)' <=> \A e \in Senders(d, T) : Used(d, u, k)' <= Signalled(e, T, k)'
  BY <1>1, <1>2 DEF Lower
<1>5. Outstanding(d, T, k)' = {e \in Senders(d, T) : Used(d, u, k)' < Signalled(e, T, k)'}
  BY <1>1, <1>2 DEF Outstanding
<1>6. Restored(d, T, k)' =
         IF /\ T = "PUSH" /\ d = Root /\ HasCompressor(TensorOf(k))
            /\ Used(d, "PUSH", k)' < Done(d, "COMPRESS", k)'
         THEN machine.local_size - 1 ELSE 0
  BY SameMachine, SameStages DEF Restored
<1>7. Count(d, T, k)' <=>
         ready_table'[d][T][k] + signals'[d][T][k] =
            Cardinality(Outstanding(d, T, k)') + Restored(d, T, k)'
  BY DEF Count
<1> QED BY <1>4, <1>5, <1>6, <1>7

\* A sender that neither passes its stage nor pays a signal has sent the same.
LEMMA SignalledAfter ==
    ASSUME NEW e, NEW T, NEW k, NEW s, s = SignalStage(T), Done(e, s, k)' = Done(e, s, k),
           Owes(e, s, k)' <=> Owes(e, s, k)
    PROVE  Signalled(e, T, k)' = Signalled(e, T, k)
<1>1. Signalled(e, T, k) = Done(e, s, k) - Bit(Owes(e, s, k))
  BY DEF Signalled
<1>2. Signalled(e, T, k)' = Done(e, s, k)' - Bit(Owes(e, s, k)')
  BY DEF Signalled, SignalStage, Done, Bit, Owes
<1> QED BY <1>1, <1>2 DEF Bit

\* The signals of a key hold together.
Agreed(d, T, k) == Lower(d, T, k) /\ Count(d, T, k)

\* The signals of a key that a step leaves alone.
Steady(d, T, k) ==
    /\ \A e \in Senders(d, T) : \A u : u = UseStage(T, k) =>
          Used(d, u, k)' = Used(d, u, k) /\ Signalled(e, T, k)' = Signalled(e, T, k)
    /\ Restored(d, T, k)' = Restored(d, T, k)

\* Counts of which nothing changes still agree.
LEMMA AgreedStays ==
    ASSUME machine' = machine, NEW d, NEW T, NEW k, Agreed(d, T, k), Steady(d, T, k),
           ready_table'[d][T][k] + signals'[d][T][k] = ready_table[d][T][k] + signals[d][T][k]
    PROVE  Agreed(d, T, k)'
<1>1. PICK u : u = UseStage(T, k)
  OBVIOUS
<1>3. \A e \in Senders(d, T) :
         Used(d, u, k)' = Used(d, u, k) /\ Signalled(e, T, k)' = Signalled(e, T, k)
  BY <1>1 DEF Steady
<1>4. /\ Lower(d, T, k)' <=> \A e \in Senders(d, T) : Used(d, u, k)' <= Signalled(e, T, k)'
      /\ Outstanding(d, T, k)' = {e \in Senders(d, T) : Used(d, u, k)' < Signalled(e, T, k)'}
      /\ Count(d, T, k)' <=>
            ready_table'[d][T][k] + signals'[d][T][k] =
               Cardinality(Outstanding(d, T, k)') + Restored(d, T, k)'
  BY <1>1, SignalsAfter
<1>5. Lower(d, T, k)'
  BY <1>1, <1>3, <1>4 DEF Agreed, Lower
<1>6. Outstanding(d, T, k)' = Outstanding(d, T, k)
  BY <1>1, <1>3, <1>4 DEF Outstanding
<1>7. Count(d, T, k)'
  BY <1>4, <1>6 DEF Agreed, Count, Steady
<1> QED BY <1>5, <1>7 DEF Agreed

\* A sender signals: it was not ahead of the device before.
LEMMA AgreedSignal ==
    ASSUME TaskTyped, Orders, SignalTyped, machine' = machine, NEW d \in Devices,
           NEW T \in Tables, NEW k \in Keys, Agreed(d, T, k), NEW f \in Senders(d, T),
           NEW u, u = UseStage(T, k), Used(d, u, k)' = Used(d, u, k),
           \A e \in Senders(d, T) :
              Signalled(e, T, k)' = IF e = f THEN Signalled(e, T, k) + 1 ELSE Signalled(e, T, k),
           Signalled(f, T, k) <= Used(d, u, k), Restored(d, T, k)' = Restored(d, T, k),
           ready_table'[d][T][k] = ready_table[d][T][k],
           signals'[d][T][k] = signals[d][T][k] + 1
    PROVE  Agreed(d, T, k)'
<1>1. /\ Used(d, u, k) \in Int
      /\ \A e \in Senders(d, T) : Signalled(e, T, k) \in Int /\ Used(d, u, k) <= Signalled(e, T, k)
  <2>1. Root \in Devices
    BY Geometry DEF TaskTyped
  <2>2. \A e \in Senders(d, T) : e \in Devices
    BY <2>1, TableStages
  <2> QED BY <2>2, Numbers, SignalNumbers DEF Agreed, Lower
<1>3. /\ Lower(d, T, k)' <=> \A e \in Senders(d, T) : Used(d, u, k)' <= Signalled(e, T, k)'
      /\ Outstanding(d, T, k)' = {e \in Senders(d, T) : Used(d, u, k)' < Signalled(e, T, k)'}
      /\ Count(d, T, k)' <=>
            ready_table'[d][T][k] + signals'[d][T][k] =
               Cardinality(Outstanding(d, T, k)') + Restored(d, T, k)'
  BY SignalsAfter
<1>4. Lower(d, T, k)'
  BY <1>1, <1>3
<1>5. Outstanding(d, T, k)' = Outstanding(d, T, k) \cup {f} /\ f \notin Outstanding(d, T, k)
  BY <1>1, <1>3 DEF Outstanding
<1>6. IsFiniteSet(Outstanding(d, T, k))
  <2>1. IsFiniteSet(Senders(d, T)) /\ Outstanding(d, T, k) \subseteq Senders(d, T)
    BY SendersFew DEF TaskTyped, Outstanding
  <2> QED BY <2>1, FS_Subset
<1>7. /\ Cardinality(Outstanding(d, T, k)') = Cardinality(Outstanding(d, T, k)) + 1
      /\ Cardinality(Outstanding(d, T, k)) \in Nat
  BY <1>5, <1>6, FS_AddElement, FS_CardinalityType
<1>8. /\ ready_table[d][T][k] \in Int /\ signals[d][T][k] \in Int
      /\ Restored(d, T, k) \in Int
  BY Geometry DEF SignalTyped, Counts, Restored, TaskTyped
<1>9. Count(d, T, k)'
  BY <1>3, <1>7, <1>8 DEF Agreed, Count
<1> QED BY <1>4, <1>9 DEF Agreed

\* The full count of a table: every sender has signalled.
LEMMA AllSignalled ==
    ASSUME TaskTyped, SignalTyped, NEW d \in Devices, NEW T \in Tables, NEW k \in Keys,
           Agreed(d, T, k), ready_table[d][T][k] = ReadyCount(T), Restored(d, T, k) = 0
    PROVE  signals[d][T][k] = 0 /\ Outstanding(d, T, k) = Senders(d, T)
<1>1. /\ IsFiniteSet(Senders(d, T)) /\ Cardinality(Senders(d, T)) \in Nat
      /\ Cardinality(Senders(d, T)) <= ReadyCount(T) /\ ReadyCount(T) \in Nat
  BY SendersFew DEF TaskTyped
<1>2. PICK O \in SUBSET Senders(d, T) : O = Outstanding(d, T, k)
  BY DEF Outstanding
<1>3. /\ IsFiniteSet(O) /\ Cardinality(O) <= Cardinality(Senders(d, T))
      /\ Cardinality(Senders(d, T)) = Cardinality(O) => Senders(d, T) = O
  BY <1>1, FS_Subset
<1>4. Cardinality(O) \in Nat
  BY <1>3, FS_CardinalityType
<1>5. ReadyCount(T) + signals[d][T][k] = Cardinality(O) /\ signals[d][T][k] \in Nat
  BY <1>2, <1>4 DEF Agreed, Count, SignalTyped, Counts
<1> QED BY <1>1, <1>2, <1>3, <1>4, <1>5

\* A device uses the signals of all senders for its next round.
LEMMA AgreedUse ==
    ASSUME TaskTyped, Orders, SignalTyped, machine' = machine, NEW d \in Devices,
           NEW T \in Tables, NEW k \in Keys, Agreed(d, T, k),
           NEW u, u = UseStage(T, k), Used(d, u, k)' = Used(d, u, k) + 1,
           \A e \in Senders(d, T) : /\ Signalled(e, T, k)' = Signalled(e, T, k)
                                    /\ Signalled(e, T, k) <= Used(d, u, k) + 1,
           Restored(d, T, k) = 0, Restored(d, T, k)' = 0,
           ready_table[d][T][k] = ReadyCount(T), ready_table'[d][T][k] = 0,
           signals'[d][T][k] = signals[d][T][k]
    PROVE  Agreed(d, T, k)'
<1>1. /\ Used(d, u, k) \in Int
      /\ \A e \in Senders(d, T) : Signalled(e, T, k) \in Int
  <2>1. Root \in Devices
    BY Geometry DEF TaskTyped
  <2>2. \A e \in Senders(d, T) : e \in Devices
    BY <2>1, TableStages
  <2> QED BY <2>2, Numbers, SignalNumbers
<1>3. /\ Lower(d, T, k)' <=> \A e \in Senders(d, T) : Used(d, u, k)' <= Signalled(e, T, k)'
      /\ Outstanding(d, T, k)' = {e \in Senders(d, T) : Used(d, u, k)' < Signalled(e, T, k)'}
      /\ Count(d, T, k)' <=>
            ready_table'[d][T][k] + signals'[d][T][k] =
               Cardinality(Outstanding(d, T, k)') + Restored(d, T, k)'
  BY SignalsAfter
<1>4. signals[d][T][k] = 0 /\ Outstanding(d, T, k) = Senders(d, T)
  BY AllSignalled
<1>5. Lower(d, T, k)'
  BY <1>1, <1>3, <1>4 DEF Outstanding
<1>6. Outstanding(d, T, k)' = {}
  BY <1>1, <1>3
<1>7. Cardinality(Outstanding(d, T, k)') = 0
  BY <1>6, FS_EmptySet
<1>8. Count(d, T, k)'
  BY <1>3, <1>4, <1>7
<1> QED BY <1>5, <1>8 DEF Agreed

\* Which signals a move leaves alone.
LEMMA MoveSteady ==
    ASSUME TaskTyped, Orders, machine' = machine, NEW c \in Devices, NEW op, NEW j \in Keys,
           NEW a \in 0..1, NEW b \in 0..1, Rounds(c, op, j, a, b), NEW d \in Devices,
           NEW T \in Tables, NEW k \in Keys, NEW s, s = SignalStage(T),
           \A e \in Senders(d, T) : Owes(e, s, k)' <=> Owes(e, s, k),
           k = j /\ d = c /\ op = UseStage(T, k) => b = 0 \/ Senders(d, T) = {},
           k = j /\ op = s => a = 0 \/ c \notin Senders(d, T),
           k = j /\ c = Root /\ T = "PUSH" /\ HasCompressor(TensorOf(k)) =>
              (op = "PUSH" => b = 0) /\ (op = "COMPRESS" => a = 0)
    PROVE  Steady(d, T, k)
<1>1. PICK u : u = UseStage(T, k)
  OBVIOUS
<1>2. Root \in Devices
  BY Geometry DEF TaskTyped
<1>3. \A e \in Devices : \A o \in Stages(e, TensorOf(k)) :
         /\ Done(e, o, k) \in Int /\ Used(e, o, k) \in Int
         /\ Done(e, o, k)' = IF e = c /\ o = op /\ k = j THEN Done(e, o, k) + a ELSE Done(e, o, k)
         /\ Used(e, o, k)' = IF e = c /\ o = op /\ k = j THEN Used(e, o, k) + b ELSE Used(e, o, k)
  BY Numbers DEF Rounds
<1>4. ASSUME NEW e \in Senders(d, T)
      PROVE  Used(d, u, k)' = Used(d, u, k) /\ Signalled(e, T, k)' = Signalled(e, T, k)
  <2>1. e \in Devices /\ u \in Stages(d, TensorOf(k)) /\ s \in Stages(e, TensorOf(k))
    BY <1>1, <1>2, TableStages
  <2>2. Used(d, u, k)' = Used(d, u, k)
    BY <1>1, <1>3, <2>1
  <2>3. Done(e, s, k)' = Done(e, s, k)
    BY <1>3, <1>4, <2>1
  <2>4. Owes(e, s, k)' <=> Owes(e, s, k)
    BY <1>4
  <2>5. Signalled(e, T, k)' = Signalled(e, T, k)
    BY <2>3, <2>4, SignalledAfter
  <2> QED BY <2>2, <2>5
<1>5. Restored(d, T, k)' = Restored(d, T, k)
  <2>1. Restored(d, T, k)' =
           IF /\ T = "PUSH" /\ d = Root /\ HasCompressor(TensorOf(k))
              /\ Used(d, "PUSH", k)' < Done(d, "COMPRESS", k)'
           THEN machine.local_size - 1 ELSE 0
    BY <1>1, SignalsAfter
  <2>2. ASSUME T = "PUSH", d = Root, HasCompressor(TensorOf(k))
        PROVE  /\ Used(d, "PUSH", k)' = Used(d, "PUSH", k)
               /\ Done(d, "COMPRESS", k)' = Done(d, "COMPRESS", k)
    <3>1. "PUSH" \in Stages(d, TensorOf(k)) /\ "COMPRESS" \in Stages(d, TensorOf(k))
      BY <2>2, HasStage
    <3> QED BY <1>3, <2>2, <3>1
  <2> QED BY <2>1, <2>2 DEF Restored
<1> QED BY <1>1, <1>4, <1>5 DEF Steady

\* The compressor puts the count of the push back, which no signal has reached.
LEMMA AgreedRestore ==
    ASSUME TaskTyped, Orders, SignalTyped, Lowers, Followed, machine' = machine,
           NEW d \in Devices, d = Root, NEW k \in Keys, Agreed(d, "PUSH", k),
           Took(d, "COMPRESS", k), InStage(d, "COMPRESS", k), Rounds(d, "COMPRESS", k, 1, 0),
           owed' = owed, ready_table'[d]["PUSH"][k] = machine.local_size - 1,
           signals'[d]["PUSH"][k] = signals[d]["PUSH"][k]
    PROVE  Agreed(d, "PUSH", k)'
<1>1. PICK T \in Tables : T = "PUSH"
  BY DEF Tables
<1>2. "COMPRESS" \in Stages(d, TensorOf(k))
  BY Numbers
<1>3. HasCompressor(TensorOf(k)) /\ HostCopies /\ "PUSH" \in Stages(d, TensorOf(k))
  BY <1>2, HasStage
<1>4. UseStage(T, k) = "COMPRESS"
  BY <1>1, <1>3 DEF UseStage
<1>5. SignalStage(T) = "COORDINATE_PUSH"
  BY <1>1 DEF SignalStage
<1>6. /\ Done(d, "COMPRESS", k) \in Int /\ Used(d, "COMPRESS", k) \in Int
      /\ Done(d, "PUSH", k) \in Int /\ Used(d, "PUSH", k) \in Int
      /\ Used(d, "COMPRESS", k) = Done(d, "COMPRESS", k) + 1
  BY Numbers
<1>7. Done(d, "PUSH", k) = Done(d, "COMPRESS", k) /\ Used(d, "PUSH", k) <= Done(d, "COMPRESS", k)
  BY <1>2, <1>3, InOrder, Ranks
<1>8. \A e \in Senders(d, T) : /\ Signalled(e, T, k) \in Int
                               /\ Signalled(e, T, k) <= Used(d, "COMPRESS", k)
  <2>1. Root \in Devices
    BY Geometry DEF TaskTyped
  <2>2. \A e \in Senders(d, T) : e \in Devices /\ Done(e, "COORDINATE_PUSH", k) \in Int
    BY <2>1, TableStages, Numbers
  <2>3. \A e \in Senders(d, T) : Done(e, "COORDINATE_PUSH", k) <= Done(d, "PUSH", k) + 1
    BY <1>1, <1>5, Upper
  <2>4. \A e \in Senders(d, T) : Signalled(e, T, k) \in Int /\ Signalled(e, T, k) <= Done(e, "COORDINATE_PUSH", k)
    BY <1>5, <2>2, SignalNumbers
  <2> QED BY <1>4, <1>6, <1>7, <2>2, <2>3, <2>4
<1>9. Outstanding(d, T, k) = {} /\ Restored(d, T, k) = 0
  BY <1>4, <1>6, <1>7, <1>8, Numbers DEF Outstanding, Restored
<1>10. signals[d][T][k] = 0
  <2>1. Cardinality(Outstanding(d, T, k)) = 0
    BY <1>9, FS_EmptySet
  <2> QED BY <1>1, <1>9, <2>1 DEF Agreed, Count, SignalTyped, Counts
<1>11. /\ Used(d, "COMPRESS", k)' = Used(d, "COMPRESS", k)
       /\ Done(d, "COMPRESS", k)' = Done(d, "COMPRESS", k) + 1
       /\ Used(d, "PUSH", k)' = Used(d, "PUSH", k)
  BY <1>2, <1>3, <1>6 DEF Rounds
<1>12. /\ Lower(d, T, k)' <=> \A e \in Senders(d, T) : Used(d, "COMPRESS", k)' <= Signalled(e, T, k)'
       /\ Outstanding(d, T, k)' = {e \in Senders(d, T) : Used(d, "COMPRESS", k)' < Signalled(e, T, k)'}
       /\ Restored(d, T, k)' =
             IF /\ T = "PUSH" /\ d = Root /\ HasCompressor(TensorOf(k))
                /\ Used(d, "PUSH", k)' < Done(d, "COMPRESS", k)'
             THEN machine.local_size - 1 ELSE 0
       /\ Count(d, T, k)' <=>
             ready_table'[d][T][k] + signals'[d][T][k] =
                Cardinality(Outstanding(d, T, k)') + Restored(d, T, k)'
  BY <1>4, SignalsAfter
<1>13. \A e \in Senders(d, T) : Signalled(e, T, k)' = Signalled(e, T, k)
  <2>1. Root \in Devices
    BY Geometry DEF TaskTyped
  <2>2. \A e \in Senders(d, T) : e \in Devices /\ "COORDINATE_PUSH" \in Stages(e, TensorOf(k))
    BY <1>5, <2>1, TableStages
  <2>3. \A e \in Senders(d, T) : Done(e, "COORDINATE_PUSH", k)' = Done(e, "COORDINATE_PUSH", k)
    BY <2>2 DEF Rounds
  <2>4. \A e : Owes(e, "COORDINATE_PUSH", k)' <=> Owes(e, "COORDINATE_PUSH", k)
    BY DEF Owes
  <2> QED BY <1>5, <2>3, <2>4, SignalledAfter
<1>14. Lower(d, T, k)'
  BY <1>1, <1>4, <1>11, <1>12, <1>13 DEF Agreed, Lower
<1>15. Outstanding(d, T, k)' = {}
  BY <1>4, <1>6, <1>8, <1>11, <1>12, <1>13
<1>16. Restored(d, T, k)' = machine.local_size - 1
  BY <1>1, <1>3, <1>6, <1>7, <1>11, <1>12
<1>17. Count(d, T, k)'
  <2>1. Cardinality(Outstanding(d, T, k)') = 0
    BY <1>15, FS_EmptySet
  <2>2. machine.local_size \in Int
    BY Geometry DEF TaskTyped
  <2> QED BY <1>1, <1>10, <1>12, <1>16, <2>1, <2>2
<1> QED BY <1>1, <1>14, <1>17 DEF Agreed

\* The push uses the count that the compressor has put back.
LEMMA AgreedRestored ==
    ASSUME TaskTyped, Orders, SignalTyped, machine' = machine,
           NEW d \in Devices, d = Root, NEW k \in Keys, Agreed(d, "PUSH", k),
           HasCompressor(TensorOf(k)), InStage(d, "PUSH", k), Holds(sq, d, "PUSH", k),
           Rounds(d, "PUSH", k, 0, 1), owed' = owed,
           ready_table[d]["PUSH"][k] = machine.local_size - 1, ready_table'[d]["PUSH"][k] = 0,
           signals'[d]["PUSH"][k] = signals[d]["PUSH"][k]
    PROVE  Agreed(d, "PUSH", k)'
<1>1. PICK T \in Tables : T = "PUSH"
  BY DEF Tables
<1>2. "COMPRESS" \in Stages(d, TensorOf(k)) /\ "PUSH" \in Stages(d, TensorOf(k))
  BY HasStage
<1>3. UseStage(T, k) = "COMPRESS"
  BY <1>1 DEF UseStage
<1>4. SignalStage(T) = "COORDINATE_PUSH"
  BY <1>1 DEF SignalStage
<1>5. /\ Done(d, "COMPRESS", k) \in Int /\ Used(d, "COMPRESS", k) \in Int
      /\ Done(d, "PUSH", k) \in Int /\ Used(d, "PUSH", k) = Done(d, "PUSH", k)
  BY Numbers
<1>6. Done(d, "COMPRESS", k) = Done(d, "PUSH", k) + 1
  BY <1>2, InOrder, Ranks
<1>7. Restored(d, T, k) = machine.local_size - 1
  BY <1>1, <1>5, <1>6 DEF Restored
<1>8. /\ Used(d, "COMPRESS", k)' = Used(d, "COMPRESS", k)
      /\ Done(d, "COMPRESS", k)' = Done(d, "COMPRESS", k)
      /\ Used(d, "PUSH", k)' = Used(d, "PUSH", k) + 1
  BY <1>2, <1>5 DEF Rounds
<1>9. /\ Lower(d, T, k)' <=> \A e \in Senders(d, T) : Used(d, "COMPRESS", k)' <= Signalled(e, T, k)'
      /\ Outstanding(d, T, k)' = {e \in Senders(d, T) : Used(d, "COMPRESS", k)' < Signalled(e, T, k)'}
      /\ Restored(d, T, k)' =
            IF /\ T = "PUSH" /\ d = Root /\ HasCompressor(TensorOf(k))
               /\ Used(d, "PUSH", k)' < Done(d, "COMPRESS", k)'
            THEN machine.local_size - 1 ELSE 0
      /\ Count(d, T, k)' <=>
            ready_table'[d][T][k] + signals'[d][T][k] =
               Cardinality(Outstanding(d, T, k)') + Restored(d, T, k)'
  BY <1>3, SignalsAfter
<1>10. \A e \in Senders(d, T) : Signalled(e, T, k)' = Signalled(e, T, k)
  <2>1. Root \in Devices
    BY Geometry DEF TaskTyped
  <2>2. \A e \in Senders(d, T) : e \in Devices /\ "COORDINATE_PUSH" \in Stages(e, TensorOf(k))
    BY <1>4, <2>1, TableStages
  <2>3. \A e \in Senders(d, T) : Done(e, "COORDINATE_PUSH", k)' = Done(e, "COORDINATE_PUSH", k)
    BY <2>2 DEF Rounds
  <2>4. \A e : Owes(e, "COORDINATE_PUSH", k)' <=> Owes(e, "COORDINATE_PUSH", k)
    BY DEF Owes
  <2> QED BY <1>4, <2>3, <2>4, SignalledAfter
<1>11. Lower(d, T, k)'
  BY <1>1, <1>3, <1>8, <1>9, <1>10 DEF Agreed, Lower
<1>12. Outstanding(d, T, k)' = Outstanding(d, T, k)
  BY <1>3, <1>8, <1>9, <1>10 DEF Outstanding
<1>13. Restored(d, T, k)' = 0
  BY <1>5, <1>6, <1>8, <1>9
<1>14. Count(d, T, k)'
  <2>1. machine.local_size \in Int /\ signals[d][T][k] \in Int
    BY Geometry DEF TaskTyped, SignalTyped, Counts
  <2>2. Cardinality(Outstanding(d, T, k)) \in Int
    <3>1. IsFiniteSet(Senders(d, T)) /\ Outstanding(d, T, k) \subseteq Senders(d, T)
      BY SendersFew DEF TaskTyped, Outstanding
    <3> QED BY <3>1, FS_Subset, FS_CardinalityType
  <2> QED BY <1>1, <1>7, <1>9, <1>12, <1>13, <2>1, <2>2 DEF Agreed, Count
<1> QED BY <1>1, <1>11, <1>14 DEF Agreed

-----------------------------------------------------------------------------
(* What a step does to the signals of all keys.                            *)

\* The invariant of the signals.
SInv == Orders /\ Owing /\ Lowers /\ CountsKept /\ Followed

\* All tables after a step.
AllAgreed == \A d \in Devices, T \in Tables, k \in Keys : Agreed(d, T, k)'

\* The two parts of the invariant for one table of one device.
LEMMA AgreedNow ==
    ASSUME SInv, NEW d \in Devices, NEW T \in Tables, NEW k \in Keys
    PROVE  Agreed(d, T, k)
BY DEF SInv, Lowers, CountsKept, Agreed

\* Signals that are owed stay owed.
LEMMA OwingStays ==
    ASSUME Owing, machine' = machine, owed' = owed
    PROVE  Owing'
<1>1. Devices' = Devices
  BY SameMachine
<1>2. \A d, t : Stages(d, t)' = Stages(d, t)
  BY SameStages
<1>3. \A d \in Devices, op \in Coordinates :
         owed'[d][op] # NoKey => op \in Stages(d, TensorOf(owed'[d][op]))
  BY DEF Owing
<1> QED BY <1>1, <1>2, <1>3 DEF Owing

\* What a device has taken, and what it is told, stay.
LEMMA FollowedStays ==
    ASSUME Followed, machine' = machine, nccl_msgs' = nccl_msgs,
           \A e \in Devices, o \in {"REDUCE", "BROADCAST"}, j \in Keys :
              Used(e, o, j)' = Used(e, o, j)
    PROVE  Followed'
<1>1. Devices' = Devices /\ \A e : (IsSignalRoot(e)' <=> IsSignalRoot(e)) /\ Peers(e)' = Peers(e)
  BY SameMachine, SameDevice
<1>2. \A p : /\ ToldOnce(p)' <=> ToldOnce(p)
             /\ \A op, k : Waits(p, op, k)' <=> Waits(p, op, k)
  BY DEF ToldOnce, Waits
<1>3. ASSUME NEW r \in Devices, NEW p \in Devices, Follows(r, p) PROVE Follows(r, p)'
  BY <1>2, <1>3 DEF Follows, Bit
<1>4. \A r : Peers(r) \subseteq Devices
  BY DEF Peers
<1> QED BY <1>1, <1>3, <1>4 DEF Followed

\* The invariant in the next state, part by part.
LEMMA AgreedNext ==
    ASSUME machine' = machine, Orders', Owing', Followed', AllAgreed
    PROVE  SInv'
<1>1. Devices' = Devices
  BY SameMachine
<1>2. \A d \in Devices, T \in Tables, k \in Keys : Lower(d, T, k)' /\ Count(d, T, k)'
  BY DEF AllAgreed, Agreed
<1> QED BY <1>1, <1>2 DEF SInv, Lowers, CountsKept

\* A move of a task leaves the signals of key k to table T of d alone.
LEMMA AgreedElsewhere ==
    ASSUME TaskTyped, SInv, machine' = machine, NEW c \in Devices, NEW op, NEW j \in Keys,
           NEW a \in 0..1, NEW b \in 0..1, Rounds(c, op, j, a, b), NEW d \in Devices,
           NEW T \in Tables, NEW k \in Keys, owed' = owed,
           k = j /\ d = c /\ op = UseStage(T, k) => b = 0 \/ Senders(d, T) = {},
           k = j /\ op = SignalStage(T) => a = 0 \/ c \notin Senders(d, T),
           k = j /\ c = Root /\ T = "PUSH" /\ HasCompressor(TensorOf(k)) =>
              (op = "PUSH" => b = 0) /\ (op = "COMPRESS" => a = 0),
           ready_table'[d][T][k] + signals'[d][T][k] = ready_table[d][T][k] + signals[d][T][k]
    PROVE  Agreed(d, T, k)'
<1>1. PICK s : s = SignalStage(T)
  OBVIOUS
<1>2. \A e : Owes(e, s, k)' <=> Owes(e, s, k)
  BY DEF Owes
<1>3. Agreed(d, T, k) /\ Orders
  BY AgreedNow DEF SInv
<1>4. Steady(d, T, k)
  BY <1>1, <1>2, <1>3, MoveSteady
<1> QED BY <1>3, <1>4, AgreedStays

\* No task moves, no signal is sent.
LEMMA RoundsNone ==
    ASSUME NoRounds, NEW c \in Devices, NEW op, NEW j \in Keys, TaskTyped, Orders
    PROVE  Rounds(c, op, j, 0, 0)
<1>1. \A e \in Devices, i \in Keys : \A o \in Stages(e, TensorOf(i)) :
         Done(e, o, i) \in Int /\ Used(e, o, i) \in Int
  BY Numbers
<1> QED BY <1>1 DEF NoRounds, Rounds

\* A step that moves no task and keeps the sum of the counts.
LEMMA StillKeeps ==
    ASSUME IInv, SInv, machine' = machine, Still, owed' = owed, nccl_msgs' = nccl_msgs,
           \A d \in Devices, T \in Tables, k \in Keys :
              ready_table'[d][T][k] + signals'[d][T][k] = ready_table[d][T][k] + signals[d][T][k]
    PROVE  SInv'
<1>1. TaskTyped /\ Orders /\ Owing /\ Followed /\ Orders' /\ NoRounds
  BY DEF IInv, TasksKept, SInv, Still
<1>2. AllAgreed
  <2> SUFFICES ASSUME NEW d \in Devices, NEW T \in Tables, NEW k \in Keys
               PROVE  Agreed(d, T, k)'
    BY DEF AllAgreed
  <2>1. Rounds(d, "COPYD2H", k, 0, 0)
    BY <1>1, RoundsNone
  <2>2. 0 \in 0..1
    OBVIOUS
  <2> QED BY <1>1, <2>1, <2>2, AgreedElsewhere
<1>3. Owing'
  BY <1>1, OwingStays
<1>4. \A e \in Devices, o \in {"REDUCE", "BROADCAST"}, j \in Keys :
         Used(e, o, j)' = Used(e, o, j)
  BY <1>1, HasStage DEF NoRounds
<1>5. Followed'
  BY <1>1, <1>4, FollowedStays
<1> QED BY <1>1, <1>2, <1>3, <1>5, AgreedNext

\* A task moves; no device takes a task for NCCL.
LEMMA MoveKeeps ==
    ASSUME IInv, SInv, machine' = machine, NEW c \in Devices, NEW op, NEW j \in Keys,
           NEW a \in 0..1, NEW b \in 0..1, Move(c, op, j, a, b), owed' = owed,
           nccl_msgs' = nccl_msgs, op \in {"REDUCE", "BROADCAST"} => b = 0, AllAgreed
    PROVE  SInv'
<1>1. TaskTyped /\ Orders /\ Owing /\ Followed /\ Orders' /\ Rounds(c, op, j, a, b)
  BY DEF IInv, TasksKept, SInv, Move
<1>2. Owing'
  BY <1>1, OwingStays
<1>3. ASSUME NEW e \in Devices, NEW o \in {"REDUCE", "BROADCAST"}, NEW i \in Keys
      PROVE  Used(e, o, i)' = Used(e, o, i)
  <2>1. o \in Stages(e, TensorOf(i)) /\ Used(e, o, i) \in Int
    BY <1>1, HasStage, Numbers
  <2> QED BY <1>1, <2>1 DEF Rounds
<1>4. Followed'
  BY <1>1, <1>3, FollowedStays
<1> QED BY <1>1, <1>2, <1>4, AgreedNext

-----------------------------------------------------------------------------
(* Tables that are used, and signals that are sent.                        *)

\* The stages at which a table is used, and those at whose end a signal goes.
LEMMA StagesOf ==
    ASSUME NEW T \in Tables, NEW k
    PROVE  /\ UseStage(T, k) \in {"REDUCE", "BROADCAST", "PCIE_REDUCE", "COMPRESS", "PUSH", "COPYH2D"}
           /\ UseStage(T, k) = "COMPRESS" <=> T = "PUSH" /\ HasCompressor(TensorOf(k))
           /\ UseStage(T, k) = "PUSH" <=> T = "PUSH" /\ ~HasCompressor(TensorOf(k))
           /\ \A o \in {"REDUCE", "BROADCAST", "PCIE_REDUCE", "COPYH2D"} :
                 /\ UseStage(T, k) = o <=> T = o
           /\ SignalStage(T) \in Coordinates \cup {"PCIE_REDUCE", "COPYH2D"}
           /\ \A o \in {"PCIE_REDUCE", "COPYH2D"} : SignalStage(T) = o <=> T = o
           /\ \A o \in Coordinates : SignalStage(T) = o <=> T = Coordinated[o]
BY DEF Tables, UseStage, SignalStage, Coordinates, Coordinated

\* The counts of the tables after getTask.
LEMMA ClearedCounts ==
    ASSUME SignalTyped, NEW d \in Devices, NEW op, NEW k \in Keys, ClearReadyCount(d, op, k)
    PROVE  \A e \in Devices, T \in Tables, j \in Keys :
              ready_table'[e][T][j] =
                 IF HasTable(d, op) /\ e = d /\ T = TableOf(op) /\ j = k THEN 0
                 ELSE ready_table[e][T][j]
<1>1. CASE HasTable(d, op)
  <2>1. PICK T \in Tables : T = TableOf(op)
    BY <1>1 DEF HasTable, TableOf, Tables
  <2>2. PICK c \in Counts, n \in Nat : c = ready_table /\ n = 0
    BY DEF SignalTyped
  <2>3. LET a == [c EXCEPT ![d][T][k] = n] IN
        /\ a \in Counts
        /\ \A e \in Devices, y \in Tables, j \in Keys :
              a[e][y][j] = IF e = d /\ y = T /\ j = k THEN n ELSE c[e][y][j]
    BY Counted
  <2>4. ready_table' = [c EXCEPT ![d][T][k] = n]
    BY <1>1, <2>1, <2>2 DEF ClearReadyCount
  <2> QED BY <1>1, <2>1, <2>2, <2>3, <2>4
<1>2. CASE ~HasTable(d, op)
  BY <1>2 DEF ClearReadyCount
<1> QED BY <1>1, <1>2

\* The signals on their way after some were sent.
LEMMA SentCounts ==
    ASSUME SignalTyped, NEW R, NEW table \in Tables, NEW k \in Keys, Send(R, table, k)
    PROVE  \A e \in Devices, T \in Tables, j \in Keys :
              signals'[e][T][j] =
                 IF e \in R /\ T = table /\ j = k THEN signals[e][T][j] + 1 ELSE signals[e][T][j]
<1>1. \A e \in Devices : signals[e] \in [Tables -> [Keys -> Nat]]
  BY DEF SignalTyped, Counts
<1>2. \A e \in Devices : signals'[e] = IF e \in R THEN [signals[e] EXCEPT ![table][k] = @ + 1]
                                                 ELSE signals[e]
  BY DEF Send
<1>3. ASSUME NEW f \in [Tables -> [Keys -> Nat]], NEW T \in Tables, NEW j \in Keys
      PROVE  [f EXCEPT ![table][k] = @ + 1][T][j] =
                IF T = table /\ j = k THEN f[T][j] + 1 ELSE f[T][j]
  <2>1. \A y \in Tables : f[y] \in [Keys -> Nat]
    OBVIOUS
  <2>2. [f EXCEPT ![table][k] = @ + 1][T] =
           IF T = table THEN [f[T] EXCEPT ![k] = @ + 1] ELSE f[T]
    OBVIOUS
  <2> QED BY <2>1, <2>2
<1>4. ASSUME NEW e \in Devices, NEW T \in Tables, NEW j \in Keys
      PROVE  signals'[e][T][j] =
                IF e \in R /\ T = table /\ j = k THEN signals[e][T][j] + 1
                ELSE signals[e][T][j]
  <2>1. CASE e \in R
    <3>1. signals'[e] = [signals[e] EXCEPT ![table][k] = @ + 1]
      BY <1>2, <2>1
    <3> QED BY <1>1, <1>3, <2>1, <3>1
  <2>2. CASE e \notin R
    BY <1>2, <2>2
  <2> QED BY <2>1, <2>2
<1> QED BY <1>4

\* The table was full when its task was taken.
LEMMA GetsTask ==
    ASSUME NEW d, NEW op, NEW k, GetTask(d, op, k)
    PROVE  /\ k \in Range(sq[d][op]) /\ Holds(sq, d, op, k)
           /\ HasTable(d, op) => ready_table[d][TableOf(op)][k] = ReadyCount(TableOf(op))
BY DEF GetTask, Eligible, Range, Holds

\* What Upper says of the signals.
LEMMA Ahead ==
    ASSUME TaskTyped, SInv, NEW d \in Devices, NEW T \in Tables, NEW k \in Keys,
           NEW e \in Senders(d, T), NEW u, u = UseStage(T, k)
    PROVE  /\ e \in Devices /\ e # d
           /\ Used(d, u, k) \in Int /\ Signalled(e, T, k) \in Int
           /\ Used(d, u, k) <= Signalled(e, T, k) /\ Signalled(e, T, k) <= Used(d, u, k) + 1
<1>1. Orders /\ Lowers /\ Followed
  BY DEF SInv
<1>2. Root \in Devices
  BY Geometry DEF TaskTyped
<1>3. e \in Devices /\ e # d
  BY <1>2, TableStages
<1>4. Done(e, SignalStage(T), k) <= Used(d, u, k) + 1
  BY <1>1, Upper
<1>5. /\ Signalled(e, T, k) \in Int
      /\ Signalled(e, T, k) <= Done(e, SignalStage(T), k)
  BY <1>1, <1>3, SignalNumbers
<1>6. Used(d, u, k) \in Int /\ Done(e, SignalStage(T), k) \in Int
  BY <1>1, <1>3, Numbers
<1>7. Used(d, u, k) <= Signalled(e, T, k)
  BY <1>1 DEF Lowers, Lower
<1> QED BY <1>3, <1>4, <1>5, <1>6, <1>7

\* A device takes a task for the stage that uses table T.
LEMMA UsesTable ==
    ASSUME IInv, SInv, machine' = machine, NEW d \in Devices, NEW op, NEW k \in Keys,
           NEW T \in Tables, HasTable(d, op), T = TableOf(op), op = UseStage(T, k),
           GetTask(d, op, k), InStage(d, op, k), NEW a \in 0..1, op = "COMPRESS" => a = 0,
           Rounds(d, op, k, a, 1), ClearReadyCount(d, op, k), owed' = owed,
           signals'[d][T][k] = signals[d][T][k]
    PROVE  Agreed(d, T, k)'
<1>1. TaskTyped /\ SignalTyped /\ Orders /\ Agreed(d, T, k)
  BY AgreedNow DEF IInv, TasksKept, SInv
<1>2. ready_table[d][T][k] = ReadyCount(T) /\ ready_table'[d][T][k] = 0
  <2>1. ready_table[d][TableOf(op)][k] = ReadyCount(TableOf(op))
    BY GetsTask
  <2>2. ready_table'[d][T][k] = 0
    BY <1>1, ClearedCounts
  <2> QED BY <2>1, <2>2
<1>3. op \in Stages(d, TensorOf(k))
  BY <1>1, Numbers
<1>4. Used(d, op, k)' = Used(d, op, k) + 1
  BY <1>3 DEF Rounds
<1>5. ASSUME NEW e \in Senders(d, T)
      PROVE  Signalled(e, T, k)' = Signalled(e, T, k) /\ Signalled(e, T, k) <= Used(d, op, k) + 1
  <2>1. Root \in Devices
    BY <1>1, Geometry DEF TaskTyped
  <2>2. PICK s : s = SignalStage(T)
    OBVIOUS
  <2>3. e \in Devices /\ e # d /\ s \in Stages(e, TensorOf(k))
    BY <2>1, <2>2, TableStages
  <2>4. Done(e, s, k)' = Done(e, s, k)
    BY <2>3 DEF Rounds
  <2>5. Owes(e, s, k)' <=> Owes(e, s, k)
    BY DEF Owes
  <2>6. Signalled(e, T, k)' = Signalled(e, T, k)
    BY <2>2, <2>4, <2>5, SignalledAfter
  <2> QED BY <1>1, <2>6, Ahead
<1>6. Restored(d, T, k) = 0 /\ Restored(d, T, k)' = 0
  <2>1. Restored(d, T, k)' =
           IF /\ T = "PUSH" /\ d = Root /\ HasCompressor(TensorOf(k))
              /\ Used(d, "PUSH", k)' < Done(d, "COMPRESS", k)'
           THEN machine.local_size - 1 ELSE 0
    BY SignalsAfter
  <2>2. CASE T = "PUSH" /\ d = Root /\ HasCompressor(TensorOf(k))
    <3>1. op = "COMPRESS" /\ a = 0
      BY <2>2, StagesOf
    <3>2. "PUSH" \in Stages(d, TensorOf(k))
      BY <1>3, <2>2, <3>1, HasStage
    <3>3. Done(d, "COMPRESS", k) = Done(d, "PUSH", k)
      BY <1>1, <1>3, <3>1, <3>2, InOrder, Ranks
    <3>4. Used(d, "PUSH", k) \in Int /\ Done(d, "PUSH", k) <= Used(d, "PUSH", k)
          /\ Done(d, "PUSH", k) \in Int
      BY <1>1, Numbers
    <3>5. Done(d, "COMPRESS", k)' = Done(d, "COMPRESS", k) + 0
          /\ Used(d, "PUSH", k)' = Used(d, "PUSH", k)
      BY <1>3, <3>1, <3>2 DEF Rounds
    <3> QED BY <2>1, <3>3, <3>4, <3>5 DEF Restored
  <2> QED BY <2>1, <2>2 DEF Restored
<1> QED BY <1>1, <1>2, <1>4, <1>5, <1>6, AgreedUse

\* A task whose end is a signal goes on: the signal is sent.
LEMMA SignalsTable ==
    ASSUME IInv, SInv, machine' = machine, NEW f \in Devices, NEW op \in {"PCIE_REDUCE", "COPYH2D"},
           NEW k \in Keys, NEW d \in Devices, f \in Senders(d, op), InStage(f, op, k),
           NEW b \in 0..1, Rounds(f, op, k, 1, b), owed' = owed,
           ready_table'[d][op][k] = ready_table[d][op][k],
           signals'[d][op][k] = signals[d][op][k] + 1
    PROVE  Agreed(d, op, k)'
<1>1. PICK T \in Tables : T = op
  BY DEF Tables
<1>2. TaskTyped /\ SignalTyped /\ Orders /\ Lowers /\ Followed /\ Agreed(d, T, k)
      /\ Root \in Devices
  BY AgreedNow, Geometry DEF IInv, TasksKept, TaskTyped, SInv
<1>3. SignalStage(T) = op /\ UseStage(T, k) = op
  BY <1>1 DEF SignalStage, UseStage
<1>4. f # d /\ op \in Stages(d, TensorOf(k)) /\ op \in Stages(f, TensorOf(k))
  <2>1. f \in Senders(d, T)
    BY <1>1
  <2>2. f # d /\ T \in Stages(d, TensorOf(k)) /\ SignalStage(T) \in Stages(f, TensorOf(k))
    BY <1>2, <2>1, TableStages
  <2> QED BY <1>1, <1>3, <2>2, Zenon
<1>5. Used(d, op, k)' = Used(d, op, k)
  BY <1>4 DEF Rounds
<1>6. ASSUME NEW e \in Senders(d, T)
      PROVE  Signalled(e, T, k)' = IF e = f THEN Signalled(e, T, k) + 1 ELSE Signalled(e, T, k)
  <2>1. e \in Devices /\ op \in Stages(e, TensorOf(k))
    BY <1>2, <1>3, TableStages
  <2>2. ~Owes(e, op, k) /\ ~Owes(e, op, k)'
    BY DEF Owes, Coordinates, Coordinated
  <2>3. CASE e = f
    <3>1. Done(e, op, k)' = Done(e, op, k) + 1
      BY <2>1, <2>3 DEF Rounds
    <3>2. Signalled(e, T, k) = Done(e, op, k) /\ Done(e, op, k) \in Int
      BY <1>2, <1>3, <2>1, <2>2, Numbers DEF Signalled, Bit
    <3>3. Signalled(e, T, k)' = Done(e, op, k)' - Bit(Owes(e, op, k)')
      BY <1>3 DEF Signalled, SignalStage, Done, Bit, Owes
    <3>4. Bit(Owes(e, op, k)') = 0
      BY <2>2 DEF Bit
    <3> QED BY <2>3, <3>1, <3>2, <3>3, <3>4
  <2>4. CASE e # f
    <3>1. Done(e, op, k)' = Done(e, op, k)
      BY <2>1, <2>4 DEF Rounds
    <3>2. Signalled(e, T, k)' = Signalled(e, T, k)
      BY <1>3, <2>2, <3>1, SignalledAfter
    <3> QED BY <2>4, <3>2
  <2> QED BY <2>3, <2>4
<1>7. Signalled(f, T, k) <= Used(d, op, k)
  <2>1. Done(f, SignalStage(T), k) <= Used(d, UseStage(T, k), k)
    BY <1>1, <1>2, <1>3, Upper
  <2>2. Signalled(f, T, k) = Done(f, T, k)
    BY <1>1, <1>2, SignalNumbers
  <2> QED BY <1>1, <1>3, <2>1, <2>2
<1>8. Restored(d, T, k)' = Restored(d, T, k)
  <2>1. T # "PUSH"
    BY <1>1
  <2> QED BY <2>1 DEF Restored
<1>9. Agreed(d, T, k)'
  BY <1>1, <1>2, <1>3, <1>5, <1>6, <1>7, <1>8, AgreedSignal
<1> QED BY <1>1, <1>9 DEF Agreed

-----------------------------------------------------------------------------
(* The steps of the threads.                                               *)

\* A copy to the host is no signal.
LEMMA CopiesD2H ==
    ASSUME IInv, SInv, machine' = machine, NEW c \in Devices, CopyDevice2Host(c)
    PROVE  SInv'
<1>1. PICK j \in Keys : GetTask(c, "COPYD2H", j) /\ FinishOrProceed(c, j, Taken(c, "COPYD2H", j))
  BY DEF CopyDevice2Host
<1>2. /\ UNCHANGED <<nccl_tasks, nccl_pipeline, calls>> /\ nccl_msgs' = nccl_msgs
      /\ ready_table' = ready_table /\ signals' = signals /\ owed' = owed
  BY DEF CopyDevice2Host, ncclVars, signalVars
<1>3. TaskTyped /\ Orders /\ "COPYD2H" \in QueueType /\ 1 \in 0..1
  BY DEF IInv, TasksKept, SInv, QueueType
<1>4. Move(c, "COPYD2H", j, 1, 1)
  BY <1>1, <1>2, <1>3, GetsTask, MovesFromQueue
<1>5. ASSUME NEW d \in Devices, NEW T \in Tables, NEW k \in Keys
      PROVE  Agreed(d, T, k)'
  <2>1. UseStage(T, k) # "COPYD2H" /\ SignalStage(T) # "COPYD2H"
    BY StagesOf DEF Coordinates, Coordinated
  <2>2. Rounds(c, "COPYD2H", j, 1, 1)
    BY <1>4 DEF Move
  <2> QED BY <1>2, <1>3, <2>1, <2>2, AgreedElsewhere
<1>6. AllAgreed
  BY <1>5 DEF AllAgreed
<1> QED BY <1>2, <1>3, <1>4, <1>6, MoveKeeps

\* The sum over the switches: the root of the slice uses what the others tell it.
LEMMA ReducesPcie ==
    ASSUME IInv, SInv, machine' = machine, NEW c \in Devices, PcieReduce(c)
    PROVE  SInv'
<1>1. PICK op : op = "PCIE_REDUCE"
  OBVIOUS
<1>2. PICK j \in Keys :
         /\ GetTask(c, op, j) /\ ClearReadyCount(c, op, j)
         /\ FinishOrProceed(c, j, Taken(c, op, j))
         /\ IF IsReducerRoot(c) THEN signals' = signals ELSE Send({ReducerRoot(c)}, op, j)
  BY <1>1 DEF PcieReduce
<1>3. /\ UNCHANGED <<nccl_tasks, nccl_pipeline, calls>> /\ nccl_msgs' = nccl_msgs
      /\ owed' = owed
  BY DEF PcieReduce, ncclVars
<1>4. TaskTyped /\ Orders /\ SignalTyped /\ op \in QueueType /\ op \in Tables /\ 1 \in 0..1
      /\ machine \in Machines
  BY <1>1 DEF IInv, TasksKept, TaskTyped, SInv, QueueType, Tables
<1>5. InStage(c, op, j) /\ Move(c, op, j, 1, 1)
  BY <1>2, <1>3, <1>4, GetsTask, MovesFromQueue
<1>6. Rounds(c, op, j, 1, 1) /\ op \in Stages(c, TensorOf(j))
  BY <1>5 DEF Move
<1>7. /\ ReducerRoot(c) \in Devices /\ IsReducerRoot(ReducerRoot(c))
      /\ HasTable(c, op) <=> IsReducerRoot(c)
      /\ TableOf(op) = op /\ CrossPcie
  <2>1. ReducerRoot(c) \in Devices /\ IsReducerRoot(ReducerRoot(c))
    BY <1>4, OfDevice, Places
  <2>2. CrossPcie
    BY <1>1, <1>6, HasStage
  <2> QED BY <1>1, <2>1, <2>2 DEF HasTable, TableOf
<1>8. \A d \in Devices, T \in Tables, k \in Keys :
         ready_table'[d][T][k] = IF IsReducerRoot(c) /\ d = c /\ T = op /\ k = j THEN 0
                                 ELSE ready_table[d][T][k]
  BY <1>2, <1>4, <1>7, ClearedCounts
<1>9. \A d \in Devices, T \in Tables, k \in Keys :
         signals'[d][T][k] = IF ~IsReducerRoot(c) /\ d = ReducerRoot(c) /\ T = op /\ k = j
                             THEN signals[d][T][k] + 1 ELSE signals[d][T][k]
  <2>1. CASE IsReducerRoot(c)
    BY <1>2, <2>1
  <2>2. CASE ~IsReducerRoot(c)
    <3>1. PICK R : R = {ReducerRoot(c)}
      OBVIOUS
    <3>2. Send(R, op, j)
      BY <1>2, <2>2, <3>1
    <3>3. \A d \in Devices, T \in Tables, k \in Keys :
             signals'[d][T][k] = IF d \in R /\ T = op /\ k = j
                                 THEN signals[d][T][k] + 1 ELSE signals[d][T][k]
      BY <1>4, <3>2, SentCounts
    <3> QED BY <2>2, <3>1, <3>3
  <2> QED BY <2>1, <2>2
<1>10. \A k : UseStage(op, k) = op /\ SignalStage(op) = op
  BY <1>1 DEF UseStage, SignalStage
<1>11. \A d \in Devices : Senders(d, op) = IF IsReducerRoot(d)
                                           THEN {e \in Devices : ReducerRoot(e) = d} \ {d} ELSE {}
  BY <1>1, <1>7 DEF Senders, Active, HasTable
<1>12. ASSUME NEW d \in Devices, NEW T \in Tables, NEW k \in Keys
       PROVE  Agreed(d, T, k)'
  <2>1. CASE T = op /\ k = j /\ d = c /\ IsReducerRoot(c)
    <3>1. signals'[d][op][j] = signals[d][op][j]
      BY <1>4, <1>9, <2>1
    <3>2. HasTable(c, op) /\ op # "COMPRESS"
      BY <1>1, <1>7, <2>1
    <3>3. Agreed(c, op, j)'
      BY <1>2, <1>3, <1>4, <1>5, <1>6, <1>7, <1>10, <2>1, <3>1, <3>2, UsesTable
    <3> QED BY <2>1, <3>3 DEF Agreed
  <2>2. CASE T = op /\ k = j /\ d = ReducerRoot(c) /\ ~IsReducerRoot(c)
    <3>1. c # d /\ IsReducerRoot(d)
      BY <1>7, <2>2 DEF IsReducerRoot
    <3>2. c \in Senders(d, op)
      BY <1>11, <2>2, <3>1
    <3>3. /\ ready_table'[d][op][j] = ready_table[d][op][j]
          /\ signals'[d][op][j] = signals[d][op][j] + 1
      BY <1>4, <1>8, <1>9, <2>2
    <3>4. op \in {"PCIE_REDUCE", "COPYH2D"}
      BY <1>1
    <3>5. Agreed(d, op, j)'
      BY <1>3, <1>4, <1>5, <1>6, <3>2, <3>3, <3>4, SignalsTable
    <3> QED BY <2>2, <3>5 DEF Agreed
  <2>3. CASE ~(T = op /\ k = j /\ d = c /\ IsReducerRoot(c))
             /\ ~(T = op /\ k = j /\ d = ReducerRoot(c) /\ ~IsReducerRoot(c))
    <3>1. ready_table'[d][T][k] = ready_table[d][T][k] /\ signals'[d][T][k] = signals[d][T][k]
      BY <1>8, <1>9, <2>3
    <3>2. (UseStage(T, k) = op <=> T = op) /\ (SignalStage(T) = op <=> T = op)
      BY <1>1, StagesOf
    <3>3. k = j /\ d = c /\ op = UseStage(T, k) => Senders(d, T) = {}
      BY <1>11, <2>3, <3>2
    <3>4. k = j /\ op = SignalStage(T) => c \notin Senders(d, T)
      BY <1>11, <2>3, <3>2 DEF IsReducerRoot
    <3> QED BY <1>1, <1>3, <1>4, <1>6, <3>1, <3>3, <3>4, AgreedElsewhere
  <2> QED BY <2>1, <2>2, <2>3
<1>13. AllAgreed
  BY <1>12 DEF AllAgreed
<1>14. op \notin {"REDUCE", "BROADCAST"}
  BY <1>1
<1> QED BY <1>3, <1>4, <1>5, <1>13, <1>14, MoveKeeps

\* The copy to the device: the root tells the others, who wait for it.
LEMMA CopiesH2D ==
    ASSUME IInv, SInv, machine' = machine, NEW c \in Devices, CopyHost2Device(c)
    PROVE  SInv'
<1>1. PICK op : op = "COPYH2D"
  OBVIOUS
<1>2. PICK j \in Keys :
         /\ GetTask(c, op, j) /\ ClearReadyCount(c, op, j)
         /\ FinishOrProceed(c, j, Taken(c, op, j))
         /\ Send(IF c = Root THEN Devices \ {Root} ELSE {}, op, j)
  BY <1>1 DEF CopyHost2Device
<1>3. /\ UNCHANGED <<nccl_tasks, nccl_pipeline, calls>> /\ nccl_msgs' = nccl_msgs
      /\ owed' = owed
  BY DEF CopyHost2Device, ncclVars
<1>4. TaskTyped /\ Orders /\ SignalTyped /\ op \in QueueType /\ op \in Tables /\ 1 \in 0..1
      /\ Root \in Devices
  BY <1>1, Geometry DEF IInv, TasksKept, TaskTyped, SInv, QueueType, Tables
<1>5. InStage(c, op, j) /\ Move(c, op, j, 1, 1)
  BY <1>2, <1>3, <1>4, GetsTask, MovesFromQueue
<1>6. Rounds(c, op, j, 1, 1) /\ op \in Stages(c, TensorOf(j))
  BY <1>5 DEF Move
<1>7. (HasTable(c, op) <=> c # Root) /\ TableOf(op) = op /\ HostCopies
  <2>1. HostCopies
    BY <1>1, <1>6, HasStage
  <2> QED BY <1>1, <2>1 DEF HasTable, TableOf
<1>8. \A d \in Devices, T \in Tables, k \in Keys :
         ready_table'[d][T][k] = IF c # Root /\ d = c /\ T = op /\ k = j THEN 0
                                 ELSE ready_table[d][T][k]
  BY <1>2, <1>4, <1>7, ClearedCounts
<1>9. \A d \in Devices, T \in Tables, k \in Keys :
         signals'[d][T][k] = IF c = Root /\ d # Root /\ T = op /\ k = j
                             THEN signals[d][T][k] + 1 ELSE signals[d][T][k]
  <2>1. PICK R : R = IF c = Root THEN Devices \ {Root} ELSE {}
    OBVIOUS
  <2>2. \A d \in Devices, T \in Tables, k \in Keys :
           signals'[d][T][k] = IF d \in R /\ T = op /\ k = j
                               THEN signals[d][T][k] + 1 ELSE signals[d][T][k]
    <3>1. Send(R, op, j)
      BY <1>2, <2>1
    <3> QED BY <1>4, <3>1, SentCounts
  <2> QED BY <2>1, <2>2
<1>10. \A k : UseStage(op, k) = op /\ SignalStage(op) = op
  BY <1>1 DEF UseStage, SignalStage
<1>11. \A d \in Devices : Senders(d, op) = IF d # Root THEN {Root} ELSE {}
  BY <1>1, <1>7 DEF Senders, Active, HasTable
<1>12. ASSUME NEW d \in Devices, NEW T \in Tables, NEW k \in Keys
       PROVE  Agreed(d, T, k)'
  <2>1. CASE T = op /\ k = j /\ d = c /\ c # Root
    <3>1. signals'[d][op][j] = signals[d][op][j]
      BY <1>4, <1>9, <2>1
    <3>2. HasTable(c, op) /\ op # "COMPRESS"
      BY <1>1, <1>7, <2>1
    <3>3. Agreed(c, op, j)'
      BY <1>2, <1>3, <1>4, <1>5, <1>6, <1>7, <1>10, <2>1, <3>1, <3>2, UsesTable
    <3> QED BY <2>1, <3>3 DEF Agreed
  <2>2. CASE T = op /\ k = j /\ d # Root /\ c = Root
    <3>2. c \in Senders(d, op)
      BY <1>11, <2>2
    <3>3. /\ ready_table'[d][op][j] = ready_table[d][op][j]
          /\ signals'[d][op][j] = signals[d][op][j] + 1
      BY <1>4, <1>8, <1>9, <2>2
    <3>4. op \in {"PCIE_REDUCE", "COPYH2D"}
      BY <1>1
    <3>5. Agreed(d, op, j)'
      BY <1>3, <1>4, <1>5, <1>6, <3>2, <3>3, <3>4, SignalsTable
    <3> QED BY <2>2, <3>5 DEF Agreed
  <2>3. CASE ~(T = op /\ k = j /\ d = c /\ c # Root) /\ ~(T = op /\ k = j /\ d # Root /\ c = Root)
    <3>1. ready_table'[d][T][k] = ready_table[d][T][k] /\ signals'[d][T][k] = signals[d][T][k]
      BY <1>8, <1>9, <2>3
    <3>2. (UseStage(T, k) = op <=> T = op) /\ (SignalStage(T) = op <=> T = op)
      BY <1>1, StagesOf
    <3>3. k = j /\ d = c /\ op = UseStage(T, k) => Senders(d, T) = {}
      BY <1>11, <2>3, <3>2
    <3>4. k = j /\ op = SignalStage(T) => c \notin Senders(d, T)
      BY <1>11, <2>3, <3>2
    <3> QED BY <1>1, <1>3, <1>4, <1>6, <3>1, <3>3, <3>4, AgreedElsewhere
  <2> QED BY <2>1, <2>2, <2>3
<1>13. AllAgreed
  BY <1>12 DEF AllAgreed
<1>14. op \notin {"REDUCE", "BROADCAST"}
  BY <1>1
<1> QED BY <1>3, <1>4, <1>5, <1>13, <1>14, MoveKeeps

\* The loops of the root.
LEMMA CallsBegin ==
    ASSUME IInv, SInv, machine' = machine, NEW op \in Calls, Call(op)
    PROVE  SInv'
<1>1. PICK c \in Devices : c = Root
  BY Geometry DEF IInv, TasksKept, TaskTyped
<1>2. PICK j \in Keys : GetTask(c, op, j) /\ sq' = Taken(c, op, j) /\ ClearReadyCount(c, op, j)
  BY <1>1 DEF Call
<1>3. /\ queue_list' = queue_list /\ enqueued' = enqueued /\ nccl_msgs' = nccl_msgs
      /\ owed' = owed /\ signals' = signals
  BY DEF Call, ncclVars
<1>4. /\ TaskTyped /\ Orders /\ SignalTyped /\ op \in QueueType
      /\ op \in {"COMPRESS", "PUSH", "PULL", "DECOMPRESS"} /\ 0 \in 0..1 /\ 1 \in 0..1
  BY DEF IInv, TasksKept, SInv, QueueType, Calls
<1>5. InStage(c, op, j) /\ Move(c, op, j, 0, 1)
  BY <1>2, <1>3, <1>4, GetsTask, MovesOut
<1>6. Rounds(c, op, j, 0, 1) /\ op \in Stages(c, TensorOf(j))
  BY <1>5 DEF Move
<1>7. /\ HasTable(c, op) <=> op \in {"COMPRESS", "PUSH"}
      /\ op \in {"COMPRESS", "PUSH"} => TableOf(op) = "PUSH"
      /\ "PUSH" \in Tables
  BY <1>1, <1>4 DEF HasTable, TableOf, Tables
<1>8. \A d \in Devices, T \in Tables, k \in Keys :
         ready_table'[d][T][k] = IF op \in {"COMPRESS", "PUSH"} /\ d = c /\ T = "PUSH" /\ k = j
                                 THEN 0 ELSE ready_table[d][T][k]
  <2>1. \A d \in Devices, T \in Tables, k \in Keys :
         ready_table'[d][T][k] = IF HasTable(c, op) /\ d = c /\ T = TableOf(op) /\ k = j THEN 0
                                 ELSE ready_table[d][T][k]
    BY <1>2, <1>4, ClearedCounts
  <2> QED BY <1>7, <2>1
<1>9. ASSUME NEW d \in Devices, NEW T \in Tables, NEW k \in Keys
      PROVE  Agreed(d, T, k)'
  <2>1. CASE T = "PUSH" /\ k = j /\ d = c /\ op = UseStage(T, k)
    <3>1. op \in {"COMPRESS", "PUSH"}
      BY <2>1, StagesOf
    <3>2. HasTable(c, op) /\ T = TableOf(op)
      BY <1>7, <2>1, <3>1
    <3>3. signals'[c][T][j] = signals[c][T][j]
      BY <1>3
    <3>4. Agreed(c, T, j)'
      BY <1>2, <1>3, <1>4, <1>5, <1>6, <2>1, <3>2, <3>3, UsesTable
    <3> QED BY <2>1, <3>4 DEF Agreed
  <2>2. CASE T = "PUSH" /\ k = j /\ d = c /\ op = "PUSH" /\ op # UseStage(T, k)
    <3>1. HasCompressor(TensorOf(j))
      BY <2>2, StagesOf
    <3>2. machine.local_size - 1 = ReadyCount("PUSH")
      BY DEF ReadyCount
    <3>3. HasTable(c, "PUSH") /\ TableOf("PUSH") = "PUSH"
      BY <1>7, <2>2
    <3>4. GetTask(c, "PUSH", j)
      BY <1>2, <2>2
    <3>5. ready_table[c]["PUSH"][j] = machine.local_size - 1 /\ Holds(sq, c, "PUSH", j)
      BY <3>2, <3>3, <3>4, GetsTask
    <3>6. ready_table'[c]["PUSH"][j] = 0 /\ signals'[c]["PUSH"][j] = signals[c]["PUSH"][j]
      BY <1>3, <1>7, <1>8, <2>2
    <3>7. InStage(c, "PUSH", j) /\ Rounds(c, "PUSH", j, 0, 1)
      BY <1>5, <1>6, <2>2
    <3>8. Agreed(c, "PUSH", j)
      BY <1>7, AgreedNow
    <3>9. Agreed(c, "PUSH", j)'
      BY <1>1, <1>3, <1>4, <3>1, <3>5, <3>6, <3>7, <3>8, AgreedRestored
    <3> QED BY <2>2, <3>9 DEF Agreed
  <2>3. CASE ~(T = "PUSH" /\ k = j /\ d = c /\ op \in {"COMPRESS", "PUSH"})
    <3>1. ready_table'[d][T][k] = ready_table[d][T][k] /\ signals'[d][T][k] = signals[d][T][k]
      BY <1>3, <1>8, <2>3
    <3>2. op = UseStage(T, k) => T = "PUSH" /\ op \in {"COMPRESS", "PUSH"}
      BY <1>4, StagesOf
    <3>3. op = "PUSH" /\ T = "PUSH" /\ k = j /\ HasCompressor(TensorOf(k)) => d # c
      BY <2>3
    <3>4. CASE ~(op = "PUSH" /\ T = "PUSH" /\ k = j /\ HasCompressor(TensorOf(k)))
      BY <1>3, <1>4, <1>6, <2>3, <3>1, <3>2, <3>4, AgreedElsewhere
    <3>5. CASE op = "PUSH" /\ T = "PUSH" /\ k = j /\ HasCompressor(TensorOf(k))
      <4>1. Senders(d, T) = {}
        BY <1>1, <3>3, <3>5 DEF Senders, HasTable
      <4>2. PICK u : u = UseStage(T, k)
        OBVIOUS
      <4>3. Restored(d, T, k) = 0 /\ Restored(d, T, k)' = 0
        <5>1. d # Root
          BY <1>1, <3>3, <3>5
        <5>2. Root' = Root
          BY SameMachine
        <5> QED BY <5>1, <5>2 DEF Restored
      <4>4. Steady(d, T, k)
        BY <4>1, <4>3 DEF Steady
      <4>5. Agreed(d, T, k)
        BY AgreedNow
      <4> QED BY <3>1, <4>4, <4>5, AgreedStays
    <3> QED BY <3>4, <3>5
  <2>4. ~(T = "PUSH" /\ k = j /\ d = c /\ op = "COMPRESS" /\ op # UseStage(T, k))
    <3>1. op = "COMPRESS" => HasCompressor(TensorOf(j))
      BY <1>6, HasStage
    <3> QED BY <3>1, StagesOf
  <2> QED BY <2>1, <2>2, <2>3, <2>4
<1>10. AllAgreed
  BY <1>9 DEF AllAgreed
<1>11. op \notin {"REDUCE", "BROADCAST"}
  BY <1>4
<1> QED BY <1>3, <1>4, <1>5, <1>10, <1>11, MoveKeeps

\* Without servers the push is over at once.
LEMMA BarrierPasses ==
    ASSUME IInv, SInv, machine' = machine, DummyBarrier
    PROVE  SInv'
<1>1. PICK c \in Devices : c = Root
  BY Geometry DEF IInv, TasksKept, TaskTyped
<1>2. PICK op \in Calls : op = "PUSH"
  BY DEF Calls
<1>3. PICK j \in Keys : /\ GetTask(c, op, j) /\ ClearReadyCount(c, op, j)
                        /\ FinishOrProceed(c, j, Taken(c, op, j))
  BY <1>1, <1>2 DEF DummyBarrier
<1>4. /\ UNCHANGED <<nccl_tasks, nccl_pipeline, calls>> /\ nccl_msgs' = nccl_msgs
      /\ owed' = owed /\ signals' = signals /\ ~machine.is_distributed
  BY DEF DummyBarrier, ncclVars
<1>5. /\ TaskTyped /\ Orders /\ SignalTyped /\ op \in QueueType /\ op \in Tables /\ 1 \in 0..1
  BY <1>2 DEF IInv, TasksKept, SInv, QueueType, Tables
<1>6. InStage(c, op, j) /\ Move(c, op, j, 1, 1)
  BY <1>3, <1>4, <1>5, GetsTask, MovesFromQueue
<1>7. Rounds(c, op, j, 1, 1) /\ op \in Stages(c, TensorOf(j))
  BY <1>6 DEF Move
<1>8. HasTable(c, op) /\ TableOf(op) = op /\ \A t : ~HasCompressor(t)
  BY <1>1, <1>2, <1>4 DEF HasTable, TableOf, HasCompressor
<1>9. \A d \in Devices, T \in Tables, k \in Keys :
         ready_table'[d][T][k] = IF d = c /\ T = op /\ k = j THEN 0 ELSE ready_table[d][T][k]
  BY <1>3, <1>5, <1>8, ClearedCounts
<1>10. ASSUME NEW d \in Devices, NEW T \in Tables, NEW k \in Keys
       PROVE  Agreed(d, T, k)'
  <2>1. (UseStage(T, k) = op <=> T = op) /\ SignalStage(T) # op
    BY <1>2, <1>8, StagesOf DEF Coordinates, Coordinated
  <2>2. CASE T = op /\ k = j /\ d = c
    <3>1. signals'[c][T][j] = signals[c][T][j] /\ op # "COMPRESS"
      BY <1>2, <1>4
    <3>2. Agreed(c, T, j)'
      BY <1>3, <1>4, <1>5, <1>6, <1>7, <1>8, <2>1, <2>2, <3>1, UsesTable
    <3> QED BY <2>2, <3>2 DEF Agreed
  <2>3. CASE ~(T = op /\ k = j /\ d = c)
    <3>1. ready_table'[d][T][k] = ready_table[d][T][k] /\ signals'[d][T][k] = signals[d][T][k]
      BY <1>4, <1>9, <2>3
    <3> QED BY <1>4, <1>5, <1>7, <1>8, <2>1, <2>3, <3>1, AgreedElsewhere
  <2> QED BY <2>2, <2>3
<1>11. AllAgreed
  BY <1>10 DEF AllAgreed
<1>12. op \notin {"REDUCE", "BROADCAST"}
  BY <1>2
<1> QED BY <1>4, <1>5, <1>6, <1>11, <1>12, MoveKeeps

\* A call of the root returns.
LEMMA CallsReturn ==
    ASSUME IInv, SInv, machine' = machine, NEW op \in Calls, NEW j \in Keys, Return(op, j),
           UNCHANGED ncclVars, owed' = owed, signals' = signals,
           IF op = "COMPRESS"
           THEN ready_table' = [ready_table EXCEPT ![Root]["PUSH"][j] = RestoredCount]
           ELSE ready_table' = ready_table
    PROVE  SInv'
<1>1. PICK c \in Devices : c = Root
  BY Geometry DEF IInv, TasksKept, TaskTyped
<1>2. /\ TaskTyped /\ Orders /\ Lowers /\ Followed /\ SignalTyped
      /\ op \in {"COMPRESS", "PUSH", "PULL", "DECOMPRESS"} /\ 0 \in 0..1 /\ 1 \in 0..1
      /\ "PUSH" \in Tables /\ nccl_msgs' = nccl_msgs
  BY DEF IInv, TasksKept, SInv, Calls, Tables, ncclVars
<1>3. InStage(c, op, j) /\ Move(c, op, j, 1, 0) /\ Took(c, op, j)
  BY <1>1, <1>2, MovesFromCall
<1>4. Rounds(c, op, j, 1, 0)
  BY <1>3 DEF Move
<1>5. \A d \in Devices, T \in Tables, k \in Keys :
         ready_table'[d][T][k] = IF op = "COMPRESS" /\ d = c /\ T = "PUSH" /\ k = j
                                 THEN machine.local_size - 1 ELSE ready_table[d][T][k]
  <2>1. CASE op = "COMPRESS"
    <3>1. PICK T \in Tables, m \in Counts, n \in Nat :
             T = "PUSH" /\ m = ready_table /\ n = machine.local_size - 1
      BY <1>2, Geometry DEF TaskTyped, SignalTyped
    <3>2. LET a == [m EXCEPT ![c][T][j] = n] IN
          /\ a \in Counts
          /\ \A e \in Devices, y \in Tables, i \in Keys :
                a[e][y][i] = IF e = c /\ y = T /\ i = j THEN n ELSE m[e][y][i]
      BY Counted
    <3>3. ready_table' = [m EXCEPT ![c][T][j] = n]
      BY <1>1, <2>1, <3>1 DEF RestoredCount
    <3> QED BY <2>1, <3>1, <3>2, <3>3
  <2>2. CASE op # "COMPRESS"
    BY <2>2
  <2> QED BY <2>1, <2>2
<1>6. ASSUME NEW d \in Devices, NEW T \in Tables, NEW k \in Keys
      PROVE  Agreed(d, T, k)'
  <2>1. CASE op = "COMPRESS" /\ d = c /\ T = "PUSH" /\ k = j
    <3>1. Agreed(c, "PUSH", j)
      BY <1>2, AgreedNow
    <3>2. /\ ready_table'[c]["PUSH"][j] = machine.local_size - 1
          /\ signals'[c]["PUSH"][j] = signals[c]["PUSH"][j]
      BY <1>2, <1>5, <2>1
    <3>3. Took(c, "COMPRESS", j) /\ InStage(c, "COMPRESS", j) /\ Rounds(c, "COMPRESS", j, 1, 0)
      BY <1>3, <1>4, <2>1
    <3>4. Agreed(c, "PUSH", j)'
      BY <1>1, <1>2, <3>1, <3>2, <3>3, AgreedRestore
    <3> QED BY <2>1, <3>4 DEF Agreed
  <2>2. CASE ~(op = "COMPRESS" /\ d = c /\ T = "PUSH" /\ k = j)
    <3>1. ready_table'[d][T][k] = ready_table[d][T][k] /\ signals'[d][T][k] = signals[d][T][k]
      BY <1>5, <2>2
    <3>2. SignalStage(T) # op
      BY <1>2, StagesOf DEF Coordinates, Coordinated
    <3>3. CASE ~(op = "COMPRESS" /\ T = "PUSH" /\ k = j)
      BY <1>2, <1>4, <3>1, <3>2, <3>3, AgreedElsewhere
    <3>4. CASE op = "COMPRESS" /\ T = "PUSH" /\ k = j
      <4>1. d # Root /\ Root' = Root
        BY <1>1, <2>2, <3>4, SameMachine
      <4>2. Senders(d, T) = {}
        BY <3>4, <4>1 DEF Senders, HasTable
      <4>3. Restored(d, T, k) = 0 /\ Restored(d, T, k)' = 0
        BY <4>1 DEF Restored
      <4>4. Steady(d, T, k)
        BY <4>2, <4>3 DEF Steady
      <4>5. Agreed(d, T, k)
        BY AgreedNow
      <4> QED BY <3>1, <4>4, <4>5, AgreedStays
    <3> QED BY <3>3, <3>4
  <2> QED BY <2>1, <2>2
<1>7. AllAgreed
  BY <1>6 DEF AllAgreed
<1> QED BY <1>2, <1>3, <1>7, MoveKeeps

\* A coordinate loop passes its task on: the signal is owed.
LEMMA CoordinateOwes ==
    ASSUME IInv, SInv, machine' = machine, NEW c \in Devices, NEW op \in Coordinates,
           Coordinate(c, op)
    PROVE  SInv'
<1>1. PICK j \in Keys : /\ GetTask(c, op, j) /\ FinishOrProceed(c, j, Taken(c, op, j))
                        /\ owed' = [owed EXCEPT ![c][op] = j] /\ owed[c][op] = NoKey
  BY DEF Coordinate
<1>2. /\ UNCHANGED <<nccl_tasks, nccl_pipeline, calls>> /\ nccl_msgs' = nccl_msgs
      /\ ready_table' = ready_table /\ signals' = signals
  BY DEF Coordinate, ncclVars
<1>3. /\ TaskTyped /\ Orders /\ SignalTyped /\ Owing /\ Followed /\ op \in QueueType
      /\ 1 \in 0..1 /\ op \in {"COORDINATE_REDUCE", "COORDINATE_PUSH", "COORDINATE_BROADCAST"}
  BY DEF IInv, TasksKept, SInv, QueueType, Coordinates, Coordinated
<1>4. InStage(c, op, j) /\ Move(c, op, j, 1, 1)
  BY <1>1, <1>2, <1>3, GetsTask, MovesFromQueue
<1>5. Rounds(c, op, j, 1, 1) /\ op \in Stages(c, TensorOf(j)) /\ Orders'
  BY <1>4 DEF Move
<1>6. \A e \in Devices, o \in Coordinates :
         owed'[e][o] = IF e = c /\ o = op THEN j ELSE owed[e][o]
  BY <1>1, <1>3 DEF SignalTyped
<1>7. j # NoKey /\ j \in Nat
  BY KeyFacts DEF NoKey
<1>8. \A e \in Devices, T \in Tables, k \in Keys : \A o : o \in {"REDUCE", "BROADCAST"} \cup {UseStage(T, k)} =>
         (o \in Stages(e, TensorOf(k)) => Used(e, o, k)' = Used(e, o, k))
  <2>1. \A T \in Tables, k \in Keys : UseStage(T, k) # op
    BY <1>3, StagesOf
  <2> QED BY <1>3, <1>5, <2>1 DEF Rounds
<1>9. ASSUME NEW d \in Devices, NEW T \in Tables, NEW k \in Keys
      PROVE  Agreed(d, T, k)'
  <2>1. PICK s : s = SignalStage(T)
    OBVIOUS
  <2>2. Root \in Devices
    BY <1>3, Geometry DEF TaskTyped
  <2>3. ASSUME NEW e \in Senders(d, T)
        PROVE  Signalled(e, T, k)' = Signalled(e, T, k)
    <3>1. e \in Devices /\ s \in Stages(e, TensorOf(k)) /\ Done(e, s, k) \in Int
      BY <1>3, <2>1, <2>2, TableStages, Numbers
    <3>2. CASE e = c /\ s = op /\ k = j
      <4>1. Done(e, s, k)' = Done(e, s, k) + 1
        BY <1>5, <3>1, <3>2 DEF Rounds
      <4>2. ~Owes(e, s, k) /\ Owes(e, s, k)'
        BY <1>1, <1>6, <1>7, <3>2 DEF Owes
      <4>3. Signalled(e, T, k)' = Done(e, s, k)' - Bit(Owes(e, s, k)')
        BY <2>1 DEF Signalled, SignalStage, Done, Bit, Owes
      <4>4. Bit(Owes(e, s, k)') = 1 /\ Bit(Owes(e, s, k)) = 0
        BY <4>2 DEF Bit
      <4>5. Signalled(e, T, k) = Done(e, s, k) - Bit(Owes(e, s, k))
        BY <2>1 DEF Signalled
      <4> QED BY <3>1, <4>1, <4>3, <4>4, <4>5
    <3>3. CASE ~(e = c /\ s = op /\ k = j)
      <4>1. Done(e, s, k)' = Done(e, s, k)
        BY <1>5, <3>1, <3>3 DEF Rounds
      <4>2. k # NoKey
        BY KeyFacts DEF NoKey
      <4>3. Owes(e, s, k)' <=> Owes(e, s, k)
        BY <1>1, <1>6, <3>1, <3>3, <4>2 DEF Owes
      <4> QED BY <2>1, <4>1, <4>3, SignalledAfter
    <3> QED BY <3>2, <3>3
  <2>4. PICK u : u = UseStage(T, k)
    OBVIOUS
  <2>5. \A e \in Senders(d, T) : Used(d, u, k)' = Used(d, u, k)
    <3>1. \A e \in Senders(d, T) : u \in Stages(d, TensorOf(k))
      BY <2>2, <2>4, TableStages
    <3> QED BY <1>8, <2>4, <3>1
  <2>6. Restored(d, T, k)' = Restored(d, T, k)
    <3>1. Restored(d, T, k)' =
             IF /\ T = "PUSH" /\ d = Root /\ HasCompressor(TensorOf(k))
                /\ Used(d, "PUSH", k)' < Done(d, "COMPRESS", k)'
             THEN machine.local_size - 1 ELSE 0
      BY <2>4, SignalsAfter
    <3>2. ASSUME T = "PUSH", d = Root, HasCompressor(TensorOf(k))
          PROVE  /\ Used(d, "PUSH", k)' = Used(d, "PUSH", k)
                 /\ Done(d, "COMPRESS", k)' = Done(d, "COMPRESS", k)
      <4>1. "PUSH" \in Stages(d, TensorOf(k)) /\ "COMPRESS" \in Stages(d, TensorOf(k))
        BY <3>2, HasStage
      <4> QED BY <1>3, <1>5, <4>1 DEF Rounds
    <3> QED BY <3>1, <3>2 DEF Restored
  <2>7. Steady(d, T, k)
    BY <2>3, <2>4, <2>5, <2>6 DEF Steady
  <2>8. Agreed(d, T, k)
    BY AgreedNow
  <2> QED BY <1>2, <2>7, <2>8, AgreedStays
<1>10. AllAgreed
  BY <1>9 DEF AllAgreed
<1>11. Owing'
  <2>1. Devices' = Devices /\ \A e, t : Stages(e, t)' = Stages(e, t)
    BY SameMachine, SameStages
  <2>2. \A e \in Devices, o \in Coordinates :
           owed'[e][o] # NoKey => o \in Stages(e, TensorOf(owed'[e][o]))
    BY <1>3, <1>5, <1>6 DEF Owing
  <2> QED BY <2>1, <2>2 DEF Owing
<1>12. Followed'
  <2>1. \A e \in Devices, o \in {"REDUCE", "BROADCAST"}, i \in Keys : Used(e, o, i)' = Used(e, o, i)
    <3>1. "REDUCE" \in Tables
      BY DEF Tables
    <3> QED BY <1>8, <3>1, HasStage
  <2> QED BY <1>2, <1>3, <2>1, FollowedStays
<1> QED BY <1>5, <1>10, <1>11, <1>12, AgreedNext

\* The signal is sent.
LEMMA SignalGoes ==
    ASSUME IInv, SInv, machine' = machine, NEW c \in Devices, NEW op \in Coordinates,
           SendSignal(c, op)
    PROVE  SInv'
<1>1. PICK j \in Keys : j = owed[c][op] /\ j # NoKey
  BY DEF IInv, SignalTyped, SendSignal
<1>2. PICK t \in Tables : t = Coordinated[op]
  BY DEF Coordinates, Coordinated, Tables
<1>3. PICK q : q = Destination(c, op)
  OBVIOUS
<1>4. PICK R : R = {q}
  OBVIOUS
<1>5. /\ Send(R, t, j) /\ owed' = [owed EXCEPT ![c][op] = NoKey] /\ nccl_msgs' = nccl_msgs
      /\ ready_table' = ready_table /\ queue_list' = queue_list /\ sq' = sq
      /\ enqueued' = enqueued
  BY <1>1, <1>2, <1>3, <1>4 DEF SendSignal, taskVars, ncclVars
<1>6. /\ TaskTyped /\ Orders /\ SignalTyped /\ Owing /\ Lowers /\ Followed /\ machine \in Machines
      /\ op \in {"COORDINATE_REDUCE", "COORDINATE_PUSH", "COORDINATE_BROADCAST"} /\ Root \in Devices
  BY Geometry DEF IInv, TasksKept, TaskTyped, SInv, Coordinates, Coordinated
<1>7. Orders' /\ NoRounds
  BY <1>5, <1>6, NoneMoves DEF Still
<1>8. \A d \in Devices, T \in Tables, k \in Keys :
         signals'[d][T][k] = IF d = q /\ T = t /\ k = j THEN signals[d][T][k] + 1
                             ELSE signals[d][T][k]
  <2>1. \A d \in Devices, T \in Tables, k \in Keys :
           signals'[d][T][k] = IF d \in R /\ T = t /\ k = j THEN signals[d][T][k] + 1
                               ELSE signals[d][T][k]
    BY <1>5, <1>6, SentCounts
  <2> QED BY <1>4, <2>1
<1>9. op \in Stages(c, TensorOf(j))
  BY <1>1, <1>6 DEF Owing
<1>10. q \in Devices /\ c \in Senders(q, t) /\ SignalStage(t) = op
  <2>1. SignalStage(t) = op
    BY <1>2, StagesOf
  <2>2. CASE op = "COORDINATE_PUSH"
    <3>1. t = "PUSH" /\ q = Root
      BY <1>2, <1>3, <2>2 DEF Coordinated, Destination
    <3>2. HostCopies /\ c # Root
      BY <1>9, <2>2, HasStage
    <3> QED BY <1>6, <2>1, <3>1, <3>2 DEF Senders, Active, HasTable
  <2>3. CASE op \in {"COORDINATE_REDUCE", "COORDINATE_BROADCAST"}
    <3>1. t \in {"REDUCE", "BROADCAST"} /\ q = SignalRoot(c)
      BY <1>2, <1>3, <2>3 DEF Coordinated, Destination
    <3>2. ~IsSignalRoot(c)
      BY <1>9, <2>3, HasStage
    <3>3. q \in Devices /\ IsSignalRoot(q) /\ SwitchOf(q) = SwitchOf(c) /\ q # c
      BY <1>6, <3>1, <3>2, OfDevice, Places DEF IsSignalRoot
    <3>4. c \in Peers(q) \ {q}
      BY <3>3 DEF Peers
    <3> QED BY <2>1, <3>1, <3>3, <3>4 DEF Senders, Active, HasTable
  <2> QED BY <1>6, <2>2, <2>3
<1>11. \A e \in Devices : \A o : \A k \in Keys : Owes(e, o, k)' <=> Owes(e, o, k) /\ ~(e = c /\ o = op)
  <2>1. \A e \in Devices, o \in Coordinates :
           owed'[e][o] = IF e = c /\ o = op THEN NoKey ELSE owed[e][o]
    BY <1>5, <1>6 DEF SignalTyped
  <2>2. \A k \in Keys : k # NoKey
    BY KeyFacts DEF NoKey
  <2> QED BY <2>1, <2>2 DEF Owes
<1>12. ASSUME NEW d \in Devices, NEW T \in Tables, NEW k \in Keys, NEW e \in Senders(d, T)
       PROVE  Signalled(e, T, k)' = IF e = c /\ T = t /\ k = j THEN Signalled(e, T, k) + 1
                                    ELSE Signalled(e, T, k)
  <2>1. PICK s : s = SignalStage(T)
    OBVIOUS
  <2>2. e \in Devices /\ s \in Stages(e, TensorOf(k)) /\ Done(e, s, k) \in Int
    BY <1>6, <2>1, TableStages, Numbers
  <2>3. Done(e, s, k)' = Done(e, s, k)
    BY <1>7, <2>2 DEF NoRounds
  <2>4. s = op <=> T = t
    BY <1>2, <2>1, StagesOf
  <2>5. CASE e = c /\ T = t /\ k = j
    <3>1. Owes(e, s, k) /\ ~Owes(e, s, k)'
      BY <1>1, <1>11, <2>2, <2>4, <2>5 DEF Owes
    <3>2. Signalled(e, T, k)' = Done(e, s, k)' - Bit(Owes(e, s, k)')
      BY <2>1 DEF Signalled, SignalStage, Done, Bit, Owes
    <3>3. Bit(Owes(e, s, k)') = 0 /\ Bit(Owes(e, s, k)) = 1
      BY <3>1 DEF Bit
    <3>4. Signalled(e, T, k) = Done(e, s, k) - Bit(Owes(e, s, k))
      BY <2>1 DEF Signalled
    <3> QED BY <2>2, <2>3, <2>5, <3>2, <3>3, <3>4
  <2>6. CASE ~(e = c /\ T = t /\ k = j)
    <3>1. Owes(e, s, k)' <=> Owes(e, s, k)
      BY <1>1, <1>11, <2>2, <2>4, <2>6 DEF Owes
    <3> QED BY <2>1, <2>3, <2>6, <3>1, SignalledAfter
  <2> QED BY <2>5, <2>6
<1>13. ASSUME NEW d \in Devices, NEW T \in Tables, NEW k \in Keys
       PROVE  /\ \A e \in Senders(d, T) : \A u : u = UseStage(T, k) => Used(d, u, k)' = Used(d, u, k)
              /\ Restored(d, T, k)' = Restored(d, T, k) /\ Agreed(d, T, k)
  <2>1. PICK u : u = UseStage(T, k)
    OBVIOUS
  <2>2. \A e \in Senders(d, T) : u \in Stages(d, TensorOf(k))
    BY <1>6, <2>1, TableStages
  <2>3. \A e \in Senders(d, T) : Used(d, u, k)' = Used(d, u, k)
    BY <1>7, <2>2 DEF NoRounds
  <2>4. Restored(d, T, k)' =
           IF /\ T = "PUSH" /\ d = Root /\ HasCompressor(TensorOf(k))
              /\ Used(d, "PUSH", k)' < Done(d, "COMPRESS", k)'
           THEN machine.local_size - 1 ELSE 0
    BY <2>1, SignalsAfter
  <2>5. ASSUME T = "PUSH", d = Root, HasCompressor(TensorOf(k))
        PROVE  /\ Used(d, "PUSH", k)' = Used(d, "PUSH", k)
               /\ Done(d, "COMPRESS", k)' = Done(d, "COMPRESS", k)
    <3>1. "PUSH" \in Stages(d, TensorOf(k)) /\ "COMPRESS" \in Stages(d, TensorOf(k))
      BY <2>5, HasStage
    <3> QED BY <1>7, <3>1 DEF NoRounds
  <2> QED BY <2>1, <2>3, <2>4, <2>5, AgreedNow DEF Restored
<1>14. ASSUME NEW d \in Devices, NEW T \in Tables, NEW k \in Keys
       PROVE  Agreed(d, T, k)'
  <2>1. CASE d = q /\ T = t /\ k = j
    <3>1. PICK u : u = UseStage(T, k)
      OBVIOUS
    <3>2. Used(d, u, k)' = Used(d, u, k) /\ c \in Senders(d, T)
      BY <1>10, <1>13, <2>1, <3>1
    <3>3. Signalled(c, T, k) <= Used(d, u, k)
      <4>1. Done(c, op, k) <= Used(d, u, k) + 1
        BY <1>6, <1>10, <2>1, <3>1, <3>2, Upper
      <4>2. Owes(c, op, k)
        BY <1>1, <2>1 DEF Owes
      <4>3. Signalled(c, T, k) = Done(c, op, k) - 1
        BY <1>10, <2>1, <4>2 DEF Signalled, Bit
      <4>4. Done(c, op, k) \in Int /\ Used(d, u, k) \in Int
        BY <1>6, Numbers
      <4> QED BY <4>1, <4>3, <4>4
    <3>4. /\ ready_table'[d][T][k] = ready_table[d][T][k]
          /\ signals'[d][T][k] = signals[d][T][k] + 1
      BY <1>5, <1>8, <2>1
    <3>5. \A e \in Senders(d, T) :
             Signalled(e, T, k)' = IF e = c THEN Signalled(e, T, k) + 1 ELSE Signalled(e, T, k)
      BY <1>12, <2>1
    <3> QED BY <1>6, <1>13, <3>1, <3>2, <3>3, <3>4, <3>5, AgreedSignal
  <2>2. CASE ~(d = q /\ T = t /\ k = j)
    <3>1. signals'[d][T][k] = signals[d][T][k] /\ ready_table'[d][T][k] = ready_table[d][T][k]
      BY <1>5, <1>8, <2>2
    <3>2. \A e \in Senders(d, T) : ~(e = c /\ T = t /\ k = j)
      <4>1. SUFFICES ASSUME c \in Senders(d, t), T = t, k = j PROVE FALSE
        OBVIOUS
      <4>2. CASE t = "PUSH"
        <5>1. d = Root /\ q = Root
          BY <1>6, <1>10, <4>1, <4>2, TableStages
        <5> QED BY <2>2, <4>1, <5>1
      <4>3. CASE t \in {"REDUCE", "BROADCAST"}
        <5>1. IsSignalRoot(d) /\ IsSignalRoot(q) /\ c \in Peers(d) /\ c \in Peers(q)
          BY <1>6, <1>10, <4>1, <4>3, TableStages
        <5> QED BY <2>2, <4>1, <5>1, OneRoot
      <4> QED BY <1>2, <1>6, <4>2, <4>3 DEF Coordinated
    <3>3. Steady(d, T, k)
      BY <1>12, <1>13, <3>2 DEF Steady
    <3> QED BY <1>13, <3>1, <3>3, AgreedStays
  <2> QED BY <2>1, <2>2
<1>15. AllAgreed
  BY <1>14 DEF AllAgreed
<1>16. Owing'
  <2>1. Devices' = Devices /\ \A e, u : Stages(e, u)' = Stages(e, u)
    BY SameMachine, SameStages
  <2>2. \A e \in Devices, o \in Coordinates :
           owed'[e][o] = IF e = c /\ o = op THEN NoKey ELSE owed[e][o]
    BY <1>5, <1>6 DEF SignalTyped
  <2>3. \A e \in Devices, o \in Coordinates :
           owed'[e][o] # NoKey => o \in Stages(e, TensorOf(owed'[e][o]))
    BY <1>6, <2>2 DEF Owing
  <2> QED BY <2>1, <2>3 DEF Owing
<1>17. Followed'
  <2>1. \A e \in Devices, o \in {"REDUCE", "BROADCAST"}, i \in Keys : Used(e, o, i)' = Used(e, o, i)
    BY <1>7, HasStage DEF NoRounds
  <2> QED BY <1>5, <1>6, <2>1, FollowedStays
<1> QED BY <1>7, <1>15, <1>16, <1>17, AgreedNext

\* A signal arrives: it never exceeds the count.
LEMMA CountsUp ==
    ASSUME IInv, SInv, machine' = machine, NEW d \in Devices, NEW T \in Tables, NEW k \in Keys,
           AddReadyCount(d, T, k)
    PROVE  SInv' /\ aborted' = aborted
<1>1. /\ TaskTyped /\ SignalTyped /\ Orders /\ Lowers /\ Followed /\ Agreed(d, T, k)
      /\ machine \in Machines
  BY AgreedNow DEF IInv, TasksKept, TaskTyped, SInv
<1>2. PICK m \in Nat, n \in Nat : m = ready_table[d][T][k] /\ n = signals[d][T][k]
  BY <1>1 DEF SignalTyped, Counts
<1>3. n > 0
  BY <1>2 DEF AddReadyCount
<1>4. /\ IsFiniteSet(Senders(d, T)) /\ Cardinality(Senders(d, T)) \in Nat
      /\ Cardinality(Senders(d, T)) <= ReadyCount(T) /\ ReadyCount(T) \in Nat
      /\ T = "PUSH" => ReadyCount(T) = machine.local_size - 1
  BY <1>1, SendersFew
<1>5. m < ReadyCount(T)
  <2>1. PICK O \in SUBSET Senders(d, T) : O = Outstanding(d, T, k)
    BY DEF Outstanding
  <2>2. Cardinality(O) \in Nat /\ Cardinality(O) <= Cardinality(Senders(d, T))
    BY <1>4, <2>1, FS_Subset, FS_CardinalityType
  <2>3. m + n = Cardinality(O) + Restored(d, T, k)
    BY <1>1, <1>2, <2>1 DEF Agreed, Count
  <2>4. CASE Restored(d, T, k) = 0
    BY <1>2, <1>3, <1>4, <2>2, <2>3, <2>4
  <2>5. CASE Restored(d, T, k) # 0
    <3>1. /\ T = "PUSH" /\ d = Root /\ HasCompressor(TensorOf(k))
          /\ Used(d, "PUSH", k) < Done(d, "COMPRESS", k)
          /\ Restored(d, T, k) = machine.local_size - 1
      BY <2>5 DEF Restored
    <3>2. UseStage(T, k) = "COMPRESS"
      BY <3>1 DEF UseStage
    <3>3. /\ Used(d, "PUSH", k) \in Int /\ Done(d, "PUSH", k) \in Int
          /\ Done(d, "COMPRESS", k) \in Int /\ Used(d, "COMPRESS", k) \in Int
          /\ Done(d, "PUSH", k) <= Used(d, "PUSH", k)
          /\ Done(d, "COMPRESS", k) <= Used(d, "COMPRESS", k)
      BY <1>1, Numbers
    <3>4. ASSUME NEW e \in Senders(d, T)
          PROVE  Signalled(e, T, k) <= Used(d, "COMPRESS", k) /\ Signalled(e, T, k) \in Int
      <4>1. Done(e, SignalStage(T), k) <= Done(d, "PUSH", k) + 1
        BY <1>1, <3>1, Upper
      <4>2. e \in Devices
        BY <1>1, Ahead
      <4>3. /\ Signalled(e, T, k) \in Int /\ Signalled(e, T, k) <= Done(e, SignalStage(T), k)
            /\ Done(e, SignalStage(T), k) \in Int
        BY <1>1, <4>2, SignalNumbers, Numbers
      <4> QED BY <3>1, <3>3, <4>1, <4>3
    <3>5. O = {}
      BY <2>1, <3>2, <3>3, <3>4 DEF Outstanding
    <3>6. Cardinality(O) = 0
      BY <3>5, FS_EmptySet
    <3> QED BY <1>2, <1>3, <1>4, <2>3, <3>1, <3>6
  <2> QED BY <2>4, <2>5
<1>6. /\ signals' = [signals EXCEPT ![d][T][k] = n - 1]
      /\ ready_table' = [ready_table EXCEPT ![d][T][k] = m + 1]
      /\ UNCHANGED <<taskVars, owed, ncclVars, aborted>>
  BY <1>2, <1>5 DEF AddReadyCount
<1>7. ASSUME NEW e \in Devices, NEW y \in Tables, NEW j \in Keys
      PROVE  ready_table'[e][y][j] + signals'[e][y][j] = ready_table[e][y][j] + signals[e][y][j]
  <2>1. PICK r \in Counts, s \in Counts, x \in Nat, z \in Nat :
           r = ready_table /\ s = signals /\ x = m + 1 /\ z = n - 1
    BY <1>1, <1>3 DEF SignalTyped
  <2>2. ready_table'[e][y][j] = IF e = d /\ y = T /\ j = k THEN x ELSE r[e][y][j]
    BY <1>6, <2>1, Counted
  <2>3. signals'[e][y][j] = IF e = d /\ y = T /\ j = k THEN z ELSE s[e][y][j]
    BY <1>6, <2>1, Counted
  <2> QED BY <1>2, <2>1, <2>2, <2>3
<1>8. Still /\ owed' = owed /\ nccl_msgs' = nccl_msgs
  BY <1>1, <1>6, NoneMoves DEF taskVars, ncclVars
<1> QED BY <1>6, <1>7, <1>8, StillKeeps

\* The messages to a device after one more, or one less.
LEMMA OneMore ==
    ASSUME NEW p, nccl_msgs[p] \in Seq(CallTask \cup {DoGroup}), NEW x,
           nccl_msgs'[p] = Append(nccl_msgs[p], x), ToldOnce(p),
           x = DoGroup \/ \A i \in 1..Len(nccl_msgs[p]) : nccl_msgs[p][i] # x
    PROVE  /\ ToldOnce(p)'
           /\ \A op, k : Waits(p, op, k)' <=> Waits(p, op, k) \/ NcclTask(op, k) = x
<1>1. PICK m \in Seq(CallTask \cup {DoGroup}) : m = nccl_msgs[p]
  OBVIOUS
<1>2. PICK n \in Seq(CallTask \cup {DoGroup, x}) : n = nccl_msgs'[p] /\ n = Append(m, x)
  <2>1. PICK A : A = CallTask \cup {DoGroup, x}
    OBVIOUS
  <2>2. m \in Seq(A) /\ x \in A
    BY <1>1, <2>1
  <2>3. Append(m, x) \in Seq(A)
    BY <2>2
  <2>4. nccl_msgs'[p] = Append(m, x)
    BY <1>1
  <2> QED BY <2>1, <2>3, <2>4, Zenon
<1>3. /\ Len(n) = Len(m) + 1 /\ Len(m) \in Nat /\ n[Len(m) + 1] = x
      /\ \A i \in 1..Len(m) : n[i] = m[i]
  BY <1>1, <1>2
<1>4. \A i, j \in 1..Len(m) : m[i] = m[j] /\ m[i] # DoGroup => i = j
  BY <1>1 DEF ToldOnce
<1>5. \A i, j \in 1..Len(n) : n[i] = n[j] /\ n[i] # DoGroup => i = j
  <2> SUFFICES ASSUME NEW i \in 1..Len(n), NEW j \in 1..Len(n), n[i] = n[j], n[i] # DoGroup
               PROVE  i = j
    OBVIOUS
  <2>1. (i \in 1..Len(m) \/ i = Len(m) + 1) /\ (j \in 1..Len(m) \/ j = Len(m) + 1)
    BY <1>3
  <2>2. CASE i = Len(m) + 1 \/ j = Len(m) + 1
    BY <1>1, <1>3, <2>1, <2>2
  <2>3. CASE i \in 1..Len(m) /\ j \in 1..Len(m)
    BY <1>3, <1>4, <2>3
  <2> QED BY <2>1, <2>2, <2>3
<1>6. \A y : (\E i \in 1..Len(n) : n[i] = y) <=> (\E i \in 1..Len(m) : m[i] = y) \/ y = x
  <2>1. Len(m) + 1 \in 1..Len(n) /\ \A i \in 1..Len(m) : i \in 1..Len(n)
    BY <1>3
  <2>2. \A i \in 1..Len(n) : i \in 1..Len(m) \/ i = Len(m) + 1
    BY <1>3
  <2> QED BY <1>3, <2>1, <2>2
<1>7. ToldOnce(p)'
  BY <1>2, <1>5 DEF ToldOnce, DoGroup, NcclTask
<1>8. ASSUME NEW op, NEW k
      PROVE  Waits(p, op, k)' <=> Waits(p, op, k) \/ NcclTask(op, k) = x
  <2>1. Waits(p, op, k)' <=> \E i \in 1..Len(n) : n[i] = NcclTask(op, k)
    BY <1>2 DEF Waits, NcclTask
  <2>2. Waits(p, op, k) <=> \E i \in 1..Len(m) : m[i] = NcclTask(op, k)
    BY <1>1 DEF Waits
  <2> QED BY <1>6, <2>1, <2>2
<1> QED BY <1>7, <1>8

\* The messages to a device after the first was read.
LEMMA OneGone ==
    ASSUME NEW p, nccl_msgs[p] \in Seq(CallTask \cup {DoGroup}), nccl_msgs[p] # <<>>,
           nccl_msgs'[p] = Tail(nccl_msgs[p]), ToldOnce(p)
    PROVE  /\ ToldOnce(p)'
           /\ \A op \in {"REDUCE", "BROADCAST"}, k \in Keys :
                 Waits(p, op, k)' <=> Waits(p, op, k) /\ NcclTask(op, k) # Head(nccl_msgs[p])
<1>1. PICK m \in Seq(CallTask \cup {DoGroup}) : m = nccl_msgs[p] /\ m # <<>>
  OBVIOUS
<1>2. PICK n \in Seq(CallTask \cup {DoGroup}) : n = nccl_msgs'[p] /\ n = Tail(m)
  <2>1. Tail(m) \in Seq(CallTask \cup {DoGroup})
    BY <1>1
  <2>2. nccl_msgs'[p] = Tail(m)
    BY <1>1
  <2> QED BY <2>1, <2>2, Zenon
<1>3. /\ Len(n) = Len(m) - 1 /\ Len(m) \in Nat \ {0} /\ Head(m) = m[1]
      /\ \A i \in 1..Len(n) : n[i] = m[i + 1]
  BY <1>1, <1>2
<1>4. \A i, j \in 1..Len(m) : m[i] = m[j] /\ m[i] # DoGroup => i = j
  BY <1>1 DEF ToldOnce
<1>5. \A i, j \in 1..Len(n) : n[i] = n[j] /\ n[i] # DoGroup => i = j
  <2> SUFFICES ASSUME NEW i \in 1..Len(n), NEW j \in 1..Len(n), n[i] = n[j], n[i] # DoGroup
               PROVE  i = j
    OBVIOUS
  <2>1. i + 1 \in 1..Len(m) /\ j + 1 \in 1..Len(m)
    BY <1>3
  <2>2. i + 1 = j + 1
    BY <1>3, <1>4, <2>1
  <2> QED BY <2>2
<1>6. ASSUME NEW y, y # DoGroup
      PROVE  (\E i \in 1..Len(n) : n[i] = y) <=> (\E i \in 1..Len(m) : m[i] = y) /\ y # Head(m)
  <2>1. ASSUME NEW i \in 1..Len(n), n[i] = y
        PROVE  (\E j \in 1..Len(m) : m[j] = y) /\ y # Head(m)
    <3>1. i + 1 \in 1..Len(m) /\ m[i + 1] = y /\ 1 \in 1..Len(m) /\ i + 1 # 1
      BY <1>3, <2>1
    <3> QED BY <1>3, <1>4, <1>6, <3>1
  <2>2. ASSUME NEW j \in 1..Len(m), m[j] = y, y # Head(m)
        PROVE  \E i \in 1..Len(n) : n[i] = y
    <3>1. j - 1 \in 1..Len(n) /\ n[j - 1] = y
      BY <1>3, <2>2
    <3> QED BY <3>1
  <2> QED BY <2>1, <2>2
<1>7. ToldOnce(p)'
  BY <1>2, <1>5 DEF ToldOnce, DoGroup, NcclTask
<1>8. ASSUME NEW op \in {"REDUCE", "BROADCAST"}, NEW k \in Keys
      PROVE  Waits(p, op, k)' <=> Waits(p, op, k) /\ NcclTask(op, k) # Head(nccl_msgs[p])
  <2>1. Waits(p, op, k)' <=> \E i \in 1..Len(n) : n[i] = NcclTask(op, k)
    BY <1>2 DEF Waits, NcclTask
  <2>2. Waits(p, op, k) <=> \E i \in 1..Len(m) : m[i] = NcclTask(op, k)
    BY <1>1 DEF Waits
  <2>3. PICK y : y = NcclTask(op, k)
    OBVIOUS
  <2>4. y # DoGroup
    BY <2>3, NcclTasks
  <2> QED BY <1>1, <1>6, <2>1, <2>2, <2>3, <2>4
<1> QED BY <1>7, <1>8

\* The devices of a switch in the next state.
LEMMA FollowedNext ==
    ASSUME machine' = machine,
           \A r \in Devices : IsSignalRoot(r) => \A p \in Peers(r) \ {r} : Follows(r, p)'
    PROVE  Followed'
<1>1. Devices' = Devices /\ \A e : (IsSignalRoot(e)' <=> IsSignalRoot(e)) /\ Peers(e)' = Peers(e)
  BY SameMachine, SameDevice
<1> QED BY <1>1 DEF Followed

\* The signal root of a switch takes a task when all have signalled, and tells them.
LEMMA RootTakesIt ==
    ASSUME IInv, SInv, machine' = machine, NEW c \in Devices, IsSignalRoot(c), RootNcclTake(c)
    PROVE  SInv'
<1>1. PICK op \in {"REDUCE", "BROADCAST"} : op = nccl_phase[c]
  BY DEF IInv, NcclTyped
<1>2. PICK j \in Keys : /\ GetTask(c, op, j) /\ sq' = Taken(c, op, j) /\ ClearReadyCount(c, op, j)
                        /\ nccl_msgs' = NcclMsg(c, NcclTask(op, j))
  BY <1>1 DEF RootNcclTake
<1>3. queue_list' = queue_list /\ enqueued' = enqueued /\ owed' = owed /\ signals' = signals
  BY DEF RootNcclTake
<1>4. /\ TaskTyped /\ Orders /\ SignalTyped /\ NcclTyped /\ Owing /\ Lowers /\ Followed
      /\ machine \in Machines /\ op \in QueueType /\ op \in Tables /\ 0 \in 0..1 /\ 1 \in 0..1
  BY DEF IInv, TasksKept, TaskTyped, SInv, QueueType, Tables
<1>5. InStage(c, op, j) /\ Move(c, op, j, 0, 1)
  BY <1>2, <1>3, <1>4, GetsTask, MovesOut
<1>6. Rounds(c, op, j, 0, 1) /\ op \in Stages(c, TensorOf(j)) /\ Orders'
  BY <1>5 DEF Move
<1>7. HasTable(c, op) /\ TableOf(op) = op /\ \A k : UseStage(op, k) = op
  BY DEF HasTable, TableOf, UseStage
<1>8. \A d \in Devices, T \in Tables, k \in Keys :
         ready_table'[d][T][k] = IF d = c /\ T = op /\ k = j THEN 0 ELSE ready_table[d][T][k]
  BY <1>2, <1>4, <1>7, ClearedCounts
<1>9. ASSUME NEW d \in Devices, NEW T \in Tables, NEW k \in Keys
      PROVE  Agreed(d, T, k)'
  <2>1. (UseStage(T, k) = op <=> T = op) /\ SignalStage(T) # op
    BY StagesOf DEF Coordinates, Coordinated
  <2>2. CASE T = op /\ k = j /\ d = c
    <3>1. signals'[c][T][j] = signals[c][T][j] /\ op # "COMPRESS"
      BY <1>3
    <3>2. Agreed(c, T, j)'
      BY <1>2, <1>3, <1>4, <1>5, <1>6, <1>7, <2>1, <2>2, <3>1, UsesTable
    <3> QED BY <2>2, <3>2 DEF Agreed
  <2>3. CASE ~(T = op /\ k = j /\ d = c)
    <3>1. ready_table'[d][T][k] = ready_table[d][T][k] /\ signals'[d][T][k] = signals[d][T][k]
      BY <1>3, <1>8, <2>3
    <3>2. op # "PUSH" /\ op # "COMPRESS"
      OBVIOUS
    <3> QED BY <1>3, <1>4, <1>6, <2>1, <2>3, <3>1, <3>2, AgreedElsewhere
  <2> QED BY <2>2, <2>3
<1>10. AllAgreed
  BY <1>9 DEF AllAgreed
<1>11. ASSUME NEW p \in Peers(c) \ {c}
       PROVE  ~Waits(p, op, j)
  <2>1. p \in Devices /\ p \in Senders(c, op)
    BY <1>7 DEF Peers, Senders, Active
  <2>2. ready_table[c][op][j] = ReadyCount(op)
    BY <1>2, <1>7, GetsTask
  <2>3. Restored(c, op, j) = 0
    BY DEF Restored
  <2>4. Outstanding(c, op, j) = Senders(c, op)
    BY <1>4, <2>2, <2>3, AgreedNow, AllSignalled
  <2>5. Used(c, op, j) < Signalled(p, op, j)
    BY <1>7, <2>1, <2>4 DEF Outstanding
  <2>6. PICK s : s = SignalStage(op)
    OBVIOUS
  <2>7. s \in {"COORDINATE_REDUCE", "COORDINATE_BROADCAST"} /\ Rank(s) < Rank(op)
    BY <2>6, Ranks DEF SignalStage
  <2>8. op \in Stages(p, TensorOf(j)) /\ s \in Stages(p, TensorOf(j))
    <3>1. Root \in Devices
      BY <1>4, Geometry
    <3> QED BY <1>4, <2>1, <2>6, <3>1, TableStages, HasStage
  <2>9. Signalled(p, op, j) <= Done(p, s, j) /\ Signalled(p, op, j) \in Int
    BY <1>4, <2>1, <2>6, SignalNumbers
  <2>10. Done(p, s, j) <= Done(p, op, j) + 1
    BY <1>4, <2>1, <2>7, <2>8, InOrder
  <2>11. /\ Done(p, op, j) \in Int /\ Used(p, op, j) \in Int /\ Done(p, op, j) <= Used(p, op, j)
         /\ Used(c, op, j) \in Int /\ Done(p, s, j) \in Int
    BY <1>4, <2>1, Numbers
  <2>12. Follows(c, p)
    BY <1>4 DEF Followed
  <2>13. Used(c, op, j) = Used(p, op, j) + Bit(Waits(p, op, j))
    BY <2>12 DEF Follows
  <2>14. CASE Waits(p, op, j)
    <3>1. Bit(Waits(p, op, j)) = 1
      BY <2>14 DEF Bit
    <3> QED BY <2>5, <2>9, <2>10, <2>11, <2>13, <3>1
  <2> QED BY <2>14
<1>12. PICK x \in CallTask : x = NcclTask(op, j)
  BY NcclTasks
<1>13. \A e \in Devices : /\ e \in Peers(c) \ {c} => nccl_msgs'[e] = Append(nccl_msgs[e], x)
                          /\ e \notin Peers(c) \ {c} => nccl_msgs'[e] = nccl_msgs[e]
  BY <1>2, <1>4, <1>12, Tells
<1>14. \A e \in Devices, o \in {"REDUCE", "BROADCAST"}, i \in Keys :
          /\ Used(e, o, i)' = IF e = c /\ o = op /\ i = j THEN Used(e, o, i) + 1 ELSE Used(e, o, i)
          /\ Used(e, o, i) \in Int
  BY <1>4, <1>6, HasStage, Numbers DEF Rounds
<1>15. ASSUME NEW r \in Devices, IsSignalRoot(r), NEW p \in Peers(r) \ {r}
       PROVE  Follows(r, p)'
  <2>1. Follows(r, p) /\ p \in Devices
    BY <1>4, <1>15 DEF Followed, Peers
  <2>2. ToldOnce(p) /\ nccl_msgs[p] \in Seq(CallTask \cup {DoGroup}) /\ p # c
    <3>1. p \in Peers(p)
      BY DEF Peers
    <3>2. ~IsSignalRoot(p)
      BY <1>15, <3>1, OneRoot
    <3> QED BY <1>4, <2>1, <3>2 DEF Follows, NcclTyped
  <2>3. CASE r = c
    <3>1. \A i \in 1..Len(nccl_msgs[p]) : nccl_msgs[p][i] # x
      BY <1>11, <1>12, <2>3 DEF Waits
    <3>2. nccl_msgs'[p] = Append(nccl_msgs[p], x)
      BY <1>13, <2>1, <2>3
    <3>3. /\ ToldOnce(p)'
          /\ \A o, k : Waits(p, o, k)' <=> Waits(p, o, k) \/ NcclTask(o, k) = x
      BY <2>2, <3>1, <3>2, OneMore
    <3>4. ASSUME NEW o \in {"REDUCE", "BROADCAST"}, NEW k \in Keys
          PROVE  Used(r, o, k)' = Used(p, o, k)' + Bit(Waits(p, o, k)')
      <4>1. Used(r, o, k) = Used(p, o, k) + Bit(Waits(p, o, k))
        BY <2>1 DEF Follows
      <4>2. NcclTask(o, k) = x <=> o = op /\ k = j
        BY <1>12, NcclTasks
      <4>3. Used(p, o, k)' = Used(p, o, k)
        BY <1>14, <2>1, <2>2
      <4>4. CASE o = op /\ k = j
        <5>1. Waits(p, o, k)' /\ ~Waits(p, o, k)
          BY <1>11, <2>3, <3>3, <4>2, <4>4
        <5>2. Bit(Waits(p, o, k)') = 1 /\ Bit(Waits(p, o, k)) = 0
          BY <5>1 DEF Bit
        <5> QED BY <1>14, <2>1, <2>3, <4>1, <4>3, <4>4, <5>2
      <4>5. CASE ~(o = op /\ k = j)
        <5>1. Waits(p, o, k)' <=> Waits(p, o, k)
          BY <3>3, <4>2, <4>5
        <5>2. Bit(Waits(p, o, k)') = Bit(Waits(p, o, k))
          BY <5>1 DEF Bit
        <5> QED BY <1>14, <4>1, <4>3, <4>5, <5>2
      <4> QED BY <4>4, <4>5
    <3> QED BY <3>3, <3>4 DEF Follows, Bit
  <2>4. CASE r # c
    <3>1. p \notin Peers(c)
      BY <1>15, <2>4, OneRoot
    <3>2. nccl_msgs'[p] = nccl_msgs[p]
      BY <1>13, <2>1, <3>1
    <3>3. /\ ToldOnce(p)' <=> ToldOnce(p)
          /\ \A o, k : Waits(p, o, k)' <=> Waits(p, o, k)
      BY <3>2 DEF ToldOnce, Waits
    <3>4. \A o \in {"REDUCE", "BROADCAST"}, k \in Keys :
             Used(p, o, k)' = Used(p, o, k) /\ Used(r, o, k)' = Used(r, o, k)
      BY <1>14, <2>1, <2>2, <2>4
    <3> QED BY <2>1, <3>3, <3>4 DEF Follows, Bit
  <2> QED BY <2>3, <2>4
<1>16. Followed'
  BY <1>15, FollowedNext
<1>17. Owing'
  BY <1>3, <1>4, OwingStays
<1> QED BY <1>6, <1>10, <1>16, <1>17, AgreedNext

\* A group is closed.
LEMMA RootClosesIt ==
    ASSUME IInv, SInv, machine' = machine, NEW c \in Devices, IsSignalRoot(c), RootNcclNext(c)
    PROVE  SInv'
<1>1. /\ queue_list' = queue_list /\ sq' = sq /\ enqueued' = enqueued /\ owed' = owed
      /\ ready_table' = ready_table /\ signals' = signals
      /\ nccl_msgs' = nccl_msgs \/ nccl_msgs' = NcclMsg(c, DoGroup)
  BY DEF RootNcclNext, taskVars, signalVars
<1>2. TaskTyped /\ NcclTyped /\ Orders /\ Owing /\ Followed
  BY DEF IInv, TasksKept, SInv
<1>3. Still
  BY <1>1, <1>2, NoneMoves
<1>4. CASE nccl_msgs' = nccl_msgs
  BY <1>1, <1>3, <1>4, StillKeeps
<1>5. CASE nccl_msgs' = NcclMsg(c, DoGroup)
  <2>1. \A e \in Devices : /\ e \in Peers(c) \ {c} => nccl_msgs'[e] = Append(nccl_msgs[e], DoGroup)
                           /\ e \notin Peers(c) \ {c} => nccl_msgs'[e] = nccl_msgs[e]
    BY <1>2, <1>5, Tells
  <2>2. \A e \in Devices, o \in {"REDUCE", "BROADCAST"}, i \in Keys : Used(e, o, i)' = Used(e, o, i)
    BY <1>3, HasStage DEF Still, NoRounds
  <2>3. ASSUME NEW r \in Devices, IsSignalRoot(r), NEW p \in Peers(r) \ {r}
        PROVE  Follows(r, p)'
    <3>1. Follows(r, p) /\ p \in Devices
      BY <1>2, <2>3 DEF Followed, Peers
    <3>2. ToldOnce(p) /\ nccl_msgs[p] \in Seq(CallTask \cup {DoGroup})
      BY <1>2, <3>1 DEF Follows, NcclTyped
    <3>3. ToldOnce(p)' /\ \A o \in {"REDUCE", "BROADCAST"}, k \in Keys : Waits(p, o, k)' <=> Waits(p, o, k)
      <4>1. CASE p \in Peers(c) \ {c}
        <5>1. /\ ToldOnce(p)'
              /\ \A o, k : Waits(p, o, k)' <=> Waits(p, o, k) \/ NcclTask(o, k) = DoGroup
          <6>1. PICK x : x = DoGroup
            OBVIOUS
          <6>2. nccl_msgs'[p] = Append(nccl_msgs[p], x)
            BY <2>1, <3>1, <4>1, <6>1
          <6>3. /\ ToldOnce(p)'
                /\ \A o, k : Waits(p, o, k)' <=> Waits(p, o, k) \/ NcclTask(o, k) = x
            BY <3>2, <6>1, <6>2, OneMore
          <6> QED BY <6>1, <6>3
        <5>2. \A o \in {"REDUCE", "BROADCAST"}, k \in Keys : NcclTask(o, k) # DoGroup
          BY NcclTasks
        <5> QED BY <5>1, <5>2
      <4>2. CASE p \notin Peers(c) \ {c}
        <5>1. nccl_msgs'[p] = nccl_msgs[p]
          BY <2>1, <3>1, <4>2
        <5> QED BY <3>2, <5>1 DEF ToldOnce, Waits
      <4> QED BY <4>1, <4>2
    <3> QED BY <2>2, <3>1, <3>3 DEF Follows, Bit
  <2>4. Followed'
    BY <2>3, FollowedNext
  <2>5. AllAgreed
    <3> SUFFICES ASSUME NEW d \in Devices, NEW T \in Tables, NEW k \in Keys
                 PROVE  Agreed(d, T, k)'
      BY DEF AllAgreed
    <3>1. NoRounds /\ 0 \in 0..1
      BY <1>3 DEF Still
    <3>2. Rounds(d, "COPYD2H", k, 0, 0)
      BY <1>2, <3>1, RoundsNone
    <3> QED BY <1>1, <1>2, <3>1, <3>2, AgreedElsewhere
  <2>6. Owing' /\ Orders'
    BY <1>1, <1>2, <1>3, OwingStays DEF Still
  <2> QED BY <2>4, <2>5, <2>6, AgreedNext
<1> QED BY <1>1, <1>4, <1>5

-----------------------------------------------------------------------------
(* A device that is told a task has it.                                    *)

\* No device but the signal root starts a task with an NCCL call.
LEMMA NoEvent ==
    ASSUME NEW c \in Devices, ~IsSignalRoot(c), NEW op \in {"REDUCE", "BROADCAST"}, NEW k
    PROVE  EventReady(c, op, k)
<1>1. PICK t : t = TensorOf(k)
  OBVIOUS
<1>2. PICK s : s = QueueList(c, t)
  OBVIOUS
<1>3. EndOfList(s, c, t) /\ s # <<>>
  <2>1. "REDUCE" \in Holding(s)
    BY <1>2, HasStage DEF Stages
  <2>2. s # <<>>
    BY <2>1 DEF Holding
  <2> QED BY <1>2, <2>2, WholeList
<1>4. "COORDINATE_REDUCE" \in Stages(c, t) /\ "COORDINATE_REDUCE" \in Holding(s)
  BY <1>2, HasStage DEF Stages
<1>5. Rank(Head(s)) <= Rank("COORDINATE_REDUCE")
  BY <1>3, <1>4, EndFacts
<1>6. Head(s) # op
  BY <1>5, Ranks
<1> QED BY <1>1, <1>2, <1>6 DEF EventReady

\* The stage after the signal of a device is that of the call.
LEMMA NextIsCall ==
    ASSUME TaskTyped, Orders, NEW c \in Devices, ~IsSignalRoot(c), NEW k \in Keys,
           NEW op \in {"REDUCE", "BROADCAST"}, NEW s, s = SignalStage(op),
           Used(c, op, k) < Done(c, s, k)
    PROVE  InStage(c, op, k) /\ Holds(sq, c, op, k)
<1>1. PICK l : l = queue_list[c][k]
  OBVIOUS
<1>2. /\ s \in {"COORDINATE_REDUCE", "COORDINATE_BROADCAST"} /\ Rank(op) = Rank(s) + 1
      /\ Rank(s) \in Nat
  BY Ranks DEF SignalStage
<1>3. s \in Stages(c, TensorOf(k)) /\ op \in Stages(c, TensorOf(k))
  BY HasStage DEF SignalStage
<1>4. op \in Left(c, k) /\ s \notin Left(c, k)
  <2>1. Done(c, op, k) <= Used(c, op, k) /\ Done(c, op, k) \in Int /\ Used(c, op, k) \in Int
        /\ Done(c, s, k) \in Int /\ Step(c, k) \in Nat
    BY Numbers
  <2>2. Done(c, op, k) < Done(c, s, k)
    BY <2>1
  <2>3. /\ Done(c, op, k) = Step(c, k) - Bit(op \in Left(c, k))
        /\ Done(c, s, k) = Step(c, k) - Bit(s \in Left(c, k))
    BY DEF Done
  <2>4. Bit(op \in Left(c, k)) \in {0, 1} /\ Bit(s \in Left(c, k)) \in {0, 1}
    BY DEF Bit
  <2>5. Bit(op \in Left(c, k)) = 1 /\ Bit(s \in Left(c, k)) = 0
    BY <2>1, <2>2, <2>3, <2>4
  <2> QED BY <2>5 DEF Bit
<1>5. EndOfList(l, c, TensorOf(k)) /\ l # <<>> /\ Left(c, k) = Holding(l)
  <2>1. Ordered(c, k)
    BY DEF Orders
  <2>2. l # <<>>
    BY <1>1, <1>4 DEF Left, Holding
  <2> QED BY <1>1, <2>1, <2>2 DEF Ordered, Left
<1>6. PICK h \in QueueType : h = Head(l) /\ h \in Stages(c, TensorOf(k))
  BY <1>5, EndFacts
<1>7. Rank(h) <= Rank(op) /\ ~(Rank(h) <= Rank(s)) /\ Rank(h) \in Nat
  <2>1. \A a \in Stages(c, TensorOf(k)) : a \in Holding(l) <=> Rank(Head(l)) <= Rank(a)
    BY <1>5, EndFacts
  <2>2. Rank(h) \in Nat
    BY Ranks
  <2> QED BY <1>3, <1>4, <1>5, <1>6, <2>1, <2>2
<1>8. Rank(h) = Rank(op)
  BY <1>2, <1>7
<1>9. h = op
  <2>1. op \in {"REDUCE", "BROADCAST"} /\ Rank(op) \in {2, 12}
    BY Ranks
  <2> QED BY <1>8, <2>1, Ranks DEF QueueType, Coordinates, Coordinated, Calls
<1>10. InStage(c, op, k)
  BY <1>1, <1>5, <1>6, <1>9 DEF InStage
<1>11. Holds(sq, c, op, k)
  <2>1. CASE Took(c, op, k)
    <3>1. Used(c, op, k) = Step(c, k) /\ Step(c, k) \in Nat
      BY <2>1, Numbers
    <3>2. Done(c, s, k) = Step(c, k) - 0
      BY <1>4 DEF Done, Bit
    <3> QED BY <3>1, <3>2
  <2>2. CASE ~Took(c, op, k)
    BY <1>10, <2>2 DEF Took
  <2> QED BY <2>1, <2>2
<1> QED BY <1>10, <1>11

\* The signal root took the task after the signal of the device.
LEMMA ToldHas ==
    ASSUME IInv, SInv, NEW c \in Devices, ~IsSignalRoot(c),
           NEW op \in {"REDUCE", "BROADCAST"}, NEW k \in Keys, Waits(c, op, k)
    PROVE  InStage(c, op, k) /\ Holds(sq, c, op, k)
<1>1. TaskTyped /\ Orders /\ Lowers /\ Followed /\ machine \in Machines
  BY DEF IInv, TasksKept, TaskTyped, SInv
<1>2. PICK r \in Devices : r = SignalRoot(c)
  BY <1>1, OfDevice
<1>3. IsSignalRoot(r) /\ c \in Peers(r) \ {r}
  BY <1>1, <1>2, Places DEF Peers
<1>4. PICK T \in Tables : T = op
  BY DEF Tables
<1>5. c \in Senders(r, T) /\ UseStage(T, k) = op
  BY <1>3, <1>4 DEF Senders, Active, HasTable, UseStage
<1>6. Used(r, op, k) <= Signalled(c, op, k)
  BY <1>1, <1>4, <1>5 DEF Lowers, Lower
<1>7. Used(r, op, k) = Used(c, op, k) + 1
  <2>1. Follows(r, c)
    BY <1>1, <1>3 DEF Followed
  <2>2. Used(r, op, k) = Used(c, op, k) + Bit(Waits(c, op, k))
    BY <2>1 DEF Follows
  <2>3. Bit(Waits(c, op, k)) = 1
    BY DEF Bit
  <2> QED BY <2>2, <2>3
<1>8. PICK s : s = SignalStage(op)
  OBVIOUS
<1>9. Signalled(c, op, k) <= Done(c, s, k) /\ Signalled(c, op, k) \in Int
  BY <1>1, <1>8, SignalNumbers
<1>10. Used(c, op, k) \in Int /\ Done(c, s, k) \in Int /\ Used(r, op, k) \in Int
  BY <1>1, Numbers
<1>11. Used(c, op, k) < Done(c, s, k)
  BY <1>6, <1>7, <1>9, <1>10
<1> QED BY <1>1, <1>8, <1>11, NextIsCall

\* A device follows the signal root of its switch, and finds the task.
LEMMA RootIsFollowed ==
    ASSUME IInv, SInv, machine' = machine, NEW c \in Devices, ~IsSignalRoot(c), NonRootNccl(c)
    PROVE  SInv' /\ aborted' = aborted
<1>1. PICK x \in CallTask \cup {DoGroup} : x = Head(nccl_msgs[c]) /\ nccl_msgs[c] # <<>>
  <2>1. nccl_msgs[c] \in Seq(CallTask \cup {DoGroup}) /\ nccl_msgs[c] # <<>>
    BY DEF NonRootNccl, IInv, NcclTyped
  <2>2. PICK m \in Seq(CallTask \cup {DoGroup}) : m = nccl_msgs[c] /\ m # <<>>
    BY <2>1
  <2>3. Head(m) \in CallTask \cup {DoGroup}
    BY <2>2
  <2> QED BY <2>2, <2>3, Zenon
<1>2. /\ TaskTyped /\ NcclTyped /\ Orders /\ Owing /\ Followed /\ machine \in Machines
      /\ 0 \in 0..1 /\ 1 \in 0..1
  BY DEF IInv, TasksKept, TaskTyped, SInv
<1>3. PICK m \in Seq(CallTask \cup {DoGroup}) : m = nccl_msgs[c] /\ m # <<>> /\ x = Head(m)
  BY <1>1, <1>2 DEF NcclTyped
<1>4. x = NextCall(c)
  BY <1>1 DEF NextCall
\* What the messages to the devices are when this one is gone.
<1>5. ASSUME nccl_msgs' = [nccl_msgs EXCEPT ![c] = Tail(@)]
      PROVE  /\ nccl_msgs'[c] = Tail(nccl_msgs[c])
             /\ \A e \in Devices \ {c} : nccl_msgs'[e] = nccl_msgs[e]
  BY <1>2, <1>5 DEF NcclTyped
<1>6. ASSUME nccl_msgs' = [nccl_msgs EXCEPT ![c] = Tail(@)],
             \A e \in Devices, o \in {"REDUCE", "BROADCAST"}, i \in Keys :
                Used(e, o, i)' = IF e = c /\ NcclTask(o, i) = x THEN Used(e, o, i) + 1
                                 ELSE Used(e, o, i)
      PROVE  Followed'
  <2>1. ASSUME NEW r \in Devices, IsSignalRoot(r), NEW p \in Peers(r) \ {r}
        PROVE  Follows(r, p)'
    <3>1. Follows(r, p) /\ p \in Devices /\ r # c
      BY <1>2, <2>1 DEF Followed, Peers
    <3>2. ToldOnce(p) /\ nccl_msgs[p] \in Seq(CallTask \cup {DoGroup})
      BY <1>2, <3>1 DEF Follows, NcclTyped
    <3>3. CASE p = c
      <4>1. /\ ToldOnce(p)'
            /\ \A o \in {"REDUCE", "BROADCAST"}, k \in Keys :
                  Waits(p, o, k)' <=> Waits(p, o, k) /\ NcclTask(o, k) # Head(nccl_msgs[p])
        BY <1>1, <1>5, <1>6, <3>2, <3>3, OneGone
      <4>2. ASSUME NEW o \in {"REDUCE", "BROADCAST"}, NEW k \in Keys
            PROVE  Used(r, o, k)' = Used(p, o, k)' + Bit(Waits(p, o, k)')
        <5>1. Used(r, o, k) = Used(p, o, k) + Bit(Waits(p, o, k)) /\ Used(p, o, k) \in Int
          BY <1>2, <3>1, Numbers DEF Follows
        <5>2. Used(r, o, k)' = Used(r, o, k)
          BY <1>6, <3>1
        <5>3. CASE NcclTask(o, k) = x
          <6>1. Waits(p, o, k) /\ ~Waits(p, o, k)'
            <7>1. 1 \in 1..Len(m) /\ m[1] = x
              BY <1>3
            <7> QED BY <1>1, <1>3, <3>3, <4>1, <5>3, <7>1 DEF Waits
          <6>2. Bit(Waits(p, o, k)) = 1 /\ Bit(Waits(p, o, k)') = 0
            BY <6>1 DEF Bit
          <6>3. Used(p, o, k)' = Used(p, o, k) + 1
            BY <1>6, <3>1, <3>3, <5>3
          <6> QED BY <5>1, <5>2, <6>2, <6>3
        <5>4. CASE NcclTask(o, k) # x
          <6>1. Waits(p, o, k)' <=> Waits(p, o, k)
            BY <1>1, <3>3, <4>1, <5>4
          <6>2. Bit(Waits(p, o, k)') = Bit(Waits(p, o, k))
            BY <6>1 DEF Bit
          <6>3. Used(p, o, k)' = Used(p, o, k)
            BY <1>6, <3>1, <5>4
          <6> QED BY <5>1, <5>2, <6>2, <6>3
        <5> QED BY <5>3, <5>4
      <4> QED BY <4>1, <4>2 DEF Follows, Bit
    <3>4. CASE p # c
      <4>1. nccl_msgs'[p] = nccl_msgs[p]
        BY <1>5, <1>6, <3>1, <3>4
      <4>2. /\ ToldOnce(p)' <=> ToldOnce(p)
            /\ \A o, k : Waits(p, o, k)' <=> Waits(p, o, k)
        BY <4>1 DEF ToldOnce, Waits
      <4>3. \A o \in {"REDUCE", "BROADCAST"}, k \in Keys :
               Used(p, o, k)' = Used(p, o, k) /\ Used(r, o, k)' = Used(r, o, k)
        BY <1>6, <3>1, <3>4
      <4> QED BY <3>1, <4>2, <4>3 DEF Follows, Bit
    <3> QED BY <3>3, <3>4
  <2> QED BY <2>1, FollowedNext
<1>7. CASE x = DoGroup
  <2>1. /\ queue_list' = queue_list /\ sq' = sq /\ enqueued' = enqueued /\ owed' = owed
        /\ ready_table' = ready_table /\ signals' = signals /\ aborted' = aborted
        /\ nccl_msgs' = [nccl_msgs EXCEPT ![c] = Tail(@)]
    BY <1>4, <1>7 DEF NonRootNccl, taskVars, signalVars
  <2>2. Still
    BY <1>2, <2>1, NoneMoves
  <2>3. \A e \in Devices, o \in {"REDUCE", "BROADCAST"}, i \in Keys :
           Used(e, o, i)' = Used(e, o, i) /\ NcclTask(o, i) # x
    BY <1>7, <2>2, HasStage, NcclTasks DEF Still, NoRounds
  <2>4. Followed'
    BY <1>6, <2>1, <2>3
  <2>5. AllAgreed
    <3> SUFFICES ASSUME NEW d \in Devices, NEW T \in Tables, NEW k \in Keys
                 PROVE  Agreed(d, T, k)'
      BY DEF AllAgreed
    <3>1. Rounds(d, "COPYD2H", k, 0, 0)
      BY <1>2, <2>2, RoundsNone DEF Still
    <3> QED BY <1>2, <2>1, <3>1, AgreedElsewhere
  <2>6. Owing' /\ Orders'
    BY <1>2, <2>1, <2>2, OwingStays DEF Still
  <2> QED BY <2>1, <2>4, <2>5, <2>6, AgreedNext
<1>8. CASE x # DoGroup
  <2>1. PICK op \in {"REDUCE", "BROADCAST"}, k \in Keys :
           op = x.op /\ k = x.key /\ x = NcclTask(op, k)
    BY <1>1, <1>8, NcclTasks
  <2>2. InStage(c, op, k) /\ Holds(sq, c, op, k)
    <3>1. 1 \in 1..Len(m) /\ m[1] = x
      BY <1>3
    <3>2. Waits(c, op, k)
      BY <1>3, <2>1, <3>1 DEF Waits
    <3> QED BY <3>2, ToldHas
  <2>3. FindsTask(c, op, k)
    <3>1. \A j : EventReady(c, op, j)
      BY NoEvent
    <3> QED BY <2>2, <3>1 DEF FindsTask, Holds, Range
  <2>4. /\ sq' = Taken(c, op, k) /\ nccl_msgs' = [nccl_msgs EXCEPT ![c] = Tail(@)]
        /\ queue_list' = queue_list /\ enqueued' = enqueued /\ owed' = owed
        /\ ready_table' = ready_table /\ signals' = signals /\ aborted' = aborted
    BY <1>4, <1>8, <2>1, <2>3 DEF NonRootNccl, signalVars
  <2>5. op \in QueueType /\ k \in Range(sq[c][op])
    BY <2>2 DEF Holds, QueueType
  <2>6. Move(c, op, k, 0, 1)
    BY <1>2, <2>4, <2>5, MovesOut
  <2>7. Rounds(c, op, k, 0, 1) /\ Orders'
    BY <2>6 DEF Move
  <2>8. AllAgreed
    <3> SUFFICES ASSUME NEW d \in Devices, NEW T \in Tables, NEW j \in Keys
                 PROVE  Agreed(d, T, j)'
      BY DEF AllAgreed
    <3>1. d = c /\ op = UseStage(T, j) => Senders(d, T) = {}
      <4>1. op = UseStage(T, j) => T = op
        BY StagesOf
      <4>2. ~HasTable(c, op)
        BY DEF HasTable
      <4> QED BY <4>1, <4>2 DEF Senders
    <3> QED BY <1>2, <2>4, <2>7, <3>1, AgreedElsewhere
  <2>9. \A e \in Devices, o \in {"REDUCE", "BROADCAST"}, i \in Keys :
           Used(e, o, i)' = IF e = c /\ NcclTask(o, i) = x THEN Used(e, o, i) + 1
                            ELSE Used(e, o, i)
    <3>1. ASSUME NEW e \in Devices, NEW o \in {"REDUCE", "BROADCAST"}, NEW i \in Keys
          PROVE  Used(e, o, i)' = IF e = c /\ o = op /\ i = k THEN Used(e, o, i) + 1
                                  ELSE Used(e, o, i)
      <4>1. o \in Stages(e, TensorOf(i)) /\ Used(e, o, i) \in Int
        BY <1>2, HasStage, Numbers
      <4> QED BY <2>7, <4>1 DEF Rounds
    <3>2. \A o, i : NcclTask(o, i) = x <=> o = op /\ i = k
      BY <2>1, NcclTasks
    <3> QED BY <3>1, <3>2
  <2>10. Followed'
    BY <1>6, <2>4, <2>9
  <2>11. Owing'
    BY <1>2, <2>4, OwingStays
  <2> QED BY <2>4, <2>7, <2>8, <2>10, <2>11, AgreedNext
<1> QED BY <1>7, <1>8

-----------------------------------------------------------------------------
(* The rest of the loops, and the theorems.                                *)

\* The task of a group goes on.
LEMMA GroupSignals ==
    ASSUME IInv, SInv, machine' = machine, NEW c \in Devices, SyncNccl(c)
    PROVE  SInv'
<1>1. /\ ready_table' = ready_table /\ signals' = signals /\ owed' = owed
      /\ nccl_msgs' = nccl_msgs
  BY DEF SyncNccl, signalVars
<1>2. TaskTyped /\ Orders /\ 0 \in 0..1 /\ 1 \in 0..1
  BY DEF IInv, TasksKept, SInv
<1>3. PICK op \in {"REDUCE", "BROADCAST"}, j \in Keys : Move(c, op, j, 1, 0)
  BY <1>2, MovesFromGroup
<1>4. Rounds(c, op, j, 1, 0)
  BY <1>3 DEF Move
<1>5. ASSUME NEW d \in Devices, NEW T \in Tables, NEW k \in Keys
      PROVE  Agreed(d, T, k)'
  <2>1. SignalStage(T) # op
    BY StagesOf DEF Coordinates, Coordinated
  <2> QED BY <1>1, <1>2, <1>4, <2>1, AgreedElsewhere
<1>6. AllAgreed
  BY <1>5 DEF AllAgreed
<1> QED BY <1>1, <1>2, <1>3, <1>6, MoveKeeps

\* The framework enqueues a tensor, or its gradient is ready.
LEMMA FrameworkSignals ==
    ASSUME IInv, SInv, machine' = machine, NEW d \in Devices, NEW t \in Tensors,
           EnqueueTensor(d, t) \/ ReadyEvent(d, t)
    PROVE  SInv' /\ aborted' = aborted
<1>1. /\ ready_table' = ready_table /\ signals' = signals /\ owed' = owed
      /\ nccl_msgs' = nccl_msgs /\ aborted' = aborted
  BY DEF EnqueueTensor, ReadyEvent, signalVars, ncclVars
<1>2. Still
  <2>1. IInv'
    BY FrameworkKeeps
  <2>2. CASE EnqueueTensor(d, t)
    BY <2>1, <2>2, EnqueuesRounds DEF SInv
  <2>3. CASE ReadyEvent(d, t)
    <3>1. queue_list' = queue_list /\ sq' = sq /\ enqueued' = enqueued
      BY <2>3 DEF ReadyEvent
    <3> QED BY <3>1, NoneMoves DEF SInv
  <2> QED BY <2>2, <2>3
<1> QED BY <1>1, <1>2, StillKeeps

\* Nothing that counts changes.
LEMMA SameSignals ==
    ASSUME IInv, SInv, machine' = machine, UNCHANGED <<taskVars, signalVars, ncclVars>>
    PROVE  SInv'
<1>1. /\ ready_table' = ready_table /\ signals' = signals /\ owed' = owed
      /\ nccl_msgs' = nccl_msgs /\ queue_list' = queue_list /\ sq' = sq /\ enqueued' = enqueued
  BY DEF taskVars, signalVars, ncclVars
<1>2. Still
  BY <1>1, NoneMoves DEF SInv
<1> QED BY <1>1, <1>2, StillKeeps

\* The calls of the root return, or SetReadyCount does not.
LEMMA ReturnSignals ==
    ASSUME IInv, SInv, machine' = machine, NEW k \in Keys,
           CompressJob(k) \/ PushDone(k) \/ PullDone(k) \/ DecompressJob(k)
    PROVE  SInv' /\ (machine.reset_returns => aborted' = aborted)
<1>1. "COMPRESS" \in Calls /\ "PUSH" \in Calls /\ "PULL" \in Calls /\ "DECOMPRESS" \in Calls
  BY DEF Calls
<1>2. CASE CompressJob(k)
  <2>1. CASE machine.reset_returns
    <3>1. /\ Return("COMPRESS", k)
          /\ ready_table' = [ready_table EXCEPT ![Root]["PUSH"][k] = RestoredCount]
          /\ UNCHANGED ncclVars /\ signals' = signals /\ owed' = owed /\ aborted' = aborted
      BY <1>2, <2>1 DEF CompressJob
    <3>2. SInv'
      BY <1>1, <3>1, CallsReturn
    <3> QED BY <3>1, <3>2
  <2>2. CASE ~machine.reset_returns
    <3>1. UNCHANGED <<taskVars, signalVars, ncclVars>>
      BY <1>2, <2>2 DEF CompressJob, Abort
    <3> QED BY <2>2, <3>1, SameSignals
  <2> QED BY <2>1, <2>2
<1>3. ASSUME NEW op \in {"PUSH", "PULL", "DECOMPRESS"}, Return(op, k),
             UNCHANGED ncclVars, UNCHANGED signalVars
      PROVE  SInv'
  <2>1. ready_table' = ready_table /\ signals' = signals /\ owed' = owed /\ op # "COMPRESS"
    BY <1>3 DEF signalVars
  <2>2. op \in Calls
    BY <1>1
  <2> QED BY <1>3, <2>1, <2>2, CallsReturn
<1>4. CASE PushDone(k)
  <2>1. Return("PUSH", k) /\ UNCHANGED ncclVars /\ UNCHANGED signalVars /\ aborted' = aborted
    BY <1>4 DEF PushDone
  <2> QED BY <1>3, <2>1
<1>5. CASE PullDone(k)
  <2>1. Return("PULL", k) /\ UNCHANGED ncclVars /\ UNCHANGED signalVars /\ aborted' = aborted
    BY <1>5 DEF PullDone
  <2> QED BY <1>3, <2>1
<1>6. CASE DecompressJob(k)
  <2>1. Return("DECOMPRESS", k) /\ UNCHANGED ncclVars /\ UNCHANGED signalVars
        /\ aborted' = aborted
    BY <1>6 DEF DecompressJob
  <2> QED BY <1>3, <2>1
<1> QED BY <1>2, <1>4, <1>5, <1>6

\* A device at its work.
LEMMA DeviceSignals ==
    ASSUME IInv, SInv, NEW d \in Devices, Device(d)
    PROVE  SInv' /\ aborted' = aborted /\ machine' = machine
<1>1. CASE \E t \in Tensors : Framework(d, t)
  BY <1>1, FrameworkSignals DEF Framework, Alive
<1>2. CASE \E op \in Coordinates : CoordinateLoop(d, op)
  <2>1. PICK op \in Coordinates : /\ Coordinate(d, op) \/ SendSignal(d, op)
                                  /\ machine' = machine
    BY <1>2 DEF CoordinateLoop, Alive
  <2>2. aborted' = aborted
    BY <2>1 DEF Coordinate, SendSignal
  <2> QED BY <2>1, <2>2, CoordinateOwes, SignalGoes
<1>3. CASE \E table \in Tables, k \in Keys : Listen(d, table, k)
  BY <1>3, CountsUp DEF Listen, Alive
<1>4. CASE SyncNcclLoop(d)
  <2>1. SyncNccl(d) /\ machine' = machine /\ aborted' = aborted
    BY <1>4 DEF SyncNcclLoop, Alive, SyncNccl
  <2> QED BY <2>1, GroupSignals
<1>5. CASE CopyDevice2HostLoop(d)
  <2>1. CopyDevice2Host(d) /\ machine' = machine /\ aborted' = aborted
    BY <1>5 DEF CopyDevice2HostLoop, Alive, CopyDevice2Host
  <2> QED BY <2>1, CopiesD2H
<1>6. CASE PcieReduceLoop(d)
  <2>1. PcieReduce(d) /\ machine' = machine /\ aborted' = aborted
    BY <1>6 DEF PcieReduceLoop, Alive, PcieReduce
  <2> QED BY <2>1, ReducesPcie
<1>7. CASE CopyHost2DeviceLoop(d)
  <2>1. CopyHost2Device(d) /\ machine' = machine /\ aborted' = aborted
    BY <1>7 DEF CopyHost2DeviceLoop, Alive, CopyHost2Device
  <2> QED BY <2>1, CopiesH2D
<1> QED BY <1>1, <1>2, <1>3, <1>4, <1>5, <1>6, <1>7 DEF Device

\* The NCCL loop of a device.
LEMMA NcclSignals ==
    ASSUME IInv, SInv, NEW d \in Devices, NcclLoop(d)
    PROVE  SInv' /\ aborted' = aborted /\ machine' = machine
<1>1. machine' = machine
  BY DEF NcclLoop, Alive
<1>2. CASE IsSignalRoot(d)
  <2>1. RootNcclTake(d) \/ RootNcclNext(d)
    BY <1>2 DEF NcclLoop, Alive
  <2>2. aborted' = aborted
    BY <2>1 DEF RootNcclTake, RootNcclNext
  <2> QED BY <1>1, <1>2, <2>1, <2>2, RootTakesIt, RootClosesIt
<1>3. CASE ~IsSignalRoot(d)
  <2>1. NonRootNccl(d)
    BY <1>3 DEF NcclLoop, Alive
  <2> QED BY <1>1, <1>3, <2>1, RootIsFollowed
<1> QED BY <1>2, <1>3

\* The loops of the root and the calls that return.
LEMMA RootSignals ==
    ASSUME IInv, SInv, RootCalls
    PROVE  /\ SInv' /\ machine' = machine
           /\ machine.reset_returns => aborted' = aborted
<1>1. ASSUME NEW op \in Calls, CallLoop(op)
      PROVE  SInv' /\ machine' = machine /\ aborted' = aborted
  <2>1. CASE op = "PUSH" /\ ~machine.is_distributed
    <3>1. DummyBarrier /\ machine' = machine /\ aborted' = aborted
      BY <1>1, <2>1 DEF CallLoop, Alive, DummyBarrier
    <3> QED BY <3>1, BarrierPasses
  <2>2. CASE ~(op = "PUSH" /\ ~machine.is_distributed)
    <3>1. Call(op) /\ machine' = machine
      BY <1>1, <2>2 DEF CallLoop, Alive
    <3>2. aborted' = aborted
      BY <3>1 DEF Call
    <3> QED BY <3>1, <3>2, CallsBegin
  <2> QED BY <2>1, <2>2
<1>2. ASSUME NEW k \in Keys, CallReturns(k)
      PROVE  SInv' /\ machine' = machine /\ (machine.reset_returns => aborted' = aborted)
  BY <1>2, ReturnSignals DEF CallReturns, Alive
<1> QED BY <1>1, <1>2 DEF RootCalls

\* No step of the machine loses or makes up a signal, and no check fails in it.
LEMMA NextSignals ==
    ASSUME IInv, SInv, [Next]_vars
    PROVE  /\ SInv' /\ machine' = machine
           /\ machine.reset_returns => aborted' = aborted
<1>1. CASE UNCHANGED vars
  <2>1. machine' = machine /\ UNCHANGED <<taskVars, signalVars, ncclVars>> /\ aborted' = aborted
    BY <1>1 DEF vars
  <2> QED BY <2>1, SameSignals
<1>2. ASSUME NEW d \in Devices, Device(d) \/ NcclLoop(d)
      PROVE  SInv' /\ machine' = machine /\ aborted' = aborted
  BY <1>2, DeviceSignals, NcclSignals
<1>3. CASE RootCalls
  BY <1>3, RootSignals
<1> QED BY <1>1, <1>2, <1>3 DEF Next

\* Nothing was signalled and nothing taken when the loops start.
LEMMA InitSignals ==
    ASSUME Init
    PROVE  SInv
<1>1. /\ \A d \in Devices, k \in Keys : queue_list[d][k] = <<>> /\ Step(d, k) = 0
      /\ \A d \in Devices : nccl_msgs[d] = <<>>
      /\ \A d \in Devices, T \in Tables, k \in Keys :
            ready_table[d][T][k] = 0 /\ signals[d][T][k] = 0
      /\ \A d \in Devices, op \in Coordinates : owed[d][op] = NoKey
  BY KeyFacts DEF Init, Step
<1>2. IInv /\ TaskTyped
  BY InitKeeps DEF IInv, TasksKept
<1>3. Orders
  <2>1. \A d, t : EndOfList(<<>>, d, t)
    BY NothingLeft
  <2> QED BY <1>1, <2>1 DEF Orders, Ordered
<1>4. Owing
  BY <1>1 DEF Owing
<1>5. ASSUME NEW d \in Devices, NEW op, NEW k \in Keys
      PROVE  Done(d, op, k) = 0 /\ Used(d, op, k) = 0
  <2>1. Left(d, k) = {}
    BY <1>1, NothingLeft DEF Left
  <2>2. Done(d, op, k) = 0
    BY <1>1, <2>1 DEF Done, Bit
  <2>3. ~Took(d, op, k)
    BY <1>1 DEF Took, InStage
  <2> QED BY <2>2, <2>3 DEF Used, Bit
<1>6. ASSUME NEW d \in Devices, NEW T \in Tables, NEW k \in Keys
      PROVE  Lower(d, T, k) /\ Count(d, T, k)
  <2>1. PICK s : s = SignalStage(T)
    OBVIOUS
  <2>2. PICK u : u = UseStage(T, k)
    OBVIOUS
  <2>3. \A e \in Devices : Signalled(e, T, k) = 0
    <3>1. ASSUME NEW e \in Devices PROVE ~Owes(e, s, k)
      <4>1. k # NoKey
        BY KeyFacts DEF NoKey
      <4> QED BY <1>1, <4>1 DEF Owes
    <3> QED BY <1>5, <2>1, <3>1 DEF Signalled, Bit
  <2>4. Used(d, u, k) = 0 /\ Root \in Devices
    BY <1>2, <1>5, Geometry DEF TaskTyped
  <2>5. \A e \in Senders(d, T) : e \in Devices
    BY <2>4, TableStages
  <2>6. Lower(d, T, k)
    BY <2>2, <2>3, <2>4, <2>5 DEF Lower
  <2>7. Outstanding(d, T, k) = {}
    BY <2>2, <2>3, <2>4, <2>5 DEF Outstanding
  <2>8. Cardinality(Outstanding(d, T, k)) = 0
    BY <2>7, FS_EmptySet
  <2>9. Restored(d, T, k) = 0
    <3>1. CASE T = "PUSH" /\ d = Root
      BY <1>5, <3>1 DEF Restored
    <3>2. CASE ~(T = "PUSH" /\ d = Root)
      BY <3>2 DEF Restored
    <3> QED BY <3>1, <3>2
  <2> QED BY <1>1, <2>6, <2>8, <2>9 DEF Count
<1>7. Followed
  <2>1. ASSUME NEW r \in Devices, NEW p \in Devices
        PROVE  Follows(r, p)
    <3>1. Len(nccl_msgs[p]) = 0
      BY <1>1
    <3>2. ToldOnce(p) /\ \A op, k : ~Waits(p, op, k)
      BY <3>1 DEF ToldOnce, Waits
    <3> QED BY <1>5, <3>2 DEF Follows, Bit
  <2>2. \A r : Peers(r) \subseteq Devices
    BY DEF Peers
  <2> QED BY <2>1, <2>2 DEF Followed
<1> QED BY <1>3, <1>4, <1>6, <1>7 DEF SInv, Lowers, CountsKept

\* Every signal of the communicator is counted once: what a device has in a
\* ready table and on its way are the signals its senders have sent and it has
\* not used, and a device has taken every task that its signal root has, but
\* for those it has not yet read of.
THEOREM SignalsCorrect == Spec => []SInv
<1>1. Init => SInv
  BY InitSignals
<1>2. IInv /\ SInv /\ [Next]_vars => SInv'
  BY NextSignals
<1> QED BY <1>1, <1>2, PipelineInvariant, PTL DEF Spec

\* On a machine on which SetReadyCount returns no check fails: no signal
\* exceeds the count of its table (ready_table.cc:35), and every device that is
\* told a task has it in its queue (core_loops.cc:394).
THEOREM AbortsNever == Spec => [](machine.reset_returns => NeverAborts)
<1>1. Init => (machine.reset_returns => NeverAborts)
  BY DEF Init, NeverAborts
<1>2. IInv /\ SInv /\ (machine.reset_returns => NeverAborts) /\ [Next]_vars =>
         (machine.reset_returns => NeverAborts)'
  BY NextSignals DEF NeverAborts
<1> QED BY <1>1, <1>2, PipelineInvariant, SignalsCorrect, PTL DEF Spec

-----------------------------------------------------------------------------
(* The journal of a switch: what its signal root has called and announced. *)
(* A device is somewhere in it: it has launched the first groups, put      *)
(* together a part of the next, and has the rest in its messages.          *)

\* What a signal root tells the other devices of its switch.
Messages == CallTask \cup {DoGroup}

\* e marks the ends of the groups of journal H, of which n are closed.
Marks(H, n, e) ==
    /\ e[0] = 0 /\ \A i, j \in 0..n : i < j => e[i] < e[j]
    /\ \A j \in 1..n : H[e[j]] = DoGroup
    /\ \A x \in 1..Len(H) : H[x] = DoGroup => \E j \in 1..n : e[j] = x

\* The messages m, the open group t and the launched groups g of a device that
\* has finished s groups are parts of the journal.
Reads(H, n, e, m, t, g, s) ==
    /\ s + Len(g) <= n /\ e[s + Len(g)] + Len(t) + Len(m) = Len(H)
    /\ \A i \in 1..Len(t) : t[i] = H[e[s + Len(g)] + i]
    /\ \A i \in 1..Len(m) : m[i] = H[e[s + Len(g)] + Len(t) + i]
    /\ \A i \in 1..Len(g) :
          /\ Len(g[i]) < e[s + i] - e[s + i - 1]
          /\ \A x \in 1..Len(g[i]) : g[i][x] = H[e[s + i] - 1 - Len(g[i]) + x]

\* H is a journal with n closed groups, and e are their ends.
Written(H, n, e) ==
    /\ H \in Seq(Messages) /\ n \in Nat /\ e \in [0..n -> 0..Len(H)] /\ Marks(H, n, e)

\* Messages, an open group, launched groups and a count of finished groups.
Placed(m, t, g, s) ==
    /\ m \in Seq(Messages) /\ t \in Seq(CallTask) /\ g \in Seq(Seq(CallTask)) /\ s \in Nat

\* Sequences with one element less.
LEMMA TailOf ==
    ASSUME NEW S, NEW l, l \in Seq(S), l # <<>>
    PROVE  /\ Tail(l) \in Seq(S) /\ Len(Tail(l)) = Len(l) - 1 /\ Head(l) = l[1]
           /\ \A i \in 1..Len(Tail(l)) : Tail(l)[i] = l[i + 1]
           /\ Len(l) \in Nat \ {0}
<1>1. PICK v \in Seq(S) : v = Tail(l)
  <2>1. Tail(l) \in Seq(S)
    OBVIOUS
  <2> QED BY <2>1, Zenon
<1>2. Len(v) = Len(l) - 1 /\ Head(l) = l[1] /\ \A i \in 1..Len(v) : v[i] = l[i + 1]
  BY <1>1
<1> QED BY <1>1, <1>2

\* With one element more.
LEMMA AppendOf ==
    ASSUME NEW S, NEW l, l \in Seq(S), NEW x \in S
    PROVE  /\ Append(l, x) \in Seq(S) /\ Len(Append(l, x)) = Len(l) + 1 /\ Len(l) \in Nat
           /\ Append(l, x)[Len(l) + 1] = x /\ \A i \in 1..Len(l) : Append(l, x)[i] = l[i]
OBVIOUS

\* A device reads a task.
LEMMA ReadsTask ==
    ASSUME NEW H, NEW n, NEW e, NEW m, NEW t, NEW g, NEW s, Written(H, n, e),
           Placed(m, t, g, s), Reads(H, n, e, m, t, g, s), m # <<>>, Head(m) \in CallTask
    PROVE  Reads(H, n, e, Tail(m), Append(t, Head(m)), g, s)
<1>1. PICK l \in 0..n : l = s + Len(g)
  BY DEF Written, Placed, Reads
<1>2. PICK z \in Nat : z = e[l] /\ Len(H) \in Nat
  BY DEF Written
<1>3. /\ z + Len(t) + Len(m) = Len(H)
      /\ \A i \in 1..Len(t) : t[i] = H[z + i]
      /\ \A i \in 1..Len(m) : m[i] = H[z + Len(t) + i]
  BY <1>1, <1>2 DEF Reads
<1>0. m \in Seq(Messages) /\ t \in Seq(CallTask)
  BY DEF Placed
<1>4. PICK u \in Seq(CallTask) : u = Append(t, Head(m))
  BY <1>0, AppendOf, Zenon
<1>5. PICK v \in Seq(Messages) : v = Tail(m)
  BY <1>0, TailOf, Zenon
<1>6. /\ Len(u) = Len(t) + 1 /\ u[Len(t) + 1] = m[1] /\ \A i \in 1..Len(t) : u[i] = t[i]
      /\ Len(v) = Len(m) - 1 /\ \A i \in 1..Len(v) : v[i] = m[i + 1]
      /\ Len(t) \in Nat /\ Len(m) \in Nat \ {0}
  BY <1>0, <1>4, <1>5, AppendOf, TailOf
<1>7. z + Len(u) + Len(v) = Len(H)
  <2>1. PICK a \in Nat, b \in Nat, c \in Nat : a = Len(t) /\ b = Len(m) /\ c = Len(H)
    BY <1>2, <1>6
  <2>2. Len(u) = a + 1 /\ Len(v) = b - 1 /\ z + a + b = c
    BY <1>3, <1>6, <2>1
  <2> QED BY <2>1, <2>2
<1>8. \A i \in 1..Len(u) : u[i] = H[z + i]
  <2>1. m[1] = H[z + Len(t) + 1]
    BY <1>3, <1>6
  <2>2. \A i \in 1..Len(u) : i \in 1..Len(t) \/ i = Len(t) + 1
    BY <1>6
  <2>3. z + Len(t) + 1 = z + (Len(t) + 1)
    BY <1>6
  <2> QED BY <1>3, <1>6, <2>1, <2>2, <2>3
<1>9. ASSUME NEW i \in 1..Len(v)
      PROVE  v[i] = H[z + Len(u) + i]
  <2>1. i + 1 \in 1..Len(m) /\ z + Len(t) + (i + 1) = z + Len(u) + i
    BY <1>6
  <2> QED BY <1>3, <1>6, <2>1
<1>10. \A i \in 1..Len(g) :
          /\ Len(g[i]) < e[s + i] - e[s + i - 1]
          /\ \A x \in 1..Len(g[i]) : g[i][x] = H[e[s + i] - 1 - Len(g[i]) + x]
  BY DEF Reads
<1>11. Reads(H, n, e, v, u, g, s)
  BY <1>1, <1>2, <1>7, <1>8, <1>9, <1>10 DEF Reads
<1> QED BY <1>4, <1>5, <1>11

\* A device reads the end of a group.
LEMMA ReadsGroup ==
    ASSUME NEW H, NEW n, NEW e, NEW m, NEW t, NEW g, NEW s, Written(H, n, e),
           Placed(m, t, g, s), Reads(H, n, e, m, t, g, s), m # <<>>, Head(m) = DoGroup
    PROVE  Reads(H, n, e, Tail(m), <<>>, Append(g, t), s)
<1>1. PICK l \in 0..n : l = s + Len(g) /\ n \in Nat
  BY DEF Written, Placed, Reads
<1>2. PICK z \in Nat : z = e[l] /\ Len(H) \in Nat
  BY DEF Written
<1>3. /\ z + Len(t) + Len(m) = Len(H)
      /\ \A i \in 1..Len(t) : t[i] = H[z + i]
      /\ \A i \in 1..Len(m) : m[i] = H[z + Len(t) + i]
  BY <1>1, <1>2 DEF Reads
<1>0. m \in Seq(Messages) /\ t \in Seq(CallTask) /\ g \in Seq(Seq(CallTask)) /\ s \in Nat
  BY DEF Placed
<1>4. PICK v \in Seq(Messages) : v = Tail(m)
  BY <1>0, TailOf, Zenon
<1>5. /\ Len(v) = Len(m) - 1 /\ \A i \in 1..Len(v) : v[i] = m[i + 1] /\ m[1] = DoGroup
      /\ Len(t) \in Nat /\ Len(m) \in Nat \ {0} /\ Len(g) \in Nat /\ s \in Nat
  BY <1>0, <1>4, TailOf
<1>6. PICK w \in 1..Len(H) : w = z + Len(t) + 1
  <2>1. PICK a \in Nat, b \in Nat \ {0}, c \in Nat : a = Len(t) /\ b = Len(m) /\ c = Len(H)
    BY <1>2, <1>5
  <2>2. z + a + b = c
    BY <1>3, <2>1
  <2>3. z + a + 1 \in 1..c
    BY <2>2
  <2> QED BY <2>1, <2>3
<1>7. H[w] = DoGroup
  BY <1>3, <1>5, <1>6
<1>8. PICK j \in 1..n : e[j] = w
  BY <1>7 DEF Written, Marks
<1>9. l + 1 \in 1..n /\ e[l + 1] = w
  <2>1. j > l
    <3>1. CASE j < l
      <4>1. j \in 0..n /\ e[j] < e[l]
        BY <1>1, <1>8, <3>1 DEF Written, Marks
      <4> QED BY <1>2, <1>5, <1>6, <1>8, <4>1
    <3>2. CASE j = l
      BY <1>2, <1>5, <1>6, <1>8, <3>2
    <3> QED BY <1>1, <1>8, <3>1, <3>2
  <2>2. l + 1 \in 1..n /\ l + 1 \in 0..n /\ j \in 0..n
    BY <1>1, <1>8, <2>1
  <2>3. e[l] < e[l + 1] /\ e[l + 1] \in Nat
    BY <1>1, <2>2 DEF Written, Marks
  <2>4. CASE j = l + 1
    BY <1>8, <2>2, <2>4
  <2>5. CASE j # l + 1
    <3>1. e[l + 1] < e[j]
      BY <1>1, <2>1, <2>2, <2>5 DEF Written, Marks
    <3>2. PICK x \in 1..Len(t) : z + x = e[l + 1]
      <4>1. PICK y \in Nat : y = e[l + 1] /\ z < y /\ y < w
        BY <1>2, <1>8, <2>3, <3>1
      <4>2. PICK a \in Nat : a = Len(t) /\ w = z + a + 1
        BY <1>5, <1>6
      <4>3. y - z \in 1..a /\ z + (y - z) = y
        BY <4>1, <4>2
      <4> QED BY <4>1, <4>2, <4>3
    <3>3. t[x] = DoGroup
      BY <1>3, <2>2, <3>2 DEF Written, Marks
    <3>4. t[x] \in CallTask
      BY DEF Placed
    <3> QED BY <3>3, <3>4, NcclTasks
  <2> QED BY <2>4, <2>5
<1>10. PICK h \in Seq(Seq(CallTask)) : h = Append(g, t)
  BY <1>0, AppendOf, Zenon
<1>11. /\ Len(h) = Len(g) + 1 /\ h[Len(g) + 1] = t /\ \A i \in 1..Len(g) : h[i] = g[i]
  BY <1>0, <1>10, AppendOf
<1>12. s + Len(h) = l + 1
  BY <1>1, <1>5, <1>11
<1>13. w + 0 + Len(v) = Len(H)
  <2>1. PICK a \in Nat, b \in Nat, c \in Nat : a = Len(t) /\ b = Len(m) /\ c = Len(H)
    BY <1>2, <1>5
  <2>2. w = z + a + 1 /\ Len(v) = b - 1 /\ z + a + b = c
    BY <1>3, <1>5, <1>6, <2>1
  <2> QED BY <2>1, <2>2
<1>14. ASSUME NEW i \in 1..Len(v)
       PROVE  v[i] = H[w + 0 + i]
  <2>1. i + 1 \in 1..Len(m) /\ z + Len(t) + (i + 1) = w + 0 + i
    BY <1>5, <1>6
  <2> QED BY <1>3, <1>5, <2>1
<1>15. ASSUME NEW i \in 1..Len(h)
       PROVE  /\ Len(h[i]) < e[s + i] - e[s + i - 1]
              /\ \A x \in 1..Len(h[i]) : h[i][x] = H[e[s + i] - 1 - Len(h[i]) + x]
  <2>1. CASE i \in 1..Len(g)
    <3>1. PICK a : a = g[i] /\ h[i] = a
      BY <1>11, <2>1
    <3>2. /\ Len(a) < e[s + i] - e[s + i - 1]
          /\ \A x \in 1..Len(a) : a[x] = H[e[s + i] - 1 - Len(a) + x]
      BY <2>1, <3>1 DEF Reads
    <3> QED BY <3>1, <3>2
  <2>2. CASE i = Len(g) + 1
    <3>1. h[i] = t /\ s + i = l + 1 /\ s + i - 1 = l /\ e[s + i] = w /\ e[s + i - 1] = z
      <4>1. PICK r \in Nat : r = Len(g) /\ l = s + r /\ i = r + 1
        BY <1>1, <1>5, <2>2
      <4>2. s + i = l + 1 /\ s + i - 1 = l
        BY <1>5, <4>1
      <4> QED BY <1>2, <1>9, <1>11, <2>2, <4>2
    <3>2. PICK a \in Nat : a = Len(t) /\ w = z + a + 1
      BY <1>5, <1>6
    <3>3. w - 1 - a = z /\ a < w - z
      BY <3>2
    <3> QED BY <1>3, <3>1, <3>2, <3>3
  <2> QED BY <1>5, <1>11, <2>1, <2>2
<1>16. PICK q \in Seq(CallTask) : q = <<>>
  <2>1. <<>> \in Seq(CallTask)
    OBVIOUS
  <2> QED BY <2>1, Zenon
<1>17. Reads(H, n, e, v, q, h, s)
  <2>1. Len(q) = 0
    BY <1>16
  <2> QED BY <1>1, <1>9, <1>12, <1>13, <1>14, <1>15, <2>1 DEF Reads
<1> QED BY <1>4, <1>10, <1>16, <1>17

\* A task of the oldest group goes on.
LEMMA ReadsOn ==
    ASSUME NEW H, NEW n, NEW e, NEW m, NEW t, NEW g, NEW s, Written(H, n, e),
           Placed(m, t, g, s), Reads(H, n, e, m, t, g, s), g # <<>>, g[1] # <<>>
    PROVE  /\ Reads(H, n, e, m, t, Tail(g), s + 1)
           /\ Reads(H, n, e, m, t, <<Tail(g[1])>> \o Tail(g), s)
<1>1. /\ Len(g) \in Nat \ {0} /\ s \in Nat /\ n \in Nat /\ g[1] \in Seq(CallTask)
      /\ \A j \in 0..n : e[j] \in Int
  BY DEF Placed, Written
<1>2. PICK a \in Seq(CallTask) : a = g[1] /\ a # <<>>
  BY <1>1
<1>3. PICK b \in Seq(CallTask) : b = Tail(a)
  BY <1>2, TailOf, Zenon
<1>4. Len(b) = Len(a) - 1 /\ Len(a) \in Nat \ {0} /\ \A x \in 1..Len(b) : b[x] = a[x + 1]
  BY <1>2, <1>3, TailOf
<1>0. g \in Seq(Seq(CallTask))
  BY DEF Placed
<1>5. PICK h \in Seq(Seq(CallTask)) : h = Tail(g)
  BY <1>0, TailOf, Zenon
<1>6. Len(h) = Len(g) - 1 /\ \A i \in 1..Len(h) : h[i] = g[i + 1]
  BY <1>0, <1>5, TailOf
<1>7. PICK f \in Seq(Seq(CallTask)) : f = <<b>> \o h
  <2>1. <<b>> \o h \in Seq(Seq(CallTask))
    OBVIOUS
  <2> QED BY <2>1, Zenon
<1>8. Len(f) = Len(g) /\ f[1] = b /\ \A i \in 2..Len(g) : f[i] = g[i]
  BY <1>1, <1>6, <1>7
<1>9. /\ s + Len(g) <= n /\ e[s + Len(g)] + Len(t) + Len(m) = Len(H)
      /\ \A i \in 1..Len(t) : t[i] = H[e[s + Len(g)] + i]
      /\ \A i \in 1..Len(m) : m[i] = H[e[s + Len(g)] + Len(t) + i]
      /\ \A i \in 1..Len(g) :
            /\ Len(g[i]) < e[s + i] - e[s + i - 1]
            /\ \A x \in 1..Len(g[i]) : g[i][x] = H[e[s + i] - 1 - Len(g[i]) + x]
  BY DEF Reads
<1>10. Reads(H, n, e, m, t, h, s + 1)
  <2>1. (s + 1) + Len(h) = s + Len(g)
    BY <1>1, <1>6
  <2>2. ASSUME NEW i \in 1..Len(h)
        PROVE  /\ Len(h[i]) < e[(s + 1) + i] - e[(s + 1) + i - 1]
               /\ \A x \in 1..Len(h[i]) : h[i][x] = H[e[(s + 1) + i] - 1 - Len(h[i]) + x]
    <3>1. PICK y \in 1..Len(g) : y = i + 1
      BY <1>1, <1>6
    <3>2. s + y = (s + 1) + i /\ s + y - 1 = (s + 1) + i - 1
      BY <1>1, <3>1
    <3>3. PICK d : d = g[y] /\ h[i] = d
      BY <1>6, <3>1
    <3>4. /\ Len(d) < e[s + y] - e[s + y - 1]
          /\ \A x \in 1..Len(d) : d[x] = H[e[s + y] - 1 - Len(d) + x]
      BY <1>9, <3>3
    <3> QED BY <3>2, <3>3, <3>4
  <2> QED BY <1>9, <2>1, <2>2 DEF Reads
<1>11. Reads(H, n, e, m, t, f, s)
  <2>1. ASSUME NEW i \in 1..Len(f)
        PROVE  /\ Len(f[i]) < e[s + i] - e[s + i - 1]
               /\ \A x \in 1..Len(f[i]) : f[i][x] = H[e[s + i] - 1 - Len(f[i]) + x]
    <3>1. CASE i = 1
      <4>1. /\ Len(a) < e[s + 1] - e[s + 1 - 1] /\ e[s + 1] \in Int /\ e[s + 1 - 1] \in Int
            /\ \A x \in 1..Len(a) : a[x] = H[e[s + 1] - 1 - Len(a) + x]
        <5>1. 1 \in 1..Len(g) /\ s + 1 \in 0..n /\ s + 1 - 1 \in 0..n
          <6>1. PICK r \in Nat \ {0} : r = Len(g) /\ s + r <= n
            BY <1>1, <1>9
          <6> QED BY <1>1, <6>1
        <5>2. e[s + 1] \in Int /\ e[s + 1 - 1] \in Int
          BY <1>1, <5>1
        <5>3. /\ Len(a) < e[s + 1] - e[s + 1 - 1]
              /\ \A x \in 1..Len(a) : a[x] = H[e[s + 1] - 1 - Len(a) + x]
          BY <1>2, <1>9, <5>1
        <5> QED BY <5>2, <5>3
      <4>2. ASSUME NEW x \in 1..Len(b)
            PROVE  b[x] = H[e[s + 1] - 1 - Len(b) + x]
        <5>1. PICK c \in Int, y \in Nat : c = e[s + 1] /\ y = Len(a)
          BY <1>4, <4>1
        <5>2. PICK q \in Nat : q = Len(b) /\ q = y - 1
          BY <1>4, <5>1
        <5>3. x \in 1..q /\ q = y - 1
          BY <5>2
        <5>4. x + 1 \in 1..y /\ c - 1 - y + (x + 1) = c - 1 - q + x
          BY <5>3
        <5> QED BY <1>4, <4>1, <5>1, <5>2, <5>4
      <4>3. Len(b) < e[s + 1] - e[s + 1 - 1]
        BY <1>4, <4>1
      <4>4. f[i] = b
        BY <1>8, <3>1
      <4> QED BY <3>1, <4>2, <4>3, <4>4
    <3>2. CASE i # 1
      <4>1. i \in 2..Len(g) /\ i \in 1..Len(g)
        BY <1>1, <1>8, <3>2
      <4>2. PICK y : y = g[i] /\ f[i] = y
        BY <1>8, <4>1
      <4>3. /\ Len(y) < e[s + i] - e[s + i - 1]
            /\ \A x \in 1..Len(y) : y[x] = H[e[s + i] - 1 - Len(y) + x]
        BY <1>9, <4>1, <4>2
      <4> QED BY <4>2, <4>3
    <3> QED BY <3>1, <3>2
  <2> QED BY <1>8, <1>9, <2>1 DEF Reads
<1> QED BY <1>2, <1>3, <1>5, <1>7, <1>10, <1>11

\* The signal root writes a task, and calls it itself.
LEMMA WritesTask ==
    ASSUME NEW H, NEW n, NEW e, Written(H, n, e), NEW x \in CallTask
    PROVE  /\ Written(Append(H, x), n, e)
           /\ \A m, t, g, s : Placed(m, t, g, s) /\ Reads(H, n, e, m, t, g, s) =>
                 /\ Reads(Append(H, x), n, e, Append(m, x), t, g, s)
                 /\ m = <<>> => Reads(Append(H, x), n, e, m, Append(t, x), g, s)
<1>1. /\ H \in Seq(Messages) /\ x \in Messages /\ n \in Nat /\ e \in [0..n -> 0..Len(H)]
      /\ Len(H) \in Nat /\ x # DoGroup /\ Marks(H, n, e)
  BY NcclTasks DEF Written, Messages
<1>2. PICK K \in Seq(Messages) : K = Append(H, x)
  BY <1>1, AppendOf, Zenon
<1>3. /\ Len(K) = Len(H) + 1 /\ K[Len(H) + 1] = x /\ \A i \in 1..Len(H) : K[i] = H[i]
  BY <1>1, <1>2, AppendOf
<1>4. Written(K, n, e)
  <2>1. e \in [0..n -> 0..Len(K)]
    BY <1>1, <1>3
  <2>2. \A j \in 1..n : K[e[j]] = DoGroup
    <3> SUFFICES ASSUME NEW j \in 1..n PROVE K[e[j]] = DoGroup
      OBVIOUS
    <3>1. e[0] < e[j] /\ e[0] = 0 /\ e[j] \in 0..Len(H) /\ H[e[j]] = DoGroup
      BY <1>1 DEF Marks
    <3>2. e[j] \in 1..Len(H)
      BY <1>1, <3>1
    <3> QED BY <1>3, <3>1, <3>2
  <2>3. \A y \in 1..Len(K) : K[y] = DoGroup => \E j \in 1..n : e[j] = y
    <3>1. \A y \in 1..Len(K) : y \in 1..Len(H) \/ y = Len(H) + 1
      BY <1>1, <1>3
    <3> QED BY <1>1, <1>3, <3>1 DEF Marks
  <2> QED BY <1>1, <2>1, <2>2, <2>3 DEF Written, Marks
<1>5. ASSUME NEW m, NEW t, NEW g, NEW s, Placed(m, t, g, s), Reads(H, n, e, m, t, g, s)
      PROVE  /\ Reads(K, n, e, Append(m, x), t, g, s)
             /\ m = <<>> => Reads(K, n, e, m, Append(t, x), g, s)
  <2>1. /\ m \in Seq(Messages) /\ t \in Seq(CallTask) /\ g \in Seq(Seq(CallTask)) /\ s \in Nat
        /\ Len(g) \in Nat
    BY <1>5 DEF Placed
  <2>2. PICK u \in Seq(Messages) : u = Append(m, x)
    BY <1>1, <2>1, AppendOf, Zenon
  <2>3. /\ Len(u) = Len(m) + 1 /\ u[Len(m) + 1] = x /\ \A i \in 1..Len(m) : u[i] = m[i]
        /\ Len(m) \in Nat
    BY <1>1, <2>1, <2>2, AppendOf
  <2>4. PICK v \in Seq(CallTask) : v = Append(t, x)
    BY <2>1, AppendOf, Zenon
  <2>5. /\ Len(v) = Len(t) + 1 /\ v[Len(t) + 1] = x /\ \A i \in 1..Len(t) : v[i] = t[i]
        /\ Len(t) \in Nat
    BY <2>1, <2>4, AppendOf
  <2>6. PICK l \in 0..n : l = s + Len(g)
    BY <1>1, <1>5, <2>1 DEF Reads
  <2>7. PICK z \in Nat : z = e[l]
    BY <1>1
  <2>8. PICK a \in Nat, b \in Nat, c \in Nat : a = Len(t) /\ b = Len(m) /\ c = Len(H)
    BY <1>1, <2>3, <2>5
  <2>9. /\ z + a + b = c
        /\ \A i \in 1..a : t[i] = H[z + i]
        /\ \A i \in 1..b : m[i] = H[z + a + i]
    BY <1>5, <2>6, <2>7, <2>8 DEF Reads
  <2>10. ASSUME NEW i \in 1..Len(g)
         PROVE  /\ Len(g[i]) < e[s + i] - e[s + i - 1]
                /\ \A y \in 1..Len(g[i]) : g[i][y] = K[e[s + i] - 1 - Len(g[i]) + y]
    <3>1. PICK f \in Seq(CallTask) : f = g[i]
      BY <2>1
    <3>2. /\ Len(f) < e[s + i] - e[s + i - 1]
          /\ \A y \in 1..Len(f) : f[y] = H[e[s + i] - 1 - Len(f) + y]
      BY <1>5, <3>1 DEF Reads
    <3>3. s + i \in 0..n /\ s + i - 1 \in 0..n
      <4>1. PICK r \in Nat : r = Len(g) /\ s + r \in 0..n /\ i \in 1..r
        BY <2>1, <2>6
      <4> QED BY <1>1, <2>1, <4>1
    <3>4. PICK p \in 0..c, q \in Nat : p = e[s + i] /\ q = e[s + i - 1]
      BY <1>1, <2>8, <3>3
    <3>5. PICK w \in Nat : w = Len(f) /\ w < p - q
      BY <3>2, <3>4
    <3>6. \A y \in 1..w : p - 1 - w + y \in 1..c
      <4>1. w < p - q
        BY <3>5
      <4> QED BY <4>1
    <3>7. \A y \in 1..w : f[y] = K[p - 1 - w + y]
      BY <1>3, <2>8, <3>2, <3>4, <3>5, <3>6
    <3> QED BY <3>1, <3>2, <3>4, <3>5, <3>7
  <2>11. Reads(K, n, e, u, t, g, s)
    <3>1. z + a + (b + 1) = c + 1
      BY <2>9
    <3>2. \A i \in 1..a : t[i] = K[z + i]
      <4>1. \A i \in 1..a : z + i \in 1..c
        BY <2>9
      <4> QED BY <1>3, <2>8, <2>9, <4>1
    <3>3. ASSUME NEW i \in 1..b + 1 PROVE u[i] = K[z + a + i]
      <4>1. CASE i \in 1..b
        <5>1. z + a + i \in 1..c
          BY <2>9, <4>1
        <5> QED BY <1>3, <2>3, <2>8, <2>9, <4>1, <5>1
      <4>2. CASE i = b + 1
        <5>1. z + a + i = c + 1
          BY <2>9, <4>2
        <5> QED BY <1>3, <2>3, <2>8, <4>2, <5>1
      <4> QED BY <4>1, <4>2
    <3>4. Len(u) = b + 1 /\ Len(K) = c + 1
      BY <1>3, <2>3, <2>8
    <3> QED BY <2>6, <2>7, <2>8, <2>10, <3>1, <3>2, <3>3, <3>4 DEF Reads
  <2>12. ASSUME m = <<>>
         PROVE  Reads(K, n, e, m, v, g, s)
    <3>1. b = 0 /\ z + (a + 1) + b = c + 1 /\ z + a = c
      BY <2>8, <2>9, <2>12
    <3>2. ASSUME NEW i \in 1..a + 1 PROVE v[i] = K[z + i]
      <4>1. CASE i \in 1..a
        <5>1. z + i \in 1..c
          BY <3>1, <4>1
        <5> QED BY <1>3, <2>5, <2>8, <2>9, <4>1, <5>1
      <4>2. CASE i = a + 1
        <5>1. z + i = c + 1
          BY <3>1, <4>2
        <5> QED BY <1>3, <2>5, <2>8, <4>2, <5>1
      <4> QED BY <4>1, <4>2
    <3>3. Len(v) = a + 1 /\ Len(K) = c + 1 /\ \A i \in 1..Len(m) : FALSE
      BY <1>3, <2>5, <2>8, <3>1
    <3>4. z + Len(v) + Len(m) = Len(K)
      BY <2>8, <3>1, <3>3
    <3>5. \A i \in 1..Len(v) : v[i] = K[z + i]
      BY <3>2, <3>3
    <3>6. s + Len(g) <= n
      BY <1>1, <2>6
    <3> QED BY <2>6, <2>7, <2>10, <3>3, <3>4, <3>5, <3>6 DEF Reads
  <2> QED BY <2>2, <2>4, <2>11, <2>12
<1> QED BY <1>2, <1>4, <1>5

\* The journal K, with the ends f, is H with one more group closed.
Closes(H, n, e, K, N, f) ==
    /\ Written(H, n, e) /\ K \in Seq(Messages) /\ N \in Nat /\ n = N - 1
    /\ Len(K) = Len(H) + 1 /\ K[Len(H) + 1] = DoGroup /\ \A i \in 1..Len(H) : K[i] = H[i]
    /\ f \in [0..N -> Int] /\ f[N] = Len(H) + 1 /\ \A j \in 0..n : f[j] = e[j]

\* The signal root closes a group.
LEMMA ClosesGroup ==
    ASSUME NEW H, NEW n, NEW e, NEW K, NEW N, NEW f, Closes(H, n, e, K, N, f)
    PROVE  /\ Written(K, N, f)
           /\ \A m, t, g, s : Placed(m, t, g, s) /\ Reads(H, n, e, m, t, g, s) =>
                 /\ Reads(K, N, f, Append(m, DoGroup), t, g, s)
                 /\ m = <<>> => Reads(K, N, f, m, <<>>, Append(g, t), s)
<1>1. /\ H \in Seq(Messages) /\ DoGroup \in Messages /\ n \in Nat /\ e \in [0..n -> 0..Len(H)]
      /\ Marks(H, n, e) /\ Len(H) \in Nat
  BY DEF Closes, Written, Messages
<1>2. PICK c \in Nat : c = Len(H)
  BY <1>1
<1>3. /\ K \in Seq(Messages) /\ Len(K) = c + 1 /\ K[c + 1] = DoGroup
      /\ \A i \in 1..c : K[i] = H[i]
  BY <1>2 DEF Closes
<1>7. N \in Nat /\ n = N - 1 /\ f[N] = c + 1 /\ f \in [0..N -> Int] /\ \A j \in 0..n : f[j] = e[j]
  BY <1>2 DEF Closes
<1>4. /\ N \in Nat /\ f[N] = c + 1 /\ (\A j \in 0..n : f[j] = e[j]) /\ (\A j \in 0..n : f[j] \in 0..c)
      /\ (\A j \in 0..N : j \in 0..n \/ j = N) /\ \A j \in 1..N : j \in 1..n \/ j = N
  BY <1>1, <1>2, <1>7
<1>5. Written(K, N, f)
  <2>1. f \in [0..N -> 0..Len(K)]
    <3>1. \A j \in 0..N : f[j] \in 0..Len(K)
      BY <1>3, <1>4
    <3> QED BY <1>7, <3>1
  <2>2. f[0] = 0
    BY <1>1, <1>4 DEF Marks
  <2>3. ASSUME NEW i \in 0..N, NEW j \in 0..N, i < j PROVE f[i] < f[j]
    <3>1. i \in 0..n
      BY <1>1, <2>3
    <3>2. CASE j \in 0..n
      BY <1>1, <1>4, <2>3, <3>1, <3>2 DEF Marks
    <3>3. CASE j = N
      BY <1>4, <3>1, <3>3
    <3> QED BY <1>4, <3>2, <3>3
  <2>4. ASSUME NEW j \in 1..N PROVE K[f[j]] = DoGroup
    <3>1. CASE j \in 1..n
      <4>1. H[e[j]] = DoGroup /\ e[0] < e[j] /\ e[0] = 0
        BY <1>1, <3>1 DEF Marks
      <4>2. PICK x \in 0..c : x = e[j] /\ f[j] = x
        BY <1>4, <3>1
      <4>3. x \in 1..c
        BY <4>1, <4>2
      <4> QED BY <1>3, <4>1, <4>2, <4>3
    <3>2. CASE j = N
      BY <1>3, <1>4, <3>2
    <3> QED BY <1>4, <3>1, <3>2
  <2>5. ASSUME NEW x \in 1..Len(K), K[x] = DoGroup PROVE \E j \in 1..N : f[j] = x
    <3>1. CASE x \in 1..c
      <4>1. PICK j \in 1..n : e[j] = x
        BY <1>1, <1>2, <1>3, <2>5, <3>1 DEF Marks
      <4>2. j \in 1..N /\ f[j] = x
        BY <1>1, <1>4, <4>1
      <4> QED BY <4>2
    <3>2. CASE x = c + 1
      <4>1. N \in 1..N
        BY <1>1, <1>7
      <4> QED BY <1>4, <3>2, <4>1
    <3> QED BY <1>3, <3>1, <3>2
  <2> QED BY <1>3, <1>4, <2>1, <2>2, <2>3, <2>4, <2>5 DEF Written, Marks
<1>6. ASSUME NEW m, NEW t, NEW g, NEW s, Placed(m, t, g, s), Reads(H, n, e, m, t, g, s)
      PROVE  /\ Reads(K, N, f, Append(m, DoGroup), t, g, s)
             /\ m = <<>> => Reads(K, N, f, m, <<>>, Append(g, t), s)
  <2>1. /\ m \in Seq(Messages) /\ t \in Seq(CallTask) /\ g \in Seq(Seq(CallTask)) /\ s \in Nat
        /\ Len(g) \in Nat /\ Len(t) \in Nat
    BY <1>6 DEF Placed
  <2>2. PICK u \in Seq(Messages) : u = Append(m, DoGroup)
    BY <1>1, <2>1, AppendOf, Zenon
  <2>3. /\ Len(u) = Len(m) + 1 /\ u[Len(m) + 1] = DoGroup /\ \A i \in 1..Len(m) : u[i] = m[i]
        /\ Len(m) \in Nat
    BY <1>1, <2>1, <2>2, AppendOf
  <2>4. PICK h \in Seq(Seq(CallTask)) : h = Append(g, t)
    BY <2>1, AppendOf, Zenon
  <2>5. Len(h) = Len(g) + 1 /\ h[Len(g) + 1] = t /\ \A i \in 1..Len(g) : h[i] = g[i]
    BY <2>1, <2>4, AppendOf
  <2>6. PICK l \in 0..n : l = s + Len(g)
    BY <1>1, <1>6, <2>1 DEF Reads
  <2>7. PICK z \in 0..c : z = e[l] /\ f[l] = z
    BY <1>4
  <2>8. PICK a \in Nat, b \in Nat : a = Len(t) /\ b = Len(m)
    BY <2>1, <2>3
  <2>9. /\ z + a + b = c
        /\ \A i \in 1..a : t[i] = H[z + i]
        /\ \A i \in 1..b : m[i] = H[z + a + i]
    BY <1>2, <1>6, <2>6, <2>7, <2>8 DEF Reads
  <2>10. ASSUME NEW i \in 1..Len(g)
         PROVE  /\ Len(g[i]) < f[s + i] - f[s + i - 1]
                /\ \A y \in 1..Len(g[i]) : g[i][y] = K[f[s + i] - 1 - Len(g[i]) + y]
    <3>1. PICK d \in Seq(CallTask) : d = g[i]
      BY <2>1
    <3>2. /\ Len(d) < e[s + i] - e[s + i - 1]
          /\ \A y \in 1..Len(d) : d[y] = H[e[s + i] - 1 - Len(d) + y]
      BY <1>6, <3>1 DEF Reads
    <3>3. s + i \in 0..n /\ s + i - 1 \in 0..n
      <4>1. PICK r \in Nat : r = Len(g) /\ s + r \in 0..n /\ i \in 1..r
        BY <2>1, <2>6
      <4> QED BY <1>1, <2>1, <4>1
    <3>4. PICK p \in 0..c, q \in 0..c : /\ p = e[s + i] /\ q = e[s + i - 1]
                                        /\ p = f[s + i] /\ q = f[s + i - 1]
      BY <1>4, <3>3
    <3>5. PICK w \in Nat : w = Len(d) /\ w < p - q
      BY <3>2, <3>4
    <3>6. \A y \in 1..w : p - 1 - w + y \in 1..c
      <4>1. w < p - q
        BY <3>5
      <4> QED BY <4>1
    <3>7. \A y \in 1..w : d[y] = K[p - 1 - w + y]
      BY <1>3, <3>2, <3>4, <3>5, <3>6
    <3> QED BY <3>1, <3>2, <3>4, <3>5, <3>7
  <2>11. Reads(K, N, f, u, t, g, s)
    <3>1. \A i \in 1..a : t[i] = K[z + i]
      <4>1. \A i \in 1..a : z + i \in 1..c
        BY <2>9
      <4> QED BY <1>3, <2>9, <4>1
    <3>2. ASSUME NEW i \in 1..b + 1 PROVE u[i] = K[z + a + i]
      <4>1. CASE i \in 1..b
        <5>1. z + a + i \in 1..c
          BY <2>9, <4>1
        <5> QED BY <1>3, <2>3, <2>8, <2>9, <4>1, <5>1
      <4>2. CASE i = b + 1
        <5>1. z + a + i = c + 1
          BY <2>9, <4>2
        <5> QED BY <1>3, <2>3, <2>8, <4>2, <5>1
      <4> QED BY <4>1, <4>2
    <3>3. Len(u) = b + 1
      BY <2>3, <2>8
    <3>4. z + Len(t) + Len(u) = Len(K) /\ s + Len(g) <= N
      <4>1. z + a + (b + 1) = c + 1
        BY <2>9
      <4>2. s + Len(g) <= N
        BY <1>1, <1>7, <2>6
      <4> QED BY <1>3, <2>8, <3>3, <4>1, <4>2
    <3>5. \A i \in 1..Len(t) : t[i] = K[z + i]
      BY <2>8, <3>1
    <3>6. \A i \in 1..Len(u) : u[i] = K[z + Len(t) + i]
      BY <2>8, <3>2, <3>3
    <3> QED BY <2>6, <2>7, <2>10, <3>4, <3>5, <3>6 DEF Reads
  <2>12. ASSUME m = <<>>
         PROVE  Reads(K, N, f, m, <<>>, h, s)
    <3>1. b = 0 /\ Len(m) = 0 /\ z + a = c
      BY <2>8, <2>9, <2>12
    <3>2. l = n
      <4>1. CASE l < n
        <5>1. n \in 0..n /\ n \in 1..n /\ l \in 0..n
          BY <1>1, <4>1
        <5>2. e[l] < e[n] /\ H[e[n]] = DoGroup
          BY <1>1, <4>1, <5>1 DEF Marks
        <5>3. PICK x \in 0..c : x = e[n]
          BY <1>1, <1>2, <5>1
        <5>4. PICK y \in 1..a : z + y = x
          <6>1. x - z \in 1..a /\ z + (x - z) = x
            <7>1. z < x
              BY <2>7, <5>2, <5>3
            <7> QED BY <3>1, <7>1
          <6> QED BY <6>1
        <5>5. t[y] = DoGroup
          BY <2>9, <5>2, <5>3, <5>4
        <5>6. t[y] \in CallTask
          BY <2>1, <2>8
        <5> QED BY <5>5, <5>6, NcclTasks
      <4> QED BY <1>1, <4>1
    <3>3. s + Len(h) = N /\ f[N] = c + 1
      <4>1. PICK r \in Nat : r = Len(g) /\ l = s + r
        BY <2>1, <2>6
      <4> QED BY <1>7, <2>1, <2>5, <3>2, <4>1
    <3>4. ASSUME NEW i \in 1..Len(h)
          PROVE  /\ Len(h[i]) < f[s + i] - f[s + i - 1]
                 /\ \A y \in 1..Len(h[i]) : h[i][y] = K[f[s + i] - 1 - Len(h[i]) + y]
      <4>1. CASE i \in 1..Len(g)
        <5>1. PICK d : d = g[i] /\ h[i] = d
          BY <2>5, <4>1
        <5>2. /\ Len(d) < f[s + i] - f[s + i - 1]
              /\ \A y \in 1..Len(d) : d[y] = K[f[s + i] - 1 - Len(d) + y]
          BY <2>10, <4>1, <5>1
        <5> QED BY <5>1, <5>2
      <4>2. CASE i = Len(g) + 1
        <5>1. s + i = N /\ s + i - 1 = l
          <6>1. PICK r \in Nat : r = Len(g) /\ l = s + r
            BY <2>1, <2>6
          <6> QED BY <1>7, <2>1, <3>2, <4>2, <6>1
        <5>2. h[i] = t /\ f[s + i] = c + 1 /\ f[s + i - 1] = z
          BY <2>5, <2>7, <3>3, <4>2, <5>1
        <5>3. a < c + 1 - z /\ c + 1 - 1 - a = z
          BY <3>1
        <5>4. \A y \in 1..a : t[y] = K[z + y]
          <6>1. \A y \in 1..a : z + y \in 1..c
            BY <3>1
          <6> QED BY <1>3, <2>9, <6>1
        <5>5. PICK d : d = t /\ h[i] = d /\ Len(d) = a
          BY <2>8, <5>2
        <5>6. Len(d) < f[s + i] - f[s + i - 1] /\ f[s + i] - 1 - Len(d) = z
          BY <5>2, <5>3, <5>5
        <5> QED BY <5>4, <5>5, <5>6
      <4>3. i \in 1..Len(g) \/ i = Len(g) + 1
        BY <2>1, <2>5
      <4> QED BY <4>1, <4>2, <4>3
    <3>5. PICK q : q = <<>> /\ Len(q) = 0
      OBVIOUS
    <3>6. (c + 1) + Len(q) + Len(m) = Len(K)
      BY <1>3, <3>1, <3>5
    <3>7. s + Len(h) <= N
      BY <1>4, <3>3
    <3>8. /\ \A i \in 1..Len(q) : q[i] = K[(c + 1) + i]
          /\ \A i \in 1..Len(m) : m[i] = K[(c + 1) + Len(q) + i]
      BY <3>1, <3>5
    <3>9. Reads(K, N, f, m, q, h, s)
      BY <3>3, <3>4, <3>6, <3>7, <3>8 DEF Reads
    <3> QED BY <3>5, <3>9
  <2> QED BY <2>2, <2>4, <2>11, <2>12
<1> QED BY <1>5, <1>6

-----------------------------------------------------------------------------
(* The journal of a machine.                                               *)

\* Device p is in the journal.
Reading(p, H, n, e) ==
    Reads(H, n, e, nccl_msgs[p], nccl_tasks[p], nccl_pipeline[p], synced[p])

\* A journal of the signal root r, and its devices in it.
Journal(r, H, n, e) == Written(H, n, e) /\ \A p \in Peers(r) : Reading(p, H, n, e)

\* Every signal root has a journal, and is told nothing itself.
Journals ==
    \A r \in Devices : IsSignalRoot(r) =>
        /\ nccl_msgs[r] = <<>>
        /\ \E H \in Seq(Messages), n \in Nat : \E e \in [0..n -> 0..Len(H)] : Journal(r, H, n, e)

\* Before the first message the journal is empty.
LEMMA NothingWritten ==
    ASSUME Init
    PROVE  Journals
<1>1. PICK H \in Seq(Messages) : H = <<>>
  <2>1. <<>> \in Seq(Messages)
    OBVIOUS
  <2> QED BY <2>1, Zenon
<1>2. Len(H) = 0
  BY <1>1
<1>3. PICK e \in [0..0 -> 0..Len(H)] : e = [i \in 0..0 |-> 0]
  <2>1. [i \in 0..0 |-> 0] \in [0..0 -> 0..Len(H)]
    BY <1>2
  <2> QED BY <2>1, Zenon
<1>4. e[0] = 0 /\ 0..0 = {0} /\ 1..0 = {}
  BY <1>3
<1>5. Written(H, 0, e)
  BY <1>2, <1>4 DEF Written, Marks
<1>6. ASSUME NEW p \in Devices
      PROVE  nccl_msgs[p] = <<>> /\ Reading(p, H, 0, e)
  <2>1. /\ nccl_msgs[p] = <<>> /\ nccl_tasks[p] = <<>> /\ nccl_pipeline[p] = <<>>
        /\ synced[p] = 0
    BY DEF Init
  <2>2. Reads(H, 0, e, H, H, H, 0)
    BY <1>2, <1>4 DEF Reads
  <2> QED BY <1>1, <2>1, <2>2 DEF Reading
<1>7. ASSUME NEW r \in Devices, IsSignalRoot(r)
      PROVE  nccl_msgs[r] = <<>> /\ Journal(r, H, 0, e)
  BY <1>5, <1>6 DEF Journal, Peers
<1> QED BY <1>7 DEF Journals

\* What a device reads is in its types.
LEMMA InPlace ==
    ASSUME NcclTyped, NEW p \in Devices
    PROVE  Placed(nccl_msgs[p], nccl_tasks[p], nccl_pipeline[p], synced[p])
<1>1. nccl_pipeline[p] \in Seq(Seq(CallTask))
  BY DEF NcclTyped
<1> QED BY <1>1 DEF NcclTyped, Placed, Messages

\* The journals of the next state.
LEMMA JournalsNext ==
    ASSUME machine' = machine,
           \A r \in Devices : IsSignalRoot(r) =>
              /\ nccl_msgs'[r] = <<>>
              /\ \E H, n, e : Written(H, n, e) /\ \A p \in Peers(r) : Reading(p, H, n, e)'
    PROVE  Journals'
<1>1. Devices' = Devices /\ \A r : (IsSignalRoot(r)' <=> IsSignalRoot(r)) /\ Peers(r)' = Peers(r)
  BY SameMachine, SameDevice
<1>2. ASSUME NEW r \in Devices, IsSignalRoot(r)
      PROVE  \E H \in Seq(Messages), n \in Nat : \E e \in [0..n -> 0..Len(H)] : Journal(r, H, n, e)'
  <2>1. PICK H, n, e : Written(H, n, e) /\ \A p \in Peers(r) : Reading(p, H, n, e)'
    BY <1>2
  <2>2. Journal(r, H, n, e)'
    BY <1>1, <2>1 DEF Journal
  <2> QED BY <2>1, <2>2 DEF Written
<1> QED BY <1>1, <1>2 DEF Journals

\* A device of another switch, or one that reads nothing, stays where it is.
Stays(p) ==
    /\ nccl_msgs'[p] = nccl_msgs[p] /\ nccl_tasks'[p] = nccl_tasks[p]
    /\ nccl_pipeline'[p] = nccl_pipeline[p] /\ synced'[p] = synced[p]

\* The journal of a switch whose devices stay where they are.
LEMMA JournalStays ==
    ASSUME Journals, NEW r \in Devices, IsSignalRoot(r), \A p \in Peers(r) : Stays(p)
    PROVE  /\ nccl_msgs'[r] = <<>>
           /\ \E H, n, e : Written(H, n, e) /\ \A p \in Peers(r) : Reading(p, H, n, e)'
<1>1. PICK H, n, e : Journal(r, H, n, e)
  BY DEF Journals
<1>2. \A p \in Peers(r) : Reading(p, H, n, e)'
  BY <1>1 DEF Journal, Reading, Stays
<1>3. r \in Peers(r)
  BY DEF Peers
<1> QED BY <1>1, <1>2, <1>3 DEF Journal, Journals, Stays

\* A step of one switch: it is enough to look at the journal of that one.
LEMMA JournalsOne ==
    ASSUME Journals, machine' = machine, NEW c \in Devices, IsSignalRoot(c),
           \A p \in Devices : p \notin Peers(c) => Stays(p), nccl_msgs'[c] = <<>>,
           NEW H, NEW n, NEW e, Written(H, n, e), \A p \in Peers(c) : Reading(p, H, n, e)'
    PROVE  Journals'
<1>1. ASSUME NEW r \in Devices, IsSignalRoot(r)
      PROVE  /\ nccl_msgs'[r] = <<>>
             /\ \E h, m, f : Written(h, m, f) /\ \A p \in Peers(r) : Reading(p, h, m, f)'
  <2>1. CASE r = c
    BY <2>1
  <2>2. CASE r # c
    <3>1. \A p \in Peers(r) : p \in Devices /\ p \notin Peers(c)
      BY <1>1, <2>2, OneRoot DEF Peers
    <3>2. \A p \in Peers(r) : Stays(p)
      BY <3>1
    <3> QED BY <1>1, <3>2, JournalStays
  <2> QED BY <2>1, <2>2
<1> QED BY <1>1, JournalsNext

\* Nothing is read and nothing is written.
LEMMA JournalsStay ==
    ASSUME Journals, machine' = machine,
           UNCHANGED <<nccl_msgs, nccl_tasks, nccl_pipeline, synced>>
    PROVE  Journals'
<1>1. \A p \in Devices : Stays(p)
  BY DEF Stays
<1>2. \A r \in Devices : \A p \in Peers(r) : Stays(p)
  BY <1>1 DEF Peers
<1> QED BY <1>2, JournalStays, JournalsNext

\* A journal with one more group closed.
LEMMA OneMoreGroup ==
    ASSUME NEW H, NEW n, NEW e, Written(H, n, e)
    PROVE  \E K, N, f : Closes(H, n, e, K, N, f)
<1>1. /\ H \in Seq(Messages) /\ DoGroup \in Messages /\ n \in Nat /\ e \in [0..n -> 0..Len(H)]
      /\ Len(H) \in Nat
  BY DEF Written, Messages
<1>2. PICK K \in Seq(Messages) : K = Append(H, DoGroup)
  BY <1>1, AppendOf, Zenon
<1>3. Len(K) = Len(H) + 1 /\ K[Len(H) + 1] = DoGroup /\ \A i \in 1..Len(H) : K[i] = H[i]
  BY <1>1, <1>2, AppendOf
<1>4. PICK N \in Nat : N = n + 1
  BY <1>1
<1>5. PICK c \in Nat : c = Len(H) + 1
  BY <1>1
<1>6. \A j \in 0..N : (IF j = N THEN c ELSE e[j]) \in Int
  <2>1. \A j \in 0..N : j = N \/ j \in 0..n
    BY <1>1, <1>4
  <2> QED BY <1>1, <1>5, <2>1
<1>7. PICK f \in [0..N -> Int] : f = [j \in 0..N |-> IF j = N THEN c ELSE e[j]]
  <2>1. [j \in 0..N |-> IF j = N THEN c ELSE e[j]] \in [0..N -> Int]
    BY <1>6
  <2> QED BY <2>1, Zenon
<1>8. f[N] = c /\ \A j \in 0..n : f[j] = e[j]
  <2>1. N \in 0..N /\ \A j \in 0..n : j \in 0..N /\ j # N
    BY <1>1, <1>4
  <2> QED BY <1>7, <2>1
<1>9. n = N - 1
  BY <1>1, <1>4
<1>10. Closes(H, n, e, K, N, f)
  BY <1>3, <1>5, <1>7, <1>8, <1>9 DEF Closes
<1> QED BY <1>10

\* The signal root writes a task in the journal.
LEMMA RootWritesTask ==
    ASSUME NcclTyped, NcclTyped', Journals, machine' = machine, NEW c \in Devices,
           IsSignalRoot(c), RootNcclTake(c)
    PROVE  Journals'
<1>1. PICK op \in {"REDUCE", "BROADCAST"} : op = nccl_phase[c]
  BY DEF NcclTyped
<1>2. PICK k \in Keys : /\ nccl_tasks' = [nccl_tasks EXCEPT ![c] = Append(@, NcclTask(op, k))]
                        /\ nccl_msgs' = NcclMsg(c, NcclTask(op, k))
  BY <1>1 DEF RootNcclTake
<1>3. PICK x \in CallTask : x = NcclTask(op, k)
  BY NcclTasks
<1>4. /\ nccl_tasks'[c] = Append(nccl_tasks[c], x)
      /\ \A p \in Devices : p # c => nccl_tasks'[p] = nccl_tasks[p]
      /\ nccl_pipeline' = nccl_pipeline /\ synced' = synced
  BY <1>2, <1>3 DEF NcclTyped, RootNcclTake
<1>5. \A p \in Devices : /\ p \in Peers(c) \ {c} => nccl_msgs'[p] = Append(nccl_msgs[p], x)
                         /\ p \notin Peers(c) \ {c} => nccl_msgs'[p] = nccl_msgs[p]
  BY <1>2, <1>3, Tells
<1>6. c \in Peers(c) /\ \A p \in Peers(c) : p \in Devices
  BY DEF Peers
<1>7. PICK H, n, e : Journal(c, H, n, e) /\ nccl_msgs[c] = <<>>
  BY DEF Journals
<1>8. Written(H, n, e) /\ \A p \in Peers(c) : Reading(p, H, n, e)
  BY <1>7 DEF Journal
<1>9. PICK K : K = Append(H, x)
  OBVIOUS
<1>10. /\ Written(K, n, e)
       /\ \A m, t, g, s : Placed(m, t, g, s) /\ Reads(H, n, e, m, t, g, s) =>
             /\ Reads(K, n, e, Append(m, x), t, g, s)
             /\ m = <<>> => Reads(K, n, e, m, Append(t, x), g, s)
  BY <1>8, <1>9, WritesTask
<1>11. ASSUME NEW p \in Peers(c)
       PROVE  Reading(p, K, n, e)'
  <2>1. /\ Placed(nccl_msgs[p], nccl_tasks[p], nccl_pipeline[p], synced[p])
        /\ Reads(H, n, e, nccl_msgs[p], nccl_tasks[p], nccl_pipeline[p], synced[p])
    BY <1>6, <1>8, InPlace DEF Reading
  <2>2. CASE p = c
    <3>1. Reads(K, n, e, nccl_msgs[c], Append(nccl_tasks[c], x), nccl_pipeline[c], synced[c])
      BY <1>7, <1>10, <2>1, <2>2
    <3> QED BY <1>4, <1>5, <1>6, <2>2, <3>1 DEF Reading
  <2>3. CASE p # c
    <3>1. Reads(K, n, e, Append(nccl_msgs[p], x), nccl_tasks[p], nccl_pipeline[p], synced[p])
      BY <1>10, <2>1
    <3> QED BY <1>4, <1>5, <1>6, <2>3, <3>1 DEF Reading
  <2> QED BY <2>2, <2>3
<1>12. nccl_msgs'[c] = <<>> /\ \A p \in Devices : p \notin Peers(c) => Stays(p)
  BY <1>4, <1>5, <1>6, <1>7 DEF Stays
<1> QED BY <1>10, <1>11, <1>12, JournalsOne

\* The signal root goes on, and may write the end of a group in the journal.
LEMMA RootWritesGroup ==
    ASSUME NcclTyped, NcclTyped', Journals, machine' = machine, NEW c \in Devices,
           IsSignalRoot(c), RootNcclNext(c)
    PROVE  Journals'
<1>1. synced' = synced
  BY DEF RootNcclNext
<1>2. CASE UNCHANGED <<nccl_msgs, nccl_tasks, nccl_pipeline>>
  BY <1>1, <1>2, JournalsStay
<1>3. CASE /\ nccl_msgs' = NcclMsg(c, DoGroup) /\ nccl_tasks' = [nccl_tasks EXCEPT ![c] = <<>>]
           /\ nccl_pipeline' = [nccl_pipeline EXCEPT ![c] = Append(@, nccl_tasks[c])]
  <2>1. /\ nccl_tasks'[c] = <<>> /\ nccl_pipeline'[c] = Append(nccl_pipeline[c], nccl_tasks[c])
        /\ \A p \in Devices : p # c => /\ nccl_tasks'[p] = nccl_tasks[p]
                                       /\ nccl_pipeline'[p] = nccl_pipeline[p]
    BY <1>3 DEF NcclTyped
  <2>2. \A p \in Devices : /\ p \in Peers(c) \ {c} => nccl_msgs'[p] = Append(nccl_msgs[p], DoGroup)
                           /\ p \notin Peers(c) \ {c} => nccl_msgs'[p] = nccl_msgs[p]
    BY <1>3, Tells
  <2>3. c \in Peers(c) /\ \A p \in Peers(c) : p \in Devices
    BY DEF Peers
  <2>4. PICK H, n, e : Journal(c, H, n, e) /\ nccl_msgs[c] = <<>>
    BY DEF Journals
  <2>5. Written(H, n, e) /\ \A p \in Peers(c) : Reading(p, H, n, e)
    BY <2>4 DEF Journal
  <2>6. PICK K, N, f : Closes(H, n, e, K, N, f)
    BY <2>5, OneMoreGroup
  <2>7. /\ Written(K, N, f)
        /\ \A m, t, g, s : Placed(m, t, g, s) /\ Reads(H, n, e, m, t, g, s) =>
              /\ Reads(K, N, f, Append(m, DoGroup), t, g, s)
              /\ m = <<>> => Reads(K, N, f, m, <<>>, Append(g, t), s)
    BY <2>6, ClosesGroup
  <2>8. ASSUME NEW p \in Peers(c)
        PROVE  Reading(p, K, N, f)'
    <3>1. /\ Placed(nccl_msgs[p], nccl_tasks[p], nccl_pipeline[p], synced[p])
          /\ Reads(H, n, e, nccl_msgs[p], nccl_tasks[p], nccl_pipeline[p], synced[p])
      BY <2>3, <2>5, InPlace DEF Reading
    <3>2. CASE p = c
      <4>1. Reads(K, N, f, nccl_msgs[c], <<>>, Append(nccl_pipeline[c], nccl_tasks[c]), synced[c])
        BY <2>4, <2>7, <3>1, <3>2
      <4> QED BY <1>1, <2>1, <2>2, <2>3, <3>2, <4>1 DEF Reading
    <3>3. CASE p # c
      <4>1. Reads(K, N, f, Append(nccl_msgs[p], DoGroup), nccl_tasks[p], nccl_pipeline[p], synced[p])
        BY <2>7, <3>1
      <4> QED BY <1>1, <2>1, <2>2, <2>3, <3>3, <4>1 DEF Reading
    <3> QED BY <3>2, <3>3
  <2>9. nccl_msgs'[c] = <<>> /\ \A p \in Devices : p \notin Peers(c) => Stays(p)
    BY <1>1, <2>1, <2>2, <2>3, <2>4 DEF Stays
  <2> QED BY <2>7, <2>8, <2>9, JournalsOne
<1> QED BY <1>2, <1>3 DEF RootNcclNext

\* A step of a device that only reads: its journal is the same.
LEMMA JournalsRead ==
    ASSUME Journals, machine' = machine, NEW c \in Devices,
           \A p \in Devices : p # c => Stays(p), IsSignalRoot(c) => nccl_msgs'[c] = nccl_msgs[c],
           \A H, n, e : Written(H, n, e) /\ Reading(c, H, n, e) => Reading(c, H, n, e)'
    PROVE  Journals'
<1>1. ASSUME NEW r \in Devices, IsSignalRoot(r)
      PROVE  /\ nccl_msgs'[r] = <<>>
             /\ \E H, n, e : Written(H, n, e) /\ \A p \in Peers(r) : Reading(p, H, n, e)'
  <2>1. PICK H, n, e : Journal(r, H, n, e) /\ nccl_msgs[r] = <<>>
    BY <1>1 DEF Journals
  <2>2. ASSUME NEW p \in Peers(r)
        PROVE  Reading(p, H, n, e)'
    <3>1. Reading(p, H, n, e) /\ Written(H, n, e) /\ p \in Devices
      BY <2>1 DEF Journal, Peers
    <3>2. CASE p = c
      BY <3>1, <3>2
    <3>3. CASE p # c
      BY <3>1, <3>3 DEF Reading, Stays
    <3> QED BY <3>2, <3>3
  <2>3. nccl_msgs'[r] = <<>>
    BY <1>1, <2>1 DEF Stays
  <2> QED BY <2>1, <2>2, <2>3 DEF Journal
<1> QED BY <1>1, JournalsNext

\* A device that follows its signal root reads a message.
LEMMA FollowerReads ==
    ASSUME NcclTyped, Journals, machine' = machine, NEW c \in Devices,
           ~IsSignalRoot(c), NonRootNccl(c)
    PROVE  Journals'
<1>1. CASE UNCHANGED <<nccl_msgs, nccl_tasks, nccl_pipeline, synced>>
  BY <1>1, JournalsStay
<1>2. CASE ~UNCHANGED <<nccl_msgs, nccl_tasks, nccl_pipeline, synced>>
  <2>1. /\ nccl_msgs[c] # <<>> /\ nccl_msgs' = [nccl_msgs EXCEPT ![c] = Tail(@)] /\ synced' = synced
        /\ \/ /\ Head(nccl_msgs[c]) = DoGroup /\ nccl_tasks' = [nccl_tasks EXCEPT ![c] = <<>>]
              /\ nccl_pipeline' = [nccl_pipeline EXCEPT ![c] = Append(@, nccl_tasks[c])]
           \/ /\ Head(nccl_msgs[c]) # DoGroup /\ nccl_pipeline' = nccl_pipeline
              /\ nccl_tasks' = [nccl_tasks EXCEPT ![c] = Append(@, Head(nccl_msgs[c]))]
    BY <1>2 DEF NonRootNccl, NextCall, Abort, ncclVars
  <2>2. /\ nccl_msgs'[c] = Tail(nccl_msgs[c])
        /\ \A p \in Devices : p # c => Stays(p)
        /\ \/ /\ Head(nccl_msgs[c]) = DoGroup /\ nccl_tasks'[c] = <<>>
              /\ nccl_pipeline'[c] = Append(nccl_pipeline[c], nccl_tasks[c])
           \/ /\ Head(nccl_msgs[c]) # DoGroup /\ nccl_pipeline'[c] = nccl_pipeline[c]
              /\ nccl_tasks'[c] = Append(nccl_tasks[c], Head(nccl_msgs[c]))
    BY <2>1 DEF NcclTyped, Stays
  <2>3. Head(nccl_msgs[c]) \in CallTask \/ Head(nccl_msgs[c]) = DoGroup
    <3>1. PICK m \in Seq(Messages) : m = nccl_msgs[c] /\ m # <<>>
      BY <2>1 DEF NcclTyped, Messages
    <3>2. Head(m) \in Messages
      BY <3>1
    <3> QED BY <3>1, <3>2 DEF Messages
  <2>4. ASSUME NEW H, NEW n, NEW e, Written(H, n, e), Reading(c, H, n, e)
        PROVE  Reading(c, H, n, e)'
    <3>1. /\ Placed(nccl_msgs[c], nccl_tasks[c], nccl_pipeline[c], synced[c])
          /\ Reads(H, n, e, nccl_msgs[c], nccl_tasks[c], nccl_pipeline[c], synced[c])
      BY <2>4, InPlace DEF Reading
    <3>2. CASE Head(nccl_msgs[c]) = DoGroup
      <4>1. Reads(H, n, e, Tail(nccl_msgs[c]), <<>>, Append(nccl_pipeline[c], nccl_tasks[c]), synced[c])
        BY <2>1, <2>4, <3>1, <3>2, ReadsGroup
      <4> QED BY <2>1, <2>2, <3>2, <4>1 DEF Reading
    <3>3. CASE Head(nccl_msgs[c]) # DoGroup
      <4>1. Reads(H, n, e, Tail(nccl_msgs[c]), Append(nccl_tasks[c], Head(nccl_msgs[c])),
                  nccl_pipeline[c], synced[c])
        BY <2>1, <2>3, <2>4, <3>1, <3>3, ReadsTask
      <4> QED BY <2>1, <2>2, <3>3, <4>1 DEF Reading
    <3> QED BY <3>2, <3>3
  <2> QED BY <2>2, <2>4, JournalsRead
<1> QED BY <1>1, <1>2

\* A task of the oldest group of a device goes on.
LEMMA GroupReads ==
    ASSUME NcclTyped, Journals, machine' = machine, NEW c \in Devices, SyncNccl(c)
    PROVE  Journals'
<1>1. PICK g \in Seq(Seq(CallTask) \ {<<>>}) : g = nccl_pipeline[c] /\ g # <<>>
  BY DEF NcclTyped, SyncNccl, GroupDone
<1>2. g[1] # <<>> /\ Head(g) = g[1] /\ Len(g[1]) \in Nat /\ g[1] \in Seq(CallTask)
  BY <1>1
<1>3. /\ nccl_msgs' = nccl_msgs /\ nccl_tasks' = nccl_tasks
      /\ IF Len(g[1]) = 1
         THEN /\ nccl_pipeline' = [nccl_pipeline EXCEPT ![c] = Tail(g)]
              /\ synced' = [synced EXCEPT ![c] = @ + 1]
         ELSE /\ nccl_pipeline' = [nccl_pipeline EXCEPT ![c] = <<Tail(g[1])>> \o Tail(g)]
              /\ synced' = synced
  BY <1>1, <1>2 DEF SyncNccl
<1>4. /\ \A p \in Devices : p # c => Stays(p)
      /\ \/ nccl_pipeline'[c] = Tail(g) /\ synced'[c] = synced[c] + 1
         \/ nccl_pipeline'[c] = <<Tail(g[1])>> \o Tail(g) /\ synced'[c] = synced[c]
  BY <1>3 DEF NcclTyped, Stays
<1>5. ASSUME NEW H, NEW n, NEW e, Written(H, n, e), Reading(c, H, n, e)
      PROVE  Reading(c, H, n, e)'
  <2>1. /\ Placed(nccl_msgs[c], nccl_tasks[c], g, synced[c])
        /\ Reads(H, n, e, nccl_msgs[c], nccl_tasks[c], g, synced[c])
    BY <1>1, <1>5, InPlace DEF Reading
  <2>2. /\ Reads(H, n, e, nccl_msgs[c], nccl_tasks[c], Tail(g), synced[c] + 1)
        /\ Reads(H, n, e, nccl_msgs[c], nccl_tasks[c], <<Tail(g[1])>> \o Tail(g), synced[c])
    BY <1>1, <1>2, <1>5, <2>1, ReadsOn
  <2> QED BY <1>3, <1>4, <2>2 DEF Reading
<1> QED BY <1>3, <1>4, <1>5, JournalsRead

-----------------------------------------------------------------------------
(* The devices of a switch launch the same calls in the same order.        *)

\* A sequence that is the end of another.
LEMMA SuffixIs ==
    ASSUME NEW S, NEW g \in Seq(S), NEW h \in Seq(S), Len(g) <= Len(h),
           \A y \in 1..Len(g) : g[y] = h[Len(h) - Len(g) + y]
    PROVE  IsSuffix(g, h)
<1>1. PICK a \in Nat, b \in Nat : a = Len(g) /\ b = Len(h) /\ a <= b
  OBVIOUS
<1>2. /\ Reverse(g) = [i \in 1..a |-> g[(a - i) + 1]]
      /\ Reverse(h) = [i \in 1..b |-> h[(b - i) + 1]]
  BY <1>1 DEF Reverse
<1>3. PICK u, v : u = Reverse(g) /\ v = Reverse(h)
  OBVIOUS
<1>4. \A i \in 1..a : (a - i) + 1 \in 1..a /\ b - a + ((a - i) + 1) = (b - i) + 1
  BY <1>1
<1>5. \A i \in 1..a : g[(a - i) + 1] \in S
  BY <1>1, <1>4
<1>6. \A i \in 1..b : h[(b - i) + 1] \in S
  <2>1. \A i \in 1..b : (b - i) + 1 \in 1..b
    BY <1>1
  <2> QED BY <1>1, <2>1
<1>7. u \in Seq(S) /\ v \in Seq(S) /\ Len(u) = a /\ Len(v) = b
  BY <1>1, <1>2, <1>3, <1>5, <1>6
<1>8. \A i \in 1..a : u[i] = v[i]
  <2>1. \A i \in 1..a : g[(a - i) + 1] = h[(b - i) + 1]
    BY <1>1, <1>4
  <2>2. \A i \in 1..a : i \in 1..b
    BY <1>1
  <2> QED BY <1>2, <1>3, <2>1, <2>2
<1>9. SubSeq(u, 1, a) = SubSeq(v, 1, a)
  BY <1>1, <1>7, <1>8
<1>10. IsPrefix(u, v)
  BY <1>1, <1>7, <1>9 DEF IsPrefix
<1> QED BY <1>3, <1>10 DEF IsSuffix

\* The tasks g are those of H up to place z.
EndsAt(g, H, z) == \A y \in 1..Len(g) : g[y] = H[z - Len(g) + y]

\* What is left of the same group of the journal on two devices.
LEMMA SameGroup ==
    ASSUME NEW H, NEW z \in Int, NEW g \in Seq(CallTask), NEW h \in Seq(CallTask),
           EndsAt(g, H, z), EndsAt(h, H, z)
    PROVE  GroupsAgree(g, h)
<1>1. PICK a \in Nat, b \in Nat : a = Len(g) /\ b = Len(h)
  OBVIOUS
<1>4. (\A y \in 1..a : g[y] = H[z - a + y]) /\ (\A y \in 1..b : h[y] = H[z - b + y])
  BY <1>1 DEF EndsAt
<1>2. CASE a <= b
  <2>1. ASSUME NEW y \in 1..a PROVE g[y] = h[b - a + y]
    <3>1. b - a + y \in 1..b /\ z - b + (b - a + y) = z - a + y
      BY <1>1, <1>2
    <3> QED BY <1>4, <3>1
  <2>2. IsSuffix(g, h)
    BY <1>1, <1>2, <2>1, SuffixIs
  <2> QED BY <2>2 DEF GroupsAgree
<1>3. CASE b <= a
  <2>1. ASSUME NEW y \in 1..b PROVE h[y] = g[a - b + y]
    <3>1. a - b + y \in 1..a /\ z - a + (a - b + y) = z - b + y
      BY <1>1, <1>3
    <3> QED BY <1>4, <3>1
  <2>2. IsSuffix(h, g)
    BY <1>1, <1>3, <2>1, SuffixIs
  <2> QED BY <2>2 DEF GroupsAgree
<1> QED BY <1>1, <1>2, <1>3

\* A call of NCCL on a device is for the step that the signal root is at.
LEMMA StepOfCall ==
    ASSUME IInv, SInv, NEW r \in Devices, IsSignalRoot(r), NEW p \in Peers(r),
           NEW op \in {"REDUCE", "BROADCAST"}, NEW k \in Keys, Grouped(p, op, k)
    PROVE  Step(p, k) = Used(r, op, k)
<1>1. p \in Devices /\ TaskTyped /\ Orders /\ Followed /\ Once(p) /\ op \in QueueType
  BY DEF Peers, IInv, TasksKept, Kept, SInv, QueueType
<1>2. Took(p, op, k)
  BY <1>1, TookIs
<1>3. Used(p, op, k) = Step(p, k) /\ Used(p, op, k) \in Int
  BY <1>1, <1>2, Numbers
<1>4. CASE p = r
  BY <1>3, <1>4
<1>5. CASE p # r
  <2>1. ~IsSignalRoot(p)
    <3>1. p \in Peers(p)
      BY <1>1 DEF Peers
    <3> QED BY <1>5, <3>1, OneRoot
  <2>2. ~Waits(p, op, k)
    BY <1>1, <1>2, <2>1, ToldHas DEF Took
  <2>3. Used(r, op, k) = Used(p, op, k) + Bit(Waits(p, op, k))
    BY <1>1, <1>5 DEF Followed, Follows
  <2>4. Bit(Waits(p, op, k)) = 0
    BY <2>2 DEF Bit
  <2> QED BY <1>3, <2>3, <2>4
<1> QED BY <1>4, <1>5

\* A task in a launched group is in NCCL.
LEMMA Launched ==
    ASSUME NcclTyped, NEW d \in Devices, NEW i \in DOMAIN nccl_pipeline[d],
           NEW x \in Range(nccl_pipeline[d][i])
    PROVE  x \in CallTask /\ x = NcclTask(x.op, x.key) /\ Grouped(d, x.op, x.key)
<1>1. PICK g \in Seq(Seq(CallTask)) : g = nccl_pipeline[d]
  BY DEF NcclTyped
<1>2. PICK t \in Seq(CallTask) : t = nccl_tasks[d]
  BY DEF NcclTyped
<1>3. i \in 1..Len(g) /\ Len(g) \in Nat
  BY <1>1
<1>4. PICK s \in Seq(CallTask) : s = g[i]
  BY <1>1, <1>3
<1>5. PICK y \in 1..Len(s) : x = s[y]
  BY <1>1, <1>4 DEF Range
<1>6. x \in CallTask
  BY <1>5
<1>7. PICK h \in Seq(Seq(CallTask)) : h = Append(g, t)
  BY AppendOf, Zenon
<1>8. i \in 1..Len(h) /\ h[i] = s
  BY <1>3, <1>4, <1>7, AppendOf
<1>9. In(h, x)
  BY <1>5, <1>8 DEF In
<1>10. x = NcclTask(x.op, x.key)
  BY <1>6, NcclTasks
<1> QED BY <1>1, <1>2, <1>6, <1>7, <1>9, <1>10 DEF Grouped, Groups

\* The place of a group in the journal.
LEMMA SamePlace ==
    ASSUME NEW a \in Nat, NEW b \in Nat, NEW u \in Nat, NEW n \in Nat, a + u <= n,
           NEW i \in 1..u, NEW j \in Int, j = a + i - b
    PROVE  a + i \in 1..n /\ a + i = b + j
OBVIOUS

\* The order of the calls follows from the journal.
LEMMA OrderOfCalls ==
    ASSUME IInv, SInv, Journals
    PROVE  NcclOrder
<1>1. ASSUME NEW d \in Devices, NEW p \in Peers(d), NEW i \in DOMAIN nccl_pipeline[d],
             NEW j, j = synced[d] + i - synced[p], j \in DOMAIN nccl_pipeline[p]
      PROVE  /\ GroupsAgree(nccl_pipeline[d][i], nccl_pipeline[p][j])
             /\ \A task \in Range(nccl_pipeline[d][i]) \cap Range(nccl_pipeline[p][j]) :
                   Step(d, task.key) = Step(p, task.key)
  <2>1. machine \in Machines /\ NcclTyped /\ p \in Devices
    BY <1>1 DEF IInv, TasksKept, TaskTyped, Peers
  <2>2. PICK r \in Devices : IsSignalRoot(r) /\ d \in Peers(r) /\ p \in Peers(r)
    <3>1. SignalRoot(d) \in Devices /\ IsSignalRoot(SignalRoot(d)) /\ SwitchOf(SignalRoot(d)) = SwitchOf(d)
      BY <2>1, OfDevice, Places
    <3> QED BY <1>1, <3>1 DEF Peers
  <2>3. PICK H, n, e : Journal(r, H, n, e)
    BY <2>2 DEF Journals
  <2>4. /\ Written(H, n, e)
        /\ Reads(H, n, e, nccl_msgs[d], nccl_tasks[d], nccl_pipeline[d], synced[d])
        /\ Reads(H, n, e, nccl_msgs[p], nccl_tasks[p], nccl_pipeline[p], synced[p])
    BY <2>2, <2>3 DEF Journal, Reading
  <2>a. PICK gd \in Seq(Seq(CallTask)), gp \in Seq(Seq(CallTask)) :
           gd = nccl_pipeline[d] /\ gp = nccl_pipeline[p]
    BY <2>1, InPlace DEF Placed
  <2>b. i \in 1..Len(gd) /\ j \in 1..Len(gp)
    BY <1>1, <2>a
  <2>5. PICK g \in Seq(CallTask), h \in Seq(CallTask) : g = gd[i] /\ h = gp[j]
    BY <2>b
  <2>6. PICK a \in Nat, b \in Nat, u \in Nat, v \in Nat :
           /\ a = synced[d] /\ b = synced[p] /\ u = Len(gd) /\ v = Len(gp)
           /\ i \in 1..u /\ j \in 1..v
    <3>1. synced[d] \in Nat /\ synced[p] \in Nat
      BY <2>1 DEF NcclTyped
    <3>2. Len(gd) \in Nat /\ Len(gp) \in Nat
      OBVIOUS
    <3> QED BY <2>b, <3>1, <3>2
  <2>7. PICK x \in 1..n : x = a + i /\ x = b + j
    <3>1. a + u <= n /\ n \in Nat
      BY <2>4, <2>6, <2>a DEF Reads, Written
    <3>2. j = a + i - b /\ i \in 1..u /\ j \in Int
      BY <1>1, <2>6
    <3> QED BY <3>1, <3>2, SamePlace
  <2>8. PICK z \in Int : z = e[x] - 1
    <3>1. e[x] \in Int
      BY <2>4, <2>7 DEF Written
    <3> QED BY <3>1
  <2>9. EndsAt(g, H, z)
    <3>1. \A y \in 1..Len(g) : g[y] = H[e[a + i] - 1 - Len(g) + y]
      BY <2>4, <2>5, <2>6, <2>a, <2>b DEF Reads
    <3> QED BY <2>7, <2>8, <3>1 DEF EndsAt
  <2>10. EndsAt(h, H, z)
    <3>1. \A y \in 1..Len(h) : h[y] = H[e[b + j] - 1 - Len(h) + y]
      BY <2>4, <2>5, <2>6, <2>a, <2>b DEF Reads
    <3> QED BY <2>7, <2>8, <3>1 DEF EndsAt
  <2>11. GroupsAgree(g, h)
    BY <2>9, <2>10, SameGroup
  <2>12. ASSUME NEW task \in Range(nccl_pipeline[d][i]) \cap Range(nccl_pipeline[p][j])
         PROVE  Step(d, task.key) = Step(p, task.key)
    <3>1. /\ task \in CallTask /\ Grouped(d, task.op, task.key)
          /\ Grouped(p, task.op, task.key)
      BY <1>1, <2>1, <2>12, Launched
    <3>2. task.op \in {"REDUCE", "BROADCAST"} /\ task.key \in Keys
      BY <3>1, NcclTasks
    <3> QED BY <2>2, <3>1, <3>2, StepOfCall
  <2> QED BY <2>a, <2>5, <2>11, <2>12
<1> QED BY <1>1 DEF NcclOrder

\* What leaves the messages and the groups of all devices alone.
NcclRests == machine' = machine /\ UNCHANGED <<nccl_msgs, nccl_tasks, nccl_pipeline, synced>>

\* The threads of a device, but for the loop over NCCL groups.
LEMMA DeviceReads ==
    ASSUME NcclTyped, Journals, NEW d \in Devices, Device(d)
    PROVE  Journals'
<1>1. CASE SyncNcclLoop(d)
  BY <1>1, GroupReads DEF SyncNcclLoop, Alive
<1>2. CASE \E t \in Tensors : Framework(d, t)
  <2>1. NcclRests
    BY <1>2 DEF Framework, Alive, EnqueueTensor, ReadyEvent, ncclVars, NcclRests
  <2> QED BY <2>1, JournalsStay DEF NcclRests
<1>3. CASE \E op \in Coordinates : CoordinateLoop(d, op)
  <2>1. NcclRests
    BY <1>3 DEF CoordinateLoop, Alive, Coordinate, SendSignal, ncclVars, NcclRests
  <2> QED BY <2>1, JournalsStay DEF NcclRests
<1>4. CASE \E table \in Tables, k \in Keys : Listen(d, table, k)
  <2>1. NcclRests
    BY <1>4 DEF Listen, Alive, AddReadyCount, Abort, ncclVars, NcclRests
  <2> QED BY <2>1, JournalsStay DEF NcclRests
<1>5. CASE CopyDevice2HostLoop(d) \/ PcieReduceLoop(d) \/ CopyHost2DeviceLoop(d)
  <2>1. NcclRests
    BY <1>5 DEF CopyDevice2HostLoop, PcieReduceLoop, CopyHost2DeviceLoop, Alive,
                CopyDevice2Host, PcieReduce, CopyHost2Device, ncclVars, NcclRests
  <2> QED BY <2>1, JournalsStay DEF NcclRests
<1> QED BY <1>1, <1>2, <1>3, <1>4, <1>5 DEF Device

\* The loops of the root and the calls that return.
LEMMA RootReads ==
    ASSUME Journals, RootCalls
    PROVE  Journals'
<1>1. ASSUME NEW op \in Calls, CallLoop(op)
      PROVE  NcclRests
  BY <1>1 DEF CallLoop, Alive, DummyBarrier, Call, ncclVars, NcclRests
<1>2. ASSUME NEW k \in Keys, CallReturns(k)
      PROVE  NcclRests
  BY <1>2 DEF CallReturns, Alive, CompressJob, Abort, PushDone, PullDone, DecompressJob,
              ncclVars, NcclRests
<1> QED BY <1>1, <1>2, JournalsStay DEF RootCalls, NcclRests

\* Every device of a switch reads the journal of its signal root.
LEMMA NextReads ==
    ASSUME IInv, IInv', Journals, [Next]_vars
    PROVE  Journals'
<1>1. NcclTyped /\ NcclTyped'
  BY DEF IInv
<1>2. CASE UNCHANGED vars
  BY <1>2, JournalsStay DEF vars, ncclVars
<1>3. ASSUME NEW d \in Devices, Device(d)
      PROVE  Journals'
  BY <1>1, <1>3, DeviceReads
<1>4. ASSUME NEW d \in Devices, NcclLoop(d)
      PROVE  Journals'
  <2>1. /\ machine' = machine
        /\ IF IsSignalRoot(d) THEN RootNcclTake(d) \/ RootNcclNext(d) ELSE NonRootNccl(d)
    BY <1>4 DEF NcclLoop, Alive
  <2> QED BY <1>1, <2>1, RootWritesTask, RootWritesGroup, FollowerReads
<1>5. CASE RootCalls
  BY <1>5, RootReads
<1> QED BY <1>2, <1>3, <1>4, <1>5 DEF Next

(* The devices of a switch launch the same NCCL calls in the same order,   *)
(* for the same step of each tensor (RunRootNcclLoopOnce,                  *)
(* RunNonRootNcclLoopOnce, RunSyncNcclOnce).                               *)
THEOREM NcclOrderCorrect == Spec => []NcclOrder
<1>1. Init => Journals
  BY NothingWritten
<1>2. IInv /\ IInv' /\ Journals /\ [Next]_vars => Journals'
  BY NextReads
<1>3. IInv /\ SInv /\ Journals => NcclOrder
  BY OrderOfCalls
<1> QED BY <1>1, <1>2, <1>3, PipelineInvariant, SignalsCorrect, PTL DEF Spec
=============================================================================
