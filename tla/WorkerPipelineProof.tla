-------------------------- MODULE WorkerPipelineProof --------------------------
(***************************************************************************)
(* For any machine, tensors, partitions and priorities: the devices keep   *)
(* every task in one place, that of its present stage, and lose no credit. *)
(***************************************************************************)
EXTENDS WorkerPipelineProperties, FiniteSetTheorems, TLAPS

-----------------------------------------------------------------------------
(* The machine.                                                            *)

LEMMA Division ==
    ASSUME NEW a \in Nat, NEW b \in Nat \ {0}
    PROVE  a \div b \in Nat /\ a % b \in 0..b - 1 /\ a = (a \div b) * b + (a % b)
OBVIOUS

LEMMA Quotient ==
    ASSUME NEW a \in Nat \ {0}, NEW b \in Nat \ {0}, a % b = 0
    PROVE  \E q \in Nat \ {0} : q = a \div b /\ a = q * b
<1>1. a \div b \in Nat /\ a = (a \div b) * b
  BY Division
<1>2. a \div b # 0
  BY <1>1
<1> QED BY <1>1, <1>2, Zenon

\* The devices fill the switches.
LEMMA Geometry ==
    ASSUME machine \in Machines
    PROVE  /\ machine.local_size \in Nat \ {0} /\ PcieSize \in Nat \ {0}
           /\ PcieNum \in Nat \ {0} /\ machine.local_size = PcieNum * PcieSize
           /\ Root \in Devices /\ Back \in Switches
<1>1. PICK n \in Nat \ {0} : n = machine.local_size
  BY PipelineAssumption
<1>2. PICK s \in Nat \ {0} : s = PcieSize /\ n % s = 0
  <2>1. n % n = 0
    BY <1>1
  <2>2. machine.pcie_switch_size \in Nat \ {0}
    BY PipelineAssumption
  <2> QED BY <1>1, <2>1, <2>2 DEF PcieSize
<1>3. PICK m \in Nat \ {0} : m = n \div s /\ n = m * s
  <2>1. \E m \in Nat \ {0} : m = n \div s /\ n = m * s
    <3>1. n % s = 0
      BY <1>2
    <3>2. \A a \in Nat \ {0}, b \in Nat \ {0} :
             a % b = 0 => \E q \in Nat \ {0} : q = a \div b /\ a = q * b
      BY Quotient, Zenon
    <3> HIDE <1>1, <1>2
    <3> QED BY <3>1, <3>2, Zenon
  <2> QED BY <2>1, Zenon
<1> QED BY <1>1, <1>2, <1>3 DEF PcieNum, Root, Devices, Back, Switches

\* A device belongs to a switch, and reduces a slice.
LEMMA OfDevice ==
    ASSUME machine \in Machines, NEW d \in Devices
    PROVE  /\ SwitchOf(d) \in Switches /\ SliceOf(d) \in Slices
           /\ SignalRoot(d) \in Devices /\ ReducerRoot(d) \in Devices
<1>1. PICK s \in Nat \ {0}, m \in Nat \ {0} :
         /\ s = PcieSize /\ m = PcieNum /\ machine.local_size = m * s
         /\ d \in Nat /\ d < m * s
  BY Geometry DEF Devices
<1>2. PICK q \in Nat, r \in 0..s - 1 : q = d \div s /\ r = d % s /\ d = q * s + r
  <2>1. d \div s \in Nat /\ d % s \in 0..s - 1 /\ d = (d \div s) * s + (d % s)
    BY <1>1, Division
  <2> QED BY <2>1, Zenon
<1>3. q < m
  <2>1. SUFFICES ASSUME q >= m PROVE FALSE
    BY <1>1, <1>2
  <2>2. PICK x \in Nat : q = m + x
    BY <1>1, <1>2, <2>1
  <2>3. q * s = m * s + x * s /\ x * s >= 0
    BY <1>1, <2>2
  <2> QED BY <1>1, <1>2, <2>3
<1>4. PICK x \in Nat : m = q + 1 + x
  <2>1. m - q - 1 \in Nat /\ m = q + 1 + (m - q - 1)
    BY <1>1, <1>2, <1>3
  <2> QED BY <2>1
<1>5. m * s = q * s + s + x * s /\ x * s \in Nat /\ q * s \in Nat
  BY <1>1, <1>2, <1>4
<1>6. (m - 1) * s = m * s - s
  BY <1>1
<1>7. q * s + s - 1 \in 0..machine.local_size - 1
  BY <1>1, <1>5
<1>8. (m - 1) * s + r \in 0..machine.local_size - 1
  BY <1>1, <1>2, <1>5, <1>6
<1> QED BY <1>1, <1>2, <1>3, <1>7, <1>8
        DEF SwitchOf, SliceOf, Switches, Slices, SignalRoot, ReducerRoot, Devices

-----------------------------------------------------------------------------
(* Sequences.                                                              *)

\* What getTask leaves of a queue that holds no task twice.
LEMMA Removed ==
    ASSUME NEW S, NEW s \in Seq(S), IsInjective(s), NEW k \in Range(s)
    PROVE  LET r == RemoveAt(s, CHOOSE i \in DOMAIN s : s[i] = k)
           IN  r \in Seq(S) /\ IsInjective(r) /\ Range(r) = Range(s) \ {k}
<1> DEFINE i == CHOOSE i \in DOMAIN s : s[i] = k
           r == RemoveAt(s, i)
<1>1. i \in 1..Len(s) /\ s[i] = k
  BY DEF Range
<1> HIDE DEF i
<1>2. /\ r \in Seq(S) /\ Len(r) = Len(s) - 1 /\ DOMAIN r = 1..Len(s) - 1
      /\ DOMAIN s = 1..Len(s)
      /\ \A j \in 1..Len(s) - 1 : r[j] = IF j < i THEN s[j] ELSE s[j + 1]
  <2> DEFINE a == SubSeq(s, 1, i - 1)
             b == SubSeq(s, i + 1, Len(s))
  <2>1. /\ a \in Seq(S) /\ Len(a) = i - 1 /\ \A j \in 1..i - 1 : a[j] = s[j]
    BY <1>1
  <2>2. /\ b \in Seq(S) /\ Len(b) = Len(s) - i
        /\ \A j \in 1..Len(s) - i : b[j] = s[i + j]
    BY <1>1
  <2> HIDE DEF a, b
  <2>3. a \o b \in Seq(S) /\ Len(a \o b) = Len(s) - 1
    <3>1. Len(a \o b) = Len(a) + Len(b) /\ a \o b \in Seq(S)
      BY <2>1, <2>2
    <3> QED BY <1>1, <2>1, <2>2, <3>1
  <2>4. \A j \in 1..i - 1 : (a \o b)[j] = s[j]
    BY <1>1, <2>1, <2>2
  <2>5. \A j \in i..Len(s) - 1 : (a \o b)[j] = s[j + 1]
    <3> TAKE j \in i..Len(s) - 1
    <3>1. (a \o b)[j] = b[j - (i - 1)] /\ j - (i - 1) \in 1..Len(s) - i
      BY <1>1, <2>1, <2>2
    <3> QED BY <1>1, <2>2, <3>1
  <2>6. r = a \o b
    BY DEF RemoveAt, a, b
  <2> QED BY <1>1, <2>3, <2>4, <2>5, <2>6
<1> HIDE DEF r
<1>3. ASSUME NEW m \in DOMAIN r, NEW n \in DOMAIN r, r[m] = r[n] PROVE m = n
  <2>1. PICK u \in 1..Len(s) : u = IF m < i THEN m ELSE m + 1
    BY <1>1, <1>2
  <2>2. PICK v \in 1..Len(s) : v = IF n < i THEN n ELSE n + 1
    BY <1>1, <1>2
  <2>3. s[u] = s[v]
    BY <1>1, <1>2, <1>3, <2>1, <2>2
  <2>4. u = v
    BY <1>2, <2>3 DEF IsInjective
  <2> QED BY <1>1, <1>2, <2>1, <2>2, <2>4
<1>4. ASSUME NEW x \in Range(r) PROVE x \in Range(s) /\ x # k
  <2>1. PICK j \in 1..Len(s) - 1 : r[j] = x
    BY <1>2 DEF Range
  <2>2. PICK n \in 1..Len(s) : s[n] = x /\ n # i
    BY <1>1, <1>2, <2>1
  <2> QED BY <1>1, <1>2, <2>2 DEF IsInjective, Range
<1>5. ASSUME NEW x \in Range(s), x # k PROVE x \in Range(r)
  <2>1. PICK j \in 1..Len(s) : s[j] = x
    BY DEF Range
  <2>2. CASE j < i
    <3>1. j \in DOMAIN r /\ r[j] = x
      BY <1>1, <1>2, <2>1, <2>2
    <3> QED BY <3>1 DEF Range
  <2>3. CASE j > i
    <3>1. j - 1 \in DOMAIN r /\ r[j - 1] = x
      BY <1>1, <1>2, <2>1, <2>3
    <3> QED BY <3>1 DEF Range
  <2> QED BY <1>1, <1>5, <2>1, <2>2, <2>3
<1> QED BY <1>2, <1>3, <1>4, <1>5 DEF IsInjective, i, r

\* Two sequences with nothing in common, one after the other.
LEMMA Joined ==
    ASSUME NEW S, NEW s \in Seq(S), NEW t \in Seq(S),
           IsInjective(s), IsInjective(t), Range(s) \cap Range(t) = {}
    PROVE  /\ s \o t \in Seq(S) /\ IsInjective(s \o t)
           /\ Range(s \o t) = Range(s) \cup Range(t)
<1> DEFINE r == s \o t
<1>1. /\ r \in Seq(S) /\ Len(r) = Len(s) + Len(t)
      /\ \A i \in 1..Len(s) : r[i] = s[i]
      /\ \A i \in 1..Len(t) : r[Len(s) + i] = t[i]
      /\ \A i \in Len(s) + 1..Len(r) : r[i] = t[i - Len(s)] /\ i - Len(s) \in 1..Len(t)
      /\ DOMAIN r = 1..Len(r) /\ DOMAIN s = 1..Len(s) /\ DOMAIN t = 1..Len(t)
      /\ Len(s) \in Nat /\ Len(t) \in Nat
  OBVIOUS
<1> HIDE DEF r
<1>2. \A i \in DOMAIN r : IF i <= Len(s) THEN i \in DOMAIN s /\ r[i] = s[i]
                          ELSE i - Len(s) \in DOMAIN t /\ r[i] = t[i - Len(s)]
  BY <1>1
<1>3. ASSUME NEW i \in DOMAIN r, NEW j \in DOMAIN r, r[i] = r[j] PROVE i = j
  <2>1. CASE i <= Len(s) /\ j <= Len(s)
    BY <1>2, <1>3, <2>1 DEF IsInjective
  <2>2. CASE ~(i <= Len(s)) /\ ~(j <= Len(s))
    <3>1. /\ i - Len(s) \in DOMAIN t /\ j - Len(s) \in DOMAIN t
          /\ t[i - Len(s)] = t[j - Len(s)]
      BY <1>2, <1>3, <2>2
    <3>2. i - Len(s) = j - Len(s)
      BY <3>1 DEF IsInjective
    <3> QED BY <1>1, <3>2
  <2>3. CASE i <= Len(s) /\ ~(j <= Len(s))
    <3>1. s[i] \in Range(s) /\ t[j - Len(s)] \in Range(t) /\ s[i] = t[j - Len(s)]
      BY <1>2, <1>3, <2>3 DEF Range
    <3> QED BY <3>1
  <2>4. CASE ~(i <= Len(s)) /\ j <= Len(s)
    <3>1. s[j] \in Range(s) /\ t[i - Len(s)] \in Range(t) /\ s[j] = t[i - Len(s)]
      BY <1>2, <1>3, <2>4 DEF Range
    <3> QED BY <3>1
  <2> QED BY <2>1, <2>2, <2>3, <2>4
<1>4. ASSUME NEW x \in Range(r) PROVE x \in Range(s) \cup Range(t)
  <2>1. PICK i \in DOMAIN r : r[i] = x
    BY DEF Range
  <2> QED BY <1>2, <2>1 DEF Range
<1>5. ASSUME NEW x \in Range(s) PROVE x \in Range(r)
  <2>1. PICK i \in 1..Len(s) : s[i] = x
    BY DEF Range
  <2>2. i \in DOMAIN r /\ r[i] = x
    BY <1>1, <2>1
  <2> QED BY <2>2 DEF Range
<1>6. ASSUME NEW x \in Range(t) PROVE x \in Range(r)
  <2>1. PICK i \in 1..Len(t) : t[i] = x
    BY DEF Range
  <2>2. Len(s) + i \in DOMAIN r /\ r[Len(s) + i] = x
    BY <1>1, <2>1
  <2> QED BY <2>2 DEF Range
<1> QED BY <1>1, <1>3, <1>4, <1>5, <1>6 DEF IsInjective, r

-----------------------------------------------------------------------------
(* Keys, stages and queues.                                                *)

\* A key is of one tensor, and a tensor has as many keys as partitions.
LEMMA KeyFacts ==
    /\ Keys \subseteq Nat /\ IsFiniteSet(Keys)
    /\ \A k \in Keys : TensorOf(k) \in Tensors /\ k \in Range(KeyList[TensorOf(k)])
    /\ \A t \in Tensors : \A k \in Range(KeyList[t]) : k \in Keys /\ TensorOf(k) = t
    /\ \A t \in Tensors : /\ KeyList[t] \in Seq(Keys) /\ KeyList[t] # <<>>
                          /\ IsInjective(KeyList[t])
                          /\ IsFiniteSet(Range(KeyList[t]))
                          /\ Cardinality(Range(KeyList[t])) = Len(KeyList[t])
<1>1. ASSUME NEW t \in Tensors
      PROVE  /\ IsFiniteSet(Range(KeyList[t]))
             /\ Cardinality(Range(KeyList[t])) = Len(KeyList[t])
  <2> DEFINE s == KeyList[t]
  <2>1. s \in Seq(Nat) /\ IsInjective(s) /\ DOMAIN s = 1..Len(s) /\ Len(s) \in Nat
    BY PipelineAssumption
  <2> HIDE DEF s
  <2>2. s \in Bijection(1..Len(s), Range(s))
    BY <2>1 DEF Bijection, Injection, Surjection, IsInjective, Range
  <2>3. IsFiniteSet(1..Len(s)) /\ Cardinality(1..Len(s)) = Len(s)
    <3>1. \A a, b \in Int :
             IsFiniteSet(a..b) /\ Cardinality(a..b) = IF a > b THEN 0 ELSE b - a + 1
      BY FS_Interval
    <3>2. PICK n \in Nat : n = Len(s)
      BY <2>1
    <3>3. IsFiniteSet(1..n) /\ Cardinality(1..n) = IF 1 > n THEN 0 ELSE n - 1 + 1
      BY <3>1
    <3> QED BY <3>2, <3>3
  <2>4. IsFiniteSet(Range(s)) /\ Cardinality(Range(s)) = Cardinality(1..Len(s))
    BY <2>2, <2>3, FS_Bijection DEF ExistsBijection
  <2> QED BY <2>3, <2>4 DEF s
<1>2. Keys \subseteq Nat
  BY PipelineAssumption DEF Keys, Range
<1>3. IsFiniteSet(Keys)
  <2>1. IsFiniteSet({Range(KeyList[t]) : t \in Tensors})
    <3> DEFINE T == {Range(KeyList[t]) : t \in Tensors}
               f == [t \in Tensors |-> Range(KeyList[t])]
    <3>1. f \in Surjection(Tensors, T)
      BY DEF Surjection
    <3>2. IsFiniteSet(Tensors)
      BY PipelineAssumption
    <3> HIDE DEF T, f
    <3>3. IsFiniteSet(T)
      BY <3>1, <3>2, FS_Surjection
    <3> QED BY <3>3 DEF T
  <2>2. \A S \in {Range(KeyList[t]) : t \in Tensors} : IsFiniteSet(S)
    BY <1>1
  <2> QED BY <2>1, <2>2, FS_UNION DEF Keys
<1>4. \A k \in Keys : TensorOf(k) \in Tensors /\ k \in Range(KeyList[TensorOf(k)])
  BY DEF Keys, TensorOf
<1>5. \A t \in Tensors : \A k \in Range(KeyList[t]) : k \in Keys /\ TensorOf(k) = t
  <2> TAKE t \in Tensors
  <2> TAKE k \in Range(KeyList[t])
  <2>1. k \in Keys
    BY DEF Keys
  <2>2. TensorOf(k) \in Tensors /\ k \in Range(KeyList[TensorOf(k)])
    BY <1>4, <2>1
  <2> QED BY <2>1, <2>2, PipelineAssumption
<1>6. \A t \in Tensors : KeyList[t] \in Seq(Keys)
  <2> TAKE t \in Tensors
  <2>1. KeyList[t] \in Seq(Nat) /\ \A i \in 1..Len(KeyList[t]) : KeyList[t][i] \in Keys
    BY <1>5, PipelineAssumption DEF Range
  <2> QED BY <2>1
<1> QED BY <1>1, <1>2, <1>3, <1>4, <1>5, <1>6, PipelineAssumption

\* The stages of a task.
LEMMA QueueLists ==
    ASSUME NEW d, NEW t
    PROVE  QueueList(d, t) \in Seq(QueueType) /\ QueueList(d, t) # <<>>
<1> DEFINE S == Seq(QueueType)
<1>1. \A x \in QueueType : <<x>> \in S
  OBVIOUS
<1>2. \A a, b \in S : a \o b \in S /\ (b # <<>> => a \o b # <<>>)
  OBVIOUS
<1>3. \A c, a : a \in S => If(c, a) \in S
  BY DEF If
<1>4. {"COORDINATE_REDUCE", "REDUCE", "COORDINATE_PUSH", "COPYD2H", "PCIE_REDUCE", "COMPRESS",
       "PUSH", "PULL", "DECOMPRESS", "COPYH2D", "COORDINATE_BROADCAST", "BROADCAST"}
         \subseteq QueueType
  BY DEF QueueType, Coordinates, Coordinated, Calls
<1> HIDE DEF S
<1>5. PushQueueList(d, t) \in S
  BY <1>1, <1>2, <1>3, <1>4, SMTT(60) DEF PushQueueList
<1>6. PullQueueList(d, t) \in S /\ PullQueueList(d, t) # <<>>
  BY <1>1, <1>2, <1>3, <1>4, SMTT(60) DEF PullQueueList
<1> QED BY <1>2, <1>5, <1>6 DEF QueueList, S

\* Before is irreflexive, so that a sorted sequence holds nothing twice.
LEMMA Sorted ==
    ASSUME NEW S, NEW n \in Nat, NEW r \in [1..n -> S], S \subseteq Keys,
           \A i, j \in 1..n : i < j => Before(r[i], r[j])
    PROVE  r \in Seq(S) /\ IsInjective(r)
<1>1. \A k \in Keys : ~Before(k, k)
  <2> TAKE k \in Keys
  <2>1. k \in Nat
    BY PipelineAssumption DEF Keys, Range
  <2>2. TensorOf(k) \in Tensors
    BY DEF Keys, TensorOf
  <2> QED BY <2>1, <2>2, PipelineAssumption DEF Before
<1>2. ASSUME NEW i \in 1..n, NEW j \in 1..n, r[i] = r[j] PROVE i = j
  BY <1>1, <1>2
<1> QED BY <1>2 DEF IsInjective

\* The queues; one of them, and one replaced by another.
Queues == [Devices -> [QueueType -> Seq(Keys)]]
Line(q, d, op) == q[d][op]
Put(q, d, op, s) == [q EXCEPT ![d][op] = s]

\* addTask puts tasks that are not in the queue of a stage in it.
LEMMA Added ==
    ASSUME NEW qs, NEW dev, NEW stage, NEW new, NEW after, NEW old,
           after \in AddTask(qs, dev, stage, new), old = Line(qs, dev, stage),
           new \in Seq(Keys), old \in Seq(Keys), IsInjective(old), IsInjective(new),
           \A key \in Range(new) : key \notin Range(old)
    PROVE  \E line \in Seq(Keys) : /\ after = Put(qs, dev, stage, line) /\ IsInjective(line)
                                   /\ Range(line) = Range(old) \cup Range(new)
<1> DEFINE all == Range(old) \cup Range(new)
           n == Len(old) + Len(new)
           sorted == {x \in [1..n -> all] :
                         Range(x) = all /\ \A i, j \in 1..n : i < j => Before(x[i], x[j])}
<1>1. n \in Nat /\ all \subseteq Keys
  BY DEF Range
<1>2. PICK x : /\ after = Put(qs, dev, stage, x)
               /\ x \in IF IsScheduled(dev, stage) THEN sorted ELSE {old \o new}
  BY DEF AddTask, Put, Line
<1>3. x \in Seq(Keys) /\ IsInjective(x) /\ Range(x) = all
  <2>1. CASE IsScheduled(dev, stage)
    <3>1. x \in sorted
      BY <1>2, <2>1
    <3>2. /\ x \in [1..n -> all] /\ Range(x) = all
          /\ \A i, j \in 1..n : i < j => Before(x[i], x[j])
      BY <3>1
    <3> HIDE DEF all, n, sorted
    <3>3. x \in Seq(all) /\ IsInjective(x)
      BY <1>1, <3>2, Sorted
    <3>4. x \in Seq(Keys)
      BY <1>1, <3>3
    <3> QED BY <3>2, <3>3, <3>4
  <2>2. CASE ~IsScheduled(dev, stage)
    <3>1. x = old \o new
      BY <1>2, <2>2
    <3>2. Range(old) \cap Range(new) = {}
      OBVIOUS
    <3> QED BY <1>1, <3>1, <3>2, Joined
  <2> QED BY <2>1, <2>2
<1> QED BY <1>2, <1>3

\* getTask takes a task from a queue.
LEMMA TakenFacts ==
    ASSUME sq \in Queues, NEW d \in Devices, NEW op \in QueueType,
           NEW k \in Range(sq[d][op]), IsInjective(sq[d][op])
    PROVE  LET q == Taken(d, op, k) IN
           /\ q \in Queues
           /\ \A e \in Devices : e # d => q[e] = sq[e]
           /\ \A o \in QueueType : o # op => q[d][o] = sq[d][o]
           /\ IsInjective(q[d][op])
           /\ Range(q[d][op]) = Range(sq[d][op]) \ {k}
<1> DEFINE s == sq[d][op]
           r == RemoveAt(s, CHOOSE i \in DOMAIN s : s[i] = k)
<1>1. Taken(d, op, k) = [sq EXCEPT ![d][op] = r]
  BY DEF Taken
<1>2. s \in Seq(Keys) /\ IsInjective(s) /\ k \in Range(s)
  BY DEF Queues
<1> HIDE DEF s
<1>3. r \in Seq(Keys) /\ IsInjective(r) /\ Range(r) = Range(s) \ {k}
  BY <1>2, Removed
<1> HIDE DEF r
<1> QED BY <1>1, <1>3 DEF s, Queues

-----------------------------------------------------------------------------
(* NCCL groups.                                                            *)

CallTask == [op : {"REDUCE", "BROADCAST"}, key : Keys]

\* Sequences of groups, as GroupsDistinct and InNccl see them.
Distinct(G) ==
    \A a, b \in 1..Len(G) : \A u \in 1..Len(G[a]), v \in 1..Len(G[b]) :
       G[a][u].key = G[b][v].key => a = b /\ u = v
In(G, x) == \E n \in 1..Len(G) : \E i \in 1..Len(G[n]) : G[n][i] = x

LEMMA InNcclIs ==
    ASSUME NEW d, NEW op, NEW k, Groups(d) \in Seq(Seq(CallTask))
    PROVE  /\ InNccl(d, op, k) <=> In(Groups(d), NcclTask(op, k))
           /\ GroupsDistinct(d) <=> Distinct(Groups(d))
<1> DEFINE G == Groups(d)
<1>1. DOMAIN G = 1..Len(G) /\ \A n \in 1..Len(G) : DOMAIN G[n] = 1..Len(G[n])
  OBVIOUS
<1> HIDE DEF G
<1>2. (\E group \in Range(G) : NcclTask(op, k) \in Range(group)) <=> In(G, NcclTask(op, k))
  BY <1>1, Zenon DEF In, Range
<1>3. (\A a, b \in DOMAIN G : \A u \in DOMAIN G[a], v \in DOMAIN G[b] :
          G[a][u].key = G[b][v].key => a = b /\ u = v) <=> Distinct(G)
  <2>1. ASSUME \A a, b \in DOMAIN G : \A u \in DOMAIN G[a], v \in DOMAIN G[b] :
                  G[a][u].key = G[b][v].key => a = b /\ u = v,
               NEW m \in 1..Len(G), NEW n \in 1..Len(G), NEW i \in 1..Len(G[m]),
               NEW j \in 1..Len(G[n]), G[m][i].key = G[n][j].key
        PROVE  m = n /\ i = j
    <3>1. m \in DOMAIN G /\ n \in DOMAIN G /\ i \in DOMAIN G[m] /\ j \in DOMAIN G[n]
      BY <1>1
    <3> QED BY <2>1, <3>1
  <2>2. ASSUME Distinct(G), NEW m \in DOMAIN G, NEW n \in DOMAIN G,
               NEW i \in DOMAIN G[m], NEW j \in DOMAIN G[n], G[m][i].key = G[n][j].key
        PROVE  m = n /\ i = j
    <3>1. /\ m \in 1..Len(G) /\ n \in 1..Len(G) /\ i \in 1..Len(G[m]) /\ j \in 1..Len(G[n])
      BY <1>1
    <3> QED BY <2>2, <3>1 DEF Distinct
  <2> QED BY <2>1, <2>2, Zenon DEF Distinct
<1> QED BY <1>2, <1>3 DEF InNccl, GroupsDistinct, G

\* A task that no group holds is put in the last group.
LEMMA GroupTakes ==
    ASSUME NEW p \in Seq(Seq(CallTask)), NEW s \in Seq(CallTask), NEW x \in CallTask,
           Distinct(Append(p, s)), \A y \in CallTask : In(Append(p, s), y) => y.key # x.key
    PROVE  /\ Distinct(Append(p, Append(s, x)))
           /\ \A y : In(Append(p, Append(s, x)), y) <=> In(Append(p, s), y) \/ y = x
<1> DEFINE G == Append(p, s)
           H == Append(p, Append(s, x))
           l == Len(p) + 1
           c == Len(s)
<1>1. /\ l \in Nat \ {0} /\ Len(G) = l /\ Len(H) = l /\ G[l] = s /\ H[l] = Append(s, x)
      /\ \A n \in 1..l : n # l => H[n] = G[n]
      /\ \A n \in 1..l : G[n] \in Seq(CallTask)
  OBVIOUS
<1>2. /\ c \in Nat /\ Len(Append(s, x)) = c + 1 /\ Append(s, x)[c + 1] = x
      /\ \A i \in 1..c : Append(s, x)[i] = s[i] /\ s[i] \in CallTask
  OBVIOUS
<1>c. c = Len(s)
  OBVIOUS
<1> HIDE DEF G, H, l, c
<1>3. ASSUME NEW n \in 1..l, NEW i \in 1..Len(H[n]), ~(n = l /\ i = c + 1)
      PROVE  /\ i \in 1..Len(G[n]) /\ H[n][i] = G[n][i]
             /\ H[n][i] \in CallTask /\ H[n][i].key # x.key
  <2>1. i \in 1..Len(G[n]) /\ H[n][i] = G[n][i]
    <3>1. CASE n = l
      <4>1. G[n] = s /\ H[n] = Append(s, x) /\ i \in 1..c
        BY <1>1, <1>2, <1>3, <3>1
      <4> QED BY <1>2, <1>c, <4>1
    <3>2. CASE n # l
      BY <1>1, <1>3, <3>2
    <3> QED BY <3>1, <3>2
  <2>2. G[n][i] \in CallTask
    BY <1>1, <2>1
  <2>3. In(G, G[n][i])
    BY <1>1, <2>1 DEF In
  <2> QED BY <2>1, <2>2, <2>3 DEF G
<1>4. l \in 1..Len(H) /\ c + 1 \in 1..Len(H[l]) /\ H[l][c + 1] = x
  BY <1>1, <1>2
<1>5. ASSUME NEW m \in 1..Len(H), NEW n \in 1..Len(H), NEW i \in 1..Len(H[m]),
             NEW j \in 1..Len(H[n]), H[m][i].key = H[n][j].key
      PROVE  m = n /\ i = j
  <2>1. CASE ~(m = l /\ i = c + 1) /\ ~(n = l /\ j = c + 1)
    <3>1. /\ m \in 1..Len(G) /\ n \in 1..Len(G) /\ i \in 1..Len(G[m]) /\ j \in 1..Len(G[n])
          /\ G[m][i].key = G[n][j].key
      BY <1>1, <1>3, <1>5, <2>1
    <3> QED BY <3>1 DEF Distinct, G
  <2>2. CASE (m = l /\ i = c + 1) /\ ~(n = l /\ j = c + 1)
    BY <1>1, <1>3, <1>4, <1>5, <2>2
  <2>3. CASE ~(m = l /\ i = c + 1) /\ (n = l /\ j = c + 1)
    BY <1>1, <1>3, <1>4, <1>5, <2>3
  <2> QED BY <2>1, <2>2, <2>3
<1>6. ASSUME NEW y, In(H, y) PROVE In(G, y) \/ y = x
  <2>1. PICK n \in 1..l : \E i \in 1..Len(H[n]) : H[n][i] = y
    BY <1>1, <1>6 DEF In
  <2>2. PICK i \in 1..Len(H[n]) : H[n][i] = y
    BY <2>1
  <2> QED BY <1>1, <1>3, <1>4, <2>2 DEF In
<1>7. ASSUME NEW y, In(G, y) PROVE In(H, y)
  <2>1. PICK n \in 1..l : \E i \in 1..Len(G[n]) : G[n][i] = y
    BY <1>1, <1>7 DEF In
  <2>2. PICK i \in 1..Len(G[n]) : G[n][i] = y
    BY <2>1
  <2>3. i \in 1..Len(H[n]) /\ H[n][i] = y
    <3>1. CASE n = l
      <4>1. G[n] = s /\ H[n] = Append(s, x) /\ i \in 1..c
        BY <1>1, <1>c, <2>2, <3>1
      <4> QED BY <1>2, <1>c, <2>2, <4>1
    <3>2. CASE n # l
      BY <1>1, <2>2, <3>2
    <3> QED BY <3>1, <3>2
  <2> QED BY <1>1, <2>3 DEF In
<1>8. In(H, x)
  BY <1>4 DEF In
<1>9. Distinct(H)
  BY <1>5, Zenon DEF Distinct
<1> QED BY <1>6, <1>7, <1>8, <1>9 DEF G, H

\* A group is launched, and the next is empty.
LEMMA GroupCloses ==
    ASSUME NEW p \in Seq(Seq(CallTask)), NEW s \in Seq(CallTask), Distinct(Append(p, s))
    PROVE  /\ Distinct(Append(Append(p, s), <<>>))
           /\ \A y : In(Append(Append(p, s), <<>>), y) <=> In(Append(p, s), y)
<1> DEFINE G == Append(p, s)
           H == Append(G, <<>>)
           l == Len(G)
<1>1. G \in Seq(Seq(CallTask))
  OBVIOUS
<1>2. Distinct(G)
  OBVIOUS
<1> HIDE DEF G
<1>3. /\ l \in Nat /\ Len(H) = l + 1 /\ H[l + 1] = <<>>
      /\ \A n \in 1..l : H[n] = G[n]
  BY <1>1
<1>l. l = Len(G)
  OBVIOUS
<1> HIDE DEF H, l
<1>4. \A n \in 1..Len(H) : \A i \in 1..Len(H[n]) : n \in 1..Len(G) /\ H[n] = G[n]
  BY <1>3, <1>l
<1>5. \A n \in 1..Len(G) : n \in 1..Len(H) /\ H[n] = G[n]
  BY <1>3, <1>l
<1>6. ASSUME NEW m \in 1..Len(H), NEW n \in 1..Len(H), NEW i \in 1..Len(H[m]),
             NEW j \in 1..Len(H[n]), H[m][i].key = H[n][j].key
      PROVE  m = n /\ i = j
  <2>1. m \in 1..Len(G) /\ n \in 1..Len(G) /\ H[m] = G[m] /\ H[n] = G[n]
    BY <1>4
  <2> QED BY <1>2, <1>6, <2>1 DEF Distinct
<1>7. \A y : In(H, y) <=> In(G, y)
  BY <1>4, <1>5 DEF In
<1>8. Distinct(H)
  BY <1>6, Zenon DEF Distinct
<1> QED BY <1>7, <1>8 DEF G, H

\* The only task of the oldest group goes on.
LEMMA GroupEnds ==
    ASSUME NEW G, NEW H, Distinct(G), NEW l \in Nat, Len(G) = l + 1, Len(H) = l,
           \A n \in 1..l : H[n] = G[n + 1], Len(G[1]) = 1
    PROVE  /\ Distinct(H)
           /\ \A y : In(H, y) <=> In(G, y) /\ y # G[1][1]
<1>1. ASSUME NEW n \in 1..Len(H)
      PROVE  n + 1 \in 1..Len(G) /\ n + 1 # 1 /\ H[n] = G[n + 1]
  OBVIOUS
<1>2. ASSUME NEW m \in 1..Len(H), NEW n \in 1..Len(H), NEW i \in 1..Len(H[m]),
             NEW j \in 1..Len(H[n]), H[m][i].key = H[n][j].key
      PROVE  m = n /\ i = j
  <2>1. PICK c \in 1..Len(G) : c = m + 1 /\ G[c] = H[m]
    OBVIOUS
  <2>2. PICK d \in 1..Len(G) : d = n + 1 /\ G[d] = H[n]
    OBVIOUS
  <2>3. c = d /\ i = j
    <3>1. i \in 1..Len(G[c]) /\ j \in 1..Len(G[d]) /\ G[c][i].key = G[d][j].key
      BY <1>2, <2>1, <2>2
    <3> QED BY <3>1 DEF Distinct
  <2> QED BY <2>1, <2>2, <2>3
<1>3. ASSUME NEW y, In(H, y) PROVE In(G, y) /\ y # G[1][1]
  <2>1. PICK n \in 1..Len(H) : \E i \in 1..Len(H[n]) : H[n][i] = y
    BY <1>3 DEF In
  <2>2. PICK i \in 1..Len(H[n]) : H[n][i] = y
    BY <2>1
  <2>3. PICK c \in 1..Len(G) : c # 1 /\ G[c] = H[n]
    BY <1>1
  <2>4. i \in 1..Len(G[c]) /\ G[c][i] = y
    BY <2>2, <2>3
  <2>5. In(G, y)
    BY <2>4 DEF In
  <2>6. PICK o \in 1..Len(G) : o = 1
    OBVIOUS
  <2>7. o \in 1..Len(G[o])
    <3>1. Len(G[o]) = 1 /\ o = 1
      BY <2>6, Zenon
    <3>2. 1 \in 1..1
      OBVIOUS
    <3> QED BY <3>1, <3>2, Zenon
  <2>8. G[c][i].key # G[o][o].key
    BY <2>3, <2>4, <2>6, <2>7 DEF Distinct
  <2> QED BY <2>4, <2>5, <2>6, <2>8
<1>4. ASSUME NEW y, In(G, y), y # G[1][1] PROVE In(H, y)
  <2>1. PICK n \in 1..Len(G) : \E i \in 1..Len(G[n]) : G[n][i] = y
    BY <1>4 DEF In
  <2>2. PICK i \in 1..Len(G[n]) : G[n][i] = y
    BY <2>1
  <2>3. n # 1
    BY <1>4, <2>2
  <2>4. PICK m \in 1..Len(H) : n = m + 1
    <3>1. n - 1 \in 1..Len(H) /\ n = (n - 1) + 1
      BY <2>3
    <3> QED BY <3>1
  <2>5. H[m] = G[n]
    BY <2>4
  <2> QED BY <2>2, <2>5 DEF In
<1>5. Distinct(H)
  BY <1>2, Zenon DEF Distinct
<1> QED BY <1>3, <1>4, <1>5

\* The first task of the oldest group goes on.
LEMMA GroupGoesOn ==
    ASSUME NEW G, NEW H, Distinct(G), NEW l \in Nat \ {0}, Len(G) = l, Len(H) = l,
           \A n \in 2..l : H[n] = G[n],
           NEW c \in Nat, Len(G[1]) = c + 1, Len(H[1]) = c,
           \A i \in 1..c : H[1][i] = G[1][i + 1]
    PROVE  /\ Distinct(H)
           /\ \A y : In(H, y) <=> In(G, y) /\ y # G[1][1]
<1>1. ASSUME NEW n \in 1..Len(H), NEW i \in 1..Len(H[n])
      PROVE  \E e \in 1..Len(G[n]) :
                H[n][i] = G[n][e] /\ e = (IF n = 1 THEN i + 1 ELSE i)
  <2>1. CASE n = 1
    <3>1. i + 1 \in 1..Len(G[n]) /\ H[n][i] = G[n][i + 1]
      BY <2>1
    <3> QED BY <2>1, <3>1
  <2>2. CASE n # 1
    <3>1. H[n] = G[n]
      BY <2>2
    <3> QED BY <2>2, <3>1
  <2> QED BY <2>1, <2>2
<1>2. ASSUME NEW m \in 1..Len(H), NEW n \in 1..Len(H), NEW i \in 1..Len(H[m]),
             NEW j \in 1..Len(H[n]), H[m][i].key = H[n][j].key
      PROVE  m = n /\ i = j
  <2>1. PICK e \in 1..Len(G[m]) : H[m][i] = G[m][e] /\ e = (IF m = 1 THEN i + 1 ELSE i)
    BY <1>1
  <2>2. PICK f \in 1..Len(G[n]) : H[n][j] = G[n][f] /\ f = (IF n = 1 THEN j + 1 ELSE j)
    BY <1>1
  <2>3. m = n /\ e = f
    <3>1. m \in 1..Len(G) /\ n \in 1..Len(G) /\ G[m][e].key = G[n][f].key
      BY <1>2, <2>1, <2>2
    <3> QED BY <3>1 DEF Distinct
  <2> QED BY <2>1, <2>2, <2>3
<1>3. ASSUME NEW y, In(H, y) PROVE In(G, y) /\ y # G[1][1]
  <2>1. PICK n \in 1..Len(H) : \E i \in 1..Len(H[n]) : H[n][i] = y
    BY <1>3 DEF In
  <2>2. PICK i \in 1..Len(H[n]) : H[n][i] = y
    BY <2>1
  <2>3. PICK e \in 1..Len(G[n]) : y = G[n][e] /\ e = (IF n = 1 THEN i + 1 ELSE i)
    BY <1>1, <2>2
  <2>4. n \in 1..Len(G) /\ ~(n = 1 /\ e = 1)
    BY <2>3
  <2>5. In(G, y)
    BY <2>3, <2>4 DEF In
  <2>6. PICK o \in 1..Len(G) : o = 1
    OBVIOUS
  <2>7. o \in 1..Len(G[o])
    <3>1. Len(G[o]) = c + 1
      BY <2>6, Zenon
    <3> QED BY <2>6, <3>1
  <2>8. G[n][e].key # G[o][o].key
    BY <2>4, <2>6, <2>7 DEF Distinct
  <2> QED BY <2>3, <2>5, <2>6, <2>8
<1>4. ASSUME NEW y, In(G, y), y # G[1][1] PROVE In(H, y)
  <2>1. PICK n \in 1..Len(G) : \E i \in 1..Len(G[n]) : G[n][i] = y
    BY <1>4 DEF In
  <2>2. PICK i \in 1..Len(G[n]) : G[n][i] = y
    BY <2>1
  <2>3. \E e \in 1..Len(H[n]) : H[n][e] = y
    <3>1. CASE n = 1
      <4>1. PICK e \in 1..c : i = e + 1
        <5>1. i - 1 \in 1..c /\ i = (i - 1) + 1
          BY <1>4, <2>2, <3>1
        <5> QED BY <5>1
      <4>2. e \in 1..Len(H[n]) /\ H[n][e] = y
        BY <2>2, <3>1, <4>1
      <4> QED BY <4>2
    <3>2. CASE n # 1
      <4>1. H[n] = G[n]
        BY <3>2
      <4> QED BY <2>2, <4>1
    <3> QED BY <3>1, <3>2
  <2>4. n \in 1..Len(H)
    OBVIOUS
  <2> QED BY <2>3, <2>4 DEF In
<1>5. Distinct(H)
  BY <1>2, Zenon DEF Distinct
<1> QED BY <1>3, <1>4, <1>5

-----------------------------------------------------------------------------
(* The inductive invariant.                                                *)

TaskTyped ==
    /\ machine \in Machines
    /\ queue_list \in [Devices -> [Keys -> Seq(QueueType)]]
    /\ sq \in Queues
    /\ ready_event \in [Devices -> SUBSET Tensors]
    /\ counter \in [Devices -> [Tensors -> Nat]]
    /\ enqueued \in [Devices -> [Tensors -> Nat]]
    /\ step_cnt \in [Devices -> [Tensors -> Nat]]
    /\ credits \in [Devices -> Int]
    /\ calls \in [Calls -> SUBSET Keys]

\* A tensor is in one step at most, and its counter is that of its finished tasks.
Finished(d, t) == {k \in Range(KeyList[t]) : queue_list[d][k] = <<>>}
Progress(d, t) ==
    /\ enqueued[d][t] <= machine.steps[t]
    /\ counter[d][t] <= Len(KeyList[t])
    /\ \/ /\ enqueued[d][t] = step_cnt[d][t]
          /\ Finished(d, t) = Range(KeyList[t])
       \/ /\ enqueued[d][t] = step_cnt[d][t] + 1
          /\ counter[d][t] = Cardinality(Finished(d, t))
          /\ counter[d][t] < Len(KeyList[t])

\* What changes with the machine only.
LEMMA SameMachine ==
    ASSUME machine' = machine
    PROVE  /\ Devices' = Devices /\ Root' = Root /\ PcieSize' = PcieSize
           /\ PcieNum' = PcieNum /\ Back' = Back /\ Switches' = Switches /\ Slices' = Slices
BY DEF Devices, Root, PcieSize, PcieNum, Back, Switches, Slices

\* The task of k is in queue op of the queues q; it is in none of them.
Holds(q, d, op, k) == k \in Range(q[d][op])
Away(q, d, k) == \A op \in QueueType : IsInjective(q[d][op]) /\ ~Holds(q, d, op, k)

\* What FinishOrProceed does to the tasks, the queues being q before.
NextStage(d, k, op) == Tail(queue_list[d][k]) # <<>> /\ op = Head(Tail(queue_list[d][k]))
MovedOn(d, k, q) ==
    /\ queue_list' \in [Devices -> [Keys -> Seq(QueueType)]] /\ sq' \in Queues
    /\ counter' \in [Devices -> [Tensors -> Nat]]
    /\ step_cnt' \in [Devices -> [Tensors -> Nat]]
    /\ \A t \in Tensors : Progress(d, t)'
    /\ \A e \in Devices : e # d => /\ queue_list'[e] = queue_list[e] /\ sq'[e] = q[e]
                                   /\ counter'[e] = counter[e] /\ step_cnt'[e] = step_cnt[e]
    /\ \A j \in Keys : j # k => queue_list'[d][j] = queue_list[d][j]
    /\ queue_list'[d][k] = Tail(queue_list[d][k])
    /\ \A op \in QueueType :
          /\ IsInjective(sq'[d][op])
          /\ \A j \in Keys : Holds(sq', d, op, j) <=>
                                Holds(q, d, op, j) \/ (j = k /\ NextStage(d, k, op))

LEMMA Finishes ==
    ASSUME TaskTyped, machine' = machine, NEW d, NEW k, NEW q, FinishOrProceed(d, k, q),
           d \in Devices, k \in Keys, q \in Queues, \A t \in Tensors : Progress(d, t),
           queue_list[d][k] # <<>>, Away(q, d, k)
    PROVE  MovedOn(d, k, q)
<1> DEFINE t == TensorOf(k)
           rest == Tail(queue_list[d][k])
           last == counter[d][t] + 1 = Len(KeyList[t])
<1>1. t \in Tensors /\ k \in Range(KeyList[t])
  BY KeyFacts
<1>a. \A op \in QueueType : IsInjective(q[d][op]) /\ k \notin Range(q[d][op])
  BY DEF Away, Holds
<1>2. queue_list[d][k] \in Seq(QueueType) /\ rest \in Seq(QueueType)
  BY DEF TaskTyped
<1>3. /\ queue_list' = [queue_list EXCEPT ![d][k] = rest]
      /\ enqueued' = enqueued
      /\ IF rest # <<>>
         THEN sq' \in AddTask(q, d, Head(rest), <<k>>) /\ counter' = counter /\ step_cnt' = step_cnt
         ELSE /\ sq' = q
              /\ counter' = [counter EXCEPT ![d][t] = @ + 1]
              /\ step_cnt' = IF last THEN [step_cnt EXCEPT ![d][t] = @ + 1] ELSE step_cnt
  BY DEF FinishOrProceed
<1> HIDE DEF t, rest
<1>4. /\ queue_list' \in [Devices -> [Keys -> Seq(QueueType)]]
      /\ \A e \in Devices : e # d => queue_list'[e] = queue_list[e]
      /\ \A j \in Keys : j # k => queue_list'[d][j] = queue_list[d][j]
      /\ queue_list'[d][k] = rest
  BY <1>2, <1>3 DEF TaskTyped
<1>5. /\ sq' \in Queues
      /\ \A e \in Devices : e # d => sq'[e] = q[e]
      /\ \A op \in QueueType :
            /\ IsInjective(sq'[d][op])
            /\ \A j \in Keys : j \in Range(sq'[d][op]) <=>
                  j \in Range(q[d][op]) \/ (j = k /\ rest # <<>> /\ op = Head(rest))
  <2>1. CASE rest = <<>>
    BY <1>3, <1>a, <2>1
  <2>2. CASE rest # <<>>
    <3> DEFINE op == Head(rest)
    <3>1. op \in QueueType /\ <<k>> \in Seq(Keys) /\ IsInjective(<<k>>) /\ Range(<<k>>) = {k}
      <4>1. op \in QueueType
        BY <1>2, <2>2
      <4>2. <<k>> \in Seq(Keys) /\ DOMAIN <<k>> = {1} /\ <<k>>[1] = k
        OBVIOUS
      <4> QED BY <4>1, <4>2 DEF IsInjective, Range
    <3>2. sq' \in AddTask(q, d, op, <<k>>)
      BY <1>3, <2>2
    <3>3. PICK s \in Seq(Keys) : s = q[d][op]
      BY <3>1 DEF Queues
    <3>4. PICK r : r = sq'
      OBVIOUS
    <3>5. PICK o \in QueueType : o = op
      BY <3>1
    <3>6. PICK ks \in Seq(Keys) : ks = <<k>>
      BY <3>1
    <3>7. /\ r \in AddTask(q, d, o, ks) /\ s = Line(q, d, o) /\ IsInjective(ks) /\ IsInjective(s)
          /\ Range(ks) = {k} /\ \A j \in Range(ks) : j \notin Range(s)
      BY <1>a, <3>1, <3>2, <3>3, <3>4, <3>5, <3>6 DEF Line
    <3> HIDE DEF op
    <3>8. PICK x \in Seq(Keys) : /\ r = Put(q, d, o, x) /\ IsInjective(x)
                                 /\ Range(x) = Range(s) \cup Range(ks)
      BY <3>7, Added
    <3>9. /\ r \in Queues
          /\ \A e \in Devices : e # d => r[e] = q[e]
          /\ \A p \in QueueType : p # o => r[d][p] = q[d][p]
          /\ r[d][o] = x
      BY <3>8 DEF Put, Queues
    <3>10. \A p \in QueueType :
             /\ IsInjective(r[d][p])
             /\ \A j \in Keys : j \in Range(r[d][p]) <=> j \in Range(q[d][p]) \/ (j = k /\ p = o)
      <4> TAKE p \in QueueType
      <4>1. CASE p = o
        <5>1. r[d][p] = x /\ q[d][p] = s
          BY <3>7, <3>9, <4>1 DEF Line
        <5>2. IsInjective(x) /\ \A j \in Keys : j \in Range(x) <=> j \in Range(s) \/ (j = k /\ p = o)
          BY <3>7, <3>8, <4>1
        <5> QED BY <5>1, <5>2, Zenon
      <4>2. CASE p # o
        <5>1. r[d][p] = q[d][p] /\ IsInjective(q[d][p])
          BY <1>a, <3>9, <4>2
        <5> QED BY <4>2, <5>1, Zenon
      <4> QED BY <4>1, <4>2
    <3> QED BY <2>2, <3>4, <3>5, <3>9, <3>10 DEF op
  <2> QED BY <2>1, <2>2
<1>6. /\ counter' \in [Devices -> [Tensors -> Nat]]
      /\ step_cnt' \in [Devices -> [Tensors -> Nat]]
      /\ \A e \in Devices : e # d => counter'[e] = counter[e] /\ step_cnt'[e] = step_cnt[e]
      /\ \A u \in Tensors : u # t => counter'[d][u] = counter[d][u] /\ step_cnt'[d][u] = step_cnt[d][u]
      /\ IF rest # <<>> THEN counter'[d][t] = counter[d][t] /\ step_cnt'[d][t] = step_cnt[d][t]
         ELSE /\ counter'[d][t] = counter[d][t] + 1
              /\ step_cnt'[d][t] = IF last THEN step_cnt[d][t] + 1 ELSE step_cnt[d][t]
  <2>1. CASE rest # <<>>
    BY <1>1, <1>3, <2>1 DEF TaskTyped
  <2>2. CASE rest = <<>>
    <3> DEFINE n == counter[d][t] + 1
    <3>1. counter' = [counter EXCEPT ![d][t] = n] /\ n \in Nat
      BY <1>1, <1>3, <2>2 DEF TaskTyped
    <3> HIDE DEF n, last
    <3>2. /\ counter' \in [Devices -> [Tensors -> Nat]] /\ counter'[d][t] = n
          /\ \A e \in Devices : e # d => counter'[e] = counter[e]
          /\ \A u \in Tensors : u # t => counter'[d][u] = counter[d][u]
      BY <1>1, <3>1 DEF TaskTyped
    <3>3. /\ step_cnt' \in [Devices -> [Tensors -> Nat]]
          /\ step_cnt'[d][t] = IF last THEN step_cnt[d][t] + 1 ELSE step_cnt[d][t]
          /\ \A e \in Devices : e # d => step_cnt'[e] = step_cnt[e]
          /\ \A u \in Tensors : u # t => step_cnt'[d][u] = step_cnt[d][u]
      <4>1. CASE last
        <5> DEFINE m == step_cnt[d][t] + 1
        <5>1. step_cnt' = [step_cnt EXCEPT ![d][t] = m] /\ m \in Nat
          BY <1>1, <1>3, <2>2, <4>1 DEF TaskTyped
        <5> HIDE DEF m
        <5>2. /\ step_cnt' \in [Devices -> [Tensors -> Nat]] /\ step_cnt'[d][t] = m
              /\ \A e \in Devices : e # d => step_cnt'[e] = step_cnt[e]
              /\ \A u \in Tensors : u # t => step_cnt'[d][u] = step_cnt[d][u]
          BY <1>1, <5>1 DEF TaskTyped
        <5> QED BY <4>1, <5>2 DEF m
      <4>2. CASE ~last
        BY <1>1, <1>3, <2>2, <4>2 DEF TaskTyped
      <4> QED BY <4>1, <4>2, Zenon
    <3> QED BY <2>2, <3>2, <3>3 DEF n
  <2> QED BY <2>1, <2>2
<1>7. ASSUME NEW u \in Tensors, u # t PROVE Progress(d, u)'
  <2>1. k \notin Range(KeyList[u])
    BY <1>7, KeyFacts DEF t
  <2>2. \A j \in Range(KeyList[u]) : queue_list'[d][j] = queue_list[d][j]
    BY <1>4, <2>1, KeyFacts
  <2>3. Finished(d, u)' = Finished(d, u)
    BY <2>2 DEF Finished
  <2> QED BY <1>3, <1>6, <1>7, <2>3 DEF Progress
<1>8. Progress(d, t)'
  <2> DEFINE F == Finished(d, t)
             G == Finished(d, t)'
  <2>1. k \notin F /\ G = IF rest = <<>> THEN F \cup {k} ELSE F
    <3>1. \A j \in Range(KeyList[t]) : j \in Keys
      BY <1>1, KeyFacts
    <3> QED BY <1>1, <1>4, <3>1 DEF Finished
  <2>2. IsFiniteSet(Range(KeyList[t])) /\ Cardinality(Range(KeyList[t])) = Len(KeyList[t])
    BY <1>1, KeyFacts
  <2>3. F \subseteq Range(KeyList[t]) /\ G \subseteq Range(KeyList[t])
    BY DEF Finished
  <2>4. IsFiniteSet(F) /\ IsFiniteSet(G)
    BY <2>2, <2>3, FS_Subset
  <2>5. /\ enqueued[d][t] <= machine.steps[t]
        /\ enqueued[d][t] = step_cnt[d][t] + 1
        /\ counter[d][t] = Cardinality(F) /\ counter[d][t] < Len(KeyList[t])
    BY <1>1, <2>1 DEF Progress
  <2>6. /\ counter[d][t] \in Nat /\ step_cnt[d][t] \in Nat /\ enqueued[d][t] \in Nat
        /\ Len(KeyList[t]) \in Nat
    BY <1>1, PipelineAssumption DEF TaskTyped
  <2>8. CASE rest # <<>>
    BY <1>3, <1>6, <2>1, <2>5, <2>6, <2>8 DEF Progress
  <2>9. CASE rest = <<>>
    <3> HIDE DEF F, G
    <3>1. Cardinality(F \cup {k}) = Cardinality(F) + 1
      BY <2>1, <2>4, FS_AddElement
    <3>2. Cardinality(G) = counter'[d][t]
      BY <1>6, <2>1, <2>5, <2>9, <3>1
    <3>3. CASE last
      <4>1. G = Range(KeyList[t])
        <5>1. Cardinality(G) = Cardinality(Range(KeyList[t]))
          BY <1>6, <2>2, <2>9, <3>2, <3>3
        <5> QED BY <2>2, <2>3, <5>1, FS_Subset
      <4>2. counter'[d][t] <= Len(KeyList[t]) /\ step_cnt'[d][t] = enqueued'[d][t]
        BY <1>3, <1>6, <2>5, <2>6, <2>9, <3>3
      <4> QED BY <1>3, <2>5, <4>1, <4>2 DEF Progress, G
    <3>4. CASE ~last
      <4>1. counter'[d][t] < Len(KeyList[t]) /\ step_cnt'[d][t] = step_cnt[d][t]
        BY <1>6, <2>5, <2>6, <2>9, <3>4
      <4>2. counter'[d][t] <= Len(KeyList[t])
        BY <1>6, <2>6, <2>9, <4>1
      <4> QED BY <1>3, <2>5, <3>2, <4>1, <4>2 DEF Progress, G
    <3> QED BY <3>3, <3>4
  <2> QED BY <2>8, <2>9
<1>9. \A op \in QueueType :
         /\ IsInjective(sq'[d][op])
         /\ \A j \in Keys : Holds(sq', d, op, j) <=>
                               Holds(q, d, op, j) \/ (j = k /\ NextStage(d, k, op))
  BY <1>5 DEF Holds, NextStage, rest
<1> QED BY <1>4, <1>5, <1>6, <1>7, <1>8, <1>9 DEF MovedOn, rest

\* The task of k is in a group, in a call of the root; its present stage is op.
Grouped(d, op, k) == In(Groups(d), NcclTask(op, k))
Called(d, op, k) == d = Root /\ op \in Calls /\ k \in calls[op]
InStage(d, op, k) == queue_list[d][k] # <<>> /\ Head(queue_list[d][k]) = op

\* HeldOnce, for one device.
Once(d) ==
    /\ \A op \in QueueType : IsInjective(sq[d][op])
    /\ Distinct(Groups(d))
    /\ \A k \in Keys, op \in QueueType :
          /\ Holds(sq, d, op, k) \/ Grouped(d, op, k) \/ Called(d, op, k) <=> InStage(d, op, k)
          /\ ~(Holds(sq, d, op, k) /\ (Grouped(d, op, k) \/ Called(d, op, k)))

\* A device that a step does not touch.
LEMMA OnceElsewhere ==
    ASSUME machine' = machine, NEW e, Once(e), sq'[e] = sq[e], queue_list'[e] = queue_list[e],
           Groups(e)' = Groups(e), e = Root => calls' = calls
    PROVE  Once(e)'
<1>1. /\ \A k, op : Holds(sq, e, op, k)' <=> Holds(sq, e, op, k)
      /\ \A k, op : Grouped(e, op, k)' <=> Grouped(e, op, k)
      /\ \A k, op : Called(e, op, k)' <=> Called(e, op, k)
      /\ \A k, op : InStage(e, op, k)' <=> InStage(e, op, k)
  <2>1. Root' = Root
    BY SameMachine
  <2> QED BY <2>1 DEF Holds, Grouped, Called, InStage
<1>2. \A op \in QueueType : IsInjective(sq'[e][op])
  BY DEF Once
<1>3. Distinct(Groups(e))'
  BY DEF Once
<1> QED BY <1>1, <1>2, <1>3 DEF Once

\* A task that was taken away from its place goes on to its next stage.
LEMMA Proceeds ==
    ASSUME TaskTyped, machine' = machine, NEW d, NEW k, NEW q, FinishOrProceed(d, k, q),
           d \in Devices, k \in Keys, q \in Queues, Once(d), \A t \in Tensors : Progress(d, t),
           queue_list[d][k] # <<>>,
           \A op \in QueueType : IsInjective(q[d][op]), Distinct(Groups(d))',
           \A j \in Keys, op \in QueueType :
              /\ Holds(q, d, op, j) \/ Grouped(d, op, j)' \/ Called(d, op, j)'
                    <=> InStage(d, op, j) /\ j # k
              /\ ~(Holds(q, d, op, j) /\ (Grouped(d, op, j)' \/ Called(d, op, j)'))
    PROVE  Once(d)' /\ MovedOn(d, k, q)
<1>1. Away(q, d, k)
  BY DEF Away
<1>2. MovedOn(d, k, q)
  BY <1>1, Finishes
<1>3. \A j \in Keys, op \in QueueType :
         InStage(d, op, j)' <=> (InStage(d, op, j) /\ j # k) \/ (j = k /\ NextStage(d, k, op))
  BY <1>2 DEF InStage, MovedOn, NextStage
<1>4. \A j \in Keys, op \in QueueType :
         Holds(sq, d, op, j)' <=> Holds(q, d, op, j) \/ (j = k /\ NextStage(d, k, op))
  <2>1. \A j \in Keys, op \in QueueType : Holds(sq, d, op, j)' <=> Holds(sq', d, op, j)
    BY DEF Holds
  <2> QED BY <1>2, <2>1 DEF MovedOn
<1>5. \A op \in QueueType : IsInjective(sq'[d][op])
  BY <1>2 DEF MovedOn
<1>6. ASSUME NEW j \in Keys, NEW op \in QueueType
      PROVE  /\ Holds(sq, d, op, j)' \/ Grouped(d, op, j)' \/ Called(d, op, j)'
                   <=> InStage(d, op, j)'
             /\ ~(Holds(sq, d, op, j)' /\ (Grouped(d, op, j)' \/ Called(d, op, j)'))
  BY <1>3, <1>4
<1> QED BY <1>2, <1>5, <1>6 DEF Once

\* A task goes on from a queue.
LEMMA ProceedsFromQueue ==
    ASSUME TaskTyped, machine' = machine, NEW d, NEW k, NEW op,
           FinishOrProceed(d, k, Taken(d, op, k)), d \in Devices, k \in Keys,
           op \in QueueType, Once(d), \A t \in Tensors : Progress(d, t),
           k \in Range(sq[d][op]), Groups(d)' = Groups(d), calls' = calls
    PROVE  /\ Once(d)' /\ InStage(d, op, k) /\ MovedOn(d, k, Taken(d, op, k))
           /\ \A e \in Devices : e # d => Taken(d, op, k)[e] = sq[e]
<1> DEFINE q == Taken(d, op, k)
<1>1. IsInjective(sq[d][op])
  BY DEF Once
<1>2. /\ q \in Queues
      /\ \A e \in Devices : e # d => q[e] = sq[e]
      /\ \A o \in QueueType : o # op => q[d][o] = sq[d][o]
      /\ IsInjective(q[d][op])
      /\ Range(q[d][op]) = Range(sq[d][op]) \ {k}
  <2>1. sq \in Queues
    BY DEF TaskTyped
  <2> QED BY <1>1, <2>1, TakenFacts
<1>3. Holds(sq, d, op, k) /\ InStage(d, op, k)
  BY DEF Once, Holds
<1> HIDE DEF q
<1>4. \A o \in QueueType : IsInjective(q[d][o])
  BY <1>2 DEF Once
<1>5. \A j \in Keys, o \in QueueType :
         Holds(q, d, o, j) <=> Holds(sq, d, o, j) /\ ~(o = op /\ j = k)
  BY <1>2 DEF Holds
<1>6. Distinct(Groups(d))'
  BY DEF Once
<1>7. \A j \in Keys, o \in QueueType : /\ Grouped(d, o, j)' <=> Grouped(d, o, j)
                                       /\ Called(d, o, j)' <=> Called(d, o, j)
  BY SameMachine DEF Grouped, Called
<1>8. ASSUME NEW j \in Keys, NEW o \in QueueType
      PROVE  /\ Holds(q, d, o, j) \/ Grouped(d, o, j)' \/ Called(d, o, j)'
                   <=> InStage(d, o, j) /\ j # k
             /\ ~(Holds(q, d, o, j) /\ (Grouped(d, o, j)' \/ Called(d, o, j)'))
  <2>1. InStage(d, o, k) => o = op
    BY <1>3 DEF InStage
  <2>2. /\ Holds(sq, d, o, j) \/ Grouped(d, o, j) \/ Called(d, o, j) <=> InStage(d, o, j)
        /\ ~(Holds(sq, d, o, j) /\ (Grouped(d, o, j) \/ Called(d, o, j)))
    BY DEF Once
  <2> QED BY <1>3, <1>5, <1>7, <2>1, <2>2
<1>9. queue_list[d][k] # <<>>
  BY <1>3 DEF InStage
<1>10. FinishOrProceed(d, k, q)
  BY DEF q
<1>11. Once(d)' /\ MovedOn(d, k, q)
  BY <1>2, <1>4, <1>6, <1>8, <1>9, <1>10, Proceeds
<1> QED BY <1>2, <1>3, <1>11 DEF q

\* The groups of a device when its oldest one lets a task go on.
LEMMA PipelineProceeds ==
    ASSUME NEW p, NEW s, NEW r, p \in Seq(Seq(CallTask) \ {<<>>}), s \in Seq(CallTask),
           p # <<>>, Distinct(Append(p, s)),
           r = IF Len(Head(p)) = 1 THEN Tail(p) ELSE <<Tail(Head(p))>> \o Tail(p)
    PROVE  /\ r \in Seq(Seq(CallTask) \ {<<>>}) /\ Head(p)[1] \in CallTask
           /\ In(Append(p, s), Head(p)[1]) /\ Distinct(Append(r, s))
           /\ \A y : In(Append(r, s), y) <=> In(Append(p, s), y) /\ y # Head(p)[1]
<1> DEFINE N == Seq(CallTask) \ {<<>>}
<1>1. PICK l \in Nat \ {0} : l = Len(p)
  OBVIOUS
<1>2. PICK g \in N : g = Head(p) /\ g = p[1]
  OBVIOUS
<1>3. PICK c \in Nat : Len(g) = c + 1 /\ g[1] \in CallTask
  <2>1. Len(g) \in Nat \ {0} /\ g[1] \in CallTask
    BY <1>2
  <2>2. Len(g) - 1 \in Nat /\ Len(g) = Len(g) - 1 + 1
    BY <2>1
  <2> QED BY <2>1, <2>2
<1> DEFINE G == Append(p, s)
<1>4. /\ Len(G) = l + 1 /\ G[1] = g
      /\ \A n \in 1..l : G[n] = p[n]
      /\ G[l + 1] = s
  BY <1>1, <1>2
<1>5. In(G, g[1])
  <2> HIDE DEF G
  <2>1. PICK o \in 1..Len(G) : o = 1
    BY <1>4
  <2>2. G[o] = g /\ o \in 1..Len(g)
    BY <1>3, <1>4, <2>1
  <2>3. o \in 1..Len(G[o]) /\ G[o][o] = g[1]
    BY <2>1, <2>2
  <2> QED BY <2>3 DEF In
<1>6. Tail(p) \in Seq(N) /\ Len(Tail(p)) = l - 1 /\ \A n \in 1..l - 1 : Tail(p)[n] = p[n + 1]
  BY <1>1
<1>7. CASE Len(g) = 1
  <2>1. r = Tail(p)
    BY <1>2, <1>7
  <2> DEFINE H == Append(r, s)
  <2>2. Len(H) = l /\ H[l] = s /\ \A n \in 1..l - 1 : H[n] = p[n + 1]
    BY <1>1, <1>6, <2>1
  <2>3. \A n \in 1..l : H[n] = G[n + 1]
    <3> HIDE DEF G, H
    <3> TAKE n \in 1..l
    <3>1. CASE n = l
      BY <1>4, <2>2, <3>1
    <3>2. CASE n # l
      <4>1. n \in 1..l - 1 /\ n + 1 \in 1..l
        BY <3>2
      <4> QED BY <1>4, <2>2, <4>1
    <3> QED BY <3>1, <3>2
  <2>4. Distinct(G) /\ l \in Nat /\ Len(G) = l + 1 /\ Len(G[1]) = 1
    BY <1>4, <1>7
  <2>5. Distinct(H) /\ \A y : In(H, y) <=> In(G, y) /\ y # G[1][1]
    <3> HIDE DEF G, H
    <3> QED BY <2>2, <2>3, <2>4, GroupEnds
  <2> QED BY <1>2, <1>3, <1>4, <1>5, <1>6, <2>1, <2>5
<1>8. CASE Len(g) # 1
  <2>1. r = <<Tail(g)>> \o Tail(p)
    BY <1>2, <1>8
  <2>2. Tail(g) \in N /\ Len(Tail(g)) = c /\ \A i \in 1..c : Tail(g)[i] = g[i + 1]
    <3>1. g \in Seq(CallTask) /\ g # <<>>
      BY <1>2
    <3>2. /\ Tail(g) \in Seq(CallTask) /\ Len(Tail(g)) = Len(g) - 1
          /\ \A i \in 1..Len(g) - 1 : Tail(g)[i] = g[i + 1]
      BY <3>1
    <3>3. Len(Tail(g)) = c /\ c # 0
      BY <1>3, <1>8, <3>2
    <3>4. Tail(g) # <<>>
      <4>1. PICK v \in Seq(CallTask) : v = Tail(g)
        BY <3>2
      <4>2. Len(v) # 0
        BY <3>3, <4>1
      <4>3. v # <<>>
        BY <4>2
      <4> QED BY <4>1, <4>3
    <3> QED BY <1>3, <3>2, <3>3, <3>4
  <2>3. r \in Seq(N) /\ Len(r) = l /\ r[1] = Tail(g) /\ \A n \in 2..l : r[n] = p[n]
    <3>1. PICK t \in N : t = Tail(g)
      BY <2>2
    <3>2. PICK u \in Seq(N) : u = Tail(p)
      BY <1>6
    <3>3. Len(u) = l - 1 /\ \A n \in 1..l - 1 : u[n] = p[n + 1]
      BY <1>6, <3>2
    <3> HIDE DEF N
    <3>4. r = <<t>> \o u
      BY <2>1, <3>1, <3>2
    <3>5. /\ <<t>> \o u \in Seq(N) /\ Len(<<t>> \o u) = 1 + Len(u) /\ (<<t>> \o u)[1] = t
          /\ \A n \in 2..1 + Len(u) : (<<t>> \o u)[n] = u[n - 1]
      OBVIOUS
    <3>6. ASSUME NEW n \in 2..l PROVE r[n] = p[n]
      <4>1. n \in 2..1 + Len(u) /\ n - 1 \in 1..l - 1 /\ (n - 1) + 1 = n
        BY <3>3
      <4> QED BY <3>3, <3>4, <3>5, <4>1
    <3>7. Len(r) = l
      BY <3>3, <3>4, <3>5
    <3> QED BY <3>1, <3>4, <3>5, <3>6, <3>7
  <2> DEFINE H == Append(r, s)
  <2>4. Len(H) = l + 1 /\ H[1] = Tail(g) /\ H[l + 1] = s /\ \A n \in 2..l : H[n] = p[n]
    <3>1. r \in Seq(Seq(CallTask))
      BY <2>3
    <3>2. /\ Len(H) = l + 1 /\ H[l + 1] = s
          /\ \A n \in 1..l : H[n] = r[n]
      BY <1>1, <2>3, <3>1
    <3> HIDE DEF H
    <3>3. 1 \in 1..l /\ \A n \in 2..l : n \in 1..l
      OBVIOUS
    <3> QED BY <2>3, <3>2, <3>3, Zenon
  <2>5. \A n \in 2..l + 1 : H[n] = G[n]
    <3> HIDE DEF G, H
    <3> TAKE n \in 2..l + 1
    <3>1. CASE n = l + 1
      BY <1>4, <2>4, <3>1
    <3>2. CASE n # l + 1
      <4>1. n \in 2..l /\ n \in 1..l
        BY <3>2
      <4> QED BY <1>4, <2>4, <4>1
    <3> QED BY <3>1, <3>2
  <2>6. PICK m \in Nat \ {0} : m = l + 1
    OBVIOUS
  <2>7. /\ Distinct(G) /\ Len(G) = m /\ Len(H) = m /\ \A n \in 2..m : H[n] = G[n]
        /\ Len(G[1]) = c + 1 /\ Len(H[1]) = c /\ \A i \in 1..c : H[1][i] = G[1][i + 1]
    <3>1. Distinct(G)
      OBVIOUS
    <3> HIDE DEF G, H
    <3> QED BY <1>3, <1>4, <2>2, <2>4, <2>5, <2>6, <3>1
  <2>8. Distinct(H) /\ \A y : In(H, y) <=> In(G, y) /\ y # G[1][1]
    <3> HIDE DEF G, H
    <3> QED BY <2>7, GroupGoesOn
  <2> QED BY <1>2, <1>3, <1>4, <1>5, <2>3, <2>8
<1> QED BY <1>7, <1>8

NcclTyped ==
    /\ nccl_msgs \in [Devices -> Seq(CallTask \cup {DoGroup})]
    /\ nccl_phase \in [Devices -> {"REDUCE", "BROADCAST"}]
    /\ nccl_tasks \in [Devices -> Seq(CallTask)]
    /\ nccl_pipeline \in [Devices -> Seq(Seq(CallTask) \ {<<>>})]
    /\ synced \in [Devices -> Nat]

LEMMA NcclTasks ==
    /\ \A op, k, o, j : NcclTask(op, k) = NcclTask(o, j) <=> op = o /\ k = j
    /\ \A op \in {"REDUCE", "BROADCAST"}, k \in Keys : NcclTask(op, k) \in CallTask
    /\ \A x \in CallTask : /\ x.op \in {"REDUCE", "BROADCAST"} /\ x.op \in QueueType
                           /\ x.key \in Keys /\ x = NcclTask(x.op, x.key) /\ x # DoGroup
BY DEF NcclTask, CallTask, DoGroup, QueueType

\* Only the tasks of NCCL calls are in a group.
LEMMA GroupedTyped ==
    ASSUME NcclTyped, NEW d, d \in Devices
    PROVE  /\ Groups(d) \in Seq(Seq(CallTask))
           /\ \A y : In(Groups(d), y) => y \in CallTask
           /\ \A op, k : Grouped(d, op, k) => op \in {"REDUCE", "BROADCAST"} /\ k \in Keys
<1>1. Groups(d) \in Seq(Seq(CallTask))
  BY DEF NcclTyped, Groups
<1>2. \A y : In(Groups(d), y) => y \in CallTask
  <2> DEFINE G == Groups(d)
  <2>1. \A n \in 1..Len(G) : G[n] \in Seq(CallTask)
    BY <1>1
  <2> HIDE DEF G
  <2> SUFFICES ASSUME NEW y, In(G, y) PROVE y \in CallTask
    BY DEF G
  <2>2. PICK n \in 1..Len(G) : \E i \in 1..Len(G[n]) : G[n][i] = y
    BY DEF In
  <2>3. PICK i \in 1..Len(G[n]) : G[n][i] = y
    BY <2>2
  <2> QED BY <2>1, <2>3
<1>3. ASSUME NEW op, NEW k, Grouped(d, op, k)
      PROVE  op \in {"REDUCE", "BROADCAST"} /\ k \in Keys
  <2>1. NcclTask(op, k) \in CallTask
    BY <1>2, <1>3 DEF Grouped
  <2> QED BY <2>1 DEF NcclTask, CallTask
<1> QED BY <1>1, <1>2, <1>3, Zenon

\* A task goes on from the oldest NCCL group.
LEMMA ProceedsFromGroup ==
    ASSUME TaskTyped, NcclTyped, machine' = machine, NEW d, d \in Devices, Once(d),
           \A t \in Tensors : Progress(d, t), nccl_pipeline[d] # <<>>,
           NEW x, x = Head(nccl_pipeline[d])[1], FinishOrProceed(d, x.key, sq),
           NEW r, nccl_pipeline' = [nccl_pipeline EXCEPT ![d] = r],
           r = IF Len(Head(nccl_pipeline[d])) = 1 THEN Tail(nccl_pipeline[d])
               ELSE <<Tail(Head(nccl_pipeline[d]))>> \o Tail(nccl_pipeline[d]),
           nccl_tasks' = nccl_tasks, calls' = calls
    PROVE  /\ x \in CallTask /\ Once(d)' /\ InStage(d, x.op, x.key)
           /\ MovedOn(d, x.key, sq) /\ Grouped(d, x.op, x.key)
           /\ r \in Seq(Seq(CallTask) \ {<<>>})
           /\ \A j, o : Grouped(d, o, j)' <=> Grouped(d, o, j) /\ ~(o = x.op /\ j = x.key)
<1>1. PICK p \in Seq(Seq(CallTask) \ {<<>>}) : p = nccl_pipeline[d]
  BY DEF NcclTyped
<1>2. PICK s \in Seq(CallTask) : s = nccl_tasks[d]
  BY DEF NcclTyped
<1>3. /\ Groups(d) = Append(p, s) /\ p # <<>> /\ x = Head(p)[1]
      /\ r = IF Len(Head(p)) = 1 THEN Tail(p) ELSE <<Tail(Head(p))>> \o Tail(p)
  BY <1>1, <1>2 DEF Groups
<1>4. Groups(d)' = Append(r, s)
  <2>1. nccl_pipeline'[d] = r
    BY DEF NcclTyped
  <2> QED BY <1>2, <2>1 DEF Groups
<1>5. Distinct(Append(p, s))
  BY <1>3 DEF Once
<1>6. /\ r \in Seq(Seq(CallTask) \ {<<>>}) /\ x \in CallTask
      /\ In(Append(p, s), x) /\ Distinct(Append(r, s))
      /\ \A y : In(Append(r, s), y) <=> In(Append(p, s), y) /\ y # x
  <2> HIDE <1>1, <1>2
  <2> QED BY <1>1, <1>2, <1>3, <1>5, PipelineProceeds
<1>7. PICK op \in QueueType, k \in Keys : op = x.op /\ k = x.key /\ x = NcclTask(op, k)
  <2>1. x.op \in QueueType /\ x.key \in Keys /\ x = NcclTask(x.op, x.key)
    BY <1>6, NcclTasks
  <2> QED BY <2>1, Zenon
<1>8. /\ Grouped(d, op, k) /\ Distinct(Groups(d))'
      /\ \A o, j : Grouped(d, o, j)' <=> Grouped(d, o, j) /\ ~(o = op /\ j = k)
  <2>1. \A o, j : NcclTask(o, j) = x <=> o = op /\ j = k
    BY <1>7, NcclTasks
  <2>2. \A o, j : Grouped(d, o, j)' <=> In(Append(r, s), NcclTask(o, j))
    BY <1>4, Zenon DEF Grouped
  <2>3. \A o, j : Grouped(d, o, j) <=> In(Append(p, s), NcclTask(o, j))
    BY <1>3, Zenon DEF Grouped
  <2>4. \A o, j : In(Append(r, s), NcclTask(o, j))
                    <=> In(Append(p, s), NcclTask(o, j)) /\ NcclTask(o, j) # x
    BY <1>6, Zenon
  <2>5. Distinct(Groups(d))'
    BY <1>4, <1>6, Zenon
  <2>6. Grouped(d, op, k)
    BY <1>6, <1>7, <2>3, Zenon
  <2> QED BY <2>1, <2>2, <2>3, <2>4, <2>5, <2>6, Zenon
<1>9. InStage(d, op, k)
  BY <1>8 DEF Once
<1>10. \A j \in Keys, o \in QueueType : Called(d, o, j)' <=> Called(d, o, j)
  BY SameMachine DEF Called
<1>11. ASSUME NEW j \in Keys, NEW o \in QueueType
       PROVE  /\ Holds(sq, d, o, j) \/ Grouped(d, o, j)' \/ Called(d, o, j)'
                    <=> InStage(d, o, j) /\ j # k
              /\ ~(Holds(sq, d, o, j) /\ (Grouped(d, o, j)' \/ Called(d, o, j)'))
  <2>1. InStage(d, o, k) => o = op
    BY <1>9 DEF InStage
  <2>2. /\ Holds(sq, d, o, j) \/ Grouped(d, o, j) \/ Called(d, o, j) <=> InStage(d, o, j)
        /\ ~(Holds(sq, d, o, j) /\ (Grouped(d, o, j) \/ Called(d, o, j)))
    BY DEF Once
  <2>3. ~(Called(d, op, k) /\ Grouped(d, op, k))
    BY <1>6, <1>7, NcclTasks DEF Called, Calls
  <2>4. Grouped(d, o, j)' <=> Grouped(d, o, j) /\ ~(o = op /\ j = k)
    BY <1>8
  <2>5. Called(d, o, j)' <=> Called(d, o, j)
    BY <1>10
  <2>6. Grouped(d, op, k)
    BY <1>8
  <2>7. CASE o = op /\ j = k
    BY <2>2, <2>3, <2>4, <2>5, <2>6, <2>7
  <2>8. CASE o # op /\ j = k
    BY <2>1, <2>2, <2>4, <2>5, <2>8
  <2>9. CASE j # k
    BY <2>2, <2>4, <2>5, <2>9
  <2> QED BY <2>7, <2>8, <2>9
<1>12. /\ queue_list[d][k] # <<>> /\ FinishOrProceed(d, k, sq) /\ sq \in Queues
       /\ \A o \in QueueType : IsInjective(sq[d][o])
  BY <1>7, <1>9 DEF InStage, TaskTyped, Once
<1>13. Once(d)' /\ MovedOn(d, k, sq)
  BY <1>8, <1>11, <1>12, Proceeds
<1> QED BY <1>6, <1>7, <1>8, <1>9, <1>13

\* A task goes on from a call of the root.
LEMMA ProceedsFromCall ==
    ASSUME TaskTyped, NcclTyped, machine' = machine, NEW d, NEW k, NEW op, d = Root,
           k \in Keys, op \in Calls, k \in calls[op],
           calls' = [calls EXCEPT ![op] = @ \ {k}], d \in Devices,
           FinishOrProceed(d, k, sq), Once(d), \A t \in Tensors : Progress(d, t),
           Groups(d)' = Groups(d)
    PROVE  Once(d)' /\ InStage(d, op, k) /\ MovedOn(d, k, sq)
<1>1. op \in QueueType /\ Called(d, op, k)
  BY DEF Called, QueueType
<1>2. InStage(d, op, k)
  BY <1>1 DEF Once
<1>3. \A j \in Keys, o \in QueueType : Called(d, o, j)' <=> Called(d, o, j) /\ ~(o = op /\ j = k)
  <2>1. \A o \in Calls : calls'[o] = IF o = op THEN calls[o] \ {k} ELSE calls[o]
    BY DEF TaskTyped
  <2> QED BY <2>1, SameMachine DEF Called
<1>4. \A j \in Keys, o \in QueueType : Grouped(d, o, j)' <=> Grouped(d, o, j)
  BY SameMachine DEF Grouped
<1>5. ~Grouped(d, op, k)
  BY GroupedTyped DEF Calls
<1>6. ASSUME NEW j \in Keys, NEW o \in QueueType
      PROVE  /\ Holds(sq, d, o, j) \/ Grouped(d, o, j)' \/ Called(d, o, j)'
                   <=> InStage(d, o, j) /\ j # k
             /\ ~(Holds(sq, d, o, j) /\ (Grouped(d, o, j)' \/ Called(d, o, j)'))
  <2>1. InStage(d, o, k) => o = op
    BY <1>2 DEF InStage
  <2>2. /\ Holds(sq, d, o, j) \/ Grouped(d, o, j) \/ Called(d, o, j) <=> InStage(d, o, j)
        /\ ~(Holds(sq, d, o, j) /\ (Grouped(d, o, j) \/ Called(d, o, j)))
    BY DEF Once
  <2>3. Grouped(d, o, j)' <=> Grouped(d, o, j)
    BY <1>4
  <2>4. Called(d, o, j)' <=> Called(d, o, j) /\ ~(o = op /\ j = k)
    BY <1>3
  <2>5. CASE o = op /\ j = k
    BY <1>1, <1>5, <2>2, <2>3, <2>4, <2>5
  <2>6. CASE o # op /\ j = k
    BY <2>1, <2>2, <2>3, <2>4, <2>6
  <2>7. CASE j # k
    BY <2>2, <2>3, <2>4, <2>7
  <2> QED BY <2>5, <2>6, <2>7
<1>7. /\ queue_list[d][k] # <<>> /\ sq \in Queues /\ Distinct(Groups(d))'
      /\ \A o \in QueueType : IsInjective(sq[d][o])
  BY <1>2 DEF InStage, TaskTyped, Once
<1>8. Once(d)' /\ MovedOn(d, k, sq)
  BY <1>6, <1>7, Proceeds
<1> QED BY <1>2, <1>8

\* A task is taken from a queue and put where only calls or groups hold tasks.
LEMMA TakenFromQueue ==
    ASSUME TaskTyped, NEW d, NEW op, NEW k, d \in Devices, op \in QueueType, k \in Keys,
           Once(d), k \in Range(sq[d][op]), sq' = Taken(d, op, k), queue_list' = queue_list,
           Distinct(Groups(d))',
           \A j \in Keys, o \in QueueType :
              Grouped(d, o, j)' \/ Called(d, o, j)' <=>
                 Grouped(d, o, j) \/ Called(d, o, j) \/ (o = op /\ j = k)
    PROVE  /\ Once(d)' /\ InStage(d, op, k) /\ sq' \in Queues
           /\ ~Grouped(d, op, k) /\ ~Called(d, op, k)
           /\ \A e \in Devices : e # d => sq'[e] = sq[e]
<1>1. IsInjective(sq[d][op])
  BY DEF Once
<1>2. /\ sq' \in Queues
      /\ \A e \in Devices : e # d => sq'[e] = sq[e]
      /\ \A o \in QueueType : o # op => sq'[d][o] = sq[d][o]
      /\ IsInjective(sq'[d][op])
      /\ Range(sq'[d][op]) = Range(sq[d][op]) \ {k}
  <2>1. sq \in Queues
    BY DEF TaskTyped
  <2> QED BY <1>1, <2>1, TakenFacts
<1>3. Holds(sq, d, op, k)
  BY DEF Holds
<1>4. InStage(d, op, k) /\ ~Grouped(d, op, k) /\ ~Called(d, op, k)
  BY <1>3 DEF Once
<1>5. \A o \in QueueType : IsInjective(sq'[d][o])
  BY <1>2 DEF Once
<1>6. \A j \in Keys, o \in QueueType :
         Holds(sq, d, o, j)' <=> Holds(sq, d, o, j) /\ ~(o = op /\ j = k)
  BY <1>2 DEF Holds
<1>7. \A j \in Keys, o \in QueueType : InStage(d, o, j)' <=> InStage(d, o, j)
  BY DEF InStage
<1>8. ASSUME NEW j \in Keys, NEW o \in QueueType
      PROVE  /\ Holds(sq, d, o, j)' \/ Grouped(d, o, j)' \/ Called(d, o, j)' <=> InStage(d, o, j)'
             /\ ~(Holds(sq, d, o, j)' /\ (Grouped(d, o, j)' \/ Called(d, o, j)'))
  <2>1. /\ Holds(sq, d, o, j) \/ Grouped(d, o, j) \/ Called(d, o, j) <=> InStage(d, o, j)
        /\ ~(Holds(sq, d, o, j) /\ (Grouped(d, o, j) \/ Called(d, o, j)))
    BY DEF Once
  <2>2. CASE o = op /\ j = k
    BY <1>3, <1>4, <1>6, <1>7, <2>2
  <2>3. CASE ~(o = op /\ j = k)
    BY <1>6, <1>7, <2>1, <2>3
  <2> QED BY <2>2, <2>3
<1> QED BY <1>2, <1>4, <1>5, <1>8 DEF Once

\* A task is taken from its queue for an NCCL call.
LEMMA TakenToGroup ==
    ASSUME TaskTyped, NcclTyped, machine' = machine, NEW d, NEW op, NEW k,
           d \in Devices, op \in {"REDUCE", "BROADCAST"}, k \in Keys, Once(d),
           k \in Range(sq[d][op]), sq' = Taken(d, op, k), queue_list' = queue_list,
           nccl_tasks' = [nccl_tasks EXCEPT ![d] = Append(@, NcclTask(op, k))],
           nccl_pipeline' = nccl_pipeline, calls' = calls
    PROVE  /\ Once(d)' /\ sq' \in Queues /\ ~Grouped(d, op, k) /\ InStage(d, op, k)
           /\ \A e \in Devices : e # d => sq'[e] = sq[e]
           /\ \A j, o : Grouped(d, o, j)' <=> Grouped(d, o, j) \/ (o = op /\ j = k)
<1>1. PICK p \in Seq(Seq(CallTask)) : p = nccl_pipeline[d]
  BY DEF NcclTyped
<1>2. PICK s \in Seq(CallTask) : s = nccl_tasks[d]
  BY DEF NcclTyped
<1>3. PICK x \in CallTask : x = NcclTask(op, k)
  BY NcclTasks
<1>4. Groups(d) = Append(p, s)
  BY <1>1, <1>2 DEF Groups
<1>5. Groups(d)' = Append(p, Append(s, x))
  <2>1. nccl_tasks'[d] = Append(s, x)
    BY <1>2, <1>3 DEF NcclTyped
  <2> QED BY <1>1, <2>1 DEF Groups
<1>6. op \in QueueType /\ x.key = k
  BY <1>3 DEF QueueType, NcclTask
<1>7. \A y \in CallTask : In(Append(p, s), y) => y.key # x.key
  <2> SUFFICES ASSUME NEW y \in CallTask, In(Append(p, s), y), y.key = k PROVE FALSE
    BY <1>6
  <2>1. PICK o \in QueueType : y = NcclTask(o, k)
    BY NcclTasks
  <2>2. Grouped(d, o, k)
    BY <1>4, <2>1, Zenon DEF Grouped
  <2>3. Holds(sq, d, op, k)
    BY DEF Holds
  <2>4. InStage(d, o, k) /\ InStage(d, op, k)
    BY <1>6, <2>2, <2>3 DEF Once
  <2>5. o = op
    BY <2>4 DEF InStage
  <2> QED BY <1>6, <2>2, <2>3, <2>5 DEF Once
<1>8. Distinct(Append(p, s))
  BY <1>4 DEF Once
<1>9. /\ Distinct(Append(p, Append(s, x)))
      /\ \A y : In(Append(p, Append(s, x)), y) <=> In(Append(p, s), y) \/ y = x
  BY <1>7, <1>8, GroupTakes
<1>10. \A j, o : Grouped(d, o, j)' <=> Grouped(d, o, j) \/ (o = op /\ j = k)
  <2>1. \A o, j : NcclTask(o, j) = x <=> o = op /\ j = k
    BY <1>3, NcclTasks
  <2>2. \A o, j : Grouped(d, o, j)' <=> In(Append(p, Append(s, x)), NcclTask(o, j))
    BY <1>5, Zenon DEF Grouped
  <2>3. \A o, j : Grouped(d, o, j) <=> In(Append(p, s), NcclTask(o, j))
    BY <1>4, Zenon DEF Grouped
  <2>4. \A o, j : In(Append(p, Append(s, x)), NcclTask(o, j))
                    <=> In(Append(p, s), NcclTask(o, j)) \/ NcclTask(o, j) = x
    BY <1>9, Zenon
  <2> QED BY <2>1, <2>2, <2>3, <2>4, Zenon
<1>11. \A j \in Keys, o \in QueueType : Called(d, o, j)' <=> Called(d, o, j)
  BY SameMachine DEF Called
<1>12. \A j \in Keys, o \in QueueType :
          Grouped(d, o, j)' \/ Called(d, o, j)' <=>
             Grouped(d, o, j) \/ Called(d, o, j) \/ (o = op /\ j = k)
  BY <1>10, <1>11
<1>13. Distinct(Groups(d))'
  BY <1>5, <1>9, Zenon
<1>14. /\ Once(d)' /\ InStage(d, op, k) /\ sq' \in Queues /\ ~Grouped(d, op, k)
       /\ \A e \in Devices : e # d => sq'[e] = sq[e]
  BY <1>6, <1>12, <1>13, TakenFromQueue
<1> QED BY <1>10, <1>14

\* A task is taken from its queue for a call of the root.
Begun(c, op, k) == [c EXCEPT ![op] = @ \cup {k}]

LEMMA TakenToCall ==
    ASSUME TaskTyped, machine' = machine, NEW d, NEW op, NEW k, d \in Devices, d = Root,
           op \in Calls, k \in Keys, Once(d), k \in Range(sq[d][op]), sq' = Taken(d, op, k),
           queue_list' = queue_list, calls' = Begun(calls, op, k),
           Groups(d)' = Groups(d)
    PROVE  /\ Once(d)' /\ sq' \in Queues
           /\ \A e \in Devices : e # d => sq'[e] = sq[e]
<1>1. op \in QueueType
  BY DEF QueueType
<1>2. \A j \in Keys, o \in QueueType : Called(d, o, j)' <=> Called(d, o, j) \/ (o = op /\ j = k)
  <2>1. \A o \in Calls : calls'[o] = IF o = op THEN calls[o] \cup {k} ELSE calls[o]
    BY DEF TaskTyped, Begun
  <2> QED BY <2>1, SameMachine DEF Called
<1>3. \A j \in Keys, o \in QueueType : Grouped(d, o, j)' <=> Grouped(d, o, j)
  BY DEF Grouped
<1>4. Distinct(Groups(d))'
  BY DEF Once
<1> QED BY <1>1, <1>2, <1>3, <1>4, TakenFromQueue

\* A group is launched.
LEMMA GroupLaunched ==
    ASSUME NcclTyped, machine' = machine, NEW d, d \in Devices, Once(d), sq' = sq,
           queue_list' = queue_list, calls' = calls,
           nccl_pipeline' = [nccl_pipeline EXCEPT ![d] = Append(@, nccl_tasks[d])],
           nccl_tasks' = [nccl_tasks EXCEPT ![d] = <<>>]
    PROVE  Once(d)' /\ \A o, j : Grouped(d, o, j)' <=> Grouped(d, o, j)
<1>1. PICK p \in Seq(Seq(CallTask)) : p = nccl_pipeline[d]
  BY DEF NcclTyped
<1>2. PICK s \in Seq(CallTask) : s = nccl_tasks[d]
  BY DEF NcclTyped
<1>3. Groups(d) = Append(p, s)
  BY <1>1, <1>2 DEF Groups
<1>4. Groups(d)' = Append(Append(p, s), <<>>)
  <2>1. nccl_pipeline'[d] = Append(p, s) /\ nccl_tasks'[d] = <<>>
    BY <1>1, <1>2 DEF NcclTyped
  <2> QED BY <2>1 DEF Groups
<1>5. /\ Distinct(Append(Append(p, s), <<>>))
      /\ \A y : In(Append(Append(p, s), <<>>), y) <=> In(Append(p, s), y)
  BY <1>3, GroupCloses DEF Once
<1>6. \A o, j : Grouped(d, o, j)' <=> Grouped(d, o, j)
  BY <1>3, <1>4, <1>5, Zenon DEF Grouped
<1>7. Distinct(Groups(d))'
  BY <1>4, <1>5, Zenon
<1>8. /\ \A k, op : Holds(sq, d, op, k)' <=> Holds(sq, d, op, k)
      /\ \A k, op : Called(d, op, k)' <=> Called(d, op, k)
      /\ \A k, op : InStage(d, op, k)' <=> InStage(d, op, k)
  BY SameMachine DEF Holds, Called, InStage
<1>9. \A op \in QueueType : IsInjective(sq'[d][op])
  BY DEF Once
<1> QED BY <1>6, <1>7, <1>8, <1>9 DEF Once

\* The tasks of a tensor enter their first stage.
LEMMA Enqueues ==
    ASSUME TaskTyped, machine' = machine, NEW d, NEW t, d \in Devices, t \in Tensors,
           EnqueueTensor(d, t), Once(d), \A u \in Tensors : Progress(d, u)
    PROVE  /\ Once(d)' /\ \A u \in Tensors : Progress(d, u)'
           /\ queue_list' \in [Devices -> [Keys -> Seq(QueueType)]] /\ sq' \in Queues
           /\ ready_event' \in [Devices -> SUBSET Tensors]
           /\ counter' \in [Devices -> [Tensors -> Nat]]
           /\ enqueued' \in [Devices -> [Tensors -> Nat]]
           /\ \A e \in Devices : e # d =>
                 /\ queue_list'[e] = queue_list[e] /\ sq'[e] = sq[e]
                 /\ counter'[e] = counter[e] /\ enqueued'[e] = enqueued[e]
<1> DEFINE ql == QueueList(d, t)
           op == Head(ql)
           ks == KeyList[t]
<1>1. ql \in Seq(QueueType) /\ ql # <<>> /\ op \in QueueType
  BY QueueLists
<1>2. /\ ks \in Seq(Keys) /\ ks # <<>> /\ IsInjective(ks)
      /\ \A k \in Range(ks) : k \in Keys /\ TensorOf(k) = t
      /\ Cardinality(Range(ks)) = Len(ks) /\ Len(ks) \in Nat
  BY KeyFacts
<1>3. /\ enqueued[d][t] = step_cnt[d][t] /\ enqueued[d][t] < machine.steps[t]
      /\ enqueued' = [enqueued EXCEPT ![d][t] = @ + 1]
      /\ ready_event' = [ready_event EXCEPT ![d] = @ \ {t}]
      /\ counter' = [counter EXCEPT ![d][t] = 0]
      /\ queue_list' = [queue_list EXCEPT ![d] = [k \in Keys |->
                           IF k \in Range(KeyList[t]) THEN QueueList(d, t) ELSE @[k]]]
      /\ sq' \in AddTask(sq, d, op, ks)
      /\ step_cnt' = step_cnt /\ nccl_tasks' = nccl_tasks /\ nccl_pipeline' = nccl_pipeline
      /\ calls' = calls
  BY DEF EnqueueTensor, ncclVars
<1>4. enqueued[d][t] \in Nat /\ step_cnt[d][t] \in Nat
  BY DEF TaskTyped
<1>5. Finished(d, t) = Range(ks)
  BY <1>3, <1>4 DEF Progress
<1>6. \A k \in Range(ks) : queue_list[d][k] = <<>>
  BY <1>5 DEF Finished
<1>7. \A k \in Range(ks), o \in QueueType :
         ~Holds(sq, d, o, k) /\ ~Grouped(d, o, k) /\ ~Called(d, o, k)
  BY <1>2, <1>6 DEF Once, InStage
<1> HIDE DEF ql, op
<1>8. /\ queue_list' \in [Devices -> [Keys -> Seq(QueueType)]]
      /\ \A e \in Devices : e # d => queue_list'[e] = queue_list[e]
      /\ \A k \in Keys : queue_list'[d][k] = IF k \in Range(ks) THEN ql ELSE queue_list[d][k]
  <2> DEFINE row == [k \in Keys |-> IF k \in Range(ks) THEN ql ELSE queue_list[d][k]]
  <2>1. queue_list' = [queue_list EXCEPT ![d] = row]
    BY <1>3 DEF TaskTyped, ql
  <2>2. row \in [Keys -> Seq(QueueType)]
    BY <1>1 DEF TaskTyped
  <2>3. \A k \in Keys : row[k] = IF k \in Range(ks) THEN ql ELSE queue_list[d][k]
    OBVIOUS
  <2> HIDE DEF row
  <2>4. queue_list' \in [Devices -> [Keys -> Seq(QueueType)]] /\ queue_list'[d] = row
        /\ \A e \in Devices : e # d => queue_list'[e] = queue_list[e]
    BY <2>1, <2>2 DEF TaskTyped
  <2> QED BY <2>3, <2>4
<1>9. /\ sq' \in Queues
      /\ \A e \in Devices : e # d => sq'[e] = sq[e]
      /\ \A o \in QueueType : IsInjective(sq'[d][o])
      /\ \A k \in Keys, o \in QueueType :
            Holds(sq, d, o, k)' <=> Holds(sq, d, o, k) \/ (o = op /\ k \in Range(ks))
  <2>1. PICK s \in Seq(Keys) : s = sq[d][op]
    BY <1>1 DEF TaskTyped, Queues
  <2>2. PICK r : r = sq'
    OBVIOUS
  <2>3. PICK o \in QueueType : o = op
    BY <1>1
  <2>4. PICK new \in Seq(Keys) : new = ks
    BY <1>2
  <2>5. PICK q \in Queues : q = sq
    BY DEF TaskTyped
  <2>6. IsInjective(s)
    BY <1>1, <2>1 DEF Once
  <2>7. \A k \in Range(new) : k \notin Range(s)
    BY <1>1, <1>7, <2>1, <2>4 DEF Holds
  <2>8. /\ r \in AddTask(q, d, o, new) /\ s = Line(q, d, o)
        /\ IsInjective(new) /\ IsInjective(s) /\ \A k \in Range(new) : k \notin Range(s)
    BY <1>2, <1>3, <2>1, <2>2, <2>3, <2>4, <2>5, <2>6, <2>7 DEF Line
  <2>9. PICK x \in Seq(Keys) : /\ r = Put(q, d, o, x) /\ IsInjective(x)
                               /\ Range(x) = Range(s) \cup Range(new)
    <3> HIDE <2>5
    <3> QED BY <2>8, Added
  <2>10. /\ r \in Queues
         /\ \A e \in Devices : e # d => r[e] = q[e]
         /\ \A p \in QueueType : p # o => r[d][p] = q[d][p]
         /\ r[d][o] = x
    BY <2>5, <2>9 DEF Put, Queues
  <2>11. ASSUME NEW p \in QueueType
         PROVE  /\ IsInjective(r[d][p])
                /\ \A k \in Keys : Holds(r, d, p, k) <=>
                                     Holds(q, d, p, k) \/ (p = o /\ k \in Range(new))
    <3>1. CASE p = o
      <4>1. r[d][p] = x /\ q[d][p] = s
        BY <2>8, <2>10, <3>1 DEF Line
      <4> QED BY <2>9, <3>1, <4>1 DEF Holds
    <3>2. CASE p # o
      <4>1. r[d][p] = q[d][p] /\ IsInjective(q[d][p])
        BY <2>5, <2>10, <3>2 DEF Once
      <4> QED BY <3>2, <4>1 DEF Holds
    <3> QED BY <3>1, <3>2
  <2>12. \A k, p : Holds(sq, d, p, k)' <=> Holds(r, d, p, k)
    BY <2>2 DEF Holds
  <2> QED BY <2>2, <2>3, <2>4, <2>5, <2>10, <2>11, <2>12
<1>10. \A k \in Keys, o \in QueueType :
          InStage(d, o, k)' <=> IF k \in Range(ks) THEN o = op ELSE InStage(d, o, k)
  BY <1>1, <1>8 DEF InStage, op
<1>11. Groups(d)' = Groups(d)
  BY <1>3 DEF Groups
<1>12. \A k \in Keys, o \in QueueType : /\ Grouped(d, o, k)' <=> Grouped(d, o, k)
                                        /\ Called(d, o, k)' <=> Called(d, o, k)
  BY <1>3, <1>11, SameMachine DEF Grouped, Called
<1>13. Once(d)'
  <2>1. Distinct(Groups(d))'
    BY <1>11 DEF Once
  <2>2. ASSUME NEW k \in Keys, NEW o \in QueueType
        PROVE  /\ Holds(sq, d, o, k)' \/ Grouped(d, o, k)' \/ Called(d, o, k)'
                     <=> InStage(d, o, k)'
               /\ ~(Holds(sq, d, o, k)' /\ (Grouped(d, o, k)' \/ Called(d, o, k)'))
    <3>1. /\ Holds(sq, d, o, k) \/ Grouped(d, o, k) \/ Called(d, o, k) <=> InStage(d, o, k)
          /\ ~(Holds(sq, d, o, k) /\ (Grouped(d, o, k) \/ Called(d, o, k)))
      BY DEF Once
    <3>2. CASE k \in Range(ks)
      BY <1>7, <1>9, <1>10, <1>12, <3>2
    <3>3. CASE k \notin Range(ks)
      BY <1>9, <1>10, <1>12, <3>1, <3>3
    <3> QED BY <3>2, <3>3
  <2> QED BY <1>9, <2>1, <2>2 DEF Once
<1>14. /\ ready_event' \in [Devices -> SUBSET Tensors]
       /\ counter' \in [Devices -> [Tensors -> Nat]] /\ counter'[d][t] = 0
       /\ \A e \in Devices : e # d => counter'[e] = counter[e] /\ enqueued'[e] = enqueued[e]
       /\ \A u \in Tensors : u # t => counter'[d][u] = counter[d][u] /\ enqueued'[d][u] = enqueued[d][u]
       /\ enqueued' \in [Devices -> [Tensors -> Nat]] /\ enqueued'[d][t] = enqueued[d][t] + 1
  <2>1. ready_event' \in [Devices -> SUBSET Tensors]
    BY <1>3 DEF TaskTyped
  <2>2. /\ counter' \in [Devices -> [Tensors -> Nat]] /\ counter'[d][t] = 0
        /\ \A e \in Devices : e # d => counter'[e] = counter[e]
        /\ \A u \in Tensors : u # t => counter'[d][u] = counter[d][u]
    BY <1>3 DEF TaskTyped
  <2>3. /\ enqueued' \in [Devices -> [Tensors -> Nat]] /\ enqueued'[d][t] = enqueued[d][t] + 1
        /\ \A e \in Devices : e # d => enqueued'[e] = enqueued[e]
        /\ \A u \in Tensors : u # t => enqueued'[d][u] = enqueued[d][u]
    <3> DEFINE n == enqueued[d][t] + 1
    <3>1. enqueued' = [enqueued EXCEPT ![d][t] = n] /\ n \in Nat
      BY <1>3, <1>4 DEF TaskTyped
    <3> HIDE DEF n
    <3>2. /\ enqueued' \in [Devices -> [Tensors -> Nat]] /\ enqueued'[d][t] = n
          /\ \A e \in Devices : e # d => enqueued'[e] = enqueued[e]
          /\ \A u \in Tensors : u # t => enqueued'[d][u] = enqueued[d][u]
      BY <3>1 DEF TaskTyped
    <3> QED BY <3>2 DEF n
  <2> QED BY <2>1, <2>2, <2>3
<1>15. ASSUME NEW u \in Tensors PROVE Progress(d, u)'
  <2>1. CASE u = t
    <3>1. Finished(d, t)' = {}
      BY <1>1, <1>2, <1>8 DEF Finished
    <3>2. Cardinality(Finished(d, t)') = 0
      BY <3>1, FS_EmptySet
    <3>3. Len(ks) > 0
      BY <1>2
    <3>4. machine.steps[t] \in Nat
      BY PipelineAssumption DEF TaskTyped
    <3> QED BY <1>2, <1>3, <1>4, <1>14, <2>1, <3>2, <3>3, <3>4 DEF Progress
  <2>2. CASE u # t
    <3>1. \A k \in Range(KeyList[u]) : k \in Keys /\ k \notin Range(ks)
      BY <1>2, <2>2, KeyFacts
    <3>2. Finished(d, u)' = Finished(d, u)
      BY <1>8, <3>1 DEF Finished
    <3> QED BY <1>3, <1>14, <2>2, <3>2 DEF Progress
  <2> QED BY <2>1, <2>2
<1> QED BY <1>8, <1>9, <1>13, <1>14, <1>15

-----------------------------------------------------------------------------
(* Credits.                                                                *)

\* Reducing, for the groups as In sees them.
Lent(d) == {u \in Keys \X (1..PartitionBound) :
               Grouped(d, "REDUCE", u[1]) /\ u[2] <= Length[u[1]]}
Share(k) == {k} \X (1..Length[k])

Balance(d) ==
    /\ credits[d] >= 0
    /\ IF IsScheduled(d, "REDUCE")
       THEN credits[d] + Cardinality(Lent(d)) = PartitionBound * machine.credit
       ELSE credits[d] = PartitionBound * machine.credit

LEMMA Shares ==
    ASSUME NEW k, k \in Keys
    PROVE  IsFiniteSet(Share(k)) /\ Cardinality(Share(k)) = Length[k]
<1>1. PICK n \in Nat : n = Length[k]
  <2>1. Length[k] \in 1..PartitionBound /\ PartitionBound \in Nat
    BY PipelineAssumption
  <2> QED BY <2>1
<1>2. IsFiniteSet(1..n) /\ Cardinality(1..n) = n
  <2>1. \A a, b \in Int :
           IsFiniteSet(a..b) /\ Cardinality(a..b) = IF a > b THEN 0 ELSE b - a + 1
    BY FS_Interval
  <2>2. IsFiniteSet(1..n) /\ Cardinality(1..n) = IF 1 > n THEN 0 ELSE n - 1 + 1
    BY <2>1
  <2> QED BY <2>2
<1>3. IsFiniteSet({k}) /\ Cardinality({k}) = 1
  BY FS_Singleton
<1>4. /\ IsFiniteSet({k} \X (1..n))
      /\ Cardinality({k} \X (1..n)) = Cardinality({k}) * Cardinality(1..n)
  BY <1>2, <1>3, FS_Product
<1> QED BY <1>1, <1>2, <1>3, <1>4 DEF Share

LEMMA LentFacts ==
    ASSUME NEW d
    PROVE  /\ IsFiniteSet(Lent(d)) /\ IsFiniteSet(Lent(d)') /\ IsFiniteSet(Lent(d) \cap Lent(d)')
           /\ Cardinality(Lent(d)) \in Nat /\ Cardinality(Lent(d)') \in Nat
<1> DEFINE U == Keys \X (1..PartitionBound)
<1>1. IsFiniteSet(Keys) /\ IsFiniteSet(1..PartitionBound)
  <2>1. \A a, b \in Int : IsFiniteSet(a..b)
    BY FS_Interval
  <2>2. PICK n \in Nat : n = PartitionBound
    BY PipelineAssumption
  <2>3. IsFiniteSet(1..n)
    BY <2>1
  <2> QED BY <2>2, <2>3, KeyFacts
<1>2. IsFiniteSet(U)
  BY <1>1, FS_Product
<1>3. Lent(d) \subseteq U /\ Lent(d)' \subseteq U /\ Lent(d) \cap Lent(d)' \subseteq U
  BY DEF Lent
<1> HIDE DEF U
<1>4. IsFiniteSet(Lent(d)) /\ IsFiniteSet(Lent(d)') /\ IsFiniteSet(Lent(d) \cap Lent(d)')
  BY <1>2, <1>3, FS_Subset
<1> QED BY <1>4, FS_CardinalityType

\* The groups take a task, or let one go: so many credits more or less are lent.
LEMMA Lends ==
    ASSUME NEW d, NEW k, k \in Keys, NEW op, ~Grouped(d, op, k),
           \A j, o : Grouped(d, o, j)' <=> Grouped(d, o, j) \/ (o = op /\ j = k)
    PROVE  Cardinality(Lent(d)') =
              IF op = "REDUCE" THEN Cardinality(Lent(d)) + Length[k] ELSE Cardinality(Lent(d))
<1>1. CASE op = "REDUCE"
  <2>1. Length[k] \in 1..PartitionBound
    BY PipelineAssumption
  <2>2. Lent(d)' = Lent(d) \cup Share(k)
    <3>1. Share(k) \subseteq Keys \X (1..PartitionBound)
      BY <2>1, PipelineAssumption DEF Share
    <3>2. \A u \in Keys \X (1..PartitionBound) :
             u \in Share(k) <=> u[1] = k /\ u[2] <= Length[u[1]]
      BY <2>1, PipelineAssumption DEF Share
    <3>3. \A j : Grouped(d, "REDUCE", j)' <=> Grouped(d, "REDUCE", j) \/ j = k
      BY <1>1
    <3> QED BY <3>1, <3>2, <3>3 DEF Lent
  <2>3. Lent(d) \cap Share(k) = {}
    BY <1>1 DEF Lent, Share
  <2>4. IsFiniteSet(Lent(d)) /\ Cardinality(Lent(d)) \in Nat
    BY LentFacts
  <2>5. Cardinality(Lent(d) \cup Share(k)) =
           Cardinality(Lent(d)) + Cardinality(Share(k)) - Cardinality(Lent(d) \cap Share(k))
    BY <2>4, Shares, FS_Union
  <2>6. Cardinality(Lent(d) \cap Share(k)) = 0
    BY <2>3, FS_EmptySet
  <2>7. Cardinality(Share(k)) = Length[k]
    BY Shares
  <2> QED BY <1>1, <2>1, <2>2, <2>4, <2>5, <2>6, <2>7
<1>2. CASE op # "REDUCE"
  <2>1. Lent(d)' = Lent(d)
    BY <1>2 DEF Lent
  <2> QED BY <1>2, <2>1
<1> QED BY <1>1, <1>2

LEMMA Regains ==
    ASSUME NEW d, NEW k, k \in Keys, NEW op, Grouped(d, op, k),
           \A j, o : Grouped(d, o, j)' <=> Grouped(d, o, j) /\ ~(o = op /\ j = k)
    PROVE  Cardinality(Lent(d)) =
              IF op = "REDUCE" THEN Cardinality(Lent(d)') + Length[k] ELSE Cardinality(Lent(d)')
<1>1. CASE op = "REDUCE"
  <2>1. Length[k] \in 1..PartitionBound
    BY PipelineAssumption
  <2>2. Lent(d) = Lent(d)' \cup Share(k)
    <3>1. Share(k) \subseteq Keys \X (1..PartitionBound)
      BY <2>1, PipelineAssumption DEF Share
    <3>2. \A u \in Keys \X (1..PartitionBound) :
             u \in Share(k) <=> u[1] = k /\ u[2] <= Length[u[1]]
      BY <2>1, PipelineAssumption DEF Share
    <3>3. \A j : Grouped(d, "REDUCE", j) <=> Grouped(d, "REDUCE", j)' \/ j = k
      BY <1>1
    <3> QED BY <3>1, <3>2, <3>3 DEF Lent
  <2>3. Lent(d)' \cap Share(k) = {}
    BY <1>1 DEF Lent, Share
  <2>4. IsFiniteSet(Lent(d)') /\ Cardinality(Lent(d)') \in Nat
    BY LentFacts
  <2>5. Cardinality(Lent(d)' \cup Share(k)) =
           Cardinality(Lent(d)') + Cardinality(Share(k)) - Cardinality(Lent(d)' \cap Share(k))
    BY <2>4, Shares, FS_Union
  <2>6. Cardinality(Lent(d)' \cap Share(k)) = 0
    BY <2>3, FS_EmptySet
  <2>7. Cardinality(Share(k)) = Length[k]
    BY Shares
  <2> QED BY <1>1, <2>1, <2>2, <2>4, <2>5, <2>6, <2>7
<1>2. CASE op # "REDUCE"
  <2>1. Lent(d)' = Lent(d)
    BY <1>2 DEF Lent
  <2> QED BY <1>2, <2>1
<1> QED BY <1>1, <1>2

-----------------------------------------------------------------------------
(* What the steps keep.                                                    *)

Kept(d) == Once(d) /\ Balance(d) /\ \A t \in Tensors : Progress(d, t)
TasksKept == TaskTyped /\ \A d \in Devices : Kept(d)

Untouched(e) ==
    /\ sq'[e] = sq[e] /\ queue_list'[e] = queue_list[e] /\ Groups(e)' = Groups(e)
    /\ counter'[e] = counter[e] /\ enqueued'[e] = enqueued[e] /\ step_cnt'[e] = step_cnt[e]
    /\ credits'[e] = credits[e] /\ (e = Root => calls' = calls)

LEMMA SameDevice ==
    ASSUME machine' = machine, NEW d
    PROVE  /\ IsSignalRoot(d)' <=> IsSignalRoot(d)
           /\ IsReducerRoot(d)' <=> IsReducerRoot(d)
           /\ Peers(d)' = Peers(d)
           /\ \A op : IsScheduled(d, op)' <=> IsScheduled(d, op)
<1>1. SwitchOf(d)' = SwitchOf(d) /\ SliceOf(d)' = SliceOf(d) /\ Peers(d)' = Peers(d)
  BY SameMachine DEF SwitchOf, SliceOf, Peers
<1>2. SignalRoot(d)' = SignalRoot(d) /\ ReducerRoot(d)' = ReducerRoot(d)
  BY <1>1, SameMachine DEF SignalRoot, ReducerRoot
<1> QED BY <1>1, <1>2 DEF IsSignalRoot, IsReducerRoot, IsScheduled

\* A step of one device.
LEMMA KeptByOne ==
    ASSUME TasksKept, machine' = machine, NEW d, Kept(d)', TaskTyped',
           \A e \in Devices : e # d => Untouched(e)
    PROVE  TasksKept'
<1>1. ASSUME NEW e \in Devices, e # d PROVE Kept(e)'
  <2>1. Once(e) /\ Balance(e) /\ Untouched(e)
    BY <1>1 DEF TasksKept, Kept
  <2>2. Once(e)'
    BY <2>1, OnceElsewhere DEF Untouched
  <2>3. Balance(e)'
    <3>1. Groups(e)' = Groups(e) /\ credits'[e] = credits[e]
      BY <2>1 DEF Untouched
    <3>2. Lent(e)' = Lent(e)
      BY <3>1 DEF Lent, Grouped
    <3>3. IsScheduled(e, "REDUCE")' <=> IsScheduled(e, "REDUCE")
      BY SameDevice
    <3> QED BY <2>1, <3>1, <3>2, <3>3 DEF Balance
  <2>4. ASSUME NEW t \in Tensors PROVE Progress(e, t)'
    <3>1. Progress(e, t)
      BY <1>1 DEF TasksKept, Kept
    <3> QED BY <2>1, <3>1 DEF Progress, Finished, Untouched
  <2> QED BY <2>2, <2>3, <2>4 DEF Kept
<1>2. Devices' = Devices
  BY SameMachine
<1> QED BY <1>1, <1>2 DEF TasksKept

\* The credits that a finished stage returns.
LEMMA Reported ==
    ASSUME TaskTyped, NEW d, NEW op, NEW k, d \in Devices, k \in Keys, ReportFinish(d, op, k)
    PROVE  /\ credits' \in [Devices -> Int]
           /\ \A e \in Devices : e # d => credits'[e] = credits[e]
           /\ credits'[d] = IF IsScheduled(d, op) THEN credits[d] + Length[k] ELSE credits[d]
<1>1. Length[k] \in Int
  BY PipelineAssumption
<1>2. credits' = IF IsScheduled(d, op) THEN [credits EXCEPT ![d] = @ + Length[k]] ELSE credits
  BY DEF ReportFinish
<1> QED BY <1>1, <1>2 DEF TaskTyped

\* The stage of a queue other than REDUCE is over.
LEMMA QueueStep ==
    ASSUME TasksKept, machine' = machine, NEW d, NEW op, NEW k, d \in Devices,
           op \in QueueType \ {"REDUCE"}, k \in Keys, k \in Range(sq[d][op]),
           FinishOrProceed(d, k, Taken(d, op, k)),
           UNCHANGED <<nccl_tasks, nccl_pipeline, calls>>
    PROVE  TasksKept'
<1>1. TaskTyped /\ Once(d) /\ Balance(d) /\ \A t \in Tensors : Progress(d, t)
  BY DEF TasksKept, Kept
<1>2. Groups(d)' = Groups(d) /\ \A e \in Devices : Groups(e)' = Groups(e)
  BY DEF Groups
<1>3. PICK q : q = Taken(d, op, k)
  OBVIOUS
<1>4. /\ Once(d)' /\ InStage(d, op, k) /\ MovedOn(d, k, q)
      /\ \A e \in Devices : e # d => q[e] = sq[e]
  BY <1>1, <1>2, <1>3, ProceedsFromQueue
<1>5. /\ credits' \in [Devices -> Int]
      /\ \A e \in Devices : e # d => credits'[e] = credits[e]
      /\ credits'[d] = credits[d]
  <2>1. ReportFinish(d, op, k)
    BY <1>4 DEF FinishOrProceed, InStage
  <2>2. ~IsScheduled(d, op)
    BY DEF IsScheduled
  <2> QED BY <1>1, <2>1, <2>2, Reported
<1>6. ready_event' = ready_event /\ enqueued' = enqueued
  BY DEF FinishOrProceed
<1>7. TaskTyped'
  <2>1. Devices' = Devices /\ Queues' = Queues
    BY SameMachine DEF Queues
  <2> QED BY <1>1, <1>4, <1>5, <1>6, <2>1 DEF TaskTyped, MovedOn
<1>8. Kept(d)'
  <2>1. Lent(d)' = Lent(d)
    BY <1>2 DEF Lent, Grouped
  <2>2. Balance(d)'
    BY <1>1, <1>5, <2>1, SameDevice DEF Balance
  <2> QED BY <1>4, <2>2 DEF Kept, MovedOn
<1>9. \A e \in Devices : e # d => Untouched(e)
  BY <1>2, <1>4, <1>5, <1>6 DEF Untouched, MovedOn
<1> QED BY <1>7, <1>8, <1>9, KeptByOne

\* A task of the oldest group goes on.
LEMMA GroupStep ==
    ASSUME TasksKept, NcclTyped, machine' = machine, NEW d, d \in Devices, SyncNccl(d)
    PROVE  TasksKept' /\ NcclTyped'
<1>1. TaskTyped /\ Once(d) /\ Balance(d) /\ \A t \in Tensors : Progress(d, t)
  BY DEF TasksKept, Kept
<1>2. PICK x : x = Head(nccl_pipeline[d])[1]
  OBVIOUS
<1>3. PICK r : r = IF Len(Head(nccl_pipeline[d])) = 1 THEN Tail(nccl_pipeline[d])
                   ELSE <<Tail(Head(nccl_pipeline[d]))>> \o Tail(nccl_pipeline[d])
  OBVIOUS
<1>4. /\ nccl_pipeline[d] # <<>> /\ FinishOrProceed(d, x.key, sq)
      /\ nccl_pipeline' = [nccl_pipeline EXCEPT ![d] = r]
      /\ synced' = synced \/ synced' = [synced EXCEPT ![d] = @ + 1]
      /\ UNCHANGED <<nccl_msgs, nccl_phase, nccl_tasks, calls>>
  BY <1>2, <1>3 DEF SyncNccl, GroupDone
<1>5. /\ x \in CallTask /\ Once(d)' /\ InStage(d, x.op, x.key)
      /\ MovedOn(d, x.key, sq) /\ Grouped(d, x.op, x.key)
      /\ r \in Seq(Seq(CallTask) \ {<<>>})
      /\ \A j, o : Grouped(d, o, j)' <=> Grouped(d, o, j) /\ ~(o = x.op /\ j = x.key)
  BY <1>1, <1>2, <1>3, <1>4, ProceedsFromGroup
<1>6. x.key \in Keys /\ x.op \in {"REDUCE", "BROADCAST"}
  BY <1>5, NcclTasks
<1>7. PICK k \in Keys, op \in {"REDUCE", "BROADCAST"} : k = x.key /\ op = x.op
  BY <1>6
<1>8. /\ credits' \in [Devices -> Int]
      /\ \A e \in Devices : e # d => credits'[e] = credits[e]
      /\ credits'[d] = IF IsScheduled(d, op) THEN credits[d] + Length[k] ELSE credits[d]
  <2>1. ReportFinish(d, op, k)
    BY <1>4, <1>5, <1>7 DEF FinishOrProceed, InStage
  <2> QED BY <1>1, <2>1, Reported
<1>9. ready_event' = ready_event /\ enqueued' = enqueued
  BY <1>4 DEF FinishOrProceed
<1>10. TaskTyped'
  <2>1. Devices' = Devices /\ Queues' = Queues
    BY SameMachine DEF Queues
  <2> QED BY <1>1, <1>4, <1>5, <1>8, <1>9, <2>1 DEF TaskTyped, MovedOn
<1>11. Balance(d)'
  <2>1. Cardinality(Lent(d)) =
           IF op = "REDUCE" THEN Cardinality(Lent(d)') + Length[k] ELSE Cardinality(Lent(d)')
    BY <1>5, <1>7, Regains
  <2>2. Length[k] \in Nat /\ credits[d] \in Int
    BY <1>1, PipelineAssumption DEF TaskTyped
  <2>3. Cardinality(Lent(d)) \in Nat /\ Cardinality(Lent(d)') \in Nat
    BY LentFacts
  <2>4. IsScheduled(d, "REDUCE")' <=> IsScheduled(d, "REDUCE")
    BY SameDevice
  <2>5. IsScheduled(d, op) <=> op = "REDUCE" /\ IsScheduled(d, "REDUCE")
    BY DEF IsScheduled
  <2>6. PICK P : P = PartitionBound * machine.credit
    OBVIOUS
  <2> QED BY <1>1, <1>8, <2>1, <2>2, <2>3, <2>4, <2>5, <2>6 DEF Balance
<1>12. Kept(d)'
  BY <1>5, <1>11 DEF Kept, MovedOn
<1>13. \A e \in Devices : e # d => Untouched(e)
  <2>1. \A e \in Devices : e # d => Groups(e)' = Groups(e)
    BY <1>4 DEF Groups, NcclTyped
  <2> QED BY <1>4, <1>5, <1>8, <1>9, <2>1 DEF Untouched, MovedOn
<1>14. NcclTyped'
  <2> DEFINE Pipelines == Seq(Seq(CallTask) \ {<<>>})
  <2>1. nccl_pipeline \in [Devices -> Pipelines] /\ r \in Pipelines
    BY <1>5 DEF NcclTyped
  <2> HIDE DEF Pipelines
  <2>2. nccl_pipeline' \in [Devices -> Pipelines]
    BY <1>4, <2>1
  <2>3. synced' \in [Devices -> Nat]
    BY <1>4 DEF NcclTyped
  <2> QED BY <1>4, <2>2, <2>3, SameMachine DEF NcclTyped, Pipelines
<1> QED BY <1>10, <1>12, <1>13, <1>14, KeptByOne

\* A call of the root returns.
LEMMA CallStep ==
    ASSUME TasksKept, NcclTyped, machine' = machine, NEW op, NEW k, op \in Calls, k \in Keys,
           Return(op, k), UNCHANGED ncclVars
    PROVE  TasksKept' /\ NcclTyped'
<1>1. PICK d \in Devices : d = Root
  BY Geometry DEF TasksKept, TaskTyped
<1>2. TaskTyped /\ Once(d) /\ Balance(d) /\ \A t \in Tensors : Progress(d, t)
  BY DEF TasksKept, Kept
<1>3. Groups(d)' = Groups(d) /\ \A e \in Devices : Groups(e)' = Groups(e)
  BY DEF Groups, ncclVars
<1>4. /\ k \in calls[op] /\ calls' = [calls EXCEPT ![op] = @ \ {k}]
      /\ FinishOrProceed(d, k, sq)
  BY <1>1 DEF Return
<1>5. Once(d)' /\ InStage(d, op, k) /\ MovedOn(d, k, sq)
  BY <1>1, <1>2, <1>3, <1>4, ProceedsFromCall
<1>6. /\ credits' \in [Devices -> Int]
      /\ \A e \in Devices : e # d => credits'[e] = credits[e]
      /\ credits'[d] = credits[d]
  <2>1. ReportFinish(d, op, k)
    BY <1>4, <1>5 DEF FinishOrProceed, InStage
  <2>2. ~IsScheduled(d, op)
    BY DEF IsScheduled, Calls
  <2> QED BY <1>2, <2>1, <2>2, Reported
<1>7. ready_event' = ready_event /\ enqueued' = enqueued
  BY <1>4 DEF FinishOrProceed
<1>8. calls' \in [Calls -> SUBSET Keys]
  BY <1>2, <1>4 DEF TaskTyped
<1>9. TaskTyped'
  <2>1. Devices' = Devices /\ Queues' = Queues
    BY SameMachine DEF Queues
  <2> QED BY <1>2, <1>5, <1>6, <1>7, <1>8, <2>1 DEF TaskTyped, MovedOn
<1>10. Kept(d)'
  <2>1. Lent(d)' = Lent(d)
    BY <1>3 DEF Lent, Grouped
  <2>2. Balance(d)'
    BY <1>2, <1>6, <2>1, SameDevice DEF Balance
  <2> QED BY <1>5, <2>2 DEF Kept, MovedOn
<1>11. \A e \in Devices : e # d => Untouched(e)
  BY <1>1, <1>3, <1>5, <1>6, <1>7 DEF Untouched, MovedOn
<1>12. NcclTyped'
  BY SameMachine DEF NcclTyped, ncclVars
<1> QED BY <1>9, <1>10, <1>11, <1>12, KeptByOne

\* A loop of the root takes a task.
LEMMA CallBegins ==
    ASSUME TasksKept, NcclTyped, machine' = machine, NEW stage, stage \in Calls, Call(stage)
    PROVE  TasksKept' /\ NcclTyped'
<1>1. PICK r \in Devices : r = Root
  BY Geometry DEF TasksKept, TaskTyped
<1>2. TaskTyped /\ Once(r) /\ Balance(r) /\ \A t \in Tensors : Progress(r, t)
  BY DEF TasksKept, Kept
<1>3. PICK key \in Keys : /\ GetTask(r, stage, key) /\ sq' = Taken(r, stage, key)
                        /\ calls' = [calls EXCEPT ![stage] = @ \cup {key}]
  BY <1>1 DEF Call
<1>4. key \in Range(sq[r][stage])
  BY <1>3 DEF GetTask, Range
<1>5. /\ queue_list' = queue_list /\ ready_event' = ready_event /\ credits' = credits
      /\ counter' = counter /\ enqueued' = enqueued /\ step_cnt' = step_cnt
      /\ UNCHANGED ncclVars
  BY DEF Call
<1>6. Groups(r)' = Groups(r) /\ \A e \in Devices : Groups(e)' = Groups(e)
  BY <1>5 DEF Groups, ncclVars
<1>7. Once(r)' /\ sq' \in Queues /\ \A e \in Devices : e # r => sq'[e] = sq[e]
  <2>1. queue_list' = queue_list /\ TaskTyped /\ Once(r) /\ Groups(r)' = Groups(r)
    BY <1>2, <1>5, <1>6
  <2>2. sq' = Taken(r, stage, key) /\ calls' = Begun(calls, stage, key)
    BY <1>3 DEF Begun
  <2>3. r = Root /\ r \in Devices /\ key \in Keys /\ machine' = machine
    BY <1>1
  <2> QED BY <1>4, <2>1, <2>2, <2>3, TakenToCall
<1>8. TaskTyped'
  <2>1. Devices' = Devices /\ Queues' = Queues
    BY SameMachine DEF Queues
  <2>2. calls' \in [Calls -> SUBSET Keys]
    BY <1>2, <1>3 DEF TaskTyped
  <2> QED BY <1>2, <1>5, <1>7, <2>1, <2>2 DEF TaskTyped
<1>9. Kept(r)'
  <2>1. Lent(r)' = Lent(r)
    BY <1>6 DEF Lent, Grouped
  <2>2. Balance(r)'
    BY <1>2, <1>5, <2>1, SameDevice DEF Balance
  <2>3. \A t \in Tensors : Progress(r, t)'
    BY <1>2, <1>5 DEF Progress, Finished
  <2> QED BY <1>7, <2>2, <2>3 DEF Kept
<1>10. \A e \in Devices : e # r => Untouched(e)
  BY <1>1, <1>5, <1>6, <1>7 DEF Untouched
<1>11. NcclTyped'
  BY <1>5, SameMachine DEF NcclTyped, ncclVars
<1> QED BY <1>8, <1>9, <1>10, <1>11, KeptByOne

\* A task is taken for an NCCL call; what it borrows was there.
LEMMA GroupBegins ==
    ASSUME TasksKept, NcclTyped, machine' = machine, NEW d, NEW op, NEW k, d \in Devices,
           op \in {"REDUCE", "BROADCAST"}, k \in Keys, k \in Range(sq[d][op]),
           sq' = Taken(d, op, k),
           nccl_tasks' = [nccl_tasks EXCEPT ![d] = Append(@, NcclTask(op, k))],
           credits' = IF IsScheduled(d, op)
                      THEN [credits EXCEPT ![d] = @ - Length[k]] ELSE credits,
           IsScheduled(d, op) => Length[k] <= credits[d],
           UNCHANGED <<queue_list, ready_event, counter, enqueued, step_cnt,
                       nccl_pipeline, calls>>
    PROVE  TasksKept'
<1>1. TaskTyped /\ Once(d) /\ Balance(d) /\ \A t \in Tensors : Progress(d, t)
  BY DEF TasksKept, Kept
<1>2. /\ Once(d)' /\ sq' \in Queues /\ ~Grouped(d, op, k) /\ InStage(d, op, k)
      /\ \A e \in Devices : e # d => sq'[e] = sq[e]
      /\ \A j, o : Grouped(d, o, j)' <=> Grouped(d, o, j) \/ (o = op /\ j = k)
  BY <1>1, TakenToGroup
<1>3. Length[k] \in Nat /\ credits[d] \in Int /\ credits \in [Devices -> Int]
  BY <1>1, PipelineAssumption DEF TaskTyped
<1>4. /\ credits' \in [Devices -> Int]
      /\ \A e \in Devices : e # d => credits'[e] = credits[e]
      /\ credits'[d] = IF IsScheduled(d, op) THEN credits[d] - Length[k] ELSE credits[d]
  BY <1>3
<1>5. TaskTyped'
  <2>1. Devices' = Devices /\ Queues' = Queues
    BY SameMachine DEF Queues
  <2> QED BY <1>1, <1>2, <1>4, <2>1 DEF TaskTyped
<1>6. Balance(d)'
  <2>1. Cardinality(Lent(d)') =
           IF op = "REDUCE" THEN Cardinality(Lent(d)) + Length[k] ELSE Cardinality(Lent(d))
    BY <1>2, Lends
  <2>2. Cardinality(Lent(d)) \in Nat /\ Cardinality(Lent(d)') \in Nat
    BY LentFacts
  <2>3. IsScheduled(d, "REDUCE")' <=> IsScheduled(d, "REDUCE")
    BY SameDevice
  <2>4. IsScheduled(d, op) <=> op = "REDUCE" /\ IsScheduled(d, "REDUCE")
    BY DEF IsScheduled
  <2>5. PICK P : P = PartitionBound * machine.credit
    OBVIOUS
  <2> QED BY <1>1, <1>3, <1>4, <2>1, <2>2, <2>3, <2>4, <2>5 DEF Balance
<1>7. Kept(d)'
  <2>1. \A t \in Tensors : Progress(d, t)'
    BY <1>1 DEF Progress, Finished
  <2> QED BY <1>2, <1>6, <2>1 DEF Kept
<1>8. \A e \in Devices : e # d => Untouched(e)
  <2>1. \A e \in Devices : e # d => Groups(e)' = Groups(e)
    BY DEF Groups, NcclTyped
  <2> QED BY <1>2, <1>4, <2>1 DEF Untouched
<1> QED BY <1>5, <1>7, <1>8, KeptByOne

\* A group is launched.
LEMMA GroupLaunches ==
    ASSUME TasksKept, NcclTyped, machine' = machine, NEW d, d \in Devices,
           nccl_pipeline' = [nccl_pipeline EXCEPT ![d] = Append(@, nccl_tasks[d])],
           nccl_tasks' = [nccl_tasks EXCEPT ![d] = <<>>], UNCHANGED <<taskVars, calls>>
    PROVE  TasksKept'
<1>1. TaskTyped /\ Once(d) /\ Balance(d) /\ \A t \in Tensors : Progress(d, t)
  BY DEF TasksKept, Kept
<1>2. /\ sq' = sq /\ queue_list' = queue_list /\ ready_event' = ready_event
      /\ credits' = credits /\ counter' = counter /\ enqueued' = enqueued
      /\ step_cnt' = step_cnt /\ calls' = calls
  BY DEF taskVars
<1>3. Once(d)' /\ \A o, j : Grouped(d, o, j)' <=> Grouped(d, o, j)
  BY <1>1, <1>2, GroupLaunched
<1>4. TaskTyped'
  <2>1. Devices' = Devices /\ Queues' = Queues
    BY SameMachine DEF Queues
  <2> QED BY <1>1, <1>2, <2>1 DEF TaskTyped
<1>5. Kept(d)'
  <2>1. Lent(d)' = Lent(d)
    BY <1>3 DEF Lent
  <2>2. Balance(d)'
    BY <1>1, <1>2, <2>1, SameDevice DEF Balance
  <2>3. \A t \in Tensors : Progress(d, t)'
    BY <1>1, <1>2 DEF Progress, Finished
  <2> QED BY <1>3, <2>2, <2>3 DEF Kept
<1>6. \A e \in Devices : e # d => Untouched(e)
  <2>1. \A e \in Devices : e # d => Groups(e)' = Groups(e)
    BY DEF Groups, NcclTyped
  <2> QED BY <1>2, <2>1 DEF Untouched
<1> QED BY <1>4, <1>5, <1>6, KeptByOne

\* A tensor is enqueued.
LEMMA EnqueueStep ==
    ASSUME TasksKept, machine' = machine, NEW d, NEW t, d \in Devices, t \in Tensors,
           EnqueueTensor(d, t)
    PROVE  TasksKept'
<1>1. TaskTyped /\ Once(d) /\ Balance(d) /\ \A u \in Tensors : Progress(d, u)
  BY DEF TasksKept, Kept
<1>2. /\ Once(d)' /\ \A u \in Tensors : Progress(d, u)'
      /\ queue_list' \in [Devices -> [Keys -> Seq(QueueType)]] /\ sq' \in Queues
      /\ ready_event' \in [Devices -> SUBSET Tensors]
      /\ counter' \in [Devices -> [Tensors -> Nat]]
      /\ enqueued' \in [Devices -> [Tensors -> Nat]]
      /\ \A e \in Devices : e # d =>
            /\ queue_list'[e] = queue_list[e] /\ sq'[e] = sq[e]
            /\ counter'[e] = counter[e] /\ enqueued'[e] = enqueued[e]
  BY <1>1, Enqueues
<1>3. /\ credits' = credits /\ step_cnt' = step_cnt /\ calls' = calls
      /\ nccl_tasks' = nccl_tasks /\ nccl_pipeline' = nccl_pipeline
  BY DEF EnqueueTensor, ncclVars
<1>4. Groups(d)' = Groups(d) /\ \A e \in Devices : Groups(e)' = Groups(e)
  BY <1>3 DEF Groups
<1>5. TaskTyped'
  <2>1. Devices' = Devices /\ Queues' = Queues
    BY SameMachine DEF Queues
  <2> QED BY <1>1, <1>2, <1>3, <2>1 DEF TaskTyped
<1>6. Kept(d)'
  <2>1. Lent(d)' = Lent(d)
    BY <1>4 DEF Lent, Grouped
  <2>2. Balance(d)'
    BY <1>1, <1>3, <2>1, SameDevice DEF Balance
  <2> QED BY <1>2, <2>2 DEF Kept
<1>7. \A e \in Devices : e # d => Untouched(e)
  BY <1>2, <1>3, <1>4 DEF Untouched
<1> QED BY <1>5, <1>6, <1>7, KeptByOne

\* A step that moves no task.
LEMMA NothingMoves ==
    ASSUME TasksKept, machine' = machine, ready_event' \in [Devices -> SUBSET Tensors],
           UNCHANGED <<queue_list, sq, credits, counter, enqueued, step_cnt,
                       nccl_tasks, nccl_pipeline, calls>>
    PROVE  TasksKept'
<1>1. PICK d \in Devices : d = Root
  BY Geometry DEF TasksKept, TaskTyped
<1>2. TaskTyped /\ Once(d) /\ Balance(d) /\ \A u \in Tensors : Progress(d, u)
  BY DEF TasksKept, Kept
<1>3. Groups(d)' = Groups(d) /\ \A e \in Devices : Groups(e)' = Groups(e)
  BY DEF Groups
<1>4. TaskTyped'
  <2>1. Devices' = Devices /\ Queues' = Queues
    BY SameMachine DEF Queues
  <2> QED BY <1>2, <2>1 DEF TaskTyped
<1>5. Once(d)'
  BY <1>2, <1>3, OnceElsewhere
<1>6. Kept(d)'
  <2>1. Lent(d)' = Lent(d)
    BY <1>3 DEF Lent, Grouped
  <2>2. Balance(d)'
    BY <1>2, <2>1, SameDevice DEF Balance
  <2>3. \A t \in Tensors : Progress(d, t)'
    BY <1>2 DEF Progress, Finished
  <2> QED BY <1>5, <2>2, <2>3 DEF Kept
<1>7. \A e \in Devices : e # d => Untouched(e)
  BY <1>3 DEF Untouched
<1> QED BY <1>4, <1>6, <1>7, KeptByOne

-----------------------------------------------------------------------------
(* The messages of a signal root.                                          *)

\* No group is closed before a task is in it: m are the messages to a device, s
\* is the group it puts together.  If Open, there is a task to be launched.
Opens(m, s) ==
    \A i \in 1..Len(m) : m[i] = DoGroup => IF i = 1 THEN s # <<>> ELSE m[i - 1] # DoGroup
Open(m, s) == IF m = <<>> THEN s # <<>> ELSE m[Len(m)] # DoGroup

Announced ==
    \A d \in Devices : ~IsSignalRoot(d) =>
       /\ Opens(nccl_msgs[d], nccl_tasks[d])
       /\ \A r \in Devices : IsSignalRoot(r) /\ d \in Peers(r) /\ nccl_tasks[r] # <<>> =>
             Open(nccl_msgs[d], nccl_tasks[d])

LEMMA Told ==
    ASSUME NEW m, NEW s, NEW x, m \in Seq(CallTask \cup {DoGroup}), Opens(m, s)
    PROVE  /\ x # DoGroup => Opens(Append(m, x), s) /\ Open(Append(m, x), s)
           /\ Open(m, s) => Opens(Append(m, DoGroup), s)
<1>1. ASSUME NEW y, y = DoGroup => Open(m, s) PROVE Opens(Append(m, y), s)
  <2> DEFINE a == Append(m, y)
  <2> SUFFICES ASSUME NEW i \in 1..Len(a), a[i] = DoGroup
               PROVE  IF i = 1 THEN s # <<>> ELSE a[i - 1] # DoGroup
    BY DEF Opens
  <2>1. CASE i <= Len(m)
    <3>1. i \in 1..Len(m) /\ a[i] = m[i] /\ (i # 1 => a[i - 1] = m[i - 1])
      BY <2>1
    <3> QED BY <3>1 DEF Opens
  <2>2. CASE i > Len(m)
    <3>1. i = Len(m) + 1 /\ a[i] = y
      BY <2>2
    <3>2. CASE m = <<>>
      BY <1>1, <3>1, <3>2 DEF Open
    <3>3. CASE m # <<>>
      <4>1. i # 1 /\ a[i - 1] = m[Len(m)]
        BY <3>1, <3>3
      <4> QED BY <1>1, <3>1, <3>3, <4>1 DEF Open
    <3> QED BY <3>2, <3>3
  <2> QED BY <2>1, <2>2
<1>2. x # DoGroup => Open(Append(m, x), s)
  BY DEF Open
<1> QED BY <1>1, <1>2

LEMMA Heard ==
    ASSUME NEW m, NEW s, NEW x, m \in Seq(CallTask \cup {DoGroup}), m # <<>>, Opens(m, s),
           s \in Seq(CallTask)
    PROVE  /\ Head(m) = DoGroup => s # <<>> /\ Opens(Tail(m), <<>>)
           /\ Head(m) = DoGroup /\ Open(m, s) => Open(Tail(m), <<>>)
           /\ Head(m) # DoGroup => Opens(Tail(m), Append(s, x)) /\ Head(m) \in CallTask
           /\ Head(m) # DoGroup /\ Open(m, s) => Open(Tail(m), Append(s, x))
<1> DEFINE r == Tail(m)
<1>1. /\ r \in Seq(CallTask \cup {DoGroup}) /\ Len(r) = Len(m) - 1 /\ Head(m) = m[1]
      /\ Len(m) \in Nat \ {0} /\ Head(m) \in CallTask \cup {DoGroup}
      /\ \A i \in 1..Len(r) : r[i] = m[i + 1]
  OBVIOUS
<1>2. Append(s, x) # <<>>
  OBVIOUS
<1> HIDE DEF r
<1>3. Head(m) = DoGroup => s # <<>>
  BY <1>1 DEF Opens
<1>4. ASSUME NEW z, Head(m) # DoGroup => z # <<>> PROVE Opens(r, z)
  <2> SUFFICES ASSUME NEW i \in 1..Len(r), r[i] = DoGroup
               PROVE  IF i = 1 THEN z # <<>> ELSE r[i - 1] # DoGroup
    BY DEF Opens
  <2>1. i + 1 \in 1..Len(m) /\ m[i + 1] = DoGroup /\ i + 1 # 1 /\ m[(i + 1) - 1] # DoGroup
    BY <1>1 DEF Opens
  <2>2. CASE i = 1
    BY <1>1, <1>4, <2>1, <2>2
  <2>3. CASE i # 1
    <3>1. i - 1 \in 1..Len(r) /\ r[i - 1] = m[i]
      BY <1>1, <2>3
    <3> QED BY <2>1, <2>3, <3>1
  <2> QED BY <2>2, <2>3
<1>5. ASSUME NEW z, Head(m) # DoGroup => z # <<>>, Open(m, s) PROVE Open(r, z)
  <2>1. m[Len(m)] # DoGroup
    BY <1>5 DEF Open
  <2>2. CASE r = <<>>
    <3>1. Len(m) = 1
      BY <1>1, <2>2
    <3> QED BY <1>1, <1>5, <2>1, <2>2, <3>1 DEF Open
  <2>3. CASE r # <<>>
    <3>1. Len(r) \in 1..Len(r) /\ r[Len(r)] = m[Len(m)]
      BY <1>1, <2>3
    <3> QED BY <2>1, <2>3, <3>1 DEF Open
  <2> QED BY <2>2, <2>3
<1> QED BY <1>1, <1>2, <1>3, <1>4, <1>5 DEF r

\* A switch has one signal root.
LEMMA OneRoot ==
    ASSUME NEW r, NEW e, NEW d, IsSignalRoot(r), IsSignalRoot(e), d \in Peers(r), d \in Peers(e)
    PROVE  r = e
BY DEF Peers, IsSignalRoot, SignalRoot

LEMMA AnnouncedNext ==
    ASSUME machine' = machine,
           \A e \in Devices : ~IsSignalRoot(e) =>
              /\ Opens(nccl_msgs'[e], nccl_tasks'[e])
              /\ \A r \in Devices : IsSignalRoot(r) /\ e \in Peers(r) /\ nccl_tasks'[r] # <<>> =>
                    Open(nccl_msgs'[e], nccl_tasks'[e])
    PROVE  Announced'
<1>1. Devices' = Devices
  BY SameMachine
<1>2. \A e : (IsSignalRoot(e)' <=> IsSignalRoot(e)) /\ Peers(e)' = Peers(e)
  BY SameDevice
<1> QED BY <1>1, <1>2 DEF Announced, Opens, Open

\* The signal root tells the other devices of its switch.
LEMMA Tells ==
    ASSUME NcclTyped, NEW d, NEW x, x \in CallTask \cup {DoGroup}, nccl_msgs' = NcclMsg(d, x)
    PROVE  /\ nccl_msgs' \in [Devices -> Seq(CallTask \cup {DoGroup})]
           /\ \A e \in Devices : /\ e \in Peers(d) \ {d} => nccl_msgs'[e] = Append(nccl_msgs[e], x)
                                 /\ e \notin Peers(d) \ {d} => nccl_msgs'[e] = nccl_msgs[e]
BY DEF NcclTyped, NcclMsg

LEMMA RootTakes ==
    ASSUME TasksKept, NcclTyped, Announced, machine' = machine, NEW d, d \in Devices,
           IsSignalRoot(d), RootNcclTake(d)
    PROVE  TasksKept' /\ NcclTyped' /\ Announced'
<1>1. PICK op \in {"REDUCE", "BROADCAST"} : op = nccl_phase[d]
  BY DEF NcclTyped
<1>2. PICK k \in Keys :
         /\ GetTask(d, op, k) /\ sq' = Taken(d, op, k)
         /\ credits' = IF IsScheduled(d, op)
                       THEN [credits EXCEPT ![d] = @ - Length[k]] ELSE credits
         /\ nccl_tasks' = [nccl_tasks EXCEPT ![d] = Append(@, NcclTask(op, k))]
         /\ nccl_msgs' = NcclMsg(d, NcclTask(op, k))
  BY <1>1 DEF RootNcclTake
<1>3. k \in Range(sq[d][op]) /\ (IsScheduled(d, op) => Length[k] <= credits[d])
  BY <1>2 DEF GetTask, Eligible, Range
<1>4. UNCHANGED <<queue_list, ready_event, counter, enqueued, step_cnt, nccl_pipeline, calls,
                  nccl_phase, synced>>
  BY DEF RootNcclTake
<1>5. TasksKept'
  BY <1>2, <1>3, <1>4, GroupBegins
<1>6. PICK x \in CallTask : x = NcclTask(op, k) /\ x # DoGroup
  BY NcclTasks
<1>7. /\ nccl_msgs' \in [Devices -> Seq(CallTask \cup {DoGroup})]
      /\ \A e \in Devices : /\ e \in Peers(d) \ {d} => nccl_msgs'[e] = Append(nccl_msgs[e], x)
                            /\ e \notin Peers(d) \ {d} => nccl_msgs'[e] = nccl_msgs[e]
  BY <1>2, <1>6, Tells
<1>8. /\ nccl_tasks' \in [Devices -> Seq(CallTask)]
      /\ \A e \in Devices : e # d => nccl_tasks'[e] = nccl_tasks[e]
  BY <1>2, <1>6 DEF NcclTyped
<1>9. NcclTyped'
  BY <1>4, <1>7, <1>8, SameMachine DEF NcclTyped
<1>10. ASSUME NEW e \in Devices, ~IsSignalRoot(e)
       PROVE  /\ Opens(nccl_msgs'[e], nccl_tasks'[e])
              /\ \A r \in Devices : IsSignalRoot(r) /\ e \in Peers(r) /\ nccl_tasks'[r] # <<>> =>
                    Open(nccl_msgs'[e], nccl_tasks'[e])
  <2>1. PICK m \in Seq(CallTask \cup {DoGroup}) : m = nccl_msgs[e]
    BY DEF NcclTyped
  <2>2. e # d /\ Opens(m, nccl_tasks[e]) /\ nccl_tasks'[e] = nccl_tasks[e]
    BY <1>8, <1>10, <2>1 DEF Announced
  <2>3. CASE e \in Peers(d)
    <3>1. nccl_msgs'[e] = Append(m, x)
      BY <1>7, <2>1, <2>2, <2>3
    <3>2. Opens(Append(m, x), nccl_tasks[e]) /\ Open(Append(m, x), nccl_tasks[e])
      BY <1>6, <2>1, <2>2, Told
    <3> QED BY <2>2, <3>1, <3>2
  <2>4. CASE e \notin Peers(d)
    <3>1. nccl_msgs'[e] = m
      BY <1>7, <2>1, <2>4
    <3>2. \A r \in Devices : e \in Peers(r) => nccl_tasks'[r] = nccl_tasks[r]
      BY <1>8, <2>4
    <3> QED BY <1>10, <2>1, <2>2, <3>1, <3>2 DEF Announced
  <2> QED BY <2>3, <2>4
<1>11. Announced'
  BY <1>10, AnnouncedNext
<1> QED BY <1>5, <1>9, <1>11

LEMMA RootGoesOn ==
    ASSUME TasksKept, NcclTyped, Announced, machine' = machine, NEW d, d \in Devices,
           IsSignalRoot(d), RootNcclNext(d)
    PROVE  TasksKept' /\ NcclTyped' /\ Announced'
<1>1. /\ UNCHANGED <<taskVars, signalVars, synced, calls>>
      /\ nccl_phase' \in [Devices -> {"REDUCE", "BROADCAST"}]
  BY DEF RootNcclNext, NcclTyped
<1>2. UNCHANGED <<queue_list, sq, ready_event, credits, counter, enqueued, step_cnt>>
  BY <1>1 DEF taskVars
<1>3. CASE UNCHANGED <<nccl_msgs, nccl_tasks, nccl_pipeline>>
  <2>1. TasksKept'
    <3>1. ready_event' \in [Devices -> SUBSET Tensors]
      BY <1>2 DEF TasksKept, TaskTyped
    <3> QED BY <1>1, <1>2, <1>3, <3>1, NothingMoves
  <2>2. NcclTyped'
    BY <1>1, <1>3, SameMachine DEF NcclTyped
  <2>3. Announced'
    BY <1>3, AnnouncedNext DEF Announced
  <2> QED BY <2>1, <2>2, <2>3
<1>4. CASE /\ nccl_tasks[d] # <<>> /\ nccl_msgs' = NcclMsg(d, DoGroup)
           /\ nccl_tasks' = [nccl_tasks EXCEPT ![d] = <<>>]
           /\ nccl_pipeline' = [nccl_pipeline EXCEPT ![d] = Append(@, nccl_tasks[d])]
  <2>1. TasksKept'
    BY <1>1, <1>4, GroupLaunches
  <2>2. /\ nccl_msgs' \in [Devices -> Seq(CallTask \cup {DoGroup})]
        /\ \A e \in Devices :
              /\ e \in Peers(d) \ {d} => nccl_msgs'[e] = Append(nccl_msgs[e], DoGroup)
              /\ e \notin Peers(d) \ {d} => nccl_msgs'[e] = nccl_msgs[e]
    BY <1>4, Tells
  <2>3. /\ nccl_tasks' \in [Devices -> Seq(CallTask)] /\ nccl_tasks'[d] = <<>>
        /\ \A e \in Devices : e # d => nccl_tasks'[e] = nccl_tasks[e]
    BY <1>4 DEF NcclTyped
  <2>4. NcclTyped'
    <3> DEFINE Group == Seq(CallTask) \ {<<>>}
    <3>1. nccl_pipeline \in [Devices -> Seq(Group)] /\ nccl_tasks[d] \in Group
      BY <1>4 DEF NcclTyped
    <3> HIDE DEF Group
    <3>2. nccl_pipeline' \in [Devices -> Seq(Group)]
      BY <1>4, <3>1
    <3> QED BY <1>1, <2>2, <2>3, <3>2, SameMachine DEF NcclTyped, Group
  <2>5. ASSUME NEW e \in Devices, ~IsSignalRoot(e)
        PROVE  /\ Opens(nccl_msgs'[e], nccl_tasks'[e])
               /\ \A r \in Devices : IsSignalRoot(r) /\ e \in Peers(r) /\ nccl_tasks'[r] # <<>> =>
                     Open(nccl_msgs'[e], nccl_tasks'[e])
    <3>1. PICK m \in Seq(CallTask \cup {DoGroup}) : m = nccl_msgs[e]
      BY DEF NcclTyped
    <3>2. e # d /\ Opens(m, nccl_tasks[e]) /\ nccl_tasks'[e] = nccl_tasks[e]
      BY <2>3, <2>5, <3>1 DEF Announced
    <3>3. CASE e \in Peers(d)
      <4>1. nccl_msgs'[e] = Append(m, DoGroup)
        BY <2>2, <3>1, <3>2, <3>3
      <4>2. Open(m, nccl_tasks[e])
        BY <1>4, <2>5, <3>1, <3>3 DEF Announced
      <4>3. Opens(Append(m, DoGroup), nccl_tasks[e])
        BY <3>1, <3>2, <4>2, Told
      <4>4. \A r \in Devices : IsSignalRoot(r) /\ e \in Peers(r) => nccl_tasks'[r] = <<>>
        BY <2>3, <3>3, OneRoot
      <4> QED BY <3>2, <4>1, <4>3, <4>4
    <3>4. CASE e \notin Peers(d)
      <4>1. nccl_msgs'[e] = m
        BY <2>2, <3>1, <3>4
      <4>2. \A r \in Devices : e \in Peers(r) => nccl_tasks'[r] = nccl_tasks[r]
        BY <2>3, <3>4
      <4> QED BY <2>5, <3>1, <3>2, <4>1, <4>2 DEF Announced
    <3> QED BY <3>3, <3>4
  <2>6. Announced'
    BY <2>5, AnnouncedNext
  <2> QED BY <2>1, <2>4, <2>6
<1> QED BY <1>3, <1>4 DEF RootNcclNext

LEMMA NcclSame ==
    ASSUME NcclTyped, Announced, machine' = machine,
           UNCHANGED <<nccl_msgs, nccl_phase, nccl_tasks, nccl_pipeline, synced>>
    PROVE  NcclTyped' /\ Announced'
<1>1. NcclTyped'
  BY SameMachine DEF NcclTyped
<1>2. Announced'
  BY AnnouncedNext DEF Announced
<1> QED BY <1>1, <1>2

LEMMA NonRootFollows ==
    ASSUME TasksKept, NcclTyped, Announced, machine' = machine, NEW d, d \in Devices,
           ~IsSignalRoot(d), NonRootNccl(d)
    PROVE  TasksKept' /\ NcclTyped' /\ Announced'
<1>1. PICK m \in Seq(CallTask \cup {DoGroup}) : m = nccl_msgs[d] /\ m # <<>>
  BY DEF NonRootNccl, NcclTyped
<1>2. PICK s \in Seq(CallTask) : s = nccl_tasks[d]
  BY DEF NcclTyped
<1>3. Opens(m, s)
  BY <1>1, <1>2 DEF Announced
<1>4. PICK x : x = Head(m)
  OBVIOUS
<1>5. /\ x = DoGroup => s # <<>> /\ Opens(Tail(m), <<>>)
      /\ x = DoGroup /\ Open(m, s) => Open(Tail(m), <<>>)
      /\ x # DoGroup => Opens(Tail(m), Append(s, x)) /\ x \in CallTask
      /\ x # DoGroup /\ Open(m, s) => Open(Tail(m), Append(s, x))
  BY <1>1, <1>3, <1>4, Heard
<1>6. \A r \in Devices : IsSignalRoot(r) /\ d \in Peers(r) /\ nccl_tasks[r] # <<>> => Open(m, s)
  BY <1>1, <1>2 DEF Announced
<1>7. Tail(m) \in Seq(CallTask \cup {DoGroup})
  BY <1>1
<1>8. ASSUME nccl_msgs' = [nccl_msgs EXCEPT ![d] = Tail(@)], NEW z, z \in Seq(CallTask),
             nccl_tasks' = [nccl_tasks EXCEPT ![d] = z],
             Opens(Tail(m), z), Open(m, s) => Open(Tail(m), z)
      PROVE  /\ nccl_msgs' \in [Devices -> Seq(CallTask \cup {DoGroup})]
             /\ nccl_tasks' \in [Devices -> Seq(CallTask)] /\ Announced'
  <2>1. /\ nccl_msgs' \in [Devices -> Seq(CallTask \cup {DoGroup})] /\ nccl_msgs'[d] = Tail(m)
        /\ \A e \in Devices : e # d => nccl_msgs'[e] = nccl_msgs[e]
    BY <1>1, <1>7, <1>8 DEF NcclTyped
  <2>2. /\ nccl_tasks' \in [Devices -> Seq(CallTask)] /\ nccl_tasks'[d] = z
        /\ \A e \in Devices : e # d => nccl_tasks'[e] = nccl_tasks[e]
    BY <1>8 DEF NcclTyped
  <2>3. ASSUME NEW e \in Devices, ~IsSignalRoot(e)
        PROVE  /\ Opens(nccl_msgs'[e], nccl_tasks'[e])
               /\ \A r \in Devices : IsSignalRoot(r) /\ e \in Peers(r) /\ nccl_tasks'[r] # <<>> =>
                     Open(nccl_msgs'[e], nccl_tasks'[e])
    <3>1. \A r \in Devices : IsSignalRoot(r) => nccl_tasks'[r] = nccl_tasks[r]
      BY <2>2
    <3>2. CASE e = d
      BY <1>6, <1>8, <2>1, <2>2, <3>1, <3>2
    <3>3. CASE e # d
      BY <2>1, <2>2, <2>3, <3>1, <3>3 DEF Announced
    <3> QED BY <3>2, <3>3
  <2> QED BY <2>1, <2>2, <2>3, AnnouncedNext
<1>9. CASE x = DoGroup
  <2>1. /\ nccl_tasks' = [nccl_tasks EXCEPT ![d] = <<>>]
        /\ nccl_pipeline' = [nccl_pipeline EXCEPT ![d] = Append(@, nccl_tasks[d])]
        /\ nccl_msgs' = [nccl_msgs EXCEPT ![d] = Tail(@)]
        /\ UNCHANGED <<taskVars, calls, nccl_phase, synced>>
    BY <1>1, <1>4, <1>9 DEF NonRootNccl, NextCall
  <2>2. TasksKept'
    BY <2>1, GroupLaunches
  <2>3. /\ nccl_msgs' \in [Devices -> Seq(CallTask \cup {DoGroup})]
        /\ nccl_tasks' \in [Devices -> Seq(CallTask)] /\ Announced'
    <3>1. Opens(Tail(m), <<>>) /\ (Open(m, s) => Open(Tail(m), <<>>))
      BY <1>5, <1>9
    <3>2. <<>> \in Seq(CallTask)
      OBVIOUS
    <3> QED BY <1>8, <2>1, <3>1, <3>2
  <2>4. NcclTyped'
    <3> DEFINE Group == Seq(CallTask) \ {<<>>}
    <3>1. nccl_pipeline \in [Devices -> Seq(Group)] /\ nccl_tasks[d] \in Group
      BY <1>2, <1>5, <1>9 DEF NcclTyped
    <3> HIDE DEF Group
    <3>2. nccl_pipeline' \in [Devices -> Seq(Group)]
      BY <2>1, <3>1
    <3> QED BY <2>1, <2>3, <3>2, SameMachine DEF NcclTyped, Group
  <2> QED BY <2>2, <2>3, <2>4
<1>10. CASE x # DoGroup /\ FindsTask(d, x.op, x.key)
  <2>1. /\ sq' = Taken(d, x.op, x.key)
        /\ nccl_tasks' = [nccl_tasks EXCEPT ![d] = Append(@, x)]
        /\ nccl_msgs' = [nccl_msgs EXCEPT ![d] = Tail(@)]
        /\ UNCHANGED <<queue_list, ready_event, credits, counter, enqueued, step_cnt,
                       nccl_pipeline, calls, nccl_phase, synced>>
    BY <1>1, <1>4, <1>10 DEF NonRootNccl, NextCall
  <2>2. PICK op \in {"REDUCE", "BROADCAST"}, k \in Keys :
           op = x.op /\ k = x.key /\ x = NcclTask(op, k)
    BY <1>5, <1>10, NcclTasks
  <2>3. k \in Range(sq[d][op])
    BY <1>10, <2>2 DEF FindsTask, Range
  <2>4. ~IsScheduled(d, op)
    BY DEF IsScheduled
  <2>5. TasksKept'
    BY <2>1, <2>2, <2>3, <2>4, GroupBegins
  <2>6. /\ nccl_msgs' \in [Devices -> Seq(CallTask \cup {DoGroup})]
        /\ nccl_tasks' \in [Devices -> Seq(CallTask)] /\ Announced'
    <3>1. Opens(Tail(m), Append(s, x)) /\ (Open(m, s) => Open(Tail(m), Append(s, x)))
      BY <1>5, <1>10
    <3>2. Append(s, x) \in Seq(CallTask)
      BY <1>5, <1>10
    <3>3. nccl_tasks' = [nccl_tasks EXCEPT ![d] = Append(s, x)]
      BY <1>2, <2>1
    <3> QED BY <1>8, <2>1, <3>1, <3>2, <3>3
  <2>7. NcclTyped'
    BY <2>1, <2>6, SameMachine DEF NcclTyped
  <2> QED BY <2>5, <2>6, <2>7
<1>11. CASE Abort("no task for the key")
  <2>1. /\ UNCHANGED <<queue_list, sq, ready_event, credits, counter, enqueued, step_cnt>>
        /\ UNCHANGED <<nccl_msgs, nccl_phase, nccl_tasks, nccl_pipeline, synced, calls>>
    BY <1>11 DEF Abort, taskVars, ncclVars
  <2>2. ready_event' \in [Devices -> SUBSET Tensors]
    BY <2>1 DEF TasksKept, TaskTyped
  <2> QED BY <2>1, <2>2, NothingMoves, NcclSame
<1> QED BY <1>1, <1>4, <1>9, <1>10, <1>11 DEF NonRootNccl, NextCall

-----------------------------------------------------------------------------
(* Signals and counts.                                                     *)

Counts == [Devices -> [Tables -> [Keys -> Nat]]]
SignalTyped ==
    /\ ready_table \in Counts /\ signals \in Counts
    /\ owed \in [Devices -> [Coordinates -> Keys \cup {NoKey}]]
    /\ \A d \in Devices, table \in Tables, k \in Keys :
          ready_table[d][table][k] <= ReadyCount(table)

LEMMA ReadyCounts ==
    ASSUME machine \in Machines
    PROVE  \A table \in Tables : ReadyCount(table) \in Nat
BY Geometry DEF Tables, ReadyCount

LEMMA SameCounts ==
    ASSUME machine' = machine
    PROVE  Counts' = Counts /\ \A table \in Tables : ReadyCount(table)' = ReadyCount(table)
BY SameMachine DEF Counts, ReadyCount

\* One count becomes n.
LEMMA Counted ==
    ASSUME NEW c \in Counts, NEW d \in Devices, NEW table \in Tables, NEW k \in Keys, NEW n \in Nat
    PROVE  LET a == [c EXCEPT ![d][table][k] = n] IN
           /\ a \in Counts
           /\ \A e \in Devices, y \in Tables, j \in Keys :
                 a[e][y][j] = IF e = d /\ y = table /\ j = k THEN n ELSE c[e][y][j]
BY DEF Counts

LEMMA CountSet ==
    ASSUME SignalTyped, machine' = machine, NEW d, NEW table, NEW k, NEW n, d \in Devices,
           table \in Tables, k \in Keys, n \in 0..ReadyCount(table),
           ready_table' = [ready_table EXCEPT ![d][table][k] = n], signals' \in Counts,
           owed' = owed
    PROVE  SignalTyped'
<1>1. /\ ready_table' \in Counts
      /\ \A e \in Devices, y \in Tables, j \in Keys :
            ready_table'[e][y][j] = IF e = d /\ y = table /\ j = k THEN n
                                    ELSE ready_table[e][y][j]
  <2>1. PICK c \in Counts : c = ready_table
    BY DEF SignalTyped
  <2>2. n \in Nat
    BY ReadyCounts
  <2>3. LET a == [c EXCEPT ![d][table][k] = n] IN
        /\ a \in Counts
        /\ \A e \in Devices, y \in Tables, j \in Keys :
              a[e][y][j] = IF e = d /\ y = table /\ j = k THEN n ELSE c[e][y][j]
    BY <2>2, Counted
  <2> QED BY <2>1, <2>3
<1>2. \A e \in Devices, y \in Tables, j \in Keys : ready_table'[e][y][j] <= ReadyCount(y)
  BY <1>1 DEF SignalTyped
<1>3. Devices' = Devices
  BY SameMachine
<1> QED BY <1>1, <1>2, <1>3, SameCounts DEF SignalTyped

\* The counts stay.
LEMMA CountsStay ==
    ASSUME SignalTyped, machine' = machine, ready_table' = ready_table, signals' \in Counts,
           owed' \in [Devices -> [Coordinates -> Keys \cup {NoKey}]]
    PROVE  SignalTyped'
BY SameMachine, SameCounts DEF SignalTyped

LEMMA Cleared ==
    ASSUME SignalTyped, machine \in Machines, machine' = machine, NEW d, NEW op, NEW k,
           d \in Devices, k \in Keys, ClearReadyCount(d, op, k), signals' \in Counts, owed' = owed
    PROVE  SignalTyped'
<1>1. CASE HasTable(d, op)
  <2>1. TableOf(op) \in Tables
    BY <1>1 DEF HasTable, TableOf, Tables
  <2>2. 0 \in 0..ReadyCount(TableOf(op))
    BY <2>1, ReadyCounts
  <2>3. ready_table' = [ready_table EXCEPT ![d][TableOf(op)][k] = 0]
    BY <1>1 DEF ClearReadyCount
  <2> QED BY <2>1, <2>2, <2>3, CountSet
<1>2. CASE ~HasTable(d, op)
  <2>1. ready_table' = ready_table
    BY <1>2 DEF ClearReadyCount
  <2>2. owed' \in [Devices -> [Coordinates -> Keys \cup {NoKey}]]
    BY DEF SignalTyped
  <2> QED BY <2>1, <2>2, CountsStay
<1> QED BY <1>1, <1>2

LEMMA Sent ==
    ASSUME signals \in Counts, NEW R, NEW table, NEW k, table \in Tables, k \in Keys,
           Send(R, table, k)
    PROVE  signals' \in Counts
<1>1. \A e \in Devices : /\ signals[e] \in [Tables -> [Keys -> Nat]]
                         /\ [signals[e] EXCEPT ![table][k] = @ + 1] \in [Tables -> [Keys -> Nat]]
  BY DEF Counts
<1> QED BY <1>1 DEF Send, Counts

LEMMA SignalSent ==
    ASSUME SignalTyped, machine' = machine, NEW d, NEW op, d \in Devices, op \in Coordinates,
           SendSignal(d, op)
    PROVE  SignalTyped'
<1>1. PICK k \in Keys : k = owed[d][op]
  BY DEF SendSignal, SignalTyped
<1>2. Coordinated[op] \in Tables
  BY DEF Coordinates, Coordinated, Tables
<1>3. signals' \in Counts
  <2>1. signals \in Counts /\ Send({Destination(d, op)}, Coordinated[op], k)
    BY <1>1 DEF SendSignal, SignalTyped
  <2> QED BY <1>2, <2>1, Sent
<1>4. owed' \in [Devices -> [Coordinates -> Keys \cup {NoKey}]]
  BY DEF SendSignal, SignalTyped
<1>5. ready_table' = ready_table
  BY DEF SendSignal
<1> QED BY <1>3, <1>4, <1>5, CountsStay

LEMMA SignalReceived ==
    ASSUME SignalTyped, machine \in Machines, machine' = machine, NEW d, NEW table, NEW k,
           d \in Devices, table \in Tables, k \in Keys, AddReadyCount(d, table, k)
    PROVE  SignalTyped'
<1>1. CASE ready_table[d][table][k] < ReadyCount(table)
  <2>1. PICK m \in Nat, n \in Nat : m = ready_table[d][table][k] /\ n = signals[d][table][k]
    BY DEF SignalTyped, Counts
  <2>2. /\ signals' = [signals EXCEPT ![d][table][k] = n - 1] /\ n > 0 /\ owed' = owed
        /\ ready_table' = [ready_table EXCEPT ![d][table][k] = m + 1]
    BY <1>1, <2>1 DEF AddReadyCount
  <2>3. signals' \in Counts
    <3>1. signals \in Counts /\ n - 1 \in Nat
      BY <2>2 DEF SignalTyped
    <3> QED BY <2>2, <3>1, Counted
  <2>4. m + 1 \in 0..ReadyCount(table)
    BY <1>1, <2>1, ReadyCounts
  <2> QED BY <2>2, <2>3, <2>4, CountSet
<1>2. CASE ~(ready_table[d][table][k] < ReadyCount(table))
  <2>1. ready_table' = ready_table /\ signals' = signals /\ owed' = owed
    BY <1>2 DEF AddReadyCount, Abort, signalVars
  <2> QED BY <2>1, CountsStay DEF SignalTyped
<1> QED BY <1>1, <1>2

-----------------------------------------------------------------------------
(* Buffers.                                                                *)

DataTyped ==
    /\ cpubuff \in [Switches -> [Keys -> [Slices -> Contents]]]
    /\ pushed \in [Keys -> [Slices -> SUBSET Contributions]]
    /\ slice \in [Devices -> [Keys -> Contents]]
    /\ aborted \in {"no", "ready count exceeded", "no task for the key",
                      "SetReadyCount does not return"}

LEMMA DataStays ==
    ASSUME machine' = machine, cpubuff' \in [Switches -> [Keys -> [Slices -> Contents]]],
           pushed' \in [Keys -> [Slices -> SUBSET Contributions]],
           slice' \in [Devices -> [Keys -> Contents]],
           aborted' \in {"no", "ready count exceeded", "no task for the key",
                         "SetReadyCount does not return"}
    PROVE  DataTyped'
BY SameMachine DEF DataTyped, Contents, Contributions

LEMMA StepTyped ==
    ASSUME TaskTyped, NEW d \in Devices, NEW k \in Keys
    PROVE  Step(d, k) \in Nat
BY KeyFacts DEF TaskTyped, Step

\* A buffer, and a slice of it.
LEMMA BufferTyped ==
    ASSUME DataTyped, NEW w, NEW k, w \in Switches, k \in Keys
    PROVE  cpubuff[w][k] \in [Slices -> Contents]
<1>1. cpubuff \in [Switches -> [Keys -> [Slices -> Contents]]]
  BY DEF DataTyped
<1> QED BY <1>1

LEMMA ContentsTyped ==
    /\ \A sum \in SUBSET Contributions, coded \in BOOLEAN :
          [sum |-> sum, coded |-> coded] \in Contents
    /\ \A c \in Contents : c.sum \in SUBSET Contributions /\ c.coded \in BOOLEAN
BY DEF Contents

LEMMA HostSums ==
    ASSUME TaskTyped, DataTyped, NEW k \in Keys
    PROVE  HostSum(k) \in [Slices -> SUBSET Contributions]
<1>1. Back \in Switches
  BY Geometry DEF TaskTyped
<1>2. cpubuff[Back][k] \in [Slices -> Contents]
  BY <1>1, BufferTyped
<1> QED BY <1>2, ContentsTyped DEF HostSum

LEMMA CopiedToHost ==
    ASSUME TaskTyped, DataTyped, machine' = machine, NEW d, d \in Devices, CopyDevice2Host(d)
    PROVE  DataTyped'
<1>1. PICK k \in Keys : cpubuff' = [cpubuff EXCEPT ![SwitchOf(d)][k][SliceOf(d)] =
                                        Plain({<<SwitchOf(d), Step(d, k)>>})]
  BY DEF CopyDevice2Host
<1>2. PICK w \in Switches, i \in Slices : w = SwitchOf(d) /\ i = SliceOf(d)
  BY OfDevice DEF TaskTyped
<1>3. PICK c \in Contents : c = Plain({<<w, Step(d, k)>>})
  <2>1. Step(d, k) \in Nat
    BY StepTyped
  <2>2. {<<w, Step(d, k)>>} \in SUBSET Contributions
    BY <2>1 DEF Contributions
  <2> QED BY <2>2, ContentsTyped DEF Plain
<1>4. cpubuff' \in [Switches -> [Keys -> [Slices -> Contents]]]
  BY <1>1, <1>2, <1>3 DEF DataTyped
<1>5. pushed' = pushed /\ slice' = slice /\ aborted' = aborted
  BY DEF CopyDevice2Host
<1> QED BY <1>4, <1>5, DataStays DEF DataTyped

LEMMA Reduced ==
    ASSUME TaskTyped, DataTyped, machine' = machine, NEW d, d \in Devices, PcieReduce(d)
    PROVE  DataTyped'
<1>1. PICK k \in Keys :
         \/ cpubuff' = cpubuff
         \/ cpubuff' = [cpubuff EXCEPT ![Back][k][SliceOf(d)].sum =
                           @ \cup cpubuff[0][k][SliceOf(d)].sum]
  BY DEF PcieReduce
<1>2. PICK w \in Switches, i \in Slices : w = Back /\ i = SliceOf(d)
  BY OfDevice, Geometry DEF TaskTyped
<1>3. 0 \in Switches
  BY Geometry DEF TaskTyped, Switches
<1>4. cpubuff' \in [Switches -> [Keys -> [Slices -> Contents]]]
  <2>1. PICK a \in Contents, b \in Contents : a = cpubuff[w][k][i] /\ b = cpubuff[0][k][i]
    <3>1. cpubuff[w][k] \in [Slices -> Contents] /\ cpubuff[0][k] \in [Slices -> Contents]
      BY <1>3, BufferTyped
    <3> QED BY <3>1
  <2>2. PICK c \in Contents : c = [a EXCEPT !.sum = @ \cup b.sum]
    BY DEF Contents
  <2>3. CASE cpubuff' = [cpubuff EXCEPT ![Back][k][SliceOf(d)].sum =
                           @ \cup cpubuff[0][k][SliceOf(d)].sum]
    <3>1. cpubuff' = [cpubuff EXCEPT ![w][k][i] = c]
      BY <1>2, <2>1, <2>2, <2>3
    <3> QED BY <3>1 DEF DataTyped
  <2> QED BY <1>1, <2>3 DEF DataTyped
<1>5. pushed' = pushed /\ slice' = slice /\ aborted' = aborted
  BY DEF PcieReduce
<1> QED BY <1>4, <1>5, DataStays DEF DataTyped

LEMMA CopiedToDevice ==
    ASSUME TaskTyped, DataTyped, machine' = machine, NEW d, d \in Devices, CopyHost2Device(d)
    PROVE  DataTyped'
<1>1. PICK k \in Keys : slice' = [slice EXCEPT ![d][k] = cpubuff[Back][k][SliceOf(d)]]
  BY DEF CopyHost2Device
<1>2. cpubuff[Back][k][SliceOf(d)] \in Contents
  <2>1. Back \in Switches /\ SliceOf(d) \in Slices
    BY OfDevice, Geometry DEF TaskTyped
  <2>2. cpubuff[Back][k] \in [Slices -> Contents]
    BY <2>1, BufferTyped
  <2> QED BY <2>1, <2>2
<1>3. slice' \in [Devices -> [Keys -> Contents]]
  BY <1>1, <1>2 DEF DataTyped
<1>4. cpubuff' = cpubuff /\ pushed' = pushed /\ aborted' = aborted
  BY DEF CopyHost2Device
<1> QED BY <1>3, <1>4, DataStays DEF DataTyped

LEMMA Pulled ==
    ASSUME TaskTyped, DataTyped, machine' = machine, NEW k, k \in Keys, PullDone(k)
    PROVE  DataTyped'
<1>1. PICK w \in Switches : w = Back
  BY Geometry DEF TaskTyped
<1>2. PICK x : x = [i \in Slices |-> [sum |-> pushed[k][i] \cup {<<Servers, Step(Root, k)>>},
                                     coded |-> HasCompressor(TensorOf(k))]]
  OBVIOUS
<1>3. x \in [Slices -> Contents]
  <2>1. Step(Root, k) \in Nat
    BY Geometry, StepTyped DEF TaskTyped
  <2>2. HasCompressor(TensorOf(k)) \in BOOLEAN
    BY DEF HasCompressor
  <2>3. \A i \in Slices : pushed[k][i] \cup {<<Servers, Step(Root, k)>>} \in SUBSET Contributions
    <3>1. pushed[k] \in [Slices -> SUBSET Contributions]
      BY DEF DataTyped
    <3>2. <<Servers, Step(Root, k)>> \in Contributions
      BY <2>1 DEF Contributions
    <3> QED BY <3>1, <3>2
  <2> QED BY <1>2, <2>2, <2>3, ContentsTyped
<1>4. cpubuff' = [cpubuff EXCEPT ![w][k] = x]
  BY <1>1, <1>2 DEF PullDone
<1>5. cpubuff' \in [Switches -> [Keys -> [Slices -> Contents]]]
  BY <1>3, <1>4 DEF DataTyped
<1>6. pushed' = pushed /\ slice' = slice /\ aborted' = aborted
  BY DEF PullDone
<1> QED BY <1>5, <1>6, DataStays DEF DataTyped

LEMMA Decompressed ==
    ASSUME TaskTyped, DataTyped, machine' = machine, NEW k, k \in Keys, DecompressJob(k)
    PROVE  DataTyped'
<1>1. PICK w \in Switches : w = Back
  BY Geometry DEF TaskTyped
<1>2. PICK x : x = [i \in Slices |-> Plain(cpubuff[w][k][i].sum)]
  OBVIOUS
<1>3. x \in [Slices -> Contents]
  <2>1. cpubuff[w][k] \in [Slices -> Contents]
    BY BufferTyped
  <2> QED BY <1>2, <2>1, ContentsTyped DEF Plain
<1>4. cpubuff' = [cpubuff EXCEPT ![w][k] = x]
  BY <1>1, <1>2 DEF DecompressJob, DataTyped
<1>5. cpubuff' \in [Switches -> [Keys -> [Slices -> Contents]]]
  BY <1>3, <1>4 DEF DataTyped
<1>6. pushed' = pushed /\ slice' = slice /\ aborted' = aborted
  BY DEF DecompressJob
<1> QED BY <1>5, <1>6, DataStays DEF DataTyped

LEMMA Pushed ==
    ASSUME TaskTyped, DataTyped, machine' = machine, NEW k, k \in Keys,
           pushed' = pushed \/ pushed' = [pushed EXCEPT ![k] = HostSum(k)],
           cpubuff' = cpubuff, slice' = slice, aborted' = aborted
    PROVE  DataTyped'
<1>1. pushed' \in [Keys -> [Slices -> SUBSET Contributions]]
  BY HostSums DEF DataTyped
<1> QED BY <1>1, DataStays DEF DataTyped

-----------------------------------------------------------------------------
(* Every step keeps the invariant.                                         *)

IInv == TasksKept /\ NcclTyped /\ Announced /\ SignalTyped /\ DataTyped

\* What a step leaves alone.
LEMMA SignalSame ==
    ASSUME SignalTyped, machine' = machine, UNCHANGED <<ready_table, signals, owed>>
    PROVE  SignalTyped'
BY CountsStay DEF SignalTyped

LEMMA DataSame ==
    ASSUME DataTyped, machine' = machine, UNCHANGED <<cpubuff, pushed, slice, aborted>>
    PROVE  DataTyped'
BY DataStays DEF DataTyped

LEMMA TasksSame ==
    ASSUME TasksKept, machine' = machine, UNCHANGED <<taskVars, nccl_tasks, nccl_pipeline, calls>>
    PROVE  TasksKept'
<1>1. /\ UNCHANGED <<queue_list, sq, credits, counter, enqueued, step_cnt,
                     nccl_tasks, nccl_pipeline, calls>>
      /\ ready_event' = ready_event
  BY DEF taskVars
<1>2. ready_event' \in [Devices -> SUBSET Tensors]
  BY <1>1 DEF TasksKept, TaskTyped
<1> QED BY <1>1, <1>2, NothingMoves

LEMMA AbortKeeps ==
    ASSUME IInv, machine' = machine, NEW check, Abort(check),
           check \in {"no", "ready count exceeded", "no task for the key",
                     "SetReadyCount does not return"}
    PROVE  IInv'
<1>1. /\ UNCHANGED <<taskVars, nccl_tasks, nccl_pipeline, calls>>
      /\ UNCHANGED <<nccl_msgs, nccl_phase, nccl_tasks, nccl_pipeline, synced>>
      /\ UNCHANGED <<ready_table, signals, owed>>
      /\ cpubuff' = cpubuff /\ pushed' = pushed /\ slice' = slice /\ aborted' = check
  BY DEF Abort, ncclVars, signalVars, dataVars
<1>2. TasksKept' /\ NcclTyped' /\ Announced' /\ SignalTyped'
  BY <1>1, TasksSame, NcclSame, SignalSame DEF IInv
<1>3. DataTyped'
  BY <1>1, DataStays DEF IInv, DataTyped
<1> QED BY <1>2, <1>3 DEF IInv

\* The framework.
LEMMA FrameworkKeeps ==
    ASSUME IInv, machine' = machine, NEW d, NEW t, d \in Devices, t \in Tensors,
           EnqueueTensor(d, t) \/ ReadyEvent(d, t)
    PROVE  IInv'
<1>1. UNCHANGED <<signalVars, ncclVars, calls, dataVars, aborted>>
  BY DEF EnqueueTensor, ReadyEvent
<1>2. /\ UNCHANGED <<nccl_msgs, nccl_phase, nccl_tasks, nccl_pipeline, synced>>
      /\ UNCHANGED <<ready_table, signals, owed>>
      /\ UNCHANGED <<cpubuff, pushed, slice, aborted>>
  BY <1>1 DEF ncclVars, signalVars, dataVars
<1>3. TasksKept'
  <2>1. CASE EnqueueTensor(d, t)
    BY <2>1, EnqueueStep DEF IInv
  <2>2. CASE ReadyEvent(d, t)
    <3>1. ready_event' \in [Devices -> SUBSET Tensors]
      BY <2>2 DEF ReadyEvent, IInv, TasksKept, TaskTyped
    <3>2. UNCHANGED <<queue_list, sq, credits, counter, enqueued, step_cnt,
                      nccl_tasks, nccl_pipeline, calls>>
      BY <1>1, <1>2, <2>2 DEF ReadyEvent
    <3> QED BY <3>1, <3>2, NothingMoves DEF IInv
  <2> QED BY <2>1, <2>2
<1>4. NcclTyped' /\ Announced' /\ SignalTyped' /\ DataTyped'
  BY <1>2, NcclSame, SignalSame, DataSame DEF IInv
<1> QED BY <1>3, <1>4 DEF IInv

\* Signals.
LEMMA CoordinateKeeps ==
    ASSUME IInv, machine' = machine, NEW d, NEW op, d \in Devices, op \in Coordinates,
           Coordinate(d, op) \/ SendSignal(d, op)
    PROVE  IInv'
<1>1. UNCHANGED <<ncclVars, calls, dataVars, aborted, ready_table>>
  BY DEF Coordinate, SendSignal
<1>2. /\ UNCHANGED <<nccl_msgs, nccl_phase, nccl_tasks, nccl_pipeline, synced>>
      /\ UNCHANGED <<cpubuff, pushed, slice, aborted>>
  BY <1>1 DEF ncclVars, dataVars
<1>3. TasksKept' /\ SignalTyped'
  <2>1. CASE Coordinate(d, op)
    <3>1. PICK k \in Keys : /\ GetTask(d, op, k) /\ FinishOrProceed(d, k, Taken(d, op, k))
                            /\ owed' = [owed EXCEPT ![d][op] = k] /\ signals' = signals
      BY <2>1 DEF Coordinate
    <3>2. k \in Range(sq[d][op])
      BY <3>1 DEF GetTask, Range
    <3>3. op \in QueueType \ {"REDUCE"}
      BY DEF QueueType, Coordinates, Coordinated
    <3>4. TasksKept'
      BY <1>1, <1>2, <3>1, <3>2, <3>3, QueueStep DEF IInv
    <3>5. signals' \in Counts /\ owed' \in [Devices -> [Coordinates -> Keys \cup {NoKey}]]
      BY <3>1 DEF IInv, SignalTyped
    <3>6. SignalTyped'
      BY <1>1, <3>5, CountsStay DEF IInv
    <3> QED BY <3>4, <3>6
  <2>2. CASE SendSignal(d, op)
    <3>1. UNCHANGED taskVars
      BY <2>2 DEF SendSignal
    <3> QED BY <1>1, <1>2, <2>2, <3>1, TasksSame, SignalSent DEF IInv
  <2> QED BY <2>1, <2>2
<1>4. NcclTyped' /\ Announced' /\ DataTyped'
  BY <1>2, NcclSame, DataSame DEF IInv
<1> QED BY <1>3, <1>4 DEF IInv

LEMMA ListenKeeps ==
    ASSUME IInv, machine' = machine, NEW d, NEW table, NEW k, d \in Devices, table \in Tables,
           k \in Keys, AddReadyCount(d, table, k)
    PROVE  IInv'
<1>1. CASE Abort("ready count exceeded")
  BY <1>1, AbortKeeps
<1>2. CASE UNCHANGED <<taskVars, owed, ncclVars, calls, dataVars, aborted>>
  <2>1. /\ UNCHANGED <<nccl_msgs, nccl_phase, nccl_tasks, nccl_pipeline, synced>>
        /\ UNCHANGED <<taskVars, nccl_tasks, nccl_pipeline, calls>>
        /\ UNCHANGED <<cpubuff, pushed, slice, aborted>>
    BY <1>2 DEF ncclVars, dataVars
  <2>2. TasksKept' /\ NcclTyped' /\ Announced' /\ DataTyped'
    BY <2>1, TasksSame, NcclSame, DataSame DEF IInv
  <2>3. SignalTyped'
    BY SignalReceived DEF IInv, TasksKept, TaskTyped
  <2> QED BY <2>2, <2>3 DEF IInv
<1> QED BY <1>1, <1>2 DEF AddReadyCount

\* NCCL.
LEMMA NcclKeeps ==
    ASSUME IInv, machine' = machine, NEW d, d \in Devices,
           IF IsSignalRoot(d) THEN RootNcclTake(d) \/ RootNcclNext(d) ELSE NonRootNccl(d)
    PROVE  IInv'
<1>1. TasksKept' /\ NcclTyped' /\ Announced'
  BY RootTakes, RootGoesOn, NonRootFollows DEF IInv
<1>2. SignalTyped'
  <2>1. CASE RootNcclTake(d)
    <3>1. PICK k \in Keys : ClearReadyCount(d, nccl_phase[d], k)
      BY <2>1 DEF RootNcclTake
    <3>2. signals' = signals /\ owed' = owed
      BY <2>1 DEF RootNcclTake
    <3> QED BY <3>1, <3>2, Cleared DEF IInv, TasksKept, TaskTyped, SignalTyped
  <2>2. CASE RootNcclNext(d)
    <3>1. UNCHANGED <<ready_table, signals, owed>>
      BY <2>2 DEF RootNcclNext, signalVars
    <3> QED BY <3>1, SignalSame DEF IInv
  <2>3. CASE NonRootNccl(d)
    <3>1. UNCHANGED <<ready_table, signals, owed>>
      BY <2>3 DEF NonRootNccl, Abort, signalVars
    <3> QED BY <3>1, SignalSame DEF IInv
  <2> QED BY <2>1, <2>2, <2>3
<1>3. DataTyped'
  <2>1. /\ UNCHANGED <<cpubuff, pushed, slice>>
        /\ aborted' \in {aborted, "no task for the key"}
    BY DEF RootNcclTake, RootNcclNext, NonRootNccl, Abort, dataVars
  <2> QED BY <2>1, DataStays DEF IInv, DataTyped
<1> QED BY <1>1, <1>2, <1>3 DEF IInv

LEMMA SyncKeeps ==
    ASSUME IInv, machine' = machine, NEW d, d \in Devices, SyncNccl(d)
    PROVE  IInv'
<1>1. /\ UNCHANGED <<ready_table, signals, owed>> /\ UNCHANGED <<cpubuff, pushed, slice, aborted>>
      /\ nccl_msgs' = nccl_msgs /\ nccl_tasks' = nccl_tasks
  BY DEF SyncNccl, signalVars, dataVars
<1>2. TasksKept' /\ NcclTyped'
  BY GroupStep DEF IInv
<1>3. Announced'
  BY <1>1, AnnouncedNext DEF IInv, Announced
<1>4. SignalTyped' /\ DataTyped'
  BY <1>1, SignalSame, DataSame DEF IInv
<1> QED BY <1>2, <1>3, <1>4 DEF IInv

\* Copies and sums.
LEMMA CopyKeeps ==
    ASSUME IInv, machine' = machine, NEW d, d \in Devices,
           CopyDevice2Host(d) \/ PcieReduce(d) \/ CopyHost2Device(d)
    PROVE  IInv'
<1>1. UNCHANGED <<ncclVars, calls, owed>>
  BY DEF CopyDevice2Host, PcieReduce, CopyHost2Device, signalVars
<1>2. UNCHANGED <<nccl_msgs, nccl_phase, nccl_tasks, nccl_pipeline, synced>>
  BY <1>1 DEF ncclVars
<1>3. \E op \in {"COPYD2H", "PCIE_REDUCE", "COPYH2D"}, k \in Keys :
         /\ GetTask(d, op, k) /\ FinishOrProceed(d, k, Taken(d, op, k))
         /\ \/ ready_table' = ready_table /\ signals' = signals
            \/ ClearReadyCount(d, op, k) /\ signals' = signals
            \/ /\ ClearReadyCount(d, op, k)
               /\ \E R : \E table \in Tables : Send(R, table, k)
  <2>1. CASE CopyDevice2Host(d)
    BY <2>1 DEF CopyDevice2Host, signalVars
  <2>2. CASE PcieReduce(d)
    <3>1. PICK k \in Keys :
             /\ GetTask(d, "PCIE_REDUCE", k) /\ ClearReadyCount(d, "PCIE_REDUCE", k)
             /\ FinishOrProceed(d, k, Taken(d, "PCIE_REDUCE", k))
             /\ signals' = signals \/ Send({ReducerRoot(d)}, "PCIE_REDUCE", k)
      BY <2>2 DEF PcieReduce
    <3>2. "PCIE_REDUCE" \in Tables
      BY DEF Tables
    <3>3. signals' = signals \/ \E R : \E table \in Tables : Send(R, table, k)
      BY <3>1, <3>2
    <3> QED BY <3>1, <3>3
  <2>3. CASE CopyHost2Device(d)
    <3>1. PICK k \in Keys :
             /\ GetTask(d, "COPYH2D", k) /\ ClearReadyCount(d, "COPYH2D", k)
             /\ FinishOrProceed(d, k, Taken(d, "COPYH2D", k))
             /\ Send(IF d = Root THEN Devices \ {Root} ELSE {}, "COPYH2D", k)
      BY <2>3 DEF CopyHost2Device
    <3>2. "COPYH2D" \in Tables
      BY DEF Tables
    <3>3. \E R : \E table \in Tables : Send(R, table, k)
      BY <3>1, <3>2
    <3> QED BY <3>1, <3>3
  <2> QED BY <2>1, <2>2, <2>3
<1>4. PICK op \in {"COPYD2H", "PCIE_REDUCE", "COPYH2D"}, k \in Keys :
         /\ GetTask(d, op, k) /\ FinishOrProceed(d, k, Taken(d, op, k))
         /\ \/ ready_table' = ready_table /\ signals' = signals
            \/ ClearReadyCount(d, op, k) /\ signals' = signals
            \/ /\ ClearReadyCount(d, op, k)
               /\ \E R : \E table \in Tables : Send(R, table, k)
  BY <1>3, Zenon
<1>5. TasksKept'
  <2>1. k \in Range(sq[d][op])
    BY <1>4 DEF GetTask, Range
  <2>2. op \in QueueType \ {"REDUCE"}
    BY DEF QueueType
  <2> QED BY <1>1, <1>2, <1>4, <2>1, <2>2, QueueStep DEF IInv
<1>6. SignalTyped'
  <2>1. SignalTyped /\ machine \in Machines /\ signals \in Counts /\ owed' = owed
    BY <1>1 DEF IInv, TasksKept, TaskTyped, SignalTyped
  <2>2. CASE ready_table' = ready_table /\ signals' = signals
    BY <2>1, <2>2, SignalSame
  <2>3. CASE ClearReadyCount(d, op, k) /\ signals' = signals
    BY <2>1, <2>3, Cleared
  <2>4. CASE /\ ClearReadyCount(d, op, k)
             /\ \E R : \E table \in Tables : Send(R, table, k)
    <3>1. signals' \in Counts
      BY <2>1, <2>4, Sent
    <3> QED BY <2>1, <2>4, <3>1, Cleared
  <2> QED BY <1>4, <2>2, <2>3, <2>4
<1>7. DataTyped'
  BY CopiedToHost, Reduced, CopiedToDevice DEF IInv, TasksKept
<1>8. NcclTyped' /\ Announced'
  BY <1>2, NcclSame DEF IInv
<1> QED BY <1>5, <1>6, <1>7, <1>8 DEF IInv

\* The root's calls.
LEMMA CallKeeps ==
    ASSUME IInv, machine' = machine, NEW op, op \in Calls, Call(op)
    PROVE  IInv'
<1>1. TasksKept' /\ NcclTyped'
  BY CallBegins DEF IInv
<1>2. /\ UNCHANGED <<nccl_msgs, nccl_phase, nccl_tasks, nccl_pipeline, synced>>
      /\ UNCHANGED <<cpubuff, pushed, slice, aborted>>
      /\ signals' = signals /\ owed' = owed
  BY DEF Call, ncclVars, dataVars
<1>3. SignalTyped'
  <2>1. PICK k \in Keys : ClearReadyCount(Root, op, k)
    BY DEF Call
  <2>2. SignalTyped /\ machine \in Machines /\ signals \in Counts /\ Root \in Devices
    BY Geometry DEF IInv, TasksKept, TaskTyped, SignalTyped
  <2>3. PICK d \in Devices : d = Root
    BY <2>2
  <2> QED BY <1>2, <2>1, <2>2, <2>3, Cleared
<1> QED BY <1>1, <1>2, <1>3, NcclSame, DataSame DEF IInv

LEMMA BarrierKeeps ==
    ASSUME IInv, machine' = machine, DummyBarrier
    PROVE  IInv'
<1>1. PICK d \in Devices : d = Root
  BY Geometry DEF IInv, TasksKept, TaskTyped
<1>2. PICK k \in Keys : /\ GetTask(d, "PUSH", k) /\ ClearReadyCount(d, "PUSH", k)
                        /\ FinishOrProceed(d, k, Taken(d, "PUSH", k))
  BY <1>1 DEF DummyBarrier
<1>3. /\ UNCHANGED <<nccl_msgs, nccl_phase, nccl_tasks, nccl_pipeline, synced>>
      /\ UNCHANGED <<cpubuff, pushed, slice, aborted>>
      /\ signals' = signals /\ owed' = owed /\ calls' = calls
  BY DEF DummyBarrier, ncclVars, dataVars
<1>4. k \in Range(sq[d]["PUSH"]) /\ "PUSH" \in QueueType \ {"REDUCE"}
  BY <1>2 DEF GetTask, Range, QueueType, Calls
<1>5. TasksKept'
  BY <1>2, <1>3, <1>4, QueueStep DEF IInv
<1>6. SignalTyped'
  <2>1. SignalTyped /\ machine \in Machines /\ signals \in Counts
    BY DEF IInv, TasksKept, TaskTyped, SignalTyped
  <2> QED BY <1>2, <1>3, <2>1, Cleared
<1> QED BY <1>3, <1>5, <1>6, NcclSame, DataSame DEF IInv

LEMMA ReturnKeeps ==
    ASSUME IInv, machine' = machine, NEW k, k \in Keys,
           CompressJob(k) \/ PushDone(k) \/ PullDone(k) \/ DecompressJob(k)
    PROVE  IInv'
<1>1. CASE Abort("SetReadyCount does not return")
  BY <1>1, AbortKeeps
<1>2. ASSUME NEW op, op \in Calls, Return(op, k), UNCHANGED ncclVars, DataTyped', SignalTyped'
      PROVE  IInv'
  <2>1. TasksKept' /\ NcclTyped'
    BY <1>2, CallStep DEF IInv
  <2>2. UNCHANGED <<nccl_msgs, nccl_phase, nccl_tasks, nccl_pipeline, synced>>
    BY <1>2 DEF ncclVars
  <2>3. Announced'
    BY <2>2, NcclSame DEF IInv
  <2> QED BY <1>2, <2>1, <2>3 DEF IInv
<1>3. CASE CompressJob(k) /\ machine.reset_returns
  <2>1. /\ Return("COMPRESS", k) /\ UNCHANGED ncclVars
        /\ pushed' = [pushed EXCEPT ![k] = HostSum(k)]
        /\ ready_table' = [ready_table EXCEPT ![Root]["PUSH"][k] = RestoredCount]
        /\ signals' = signals /\ owed' = owed
        /\ cpubuff' = cpubuff /\ slice' = slice /\ aborted' = aborted
    BY <1>3 DEF CompressJob
  <2>2. DataTyped'
    BY <2>1, Pushed DEF IInv, TasksKept
  <2>3. SignalTyped'
    <3>1. PICK d \in Devices : d = Root
      BY Geometry DEF IInv, TasksKept, TaskTyped
    <3>2. PICK n : n = RestoredCount
      OBVIOUS
    <3>3. n \in 0..ReadyCount("PUSH") /\ "PUSH" \in Tables
      BY <3>2, Geometry DEF IInv, TasksKept, TaskTyped, RestoredCount, ReadyCount, Tables
    <3>4. PICK table \in Tables : table = "PUSH" /\ n \in 0..ReadyCount(table)
      BY <3>3
    <3>5. ready_table' = [ready_table EXCEPT ![d][table][k] = n]
      BY <2>1, <3>1, <3>2, <3>4
    <3>6. SignalTyped /\ signals' \in Counts
      BY <2>1 DEF IInv, SignalTyped
    <3>7. owed' = owed
      BY <2>1
    <3> HIDE <3>1, <3>2, <3>3
    <3> QED BY <3>4, <3>5, <3>6, <3>7, CountSet
  <2> QED BY <1>2, <2>1, <2>2, <2>3 DEF Calls
<1>4. CASE PushDone(k) \/ PullDone(k) \/ DecompressJob(k)
  <2>1. UNCHANGED <<ready_table, signals, owed>> /\ UNCHANGED ncclVars
    BY <1>4 DEF PushDone, PullDone, DecompressJob, signalVars
  <2>2. SignalTyped'
    BY <2>1, SignalSame DEF IInv
  <2>3. DataTyped'
    <3>1. CASE PushDone(k)
      <4>1. /\ pushed' = pushed \/ pushed' = [pushed EXCEPT ![k] = HostSum(k)]
            /\ cpubuff' = cpubuff /\ slice' = slice /\ aborted' = aborted
        BY <3>1 DEF PushDone
      <4> QED BY <4>1, Pushed DEF IInv, TasksKept
    <3> QED BY <1>4, <3>1, Pulled, Decompressed DEF IInv, TasksKept
  <2>4. \E op \in Calls : Return(op, k)
    BY <1>4 DEF PushDone, PullDone, DecompressJob, Calls
  <2> QED BY <1>2, <2>1, <2>2, <2>3, <2>4
<1> QED BY <1>1, <1>3, <1>4 DEF CompressJob

LEMMA NextKeeps ==
    ASSUME IInv, [Next]_vars
    PROVE  IInv'
<1>1. CASE UNCHANGED vars
  <2>1. /\ machine' = machine
        /\ UNCHANGED <<nccl_msgs, nccl_phase, nccl_tasks, nccl_pipeline, synced>>
        /\ UNCHANGED <<taskVars, nccl_tasks, nccl_pipeline, calls>>
        /\ UNCHANGED <<ready_table, signals, owed>>
        /\ UNCHANGED <<cpubuff, pushed, slice, aborted>>
    BY <1>1 DEF vars, ncclVars, signalVars, dataVars
  <2> QED BY <2>1, TasksSame, NcclSame, SignalSame, DataSame DEF IInv
<1>2. ASSUME NEW d \in Devices, Device(d) PROVE IInv'
  <2>1. CASE \E t \in Tensors : Framework(d, t)
    BY <2>1, FrameworkKeeps DEF Framework, Alive
  <2>2. CASE \E op \in Coordinates : CoordinateLoop(d, op)
    BY <2>2, CoordinateKeeps DEF CoordinateLoop, Alive
  <2>3. CASE \E table \in Tables, k \in Keys : Listen(d, table, k)
    BY <2>3, ListenKeeps DEF Listen, Alive
  <2>4. CASE SyncNcclLoop(d)
    BY <2>4, SyncKeeps DEF SyncNcclLoop, Alive
  <2>5. CASE CopyDevice2HostLoop(d) \/ PcieReduceLoop(d) \/ CopyHost2DeviceLoop(d)
    BY <2>5, CopyKeeps DEF CopyDevice2HostLoop, PcieReduceLoop, CopyHost2DeviceLoop, Alive
  <2> QED BY <1>2, <2>1, <2>2, <2>3, <2>4, <2>5 DEF Device
<1>3. ASSUME NEW d \in Devices, NcclLoop(d) PROVE IInv'
  BY <1>3, NcclKeeps DEF NcclLoop, Alive
<1>4. CASE RootCalls
  <2>1. ASSUME NEW op \in Calls, CallLoop(op) PROVE IInv'
    BY <2>1, CallKeeps, BarrierKeeps DEF CallLoop, Alive
  <2>2. ASSUME NEW k \in Keys, CallReturns(k) PROVE IInv'
    BY <2>2, ReturnKeeps DEF CallReturns, Alive
  <2> QED BY <1>4, <2>1, <2>2 DEF RootCalls
<1> QED BY <1>1, <1>2, <1>3, <1>4 DEF Next

\* At first nothing is anywhere.
LEMMA InitKeeps ==
    ASSUME Init
    PROVE  IInv
<1>1. machine \in Machines
  BY DEF Init
<1>2. \A t \in Tensors : machine.steps[t] \in Nat
  BY <1>1, PipelineAssumption
<1>3. PICK P \in Nat : P = PartitionBound * machine.credit
  <2>1. PartitionBound \in Nat /\ machine.credit \in Nat
    BY <1>1, PipelineAssumption
  <2> QED BY <2>1
<1>4. TaskTyped
  <2>1. <<>> \in Seq(QueueType) /\ <<>> \in Seq(Keys)
    OBVIOUS
  <2>2. sq \in Queues /\ queue_list \in [Devices -> [Keys -> Seq(QueueType)]]
    BY <2>1 DEF Init, Queues
  <2>3. ready_event \in [Devices -> SUBSET Tensors] /\ calls \in [Calls -> SUBSET Keys]
    BY DEF Init
  <2>4. /\ counter \in [Devices -> [Tensors -> Nat]] /\ enqueued \in [Devices -> [Tensors -> Nat]]
        /\ step_cnt \in [Devices -> [Tensors -> Nat]]
    BY DEF Init
  <2>5. credits \in [Devices -> Int]
    BY <1>3 DEF Init
  <2> QED BY <1>1, <2>2, <2>3, <2>4, <2>5 DEF TaskTyped
<1>5. ASSUME NEW d \in Devices PROVE Kept(d)
  <2>1. /\ \A op \in QueueType : sq[d][op] = <<>>
        /\ \A k \in Keys : queue_list[d][k] = <<>>
        /\ nccl_tasks[d] = <<>> /\ nccl_pipeline[d] = <<>> /\ \A c \in Calls : calls[c] = {}
        /\ credits[d] = PartitionBound * machine.credit
        /\ \A t \in Tensors : counter[d][t] = 0 /\ enqueued[d][t] = 0 /\ step_cnt[d][t] = 0
    BY DEF Init
  <2>2. Groups(d) = << <<>> >>
    BY <2>1 DEF Groups
  <2>3. Distinct(Groups(d)) /\ \A x : ~In(Groups(d), x)
    <3>1. Len(<< <<>> >>) = 1 /\ Len(<< <<>> >>[1]) = 0
      OBVIOUS
    <3> QED BY <2>2, <3>1 DEF Distinct, In
  <2>4. \A op, k : ~Grouped(d, op, k)
    BY <2>3 DEF Grouped
  <2>5. \A op \in QueueType, k \in Keys :
           ~Holds(sq, d, op, k) /\ ~Called(d, op, k) /\ ~InStage(d, op, k)
    BY <2>1 DEF Holds, Called, InStage, Range
  <2>6. \A op \in QueueType : IsInjective(sq[d][op])
    BY <2>1 DEF IsInjective
  <2>7. Once(d)
    BY <2>3, <2>4, <2>5, <2>6 DEF Once
  <2>8. Balance(d)
    <3>1. Lent(d) = {}
      BY <2>4 DEF Lent
    <3>2. Cardinality(Lent(d)) = 0
      BY <3>1, FS_EmptySet
    <3> QED BY <1>3, <2>1, <3>2 DEF Balance
  <2>9. ASSUME NEW t \in Tensors PROVE Progress(d, t)
    <3>1. Finished(d, t) = Range(KeyList[t])
      BY <2>1, KeyFacts DEF Finished
    <3>2. Len(KeyList[t]) \in Nat
      BY KeyFacts
    <3> QED BY <1>2, <2>1, <3>1, <3>2 DEF Progress
  <2> QED BY <2>7, <2>8, <2>9 DEF Kept
<1>6. NcclTyped
  <2>1. /\ <<>> \in Seq(CallTask) /\ <<>> \in Seq(CallTask \cup {DoGroup})
        /\ <<>> \in Seq(Seq(CallTask) \ {<<>>})
    OBVIOUS
  <2> QED BY <2>1 DEF Init, NcclTyped
<1>7. Announced
  <2>1. Opens(<<>>, <<>>)
    BY DEF Opens
  <2>2. \A d \in Devices : nccl_msgs[d] = <<>> /\ nccl_tasks[d] = <<>>
    BY DEF Init
  <2> QED BY <2>1, <2>2 DEF Announced
<1>8. SignalTyped
  <2>1. ready_table \in Counts /\ signals \in Counts
    BY DEF Init, Counts
  <2>2. \A d \in Devices, table \in Tables, k \in Keys : ready_table[d][table][k] = 0
    BY DEF Init
  <2>3. owed \in [Devices -> [Coordinates -> Keys \cup {NoKey}]]
    BY DEF Init
  <2> QED BY <1>1, <2>1, <2>2, <2>3, ReadyCounts DEF SignalTyped
<1>9. DataTyped
  <2>1. Null \in Contents
    BY ContentsTyped DEF Null, Plain
  <2> QED BY <2>1 DEF Init, DataTyped
<1> QED BY <1>4, <1>5, <1>6, <1>7, <1>8, <1>9 DEF IInv, TasksKept

-----------------------------------------------------------------------------
(* What follows from it.                                                   *)

LEMMA IInvTypeOK ==
    ASSUME IInv
    PROVE  TypeOK
<1>1. TaskTyped /\ NcclTyped /\ SignalTyped /\ DataTyped
  BY DEF IInv, TasksKept
<1>2. ASSUME NEW d \in Devices
      PROVE  Balance(d) /\ \A t \in Tensors : Progress(d, t)
  BY DEF IInv, TasksKept, Kept
<1>3. credits \in [Devices -> 0..PartitionBound * machine.credit]
  <2>1. ASSUME NEW d \in Devices PROVE credits[d] \in 0..PartitionBound * machine.credit
    <3>1. PICK P : P = PartitionBound * machine.credit
      OBVIOUS
    <3>2. Balance(d) /\ credits[d] \in Int /\ Cardinality(Lent(d)) \in Nat
      BY <1>1, <1>2, LentFacts DEF TaskTyped
    <3>3. P \in Int
      BY <1>1, <3>1, PipelineAssumption DEF TaskTyped
    <3> QED BY <3>1, <3>2, <3>3 DEF Balance
  <2> QED BY <1>1, <2>1 DEF TaskTyped
<1>4. \A t \in Tensors, d \in Devices : /\ counter[d][t] \in 0..Len(KeyList[t])
                                        /\ enqueued[d][t] \in 0..machine.steps[t]
                                        /\ step_cnt[d][t] \in 0..enqueued[d][t]
  <2> TAKE t \in Tensors, d \in Devices
  <2>1. counter[d][t] \in Nat /\ enqueued[d][t] \in Nat /\ step_cnt[d][t] \in Nat
    BY <1>1 DEF TaskTyped
  <2>2. Len(KeyList[t]) \in Nat /\ machine.steps[t] \in Nat
    BY <1>1, KeyFacts, PipelineAssumption DEF TaskTyped
  <2> QED BY <1>2, <2>1, <2>2 DEF Progress
<1>5. \A d \in Devices, table \in Tables, k \in Keys :
         /\ ready_table[d][table][k] \in 0..ReadyCount(table)
         /\ signals[d][table][k] \in Nat
  <2> TAKE d \in Devices, table \in Tables, k \in Keys
  <2>1. ready_table[d][table][k] \in Nat /\ signals[d][table][k] \in Nat
    BY <1>1 DEF SignalTyped, Counts
  <2>2. ReadyCount(table) \in Nat
    BY <1>1, ReadyCounts DEF TaskTyped
  <2> QED BY <1>1, <2>1, <2>2 DEF SignalTyped
<1>6. CallTask \subseteq Tasks /\ DoGroup \in Tasks
  BY KeyFacts DEF CallTask, Tasks, DoGroup, NcclTask
<1>7. nccl_msgs \in [Devices -> Seq(Tasks)] /\ nccl_tasks \in [Devices -> Seq(Tasks)]
  <2>1. Seq(CallTask) \subseteq Seq(Tasks) /\ Seq(CallTask \cup {DoGroup}) \subseteq Seq(Tasks)
    BY <1>6
  <2> QED BY <1>1, <2>1 DEF NcclTyped
<1>8. nccl_pipeline \in [Devices -> Seq(Seq(Tasks) \ {<<>>})]
  <2>1. Seq(CallTask) \ {<<>>} \subseteq Seq(Tasks) \ {<<>>}
    BY <1>6
  <2>2. \A A, B : A \subseteq B => Seq(A) \subseteq Seq(B)
    OBVIOUS
  <2>3. Seq(Seq(CallTask) \ {<<>>}) \subseteq Seq(Seq(Tasks) \ {<<>>})
    BY <2>1, <2>2, Zenon
  <2> QED BY <1>1, <2>3 DEF NcclTyped
<1> QED BY <1>1, <1>3, <1>4, <1>5, <1>7, <1>8
        DEF TypeOK, TaskTyped, Queues, NcclTyped, SignalTyped, DataTyped

LEMMA IInvHeldOnce ==
    ASSUME IInv
    PROVE  HeldOnce
<1>1. TypeOK
  BY IInvTypeOK
<1>2. ASSUME NEW d \in Devices
      PROVE  /\ \A op \in QueueType : IsInjective(sq[d][op])
             /\ GroupsDistinct(d)
             /\ \A k \in Keys :
                   /\ InQueue(d, k) \cup InGroup(d, k) \cup InCall(d, k) = Stage(d, k)
                   /\ InQueue(d, k) \cap (InGroup(d, k) \cup InCall(d, k)) = {}
  <2>1. Once(d)
    BY DEF IInv, TasksKept, Kept
  <2>2. Groups(d) \in Seq(Seq(CallTask))
    BY GroupedTyped DEF IInv
  <2>3. GroupsDistinct(d) /\ \A op, k : InNccl(d, op, k) <=> Grouped(d, op, k)
    BY <2>1, <2>2, InNcclIs DEF Once, Grouped
  <2>4. ASSUME NEW k \in Keys
        PROVE  /\ InQueue(d, k) \cup InGroup(d, k) \cup InCall(d, k) = Stage(d, k)
               /\ InQueue(d, k) \cap (InGroup(d, k) \cup InCall(d, k)) = {}
    <3>1. /\ \A op : op \in InQueue(d, k) <=> op \in QueueType /\ Holds(sq, d, op, k)
          /\ \A op : op \in InGroup(d, k) <=> op \in QueueType /\ Grouped(d, op, k)
          /\ \A op : op \in InCall(d, k) <=> op \in QueueType /\ Called(d, op, k)
      <4>1. Calls \subseteq QueueType
        BY DEF QueueType
      <4> QED BY <2>3, <4>1 DEF InQueue, InGroup, InCall, Holds, Called
    <3>2. \A op : op \in Stage(d, k) <=> op \in QueueType /\ InStage(d, op, k)
      <4>1. queue_list[d][k] \in Seq(QueueType)
        BY DEF IInv, TasksKept, TaskTyped
      <4>2. queue_list[d][k] # <<>> => Head(queue_list[d][k]) \in QueueType
        BY <4>1
      <4> QED BY <4>2 DEF Stage, InStage
    <3>3. \A op \in QueueType :
             /\ Holds(sq, d, op, k) \/ Grouped(d, op, k) \/ Called(d, op, k) <=> InStage(d, op, k)
             /\ ~(Holds(sq, d, op, k) /\ (Grouped(d, op, k) \/ Called(d, op, k)))
      BY <2>1 DEF Once
    <3> QED BY <3>1, <3>2, <3>3
  <2> QED BY <2>1, <2>3, <2>4 DEF Once
<1> QED BY <1>1, <1>2 DEF HeldOnce

LEMMA IInvCredits ==
    ASSUME IInv
    PROVE  CreditsBalance
<1> SUFFICES ASSUME NEW d \in Devices, IsSignalRoot(d), machine.credit > 0
             PROVE  credits[d] + Cardinality(Reducing(d)) = PartitionBound * machine.credit
  BY DEF CreditsBalance
<1>1. Groups(d) \in Seq(Seq(CallTask)) /\ Balance(d)
  BY GroupedTyped DEF IInv, TasksKept, Kept
<1>2. \A op, k : InNccl(d, op, k) <=> Grouped(d, op, k)
  BY <1>1, InNcclIs DEF Grouped
<1>3. Reducing(d) = Lent(d)
  BY <1>2 DEF Reducing, Lent
<1>4. IsScheduled(d, "REDUCE")
  BY DEF IsScheduled
<1> QED BY <1>1, <1>3, <1>4 DEF Balance

-----------------------------------------------------------------------------
(* The theorems.                                                           *)

(* The inductive invariant: in every reachable state of every machine, a   *)
(* task is at its present stage and nowhere else, a tensor is in one step, *)
(* a group that is announced is not empty, and the counts and buffers keep *)
(* their types (the handlers of core_loops.cc together).                   *)
THEOREM PipelineInvariant == Spec => []IInv
<1>1. Init => IInv
  BY InitKeeps
<1>2. IInv /\ [Next]_vars => IInv'
  BY NextKeeps
<1> QED BY <1>1, <1>2, PTL DEF Spec

(* Every variable keeps its type.                                          *)
THEOREM TypeCorrect == Spec => []TypeOK
BY PipelineInvariant, IInvTypeOK, PTL

(* A task is in exactly one place, that of its present stage               *)
(* (FinishOrProceed, getTask, addTask).                                    *)
THEOREM HeldOnceCorrect == Spec => []HeldOnce
BY PipelineInvariant, IInvHeldOnce, PTL

(* No credit of the REDUCE queue is lost or returned twice                 *)
(* (scheduled_queue.cc:179 and :231).                                      *)
THEOREM CreditsCorrect == Spec => []CreditsBalance
BY PipelineInvariant, IInvCredits, PTL
=============================================================================
