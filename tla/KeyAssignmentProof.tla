-------------------------- MODULE KeyAssignmentProof --------------------------
(***************************************************************************)
(* For any number of workers, tensors and epochs and any programs: no two  *)
(* tensors of a process have one number; and when mixed mode ends a        *)
(* process.  If all processes run programs that declare their tensors in   *)
(* one order, the processes give a tensor the same number in every epoch,  *)
(* push a partition to the same server under the same key, and take the    *)
(* tasks of a tensor as they announced it.                                 *)
(***************************************************************************)
EXTENDS KeyAssignmentProperties, FiniteSetTheorems, TLAPS

\* The numbers that a process has given are below next_key_ and differ.
Numbered(w) ==
    /\ \A n \in DOMAIN name_to_cxt[w] :
          /\ "declared_key" \in DOMAIN name_to_cxt[w][n]
          /\ name_to_cxt[w][n].declared_key \in Nat
          /\ name_to_cxt[w][n].declared_key < next_key[w]
    /\ \A m, n \in DOMAIN name_to_cxt[w] :
          name_to_cxt[w][m].declared_key = name_to_cxt[w][n].declared_key => m = n
Numbers ==
    /\ DOMAIN name_to_cxt = Workers /\ next_key \in [Workers -> Nat]
    /\ \A w \in Workers : Numbered(w)

\* A context that changes in a part that is not its number.
LEMMA NumberStays ==
    ASSUME Numbers, NEW w \in Workers, UNCHANGED next_key,
           DOMAIN name_to_cxt' = Workers,
           \A v \in Workers \ {w} : name_to_cxt'[v] = name_to_cxt[v],
           DOMAIN name_to_cxt'[w] = DOMAIN name_to_cxt[w],
           \A n \in DOMAIN name_to_cxt[w] :
              /\ "declared_key" \in DOMAIN name_to_cxt'[w][n]
              /\ name_to_cxt'[w][n].declared_key = name_to_cxt[w][n].declared_key
    PROVE  Numbers'
BY DEF Numbers, Numbered

\* A tensor that is declared for the first time gets the next number.
LEMMA IsTensorDeclaredKeeps ==
    ASSUME Numbers, NEW w \in Workers, NEW n, NEW kwargs, IsTensorDeclared(w, n, kwargs)
    PROVE  Numbers'
<1>1. CASE n \in DOMAIN name_to_cxt[w]
  <2> DEFINE c == [name_to_cxt[w] EXCEPT ![n].kwargs = @ \/ kwargs]
  <2>1. name_to_cxt' = [name_to_cxt EXCEPT ![w] = c] /\ UNCHANGED next_key
    BY <1>1 DEF IsTensorDeclared
  <2>2. DOMAIN c = DOMAIN name_to_cxt[w]
    OBVIOUS
  <2>3. ASSUME NEW m \in DOMAIN c
        PROVE  /\ "declared_key" \in DOMAIN c[m]
               /\ c[m].declared_key = name_to_cxt[w][m].declared_key
    <3> DEFINE b == name_to_cxt[w][n].kwargs \/ kwargs
    <3>1. c[m] = name_to_cxt[w][m] \/ c[m] = [name_to_cxt[w][m] EXCEPT !.kwargs = b]
      BY <1>1
    <3> HIDE DEF b, c
    <3> QED BY <2>2, <2>3, <3>1 DEF Numbers, Numbered
  <2> HIDE DEF c
  <2> QED BY <2>1, <2>2, <2>3, NumberStays DEF Numbers
<1>2. CASE n \notin DOMAIN name_to_cxt[w]
  <2> DEFINE r == [declared_key |-> next_key[w], initialized |-> FALSE,
                   key_list |-> <<>>, kwargs |-> kwargs]
             c == [m \in DOMAIN name_to_cxt[w] \cup {n} |-> IF m = n THEN r ELSE name_to_cxt[w][m]]
  <2>1. /\ name_to_cxt' = [name_to_cxt EXCEPT ![w] = c]
        /\ next_key' = [next_key EXCEPT ![w] = @ + 1]
    BY <1>2 DEF IsTensorDeclared
  <2>2. "declared_key" \in DOMAIN r /\ r.declared_key = next_key[w] /\ next_key[w] \in Nat
    BY DEF Numbers
  <2> HIDE DEF r
  <2>3. Numbered(w)'
    BY <1>2, <2>1, <2>2 DEF Numbers, Numbered
  <2> HIDE DEF c
  <2> QED BY <2>1, <2>2, <2>3 DEF Numbers, Numbered
<1> QED BY <1>1, <1>2

LEMMA WorkerKeepsNumbers ==
    ASSUME Numbers, NEW w \in Workers, Worker(w)
    PROVE  Numbers'
<1>1. CASE UNCHANGED <<name_to_cxt, next_key>>
  BY <1>1 DEF Numbers, Numbered
<1>2. CASE Start(w)
  BY <1>1, <1>2 DEF Start, declVars
<1>3. CASE Redeclare(w)
  BY <1>1, <1>3, IsTensorDeclaredKeeps DEF Redeclare
<1>4. CASE Declare(w)
  BY <1>4, IsTensorDeclaredKeeps DEF Declare
<1>5. CASE InitPush(w)
  <2>1. CASE UNCHANGED name_to_cxt
    BY <1>1, <1>5, <2>1 DEF InitPush
  <2>2. CASE name_to_cxt' = [name_to_cxt EXCEPT ![w][Tensor(w)].key_list = Keys(w, Tensor(w))]
    <3> DEFINE n == Tensor(w)
               keys == Keys(w, n)
               c == [name_to_cxt[w] EXCEPT ![n].key_list = keys]
    <3>1. name_to_cxt' = [name_to_cxt EXCEPT ![w] = c]
      BY <2>2
    <3> HIDE DEF n, keys
    <3>2. DOMAIN c = DOMAIN name_to_cxt[w]
      OBVIOUS
    <3>3. ASSUME NEW m \in DOMAIN c
          PROVE  /\ "declared_key" \in DOMAIN c[m]
                 /\ c[m].declared_key = name_to_cxt[w][m].declared_key
      <4>1. c[m] = name_to_cxt[w][m] \/ c[m] = [name_to_cxt[w][m] EXCEPT !.key_list = keys]
        OBVIOUS
      <4> HIDE DEF c
      <4> QED BY <3>2, <3>3, <4>1 DEF Numbers, Numbered
    <3> HIDE DEF c
    <3>4. UNCHANGED next_key
      BY <1>5 DEF InitPush
    <3> QED BY <3>1, <3>2, <3>3, <3>4, NumberStays DEF Numbers
  <2> QED BY <1>5, <2>1, <2>2 DEF InitPush
<1>6. CASE InitAnswered(w)
  <2>1. CASE UNCHANGED name_to_cxt
    BY <1>1, <1>6, <2>1 DEF InitAnswered
  <2>2. CASE name_to_cxt' = [name_to_cxt EXCEPT ![w][Tensor(w)].initialized = TRUE]
    <3> DEFINE n == Tensor(w)
               c == [name_to_cxt[w] EXCEPT ![n].initialized = TRUE]
    <3>1. name_to_cxt' = [name_to_cxt EXCEPT ![w] = c]
      BY <2>2
    <3> HIDE DEF n
    <3>2. DOMAIN c = DOMAIN name_to_cxt[w]
      OBVIOUS
    <3>3. ASSUME NEW m \in DOMAIN c
          PROVE  /\ "declared_key" \in DOMAIN c[m]
                 /\ c[m].declared_key = name_to_cxt[w][m].declared_key
      <4>1. c[m] = name_to_cxt[w][m] \/ c[m] = [name_to_cxt[w][m] EXCEPT !.initialized = TRUE]
        OBVIOUS
      <4> HIDE DEF c
      <4> QED BY <3>2, <3>3, <4>1 DEF Numbers, Numbered
    <3> HIDE DEF c
    <3>4. UNCHANGED next_key
      BY <1>6 DEF InitAnswered
    <3> QED BY <3>1, <3>2, <3>3, <3>4, NumberStays DEF Numbers
  <2> QED BY <1>6, <2>1, <2>2 DEF InitAnswered
<1>7. CASE Shutdown(w)
  BY <1>7 DEF Shutdown, ResetContexts, None, Numbers, Numbered
<1> QED BY <1>2, <1>3, <1>4, <1>5, <1>6, <1>7 DEF Worker

LEMMA InitNumbers == ASSUME Init PROVE Numbers
BY DEF Init, Numbers, Numbered, None

LEMMA NextKeepsNumbers == ASSUME Numbers, [Next]_vars PROVE Numbers'
<1>1. CASE UNCHANGED vars
  BY <1>1 DEF vars, declVars, Numbers, Numbered
<1>2. ASSUME NEW cluster, NEW program, NEW last, NEW fresh, NEW resumes,
             NextEpoch(cluster, program, last, fresh, resumes)
      PROVE  Numbers'
  <2>1. /\ name_to_cxt' = Renewed(name_to_cxt, fresh, None)
        /\ next_key' = Renewed(next_key, fresh, 0)
    BY <1>2 DEF NextEpoch
  <2> QED BY <2>1 DEF Renewed, None, Numbers, Numbered
<1> QED BY <1>1, <1>2, WorkerKeepsNumbers DEF Next, Quit

\* No two tensors of a process have one number, for any programs and however
\* often the process is suspended and resumed (global.cc:476).
THEOREM NumbersDistinct == Spec => []KeysDistinct
<1>1. Numbers => KeysDistinct
  BY DEF Numbers, Numbered, KeysDistinct
<1> QED BY <1>1, InitNumbers, NextKeepsNumbers, PTL DEF Spec

-----------------------------------------------------------------------------
(* Partitions.                                                             *)

\* What rounding up a quotient means.
LEMMA DivUpBounds ==
    ASSUME NEW x \in Nat \ {0}, NEW y \in Nat \ {0}
    PROVE  /\ DivUp(x, y) \in Nat \ {0}
           /\ (DivUp(x, y) - 1) * y < x /\ x <= DivUp(x, y) * y
<1> DEFINE q == (x + y - 1) \div y
<1>1. q \in Nat /\ q * y <= x + y - 1 /\ x + y - 1 < (q + 1) * y
  OBVIOUS
<1>2. (q - 1) * y = q * y - y /\ (q + 1) * y = q * y + y
  OBVIOUS
<1>3. q # 0
  BY <1>1
<1> HIDE DEF q
<1>4. (q - 1) * y < x /\ x <= q * y
  BY <1>1, <1>2
<1> QED BY <1>1, <1>3, <1>4 DEF DivUp, q

\* A later part starts where a bound after another has passed.
LEMMA EarlierParts ==
    ASSUME NEW i \in Nat, NEW j \in Nat, i <= j, NEW bound \in Nat
    PROVE  i * bound <= j * bound
<1>1. (j - i) * bound \in Nat
  BY j - i \in Nat
<1>2. j * bound = i * bound + (j - i) * bound
  OBVIOUS
<1> DEFINE a == i * bound
           b == j * bound
           c == (j - i) * bound
<1>3. a \in Nat /\ b \in Nat /\ c \in Nat /\ b = a + c
  BY <1>1, <1>2
<1> HIDE DEF a, b, c
<1>4. a <= b
  BY <1>3
<1> QED BY <1>4 DEF a, b

\* The parts of a tensor are not empty, none is longer than the bound, each
\* starts where the one before ends, and the last ends the tensor.
THEOREM PartsTile ==
    ASSUME NEW size \in Nat \ {0}, NEW bound \in Nat \ {0}, NEW i \in 1..Parts(size, bound)
    PROVE  /\ PartLength(size, bound, i) \in 1..bound
           /\ Offset(bound, i) + PartLength(size, bound, i) =
                IF i = Parts(size, bound) THEN size ELSE Offset(bound, i + 1)
<1> DEFINE parts == Parts(size, bound)
           offset == (i - 1) * bound
           last == (parts - 1) * bound
<1>1. parts \in Nat \ {0} /\ last < size /\ size <= parts * bound
  BY DivUpBounds DEF Parts
<1>2. i - 1 \in Nat /\ parts - 1 \in Nat /\ i \in Nat
  BY <1>1
<1>3. offset <= last
  BY <1>1, <1>2, EarlierParts
<1>4. i * bound = offset + bound /\ parts * bound = last + bound /\ offset \in Nat /\ last \in Nat
  <2>1. ASSUME NEW k \in Nat, k - 1 \in Nat
        PROVE  k * bound = (k - 1) * bound + bound /\ (k - 1) * bound \in Nat
    BY <2>1
  <2> HIDE DEF parts
  <2> QED BY <1>1, <1>2, <2>1
<1>5. ASSUME i < parts PROVE i * bound <= last
  <2> DEFINE p == parts - 1
  <2>1. p \in Nat /\ i <= p /\ last = p * bound
    BY <1>1, <1>2, <1>5
  <2> HIDE DEF p, last
  <2> QED BY <1>2, <2>1, EarlierParts
<1>6. Offset(bound, i) = offset /\ Offset(bound, i + 1) = i * bound
  BY <1>2 DEF Offset
<1>7. PartLength(size, bound, i) = IF size - offset > bound THEN bound ELSE size - offset
  BY <1>6 DEF PartLength
<1>8. i = parts => offset = last
  OBVIOUS
<1> DEFINE next == i * bound
           end == parts * bound
<1>9. /\ offset \in Nat /\ last \in Nat /\ next = offset + bound /\ end = last + bound
      /\ offset <= last /\ last < size /\ size <= end /\ (i < parts => next <= last)
  BY <1>1, <1>3, <1>4, <1>5
<1> HIDE DEF parts, offset, last, next, end
<1>10. i < parts \/ i = parts
  BY <1>1, <1>2 DEF parts
<1>11. CASE i = parts
  BY <1>6, <1>7, <1>8, <1>9, <1>11 DEF parts
<1>12. CASE i < parts
  <2>1. PartLength(size, bound, i) = bound
    BY <1>7, <1>9, <1>12
  <2>2. Offset(bound, i + 1) = next /\ i # parts
    BY <1>1, <1>2, <1>6, <1>12 DEF next
  <2> QED BY <1>6, <1>9, <2>1, <2>2 DEF parts
<1> QED BY <1>10, <1>11, <1>12

\* A key determines the tensor's number and the part, while parts are at most base.
LEMMA KeyOfOnePart ==
    ASSUME NEW base \in Nat, NEW d \in Nat, NEW e \in Nat, NEW i \in 1..base, NEW j \in 1..base,
           d * base + i - 1 = e * base + j - 1
    PROVE  d = e /\ i = j
<1>1. ASSUME NEW p \in Nat, NEW q \in Nat, NEW k \in 1..base, NEW l \in 1..base, p < q
      PROVE  p * base + k - 1 # q * base + l - 1
  <2>1. (p + 1) * base <= q * base
    BY <1>1, EarlierParts
  <2>2. (p + 1) * base = p * base + base
    OBVIOUS
  <2> DEFINE x == p * base
             y == q * base
  <2>3. x \in Nat /\ y \in Nat /\ x + base <= y
    BY <2>1, <2>2
  <2> HIDE DEF x, y
  <2>4. x + k - 1 # y + l - 1
    BY <2>3
  <2> QED BY <2>4 DEF x, y
<1>2. d = e
  BY <1>1
<1>3. d * base \in Nat
  OBVIOUS
<1> QED BY <1>2, <1>3

LEMMA BaseIsNat == Base \in Nat
BY SMT DEF Base

\* No two partitions of a process's tensors have one key (operations.cc:338-345),
\* while no tensor has more than 2^16 partitions.
KeyOf(w, n, i) == KeyList(name_to_cxt[w][n].declared_key, Base)[i]
PartitionKeysDistinct ==
    \A w \in Workers : \A m, n \in DOMAIN name_to_cxt[w], i, j \in 1..Base :
       KeyOf(w, m, i) = KeyOf(w, n, j) => m = n /\ i = j
THEOREM PartitionKeys == Spec => []PartitionKeysDistinct
<1>1. Numbers => PartitionKeysDistinct
  <2> SUFFICES ASSUME Numbers, NEW w \in Workers, NEW m \in DOMAIN name_to_cxt[w],
                      NEW n \in DOMAIN name_to_cxt[w], NEW i \in 1..Base, NEW j \in 1..Base,
                      KeyOf(w, m, i) = KeyOf(w, n, j)
               PROVE  m = n /\ i = j
    BY DEF PartitionKeysDistinct
  <2> DEFINE d == name_to_cxt[w][m].declared_key
             e == name_to_cxt[w][n].declared_key
  <2>1. d \in Nat /\ e \in Nat /\ (d = e => m = n)
    BY DEF Numbers, Numbered
  <2>2. d * Base + i - 1 = e * Base + j - 1
    BY DEF KeyOf, KeyList
  <2>3. Base \in Nat
    BY BaseIsNat
  <2> HIDE DEF d, e
  <2> QED BY <2>1, <2>2, <2>3, KeyOfOnePart
<1> QED BY <1>1, InitNumbers, NextKeepsNumbers, PTL DEF Spec

-----------------------------------------------------------------------------
(* Mixed mode.                                                             *)

\* What the checks of Hash_Mixed_Mode permit: with at least two workers, no more
\* servers on machines of their own than workers.
LEMMA RatioIsBound ==
    ASSUME NEW a \in Nat, a >= 2, NEW b \in Nat
    PROVE  RatioPermitted(a, b) <=> b <= a
<1> DEFINE ab == a * b
<1>1. /\ Numerator(a, b) = 2 * ab - 2 * b
      /\ Denominator(a, b) = a * a + ab - 2 * b
  BY DEF Numerator, Denominator
<1>2. ab \in Nat /\ a * a \in Nat /\ ab >= 2 * b /\ a * a >= 2 * a
  OBVIOUS
<1>3. ab <= a * a <=> b <= a
  OBVIOUS
<1> HIDE DEF ab
<1> QED BY <1>1, <1>2, <1>3 DEF RatioPermitted

\* A job in mixed mode has two workers at least, a server beside each of them,
\* and no more servers than the bound of the hash function.
MixedAsIntended ==
    NumWorkers >= 2 /\ \A c \in Clusters : c.knob = "mixed" => c.servers \in NumWorkers..Bound

\* A process that a check has ended stays in its epoch, and so does the job.
Busy(w) == life[w] = "up" /\ progress[w].inited < job.last
NotYet == [declared |-> 0, inited |-> 0]
Epochs ==
    /\ job.cluster \in Clusters /\ job.last \in Nat
    /\ life \in [Workers -> {"down", "resuming", "up", "left"}]
    /\ progress \in [Workers -> [declared : Nat, inited : Nat]]
    /\ waiting \in [Workers -> BOOLEAN]
    /\ \A w \in Workers : /\ progress[w].declared <= job.last
                          /\ life[w] # "up" => progress[w] = NotYet
                          /\ waiting[w] => /\ life[w] = "up"
                                           /\ progress[w].inited < progress[w].declared
    /\ aborted => HashFails(job.cluster) /\ \E w \in Workers : Busy(w)

LEMMA InitEpochs == ASSUME Init PROVE Epochs
<1>1. job.cluster \in Clusters /\ job.last \in Nat
  <2>1. PICK cluster \in Clusters, program \in Programs :
          \E last \in DOMAIN program :
             job = [cluster |-> cluster, program |-> program, last |-> last, resuming |-> {}]
    BY DEF Init
  <2>2. DOMAIN program \subseteq Nat
    BY KeyAssumption
  <2> QED BY <2>1, <2>2
<1> QED BY <1>1 DEF Init, Epochs, NotYet

LEMMA WorkerKeepsEpochs ==
    ASSUME Epochs, NEW w \in Workers, Worker(w)
    PROVE  Epochs'
<1>1. UNCHANGED job
  BY DEF Worker, Start, Redeclare, Declare, InitPush, InitAnswered, Shutdown, envVars
<1>2. CASE Start(w)
  BY <1>1, <1>2 DEF Start, Epochs, Busy, NotYet
<1>3. CASE Redeclare(w)
  BY <1>1, <1>3 DEF Redeclare, initVars, Epochs, Busy, NotYet
<1>4. CASE Declare(w)
  <2>1. /\ progress' = [progress EXCEPT ![w].declared = @ + 1]
        /\ progress[w].declared < job.last /\ life[w] = "up"
        /\ UNCHANGED <<life, waiting, aborted>>
    BY <1>4 DEF Declare
  <2>2. /\ progress'[w] = [declared |-> progress[w].declared + 1, inited |-> progress[w].inited]
        /\ progress' \in [Workers -> [declared : Nat, inited : Nat]]
        /\ \A v \in Workers \ {w} : progress'[v] = progress[v]
    BY <2>1 DEF Epochs
  <2> QED BY <1>1, <2>1, <2>2 DEF Epochs, Busy
<1>5. CASE InitPush(w)
  <2>1. /\ life[w] = "up" /\ progress[w].inited < progress[w].declared
        /\ UNCHANGED <<life, progress>>
        /\ waiting' = waiting \/ waiting' = [waiting EXCEPT ![w] = TRUE]
        /\ aborted' => aborted \/ HashFails(job.cluster)
    BY <1>5 DEF InitPush
  <2>2. progress[w].inited < job.last
    BY <2>1 DEF Epochs
  <2> QED BY <1>1, <2>1, <2>2 DEF Epochs, Busy
<1>6. CASE InitAnswered(w)
  <2>1. /\ ~aborted /\ UNCHANGED <<life, aborted>>
        /\ waiting' = [waiting EXCEPT ![w] = FALSE]
        /\ progress' = progress \/ progress' = [progress EXCEPT ![w].inited = @ + 1]
    BY <1>6 DEF InitAnswered
  <2>2. CASE UNCHANGED progress
    BY <1>1, <2>1, <2>2 DEF Epochs
  <2>3. CASE progress' = [progress EXCEPT ![w].inited = @ + 1]
    <3>1. life[w] = "up"
      BY <1>6 DEF InitAnswered, Epochs
    <3>2. /\ progress'[w] = [declared |-> progress[w].declared, inited |-> progress[w].inited + 1]
          /\ progress' \in [Workers -> [declared : Nat, inited : Nat]]
          /\ \A v \in Workers \ {w} : progress'[v] = progress[v]
      BY <2>3 DEF Epochs
    <3> QED BY <1>1, <2>1, <3>1, <3>2 DEF Epochs
  <2> QED BY <2>1, <2>2, <2>3
<1>7. CASE Shutdown(w)
  BY <1>1, <1>7 DEF Shutdown, NotYet, Epochs, Busy
<1> QED BY <1>2, <1>3, <1>4, <1>5, <1>6, <1>7 DEF Worker

LEMMA NextKeepsEpochs == ASSUME Epochs, [Next]_vars PROVE Epochs'
<1>1. CASE UNCHANGED vars
  BY <1>1 DEF vars, envVars, initVars, Epochs, Busy
<1>2. ASSUME NEW cluster \in Clusters, NEW program \in Programs, NEW last \in DOMAIN program,
             NEW fresh, NEW resumes, NextEpoch(cluster, program, last, fresh, resumes)
      PROVE  Epochs'
  <2>1. /\ job'.cluster = cluster /\ job'.last = last /\ last \in Nat
        /\ \A w \in Workers : life[w] = "left"
        /\ life' = [w \in Workers |-> "down"] /\ UNCHANGED <<progress, waiting, aborted>>
    BY <1>2, KeyAssumption DEF NextEpoch
  <2>2. ~aborted
    BY <2>1 DEF Epochs, Busy
  <2> QED BY <2>1, <2>2 DEF Epochs, NotYet
<1> QED BY <1>1, <1>2, WorkerKeepsEpochs DEF Next, Quit

\* Mixed mode ends a process only as its message says (global.cc:662): if the
\* job is set up for it, more servers are alone on their machines than there
\* are workers.
THEOREM MixedAborts ==
    ASSUME MixedAsIntended
    PROVE  Spec => []MixedAbortsAsDocumented
<1>1. ASSUME Epochs PROVE MixedAbortsAsDocumented
  <2>1. CASE aborted
    <3> DEFINE b == job.cluster.servers - NumWorkers
    <3>1. job.cluster \in Clusters /\ HashFails(job.cluster) /\ job.cluster.servers \in Nat
      BY <1>1, <2>1, KeyAssumption DEF Epochs
    <3>2. NumWorkers \in Nat
      BY KeyAssumption, FS_CardinalityType DEF NumWorkers
    <3>3. b \in Nat /\ ~RatioPermitted(NumWorkers, b)
      BY <3>1, <3>2, MixedAsIntended DEF MixedAsIntended, HashFails, Bound
    <3>4. ~(b <= NumWorkers)
      BY <3>2, <3>3, RatioIsBound DEF MixedAsIntended
    <3> QED BY <3>2, <3>3, <3>4 DEF MixedAbortsAsDocumented
  <2> QED BY <2>1 DEF MixedAbortsAsDocumented
<1> QED BY <1>1, InitEpochs, NextKeepsEpochs, PTL DEF Spec

-----------------------------------------------------------------------------
(* Types.                                                                  *)

\* The variables are tables of the workers.
Tables ==
    /\ life \in [Workers -> {"down", "resuming", "up", "left"}]
    /\ declared_tensors \in [Workers -> Seq(Names)]
    /\ DOMAIN name_to_cxt = Workers /\ next_key \in [Workers -> Nat]
    /\ redeclared \in [Workers -> Nat]
    /\ progress \in [Workers -> [declared : Nat, inited : Nat]]
    /\ sent \in [Workers -> Nat] /\ waiting \in [Workers -> BOOLEAN]
    /\ DOMAIN ps_kv = Workers /\ DOMAIN accumulated = Workers
    /\ partition_bytes \in [Workers -> Nat \ {0}]
    /\ aborted \in BOOLEAN

\* The cluster and the program of the epoch.
JobTyped ==
    /\ epoch \in 1..MaxEpoch
    /\ job.cluster \in Clusters /\ job.program \in Programs
    /\ job.last \in DOMAIN job.program /\ job.resuming \subseteq Workers

\* The contexts of a process are those of names that it remembers.
Contexts(w) ==
    \A n \in DOMAIN name_to_cxt[w] :
       /\ name_to_cxt[w][n] \in Context
       /\ \E i \in DOMAIN declared_tensors[w] : declared_tensors[w][i] = n

\* The servers in the key cache of a process are servers of the epoch.
Cached(w) ==
    /\ \A k \in DOMAIN ps_kv[w] : /\ "server" \in DOMAIN ps_kv[w][k]
                                   /\ ps_kv[w][k].server \in DOMAIN accumulated[w]
    /\ life[w] \in {"resuming", "up"} => DOMAIN accumulated[w] = 0..job.cluster.servers - 1

\* How far a process is in its epoch.
Advance(w) ==
    /\ redeclared[w] <= Len(declared_tensors[w])
    /\ progress[w].inited <= progress[w].declared /\ progress[w].declared <= job.last
    /\ \A i \in 1..progress[w].declared : job.program[i] \in DOMAIN name_to_cxt[w]
    /\ waiting[w] => progress[w].inited < progress[w].declared
    /\ life[w] # "up" => progress[w] = NotYet /\ ~waiting[w]
    /\ life[w] \in {"down", "left"} =>
          /\ name_to_cxt[w] = None /\ ps_kv[w] = None
          /\ next_key[w] = 0 /\ redeclared[w] = 0

Typed ==
    Tables /\ JobTyped /\ \A w \in Workers : Contexts(w) /\ Cached(w) /\ Advance(w)

LEMMA TypedIsTypeOK == ASSUME Typed PROVE TypeOK
<1> SUFFICES ASSUME NEW w \in Workers
             PROVE  /\ declared_tensors[w] \in Seq(Names)
                    /\ \A n \in DOMAIN name_to_cxt[w] :
                          /\ name_to_cxt[w][n] \in Context
                          /\ \E i \in DOMAIN declared_tensors[w] : declared_tensors[w][i] = n
                    /\ next_key[w] \in Nat
                    /\ redeclared[w] \in 0..Len(declared_tensors[w])
                    /\ progress[w].inited \in 0..progress[w].declared
                    /\ progress[w].declared \in 0..job.last
                    /\ \A k \in DOMAIN ps_kv[w] : ps_kv[w][k].server \in DOMAIN accumulated[w]
  BY DEF Typed, TypeOK, Tables, JobTyped
<1>1. Tables /\ Contexts(w) /\ Cached(w) /\ Advance(w) /\ job.last \in Nat
  BY KeyAssumption DEF Typed, JobTyped
<1>2. /\ progress[w].declared \in Nat /\ progress[w].inited \in Nat
      /\ declared_tensors[w] \in Seq(Names) /\ next_key[w] \in Nat /\ redeclared[w] \in Nat
  BY <1>1 DEF Tables
<1>3. Len(declared_tensors[w]) \in Nat
  BY <1>2
<1> QED BY <1>1, <1>2, <1>3 DEF Contexts, Cached, Advance

LEMMA InitTyped == ASSUME Init PROVE Typed
<1>1. JobTyped
  <2>1. PICK cluster \in Clusters, program \in Programs :
          \E last \in DOMAIN program :
             job = [cluster |-> cluster, program |-> program, last |-> last, resuming |-> {}]
    BY DEF Init
  <2>2. epoch = 1 /\ 1 \in 1..MaxEpoch
    BY KeyAssumption DEF Init
  <2> QED BY <2>1, <2>2 DEF JobTyped
<1>2. job.last \in Nat
  BY <1>1, KeyAssumption DEF JobTyped
<1>3. Tables
  <2>1. progress \in [Workers -> [declared : Nat, inited : Nat]]
    BY DEF Init
  <2>2. declared_tensors \in [Workers -> Seq(Names)]
    BY DEF Init
  <2>3. partition_bytes \in [Workers -> Nat \ {0}]
    BY KeyAssumption DEF Init
  <2> QED BY <2>1, <2>2, <2>3 DEF Init, Tables
<1>4. ASSUME NEW w \in Workers PROVE Contexts(w) /\ Cached(w) /\ Advance(w)
  <2>1. /\ name_to_cxt[w] = None /\ ps_kv[w] = None /\ declared_tensors[w] = <<>>
        /\ redeclared[w] = 0 /\ next_key[w] = 0 /\ progress[w] = NotYet
        /\ ~waiting[w] /\ life[w] = "down"
    BY DEF Init, NotYet
  <2>2. DOMAIN None = {}
    BY DEF None
  <2>3. 0 <= Len(<<>>) /\ 0 <= job.last
    BY <1>2
  <2>4. Advance(w)
    BY <2>1, <2>3 DEF Advance, NotYet
  <2> QED BY <2>1, <2>2, <2>4 DEF Contexts, Cached
<1> QED BY <1>1, <1>3, <1>4 DEF Typed

\* What IsTensorDeclared does: it may add a context, with the next number, and
\* a name to those remembered.
SameButKwargs(c, d) ==
    /\ d.declared_key = c.declared_key /\ d.initialized = c.initialized
    /\ d.key_list = c.key_list
LEMMA DeclaredEffect ==
    ASSUME Typed, NEW w \in Workers, NEW n \in Names, NEW kwargs \in BOOLEAN,
           IsTensorDeclared(w, n, kwargs)
    PROVE  /\ declared_tensors' \in [Workers -> Seq(Names)]
           /\ next_key' \in [Workers -> Nat] /\ DOMAIN name_to_cxt' = Workers
           /\ \A v \in Workers \ {w} :
                 /\ declared_tensors'[v] = declared_tensors[v]
                 /\ name_to_cxt'[v] = name_to_cxt[v] /\ next_key'[v] = next_key[v]
           /\ DOMAIN name_to_cxt'[w] = DOMAIN name_to_cxt[w] \cup {n}
           /\ \A m \in DOMAIN name_to_cxt[w] :
                 m # n => name_to_cxt'[w][m] = name_to_cxt[w][m]
           /\ name_to_cxt'[w][n] \in Context
           /\ IF n \in DOMAIN name_to_cxt[w]
              THEN /\ SameButKwargs(name_to_cxt[w][n], name_to_cxt'[w][n])
                   /\ UNCHANGED <<declared_tensors, next_key>>
              ELSE /\ name_to_cxt'[w][n].declared_key = next_key[w]
                   /\ name_to_cxt'[w][n].initialized = FALSE
                   /\ next_key'[w] = next_key[w] + 1
                   /\ declared_tensors'[w] = Remember(w, n)
<1> USE DEF Typed, Tables
<1>1. CASE n \in DOMAIN name_to_cxt[w]
  <2> DEFINE b == name_to_cxt[w][n].kwargs \/ kwargs
             c == [name_to_cxt[w] EXCEPT ![n].kwargs = b]
  <2>1. name_to_cxt' = [name_to_cxt EXCEPT ![w] = c] /\ UNCHANGED <<declared_tensors, next_key>>
    BY <1>1 DEF IsTensorDeclared
  <2>2. name_to_cxt[w][n] \in Context
    BY <1>1 DEF Contexts
  <2>3. b \in BOOLEAN
    BY <2>2 DEF Context
  <2>4. /\ DOMAIN c = DOMAIN name_to_cxt[w] /\ c[n] = [name_to_cxt[w][n] EXCEPT !.kwargs = b]
        /\ \A m \in DOMAIN name_to_cxt[w] : m # n => c[m] = name_to_cxt[w][m]
    BY <1>1
  <2> HIDE DEF b, c
  <2>5. c[n] \in Context /\ SameButKwargs(name_to_cxt[w][n], c[n])
    BY <2>2, <2>3, <2>4 DEF Context, SameButKwargs
  <2> QED BY <1>1, <2>1, <2>4, <2>5
<1>2. CASE n \notin DOMAIN name_to_cxt[w]
  <2> DEFINE r == [declared_key |-> next_key[w], initialized |-> FALSE,
                   key_list |-> <<>>, kwargs |-> kwargs]
             c == [m \in DOMAIN name_to_cxt[w] \cup {n} |->
                     IF m = n THEN r ELSE name_to_cxt[w][m]]
  <2>1. /\ name_to_cxt' = [name_to_cxt EXCEPT ![w] = c]
        /\ next_key' = [next_key EXCEPT ![w] = @ + 1]
        /\ declared_tensors' = [declared_tensors EXCEPT ![w] = Remember(w, n)]
    BY <1>2 DEF IsTensorDeclared
  <2>2. r \in Context /\ r.declared_key = next_key[w] /\ r.initialized = FALSE
    BY DEF Context
  <2>3. Remember(w, n) \in Seq(Names)
    BY DEF Remember
  <2> HIDE DEF r
  <2>4. /\ DOMAIN c = DOMAIN name_to_cxt[w] \cup {n} /\ c[n] = r
        /\ \A m \in DOMAIN name_to_cxt[w] : m # n => c[m] = name_to_cxt[w][m]
    OBVIOUS
  <2> HIDE DEF c
  <2> QED BY <1>2, <2>1, <2>2, <2>3, <2>4
<1> QED BY <1>1, <1>2

\* A process never forgets a name.
LEMMA Remembers ==
    ASSUME Typed, NEW w \in Workers, NEW n \in Names
    PROVE  /\ Len(declared_tensors[w]) <= Len(Remember(w, n))
           /\ DOMAIN declared_tensors[w] \subseteq DOMAIN Remember(w, n)
           /\ \A i \in DOMAIN declared_tensors[w] : Remember(w, n)[i] = declared_tensors[w][i]
           /\ \E i \in DOMAIN Remember(w, n) : Remember(w, n)[i] = n
           /\ \A i \in DOMAIN Remember(w, n) :
                 i \notin DOMAIN declared_tensors[w] =>
                    i = Len(declared_tensors[w]) + 1 /\ Remember(w, n)[i] = n
<1> DEFINE s == declared_tensors[w]
<1>1. s \in Seq(Names)
  BY DEF Typed, Tables
<1>2. CASE \E i \in DOMAIN s : s[i] = n
  BY <1>1, <1>2 DEF Remember
<1>3. CASE ~\E i \in DOMAIN s : s[i] = n
  <2>1. Remember(w, n) = Append(s, n)
    BY <1>3 DEF Remember
  <2> HIDE DEF s
  <2>2. /\ Len(Append(s, n)) = Len(s) + 1 /\ Append(s, n)[Len(s) + 1] = n
        /\ \A i \in 1..Len(s) : Append(s, n)[i] = s[i]
        /\ DOMAIN Append(s, n) = 1..Len(s) + 1 /\ DOMAIN s = 1..Len(s) /\ Len(s) \in Nat
    BY <1>1
  <2> QED BY <2>1, <2>2 DEF s
<1> QED BY <1>2, <1>3

LEMMA DeclaredDomain ==
    ASSUME Typed, NEW w \in Workers, NEW n \in Names, NEW kwargs \in BOOLEAN,
           IsTensorDeclared(w, n, kwargs)
    PROVE  /\ DOMAIN name_to_cxt'[w] = DOMAIN name_to_cxt[w] \cup {n}
           /\ \A m \in DOMAIN name_to_cxt[w] :
                 m # n => name_to_cxt'[w][m] = name_to_cxt[w][m]
BY DeclaredEffect

LEMMA DeclaredElsewhere ==
    ASSUME Typed, NEW w \in Workers, NEW n \in Names, NEW kwargs \in BOOLEAN,
           IsTensorDeclared(w, n, kwargs)
    PROVE  \A v \in Workers \ {w} :
             /\ declared_tensors'[v] = declared_tensors[v]
             /\ name_to_cxt'[v] = name_to_cxt[v] /\ next_key'[v] = next_key[v]
BY DeclaredEffect

LEMMA DeclaredNumber ==
    ASSUME Typed, NEW w \in Workers, NEW n \in Names, NEW kwargs \in BOOLEAN,
           IsTensorDeclared(w, n, kwargs)
    PROVE  IF n \in DOMAIN name_to_cxt[w] THEN next_key' = next_key
           ELSE next_key'[w] = next_key[w] + 1
BY DeclaredEffect

LEMMA DeclaredFields ==
    ASSUME Typed, NEW w \in Workers, NEW n \in Names, NEW kwargs \in BOOLEAN,
           IsTensorDeclared(w, n, kwargs)
    PROVE  IF n \in DOMAIN name_to_cxt[w]
           THEN SameButKwargs(name_to_cxt[w][n], name_to_cxt'[w][n])
           ELSE name_to_cxt'[w][n].initialized = FALSE
BY DeclaredEffect

LEMMA DeclaredContexts ==
    ASSUME Typed, NEW w \in Workers, NEW n \in Names, NEW kwargs \in BOOLEAN,
           IsTensorDeclared(w, n, kwargs)
    PROVE  Contexts(w)' /\ Len(declared_tensors[w]) <= Len(declared_tensors'[w])
<1> DEFINE s == declared_tensors[w]
           t == declared_tensors'[w]
           Has(q, m) == \E i \in DOMAIN q : q[i] = m
<1>1. /\ Len(s) <= Len(t) /\ (\A m \in Names : Has(s, m) => Has(t, m)) /\ Has(t, n)
  <2>1. CASE n \in DOMAIN name_to_cxt[w]
    <3>1. s = t
      BY <2>1, DeclaredEffect
    <3>2. Has(s, n)
      BY <2>1 DEF Typed, Contexts
    <3>3. s \in Seq(Names)
      BY DEF Typed, Tables
    <3> QED BY <3>1, <3>2, <3>3
  <2>2. CASE n \notin DOMAIN name_to_cxt[w]
    <3>1. t = Remember(w, n)
      BY <2>2, DeclaredEffect
    <3> QED BY <3>1, Remembers
  <2> QED BY <2>1, <2>2
<1>2. ASSUME NEW m \in DOMAIN name_to_cxt'[w]
      PROVE  name_to_cxt'[w][m] \in Context /\ Has(t, m)
  <2>1. CASE m = n
    BY <1>1, <2>1, DeclaredEffect
  <2>2. CASE m # n
    <3>1. m \in DOMAIN name_to_cxt[w] /\ name_to_cxt'[w][m] = name_to_cxt[w][m]
      BY <1>2, <2>2, DeclaredDomain
    <3>2. name_to_cxt[w][m] \in Context /\ Has(s, m) /\ s \in Seq(Names)
      BY <3>1 DEF Typed, Tables, Contexts
    <3>3. m \in Names
      BY <3>2
    <3> QED BY <1>1, <3>1, <3>2, <3>3
  <2> QED BY <2>1, <2>2
<1> QED BY <1>1, <1>2 DEF Contexts

\* A step of another process leaves a process as it is.
LEMMA ElsewhereTyped ==
    ASSUME Typed, NEW v \in Workers, UNCHANGED job,
           life'[v] = life[v], declared_tensors'[v] = declared_tensors[v],
           name_to_cxt'[v] = name_to_cxt[v], next_key'[v] = next_key[v],
           redeclared'[v] = redeclared[v], progress'[v] = progress[v],
           waiting'[v] = waiting[v], ps_kv'[v] = ps_kv[v], accumulated'[v] = accumulated[v]
    PROVE  Contexts(v)' /\ Cached(v)' /\ Advance(v)'
BY DEF Typed, Contexts, Cached, Advance

LEMMA StartTyped ==
    ASSUME Typed, NEW w \in Workers, Start(w)
    PROVE  Typed'
<1>1. RoundUp(partition_bytes[w], LocalSize[w] * PageSize) \in Nat \ {0}
  <2> DEFINE y == LocalSize[w] * PageSize
  <2>1. y \in Nat \ {0} /\ partition_bytes[w] \in Nat \ {0}
    <3>1. LocalSize[w] \in Nat \ {0} /\ PageSize \in Nat \ {0}
      BY KeyAssumption
    <3>2. \A a, b \in Nat \ {0} : a * b \in Nat \ {0}
      OBVIOUS
    <3> QED BY <3>1, <3>2 DEF Typed, Tables
  <2> HIDE DEF y
  <2>2. DivUp(partition_bytes[w], y) \in Nat \ {0}
    BY <2>1, DivUpBounds
  <2> QED BY <2>1, <2>2 DEF RoundUp, y
<1>2. /\ partition_bytes' \in [Workers -> Nat \ {0}]
      /\ life' \in [Workers -> {"down", "resuming", "up", "left"}]
      /\ DOMAIN accumulated' = Workers
      /\ UNCHANGED <<job, epoch, declVars, progress, sent, waiting, ps_kv, aborted>>
  BY <1>1 DEF Start, Typed, Tables
<1>3. Tables' /\ JobTyped'
  BY <1>2 DEF Typed, Tables, JobTyped, declVars
<1>4. ASSUME NEW v \in Workers PROVE Contexts(v)' /\ Cached(v)' /\ Advance(v)'
  <2>1. CASE v = w
    <3>1. life[w] = "down" /\ life'[w] \in {"resuming", "up"} /\ accumulated'[w] = ServerLoads(w)
      BY DEF Start, Typed, Tables
    <3>2. ps_kv[w] = None /\ DOMAIN None = {}
      BY <3>1 DEF Typed, Advance, None
    <3>3. Cached(w)'
      BY <1>2, <3>1, <3>2 DEF Cached, ServerLoads
    <3>4. Contexts(w)' /\ Advance(w)'
      BY <1>2, <3>1 DEF Typed, Contexts, Advance, declVars
    <3> QED BY <2>1, <3>3, <3>4
  <2>2. CASE v # w
    <3>1. life'[v] = life[v] /\ accumulated'[v] = accumulated[v]
      BY <2>2 DEF Start, Typed, Tables
    <3> QED BY <1>2, <3>1, ElsewhereTyped DEF declVars
  <2> QED BY <2>1, <2>2
<1> QED BY <1>3, <1>4 DEF Typed

LEMMA RedeclareTyped ==
    ASSUME Typed, NEW w \in Workers, Redeclare(w)
    PROVE  Typed'
<1>1. /\ life[w] = "resuming"
      /\ UNCHANGED <<envVars, old_key, initVars>>
  BY DEF Redeclare
<1>2. JobTyped'
  BY <1>1 DEF Typed, JobTyped, envVars
<1>3. progress[w] = NotYet /\ ~waiting[w]
  BY <1>1 DEF Typed, Advance
<1>4. CASE redeclared[w] < Len(declared_tensors[w])
  <2> DEFINE n == declared_tensors[w][redeclared[w] + 1]
  <2>1. n \in Names
    <3>1. redeclared[w] + 1 \in 1..Len(declared_tensors[w]) /\ declared_tensors[w] \in Seq(Names)
      BY <1>4 DEF Typed, Tables
    <3> QED BY <3>1
  <2>2. /\ IsTensorDeclared(w, n, FALSE) /\ UNCHANGED life
        /\ redeclared' = [redeclared EXCEPT ![w] = @ + 1]
    BY <1>4 DEF Redeclare
  <2> HIDE DEF n
  <2>3. /\ Tables'
        /\ \A v \in Workers \ {w} :
             /\ declared_tensors'[v] = declared_tensors[v]
             /\ name_to_cxt'[v] = name_to_cxt[v] /\ next_key'[v] = next_key[v]
    <3>1. /\ declared_tensors' \in [Workers -> Seq(Names)]
          /\ next_key' \in [Workers -> Nat] /\ DOMAIN name_to_cxt' = Workers
          /\ \A v \in Workers \ {w} :
                /\ declared_tensors'[v] = declared_tensors[v]
                /\ name_to_cxt'[v] = name_to_cxt[v] /\ next_key'[v] = next_key[v]
      BY <2>1, <2>2, DeclaredEffect
    <3>2. redeclared' \in [Workers -> Nat]
      BY <2>2 DEF Typed, Tables
    <3> QED BY <1>1, <2>2, <3>1, <3>2 DEF Typed, Tables, envVars, initVars
  <2>4. ASSUME NEW v \in Workers PROVE Contexts(v)' /\ Cached(v)' /\ Advance(v)'
    <3>1. CASE v = w
      <4>1. Contexts(w)' /\ Len(declared_tensors[w]) <= Len(declared_tensors'[w])
        BY <2>1, <2>2, DeclaredContexts
      <4>2. Cached(w)'
        BY <1>1, <2>2 DEF Typed, Cached, envVars, initVars
      <4>3. redeclared'[w] <= Len(declared_tensors'[w])
        <5>1. redeclared'[w] = redeclared[w] + 1 /\ redeclared[w] \in Nat
          BY <2>2 DEF Typed, Tables
        <5>2. declared_tensors[w] \in Seq(Names) /\ declared_tensors'[w] \in Seq(Names)
          BY <2>3 DEF Typed, Tables
        <5>3. Len(declared_tensors[w]) \in Nat /\ Len(declared_tensors'[w]) \in Nat
          BY <5>2
        <5> QED BY <1>4, <4>1, <5>1, <5>3
      <4>4. life'[w] = "resuming" /\ progress'[w] = NotYet /\ ~waiting'[w] /\ job' = job
        BY <1>1, <1>3, <2>2 DEF envVars, initVars
      <4>5. NotYet.declared = 0 /\ NotYet.inited = 0 /\ job.last \in Nat
        BY KeyAssumption DEF NotYet, Typed, JobTyped
      <4>6. Advance(w)'
        BY <4>3, <4>4, <4>5 DEF Advance
      <4> QED BY <3>1, <4>1, <4>2, <4>6
    <3>2. CASE v # w
      <4>1. redeclared'[v] = redeclared[v]
        BY <2>2, <3>2 DEF Typed, Tables
      <4> QED BY <1>1, <2>2, <2>3, <3>2, <4>1, ElsewhereTyped DEF envVars, initVars
    <3> QED BY <3>1, <3>2
  <2> QED BY <1>2, <2>3, <2>4 DEF Typed
<1>5. CASE ~(redeclared[w] < Len(declared_tensors[w]))
  <2>1. /\ life' = [life EXCEPT ![w] = "up"]
        /\ UNCHANGED <<declared_tensors, name_to_cxt, next_key, redeclared>>
    BY <1>5 DEF Redeclare
  <2>2. Tables'
    BY <1>1, <2>1 DEF Typed, Tables, envVars, initVars
  <2>3. ASSUME NEW v \in Workers PROVE Contexts(v)' /\ Cached(v)' /\ Advance(v)'
    <3>1. CASE v = w
      <4>1. life'[w] = "up"
        BY <2>1 DEF Typed, Tables
      <4> QED BY <1>1, <2>1, <3>1, <4>1 DEF Typed, Contexts, Cached, Advance, envVars, initVars
    <3>2. CASE v # w
      <4>1. life'[v] = life[v]
        BY <2>1, <3>2 DEF Typed, Tables
      <4> QED BY <1>1, <2>1, <4>1, ElsewhereTyped DEF envVars, initVars
    <3> QED BY <3>1, <3>2
  <2> QED BY <1>2, <2>2, <2>3 DEF Typed
<1> QED BY <1>4, <1>5

LEMMA DeclareTyped ==
    ASSUME Typed, NEW w \in Workers, Declare(w)
    PROVE  Typed'
<1> DEFINE d == progress[w].declared
           n == job.program[d + 1]
           kwargs == n \in Compressed
<1>1. /\ life[w] = "up" /\ d < job.last /\ IsTensorDeclared(w, n, kwargs)
      /\ progress' = [progress EXCEPT ![w].declared = d + 1]
      /\ UNCHANGED <<envVars, life, redeclared, old_key, sent, waiting, ps_kv, accumulated,
                     pushes, aborted>>
  BY DEF Declare
<1>2. JobTyped'
  BY <1>1 DEF Typed, JobTyped, envVars
<1>3. /\ d \in Nat /\ progress[w].inited \in Nat /\ d + 1 \in DOMAIN job.program /\ n \in Names
      /\ job.last \in Nat /\ progress[w].inited <= d
  <2>1. job.program \in Seq(Names) /\ job.last \in DOMAIN job.program
    BY KeyAssumption DEF Typed, JobTyped
  <2>2. d \in Nat /\ progress[w].inited \in Nat /\ progress[w].inited <= d
    BY DEF Typed, Tables, Advance
  <2>3. d + 1 \in 1..Len(job.program)
    BY <1>1, <2>1, <2>2
  <2> HIDE DEF d
  <2> QED BY <2>1, <2>2, <2>3
<1>4. /\ progress'[w].declared = d + 1 /\ progress'[w].inited = progress[w].inited
      /\ progress' \in [Workers -> [declared : Nat, inited : Nat]]
      /\ \A v \in Workers \ {w} : progress'[v] = progress[v]
  <2>1. progress'[w] = [declared |-> d + 1, inited |-> progress[w].inited]
    BY <1>1 DEF Typed, Tables
  <2>2. \A v \in Workers \ {w} : progress'[v] = progress[v]
    BY <1>1 DEF Typed, Tables
  <2> QED BY <1>1, <1>3, <2>1, <2>2 DEF Typed, Tables
<1>8. kwargs \in BOOLEAN
  OBVIOUS
<1> HIDE DEF d, n, kwargs
<1>5. /\ declared_tensors' \in [Workers -> Seq(Names)]
      /\ next_key' \in [Workers -> Nat] /\ DOMAIN name_to_cxt' = Workers
      /\ \A v \in Workers \ {w} :
            /\ declared_tensors'[v] = declared_tensors[v]
            /\ name_to_cxt'[v] = name_to_cxt[v] /\ next_key'[v] = next_key[v]
  BY <1>1, <1>3, <1>8, DeclaredEffect
<1>9. DOMAIN name_to_cxt'[w] = DOMAIN name_to_cxt[w] \cup {n}
  BY <1>1, <1>3, <1>8, DeclaredDomain
<1>6. Tables'
  BY <1>1, <1>4, <1>5 DEF Typed, Tables, envVars
<1>7. ASSUME NEW v \in Workers PROVE Contexts(v)' /\ Cached(v)' /\ Advance(v)'
  <2>1. CASE v = w
    <3>1. Contexts(w)' /\ Len(declared_tensors[w]) <= Len(declared_tensors'[w])
      BY <1>1, <1>3, <1>8, DeclaredContexts
    <3>2. Cached(w)'
      BY <1>1 DEF Typed, Cached, envVars
    <3>3. redeclared'[w] <= Len(declared_tensors'[w])
      <4>1. redeclared'[w] = redeclared[w] /\ redeclared[w] \in Nat
        BY <1>1 DEF Typed, Tables
      <4>2. declared_tensors[w] \in Seq(Names) /\ declared_tensors'[w] \in Seq(Names)
        BY <1>5 DEF Typed, Tables
      <4>3. Len(declared_tensors[w]) \in Nat /\ Len(declared_tensors'[w]) \in Nat
        BY <4>2
      <4>4. redeclared[w] <= Len(declared_tensors[w])
        BY DEF Typed, Advance
      <4> QED BY <3>1, <4>1, <4>3, <4>4
    <3>4. ASSUME NEW i \in 1..progress'[w].declared
          PROVE  job'.program[i] \in DOMAIN name_to_cxt'[w]
      <4>1. job' = job /\ i \in 1..d + 1
        BY <1>1, <1>4 DEF envVars
      <4>2. \A j \in 1..d : job.program[j] \in DOMAIN name_to_cxt[w]
        BY DEF Typed, Advance, d
      <4>3. i \in 1..d \/ i = d + 1
        BY <1>3, <4>1
      <4> QED BY <1>9, <4>1, <4>2, <4>3 DEF n
    <3>5. /\ progress'[w].inited <= progress'[w].declared
          /\ progress'[w].declared <= job'.last
          /\ waiting'[w] => progress'[w].inited < progress'[w].declared
      BY <1>1, <1>3, <1>4 DEF envVars
    <3>6. life'[w] = "up"
      BY <1>1
    <3>7. Advance(w)'
      BY <3>3, <3>4, <3>5, <3>6 DEF Advance
    <3> QED BY <2>1, <3>1, <3>2, <3>7
  <2>2. CASE v # w
    BY <1>1, <1>4, <1>5, <2>2, ElsewhereTyped DEF envVars
  <2> QED BY <2>1, <2>2
<1> QED BY <1>2, <1>6, <1>7 DEF Typed

\* What EncodeDefaultKey does: an encoded key keeps its server.
LEMMA EncodeEffect ==
    ASSUME Typed, NEW w \in Workers, NEW k, NEW len, NEW server,
           EncodeDefaultKey(w, k, len, server)
    PROVE  /\ DOMAIN ps_kv' = Workers /\ DOMAIN accumulated' = Workers
           /\ \A v \in Workers : DOMAIN accumulated'[v] = DOMAIN accumulated[v]
           /\ \A v \in Workers \ {w} : ps_kv'[v] = ps_kv[v] /\ accumulated'[v] = accumulated[v]
           /\ DOMAIN ps_kv'[w] = DOMAIN ps_kv[w] \cup {k}
           /\ \A j \in DOMAIN ps_kv[w] : /\ "server" \in DOMAIN ps_kv'[w][j]
                                         /\ ps_kv'[w][j].server = ps_kv[w][j].server
           /\ "server" \in DOMAIN ps_kv'[w][k] /\ ps_kv'[w][k].server = server
           /\ k \notin DOMAIN ps_kv[w] => server \in Choices(k)
<1> USE DEF Typed, Tables
<1>1. CASE k \in DOMAIN ps_kv[w]
  <2> DEFINE c == [ps_kv[w] EXCEPT ![k].len = len]
  <2>1. ps_kv' = [ps_kv EXCEPT ![w] = c] /\ UNCHANGED accumulated /\ server = ps_kv[w][k].server
    BY <1>1 DEF EncodeDefaultKey
  <2>2. DOMAIN c = DOMAIN ps_kv[w]
    OBVIOUS
  <2>3. ASSUME NEW j \in DOMAIN ps_kv[w]
        PROVE  "server" \in DOMAIN c[j] /\ c[j].server = ps_kv[w][j].server
    <3>1. c[j] = ps_kv[w][j] \/ c[j] = [ps_kv[w][j] EXCEPT !.len = len]
      BY <2>2
    <3>2. "server" \in DOMAIN ps_kv[w][j]
      BY DEF Cached
    <3> HIDE DEF c
    <3> QED BY <3>1, <3>2
  <2> HIDE DEF c
  <2> QED BY <1>1, <2>1, <2>2, <2>3
<1>2. CASE k \notin DOMAIN ps_kv[w]
  <2> DEFINE r == [server |-> server, len |-> len]
             c == [j \in DOMAIN ps_kv[w] \cup {k} |-> IF j = k THEN r ELSE ps_kv[w][j]]
             a == [accumulated[w] EXCEPT ![server] = @ + len]
  <2>1. /\ ps_kv' = [ps_kv EXCEPT ![w] = c] /\ accumulated' = [accumulated EXCEPT ![w] = a]
        /\ server \in Choices(k)
    BY <1>2 DEF EncodeDefaultKey
  <2>2. "server" \in DOMAIN r /\ r.server = server
    OBVIOUS
  <2>3. DOMAIN a = DOMAIN accumulated[w]
    OBVIOUS
  <2> HIDE DEF r, a
  <2>4. /\ DOMAIN c = DOMAIN ps_kv[w] \cup {k} /\ c[k] = r
        /\ \A j \in DOMAIN ps_kv[w] : c[j] = ps_kv[w][j]
    BY <1>2
  <2>5. \A j \in DOMAIN ps_kv[w] : "server" \in DOMAIN ps_kv[w][j]
    BY DEF Cached
  <2> HIDE DEF c
  <2> QED BY <1>2, <2>1, <2>2, <2>3, <2>4, <2>5
<1> QED BY <1>1, <1>2

\* The number of a tensor and its partitions give a sequence of keys.
LEMMA KeysAreNats ==
    ASSUME NEW d \in Nat, NEW parts \in Nat
    PROVE  KeyList(d, parts) \in Seq(Nat)
<1>1. ASSUME NEW i \in 1..parts PROVE d * Base + i - 1 \in Nat
  <2>1. d * Base \in Nat
    BY BaseIsNat
  <2> QED BY <2>1
<1> QED BY <1>1 DEF KeyList

\* The tensor that is initialised next has a context.
LEMMA TensorIsDeclared ==
    ASSUME Typed, NEW w \in Workers, progress[w].inited < progress[w].declared
    PROVE  /\ Tensor(w) \in DOMAIN name_to_cxt[w] /\ name_to_cxt[w][Tensor(w)] \in Context
           /\ Tensor(w) \in Names
           /\ Parts(Size[Tensor(w)], partition_bytes[w]) \in Nat \ {0}
           /\ Keys(w, Tensor(w)) \in Seq(Nat)
<1> DEFINE i == progress[w].inited + 1
<1>1. i \in 1..progress[w].declared
  BY DEF Typed, Tables
<1>2. Tensor(w) \in DOMAIN name_to_cxt[w] /\ name_to_cxt[w][Tensor(w)] \in Context
  BY <1>1 DEF Typed, Advance, Contexts, Tensor
<1>3. Tensor(w) \in Names
  <2>1. job.program \in Seq(Names) /\ job.last \in DOMAIN job.program
    BY KeyAssumption DEF Typed, JobTyped
  <2>2. i \in DOMAIN job.program
    <3>1. progress[w].declared <= job.last /\ progress[w].declared \in Nat
      BY DEF Typed, Tables, Advance
    <3> HIDE DEF i
    <3> QED BY <1>1, <2>1, <3>1
  <2> QED BY <2>1, <2>2 DEF Tensor
<1>4. Parts(Size[Tensor(w)], partition_bytes[w]) \in Nat \ {0}
  <2>1. Size[Tensor(w)] \in Nat \ {0} /\ partition_bytes[w] \in Nat \ {0}
    BY <1>3, KeyAssumption DEF Typed, Tables
  <2> QED BY <2>1, DivUpBounds DEF Parts
<1>5. Keys(w, Tensor(w)) \in Seq(Nat)
  <2>1. name_to_cxt[w][Tensor(w)].declared_key \in Nat
    BY <1>2 DEF Context
  <2> QED BY <1>4, <2>1, KeysAreNats DEF Keys
<1> QED BY <1>2, <1>3, <1>4, <1>5

\* A context of which another field changes.
LEMMA ContextChanges ==
    ASSUME Typed, NEW w \in Workers, NEW n \in DOMAIN name_to_cxt[w], NEW c \in Context,
           name_to_cxt' = [name_to_cxt EXCEPT ![w][n] = c],
           UNCHANGED declared_tensors
    PROVE  /\ DOMAIN name_to_cxt' = Workers /\ Contexts(w)'
           /\ DOMAIN name_to_cxt'[w] = DOMAIN name_to_cxt[w] /\ name_to_cxt'[w][n] = c
           /\ \A m \in DOMAIN name_to_cxt[w] : m # n => name_to_cxt'[w][m] = name_to_cxt[w][m]
           /\ \A v \in Workers : v # w => name_to_cxt'[v] = name_to_cxt[v]
<1> DEFINE t == [name_to_cxt[w] EXCEPT ![n] = c]
<1>1. name_to_cxt' = [name_to_cxt EXCEPT ![w] = t]
  OBVIOUS
<1>2. /\ DOMAIN t = DOMAIN name_to_cxt[w] /\ t[n] = c
      /\ \A m \in DOMAIN name_to_cxt[w] : m # n => t[m] = name_to_cxt[w][m]
  OBVIOUS
<1> HIDE DEF t
<1>3. /\ DOMAIN name_to_cxt' = Workers /\ name_to_cxt'[w] = t
      /\ \A v \in Workers : v # w => name_to_cxt'[v] = name_to_cxt[v]
  BY <1>1 DEF Typed, Tables
<1>4. Contexts(w)'
  <2>1. \A m \in DOMAIN t : t[m] \in Context
    BY <1>2 DEF Typed, Contexts
  <2> QED BY <1>2, <1>3, <2>1 DEF Typed, Contexts
<1> QED BY <1>2, <1>3, <1>4

\* What a push of InitTensor does, if the hash function permits it.
Command(w) == Commands(w, Tensor(w))[sent[w] + 1]
Pushed(w, server) ==
    [worker |-> w, server |-> server, key |-> Keys(w, Tensor(w))[Command(w).part],
     tensor |-> Tensor(w), part |-> Command(w).part, cmd |-> Command(w).cmd,
     offset |-> Offset(partition_bytes[w], Command(w).part), len |-> Command(w).len]
PushStep(w, server, c) ==
    /\ life[w] = "up" /\ progress[w].inited < progress[w].declared /\ ~waiting[w]
    /\ server \in 0..job.cluster.servers - 1
    /\ EncodeDefaultKey(w, Keys(w, Tensor(w))[Command(w).part], Command(w).len, server)
    /\ pushes' = pushes \cup {Pushed(w, server)}
    /\ waiting' = [waiting EXCEPT ![w] = TRUE]
    /\ c = [name_to_cxt[w][Tensor(w)] EXCEPT !.key_list = Keys(w, Tensor(w))]
    /\ name_to_cxt' = [name_to_cxt EXCEPT ![w][Tensor(w)] = c]
    /\ UNCHANGED <<envVars, life, declared_tensors, next_key, redeclared, old_key,
                   progress, sent, aborted>>
AbortStep(w) ==
    /\ life[w] = "up" /\ aborted' = TRUE
    /\ UNCHANGED <<envVars, life, declVars, progress, sent, waiting, ps_kv, accumulated, pushes>>
LEMMA InitPushCases ==
    ASSUME Typed, NEW w \in Workers, InitPush(w)
    PROVE  AbortStep(w) \/ \E server, c : PushStep(w, server, c)
<1>1. CASE HashFails(job.cluster)
  BY <1>1 DEF InitPush, AbortStep, declVars
<1>2. CASE ~HashFails(job.cluster)
  <2> DEFINE n == Tensor(w)
             c == [name_to_cxt[w][n] EXCEPT !.key_list = Keys(w, n)]
  <2>1. PICK server \in 0..job.cluster.servers - 1 :
          /\ EncodeDefaultKey(w, Keys(w, n)[Command(w).part], Command(w).len, server)
          /\ pushes' = pushes \cup {Pushed(w, server)}
    BY <1>2 DEF InitPush, Command, Pushed
  <2>2. /\ life[w] = "up" /\ progress[w].inited < progress[w].declared /\ ~waiting[w]
        /\ waiting' = [waiting EXCEPT ![w] = TRUE]
        /\ name_to_cxt' = [name_to_cxt EXCEPT ![w][n].key_list = Keys(w, n)]
        /\ UNCHANGED <<envVars, life, declared_tensors, next_key, redeclared, old_key,
                       progress, sent, aborted>>
    BY <1>2 DEF InitPush
  <2>3. name_to_cxt' = [name_to_cxt EXCEPT ![w][n] = c]
    BY <2>2
  <2> QED BY <2>1, <2>2, <2>3 DEF PushStep
<1> QED BY <1>1, <1>2

LEMMA InitPushTyped ==
    ASSUME Typed, NEW w \in Workers, InitPush(w)
    PROVE  Typed'
<1>1. CASE AbortStep(w)
  <2>1. Tables' /\ JobTyped'
    BY <1>1 DEF AbortStep, Typed, Tables, JobTyped, envVars, declVars
  <2>2. ASSUME NEW v \in Workers PROVE Contexts(v)' /\ Cached(v)' /\ Advance(v)'
    BY <1>1, <2>2, ElsewhereTyped DEF AbortStep, envVars, declVars
  <2> QED BY <2>1, <2>2 DEF Typed
<1>2. ASSUME NEW server, NEW c, PushStep(w, server, c)
      PROVE  Typed'
  <2> DEFINE n == Tensor(w)
             k == Keys(w, n)[Command(w).part]
             len == Command(w).len
  <2>1. /\ life[w] = "up" /\ progress[w].inited < progress[w].declared
        /\ server \in 0..job.cluster.servers - 1
        /\ waiting' = [waiting EXCEPT ![w] = TRUE]
        /\ c = [name_to_cxt[w][n] EXCEPT !.key_list = Keys(w, n)]
        /\ name_to_cxt' = [name_to_cxt EXCEPT ![w][n] = c]
        /\ UNCHANGED <<envVars, life, declared_tensors, next_key, redeclared, old_key,
                       progress, sent, aborted>>
        /\ EncodeDefaultKey(w, k, len, server)
    BY <1>2 DEF PushStep
  <2>2. /\ n \in DOMAIN name_to_cxt[w] /\ name_to_cxt[w][n] \in Context
        /\ Keys(w, n) \in Seq(Nat)
    BY <2>1, TensorIsDeclared
  <2> HIDE DEF n, k, len
  <2>3. c \in Context
    BY <2>1, <2>2 DEF Context
  <2>4. /\ DOMAIN name_to_cxt' = Workers /\ Contexts(w)'
        /\ DOMAIN name_to_cxt'[w] = DOMAIN name_to_cxt[w]
        /\ \A v \in Workers : v # w => name_to_cxt'[v] = name_to_cxt[v]
    BY <2>1, <2>2, <2>3, ContextChanges
  <2>5. /\ DOMAIN ps_kv' = Workers /\ DOMAIN accumulated' = Workers
        /\ \A v \in Workers : DOMAIN accumulated'[v] = DOMAIN accumulated[v]
        /\ \A v \in Workers \ {w} : ps_kv'[v] = ps_kv[v] /\ accumulated'[v] = accumulated[v]
        /\ DOMAIN ps_kv'[w] = DOMAIN ps_kv[w] \cup {k}
        /\ \A j \in DOMAIN ps_kv[w] : /\ "server" \in DOMAIN ps_kv'[w][j]
                                      /\ ps_kv'[w][j].server = ps_kv[w][j].server
        /\ "server" \in DOMAIN ps_kv'[w][k] /\ ps_kv'[w][k].server = server
    BY <2>1, EncodeEffect
  <2>6. Tables' /\ JobTyped'
    BY <2>1, <2>4, <2>5 DEF Typed, Tables, JobTyped, envVars
  <2>7. ASSUME NEW v \in Workers PROVE Contexts(v)' /\ Cached(v)' /\ Advance(v)'
    <3>1. CASE v = w
      <4>1. Cached(w)'
        <5>1. DOMAIN accumulated'[w] = 0..job.cluster.servers - 1
          BY <2>1, <2>5 DEF Typed, Cached
        <5>2. ASSUME NEW j \in DOMAIN ps_kv'[w]
              PROVE  "server" \in DOMAIN ps_kv'[w][j] /\ ps_kv'[w][j].server \in DOMAIN accumulated'[w]
          <6>1. CASE j = k
            BY <2>1, <2>5, <5>1, <6>1
          <6>2. CASE j # k
            BY <2>5, <5>2, <6>2 DEF Typed, Cached
          <6> QED BY <6>1, <6>2
        <5> QED BY <2>1, <5>1, <5>2 DEF Cached, envVars
      <4>2. Advance(w)'
        BY <2>1, <2>4 DEF Typed, Tables, Advance, envVars
      <4> QED BY <2>4, <3>1, <4>1, <4>2
    <3>2. CASE v # w
      <4>1. waiting'[v] = waiting[v]
        BY <2>1, <3>2 DEF Typed, Tables
      <4> QED BY <2>1, <2>4, <2>5, <3>2, <4>1, ElsewhereTyped DEF envVars
    <3> QED BY <3>1, <3>2
  <2> QED BY <2>6, <2>7 DEF Typed
<1> QED BY <1>1, <1>2, InitPushCases

\* What the answer of a push does: the next push follows, or the tensor is
\* initialised.
MoreStep(w) ==
    /\ sent[w] + 1 < Len(Commands(w, Tensor(w)))
    /\ sent' = [sent EXCEPT ![w] = @ + 1]
    /\ UNCHANGED <<progress, name_to_cxt>>
LastStep(w, c) ==
    /\ ~(sent[w] + 1 < Len(Commands(w, Tensor(w))))
    /\ sent' = [sent EXCEPT ![w] = 0]
    /\ progress' = [progress EXCEPT ![w].inited = @ + 1]
    /\ c = [name_to_cxt[w][Tensor(w)] EXCEPT !.initialized = TRUE]
    /\ name_to_cxt' = [name_to_cxt EXCEPT ![w][Tensor(w)] = c]
LEMMA InitAnsweredCases ==
    ASSUME NEW w \in Workers, InitAnswered(w)
    PROVE  MoreStep(w) \/ \E c : LastStep(w, c)
BY DEF InitAnswered, MoreStep, LastStep

LEMMA InitedNext ==
    ASSUME Typed, NEW w \in Workers, progress' = [progress EXCEPT ![w].inited = @ + 1]
    PROVE  /\ progress' \in [Workers -> [declared : Nat, inited : Nat]]
           /\ progress'[w].declared = progress[w].declared
           /\ progress'[w].inited = progress[w].inited + 1
           /\ \A v \in Workers : v # w => progress'[v] = progress[v]
<1> DEFINE i == progress[w].inited
<1>1. i \in Nat /\ progress[w].declared \in Nat
  BY DEF Typed, Tables
<1>2. progress'[w] = [declared |-> progress[w].declared, inited |-> i + 1]
  BY DEF Typed, Tables
<1>3. \A v \in Workers : v # w => progress'[v] = progress[v]
  BY DEF Typed, Tables
<1> HIDE DEF i
<1> QED BY <1>1, <1>2, <1>3 DEF Typed, Tables, i

LEMMA InitAnsweredTyped ==
    ASSUME Typed, NEW w \in Workers, InitAnswered(w)
    PROVE  Typed'
<1>1. /\ waiting[w] /\ waiting' = [waiting EXCEPT ![w] = FALSE]
      /\ UNCHANGED <<envVars, life, declared_tensors, next_key, redeclared, old_key,
                     ps_kv, accumulated, pushes, aborted>>
  BY DEF InitAnswered
<1>2. /\ life[w] = "up" /\ progress[w].inited < progress[w].declared
      /\ progress[w].inited \in Nat /\ progress[w].declared \in Nat
  BY <1>1 DEF Typed, Tables, Advance
<1>3. waiting' \in [Workers -> BOOLEAN] /\ \A v \in Workers : v # w => waiting'[v] = waiting[v]
  BY <1>1 DEF Typed, Tables
<1>4. ASSUME NEW v \in Workers PROVE Cached(v)'
  BY <1>1, <1>4 DEF Typed, Cached, envVars
<1>5. CASE MoreStep(w)
  <2>1. sent' \in [Workers -> Nat] /\ UNCHANGED <<progress, name_to_cxt>>
    BY <1>5 DEF MoreStep, Typed, Tables
  <2>2. Tables' /\ JobTyped'
    BY <1>1, <1>3, <2>1 DEF Typed, Tables, JobTyped, envVars
  <2>3. ASSUME NEW v \in Workers PROVE Contexts(v)' /\ Advance(v)'
    BY <1>1, <1>2, <1>3, <2>1, <2>3 DEF Typed, Contexts, Advance, envVars
  <2> QED BY <1>4, <2>2, <2>3 DEF Typed
<1>6. ASSUME NEW c, LastStep(w, c) PROVE Typed'
  <2> DEFINE n == Tensor(w)
  <2>1. /\ sent' = [sent EXCEPT ![w] = 0]
        /\ progress' = [progress EXCEPT ![w].inited = @ + 1]
        /\ c = [name_to_cxt[w][n] EXCEPT !.initialized = TRUE]
        /\ name_to_cxt' = [name_to_cxt EXCEPT ![w][n] = c]
    BY <1>6 DEF LastStep
  <2>2. n \in DOMAIN name_to_cxt[w] /\ name_to_cxt[w][n] \in Context
    BY <1>2, TensorIsDeclared
  <2> HIDE DEF n
  <2>3. c \in Context
    BY <2>1, <2>2 DEF Context
  <2>4. /\ DOMAIN name_to_cxt' = Workers /\ Contexts(w)'
        /\ DOMAIN name_to_cxt'[w] = DOMAIN name_to_cxt[w]
        /\ \A v \in Workers : v # w => name_to_cxt'[v] = name_to_cxt[v]
    BY <1>1, <2>1, <2>2, <2>3, ContextChanges
  <2>5. /\ progress' \in [Workers -> [declared : Nat, inited : Nat]]
        /\ progress'[w].declared = progress[w].declared
        /\ progress'[w].inited = progress[w].inited + 1
        /\ \A v \in Workers : v # w => progress'[v] = progress[v]
    BY <2>1, InitedNext
  <2>6. sent' \in [Workers -> Nat]
    BY <2>1 DEF Typed, Tables
  <2>7. Tables' /\ JobTyped'
    BY <1>1, <1>3, <2>4, <2>5, <2>6 DEF Typed, Tables, JobTyped, envVars
  <2>8. ASSUME NEW v \in Workers PROVE Contexts(v)' /\ Advance(v)'
    <3>1. CASE v = w
      <4>1. ~waiting'[w]
        BY <1>1 DEF Typed, Tables
      <4>2. Advance(w)'
        BY <1>1, <1>2, <2>4, <2>5, <4>1 DEF Typed, Advance, envVars
      <4> QED BY <2>4, <3>1, <4>2
    <3>2. CASE v # w
      BY <1>1, <1>3, <2>4, <2>5, <3>2, ElsewhereTyped DEF envVars
    <3> QED BY <3>1, <3>2
  <2> QED BY <1>4, <2>7, <2>8 DEF Typed
<1> QED BY <1>5, <1>6, InitAnsweredCases

LEMMA ShutdownTyped ==
    ASSUME Typed, NEW w \in Workers, Shutdown(w)
    PROVE  Typed'
<1>1. /\ life[w] = "up" /\ progress[w].inited = job.last
      /\ life' = [life EXCEPT ![w] = "left"]
      /\ name_to_cxt' = [name_to_cxt EXCEPT ![w] = None]
      /\ next_key' = [next_key EXCEPT ![w] = 0]
      /\ ps_kv' = [ps_kv EXCEPT ![w] = None]
      /\ accumulated' = [accumulated EXCEPT ![w] = None]
      /\ redeclared' = [redeclared EXCEPT ![w] = 0]
      /\ progress' = [progress EXCEPT ![w] = NotYet]
      /\ UNCHANGED <<envVars, declared_tensors, sent, waiting, pushes, aborted>>
  BY DEF Shutdown, ResetContexts, ResetKeys, NotYet
<1>2. NotYet \in [declared : Nat, inited : Nat]
  BY DEF NotYet
<1>3. Tables' /\ JobTyped'
  BY <1>1, <1>2 DEF Typed, Tables, JobTyped, envVars
<1>4. ASSUME NEW v \in Workers PROVE Contexts(v)' /\ Cached(v)' /\ Advance(v)'
  <2>1. CASE v = w
    <3>1. /\ name_to_cxt'[w] = None /\ ps_kv'[w] = None /\ next_key'[w] = 0
          /\ redeclared'[w] = 0 /\ progress'[w] = NotYet /\ life'[w] = "left"
      BY <1>1 DEF Typed, Tables
    <3>2. ~waiting'[w]
      <4>1. progress[w].inited = job.last /\ progress[w].declared <= job.last /\ job.last \in Nat
        BY <1>1, KeyAssumption DEF Typed, JobTyped, Advance
      <4>2. progress[w].declared \in Nat
        BY DEF Typed, Tables
      <4> QED BY <1>1, <4>1, <4>2 DEF Typed, Advance
    <3>3. job'.last \in Nat /\ Len(declared_tensors'[w]) \in Nat
      <4>1. declared_tensors'[w] \in Seq(Names) /\ job'.last \in Nat
        BY <1>1, KeyAssumption DEF Typed, Tables, JobTyped, envVars
      <4> QED BY <4>1
    <3>4. DOMAIN None = {}
      BY DEF None
    <3>5. NotYet.declared = 0 /\ NotYet.inited = 0
      BY DEF NotYet
    <3>6. Contexts(w)' /\ Cached(w)'
      BY <3>1, <3>4 DEF Contexts, Cached
    <3>7. Advance(w)'
      BY <3>1, <3>2, <3>3, <3>5 DEF Advance
    <3> QED BY <2>1, <3>6, <3>7
  <2>2. CASE v # w
    <3>1. /\ name_to_cxt'[v] = name_to_cxt[v] /\ ps_kv'[v] = ps_kv[v]
          /\ next_key'[v] = next_key[v] /\ redeclared'[v] = redeclared[v]
          /\ progress'[v] = progress[v] /\ life'[v] = life[v]
          /\ accumulated'[v] = accumulated[v]
      BY <1>1, <2>2 DEF Typed, Tables
    <3> QED BY <1>1, <3>1, ElsewhereTyped DEF envVars
  <2> QED BY <2>1, <2>2
<1> QED BY <1>3, <1>4 DEF Typed

LEMMA NextEpochTyped ==
    ASSUME Typed, NEW cluster \in Clusters, NEW program \in Programs,
           NEW last \in DOMAIN program, NEW fresh \in SUBSET Workers, NEW resumes \in BOOLEAN,
           NextEpoch(cluster, program, last, fresh, resumes)
    PROVE  Typed'
<1>1. /\ \A w \in Workers : life[w] = "left"
      /\ epoch < MaxEpoch /\ epoch' = epoch + 1
      /\ job'.cluster = cluster /\ job'.program = program /\ job'.last = last
      /\ job'.resuming \subseteq Workers
      /\ life' = [w \in Workers |-> "down"]
      /\ declared_tensors' = Renewed(declared_tensors, fresh, <<>>)
      /\ name_to_cxt' = Renewed(name_to_cxt, fresh, None)
      /\ next_key' = Renewed(next_key, fresh, 0)
      /\ ps_kv' = Renewed(ps_kv, fresh, None)
      /\ accumulated' = Renewed(accumulated, fresh, None)
      /\ partition_bytes' = Renewed(partition_bytes, fresh, PartitionBytes)
      /\ UNCHANGED <<redeclared, old_key, progress, sent, waiting, aborted>>
  BY DEF NextEpoch
<1>2. JobTyped'
  <2>1. epoch' \in 1..MaxEpoch
    BY <1>1, KeyAssumption DEF Typed, JobTyped
  <2> QED BY <1>1, <2>1 DEF JobTyped
<1>3. last \in Nat
  BY KeyAssumption
<1>4. ASSUME NEW w \in Workers
      PROVE  /\ declared_tensors'[w] \in Seq(Names) /\ name_to_cxt'[w] = None
             /\ next_key'[w] = 0 /\ ps_kv'[w] = None /\ partition_bytes'[w] \in Nat \ {0}
  BY <1>1, KeyAssumption DEF Renewed, Typed, Tables, Advance
<1>5. Tables'
  <2>1. declared_tensors' \in [Workers -> Seq(Names)]
    BY <1>1, <1>4 DEF Renewed
  <2>2. next_key' \in [Workers -> Nat] /\ partition_bytes' \in [Workers -> Nat \ {0}]
    BY <1>1, <1>4 DEF Renewed
  <2>3. DOMAIN name_to_cxt' = Workers /\ DOMAIN ps_kv' = Workers /\ DOMAIN accumulated' = Workers
    BY <1>1 DEF Renewed
  <2>4. life' \in [Workers -> {"down", "resuming", "up", "left"}]
    BY <1>1
  <2> QED BY <1>1, <2>1, <2>2, <2>3, <2>4 DEF Typed, Tables
<1>6. ASSUME NEW w \in Workers PROVE Contexts(w)' /\ Cached(w)' /\ Advance(w)'
  <2>1. /\ life'[w] = "down" /\ redeclared'[w] = 0 /\ progress'[w] = NotYet /\ ~waiting'[w]
    BY <1>1 DEF Typed, Advance
  <2>2. Len(declared_tensors'[w]) \in Nat
    BY <1>4
  <2>3. DOMAIN None = {} /\ NotYet.declared = 0 /\ NotYet.inited = 0
    BY DEF None, NotYet
  <2>4. Contexts(w)' /\ Cached(w)'
    BY <1>4, <2>1, <2>3 DEF Contexts, Cached
  <2>5. Advance(w)'
    BY <1>1, <1>3, <1>4, <2>1, <2>2, <2>3 DEF Advance
  <2> QED BY <2>4, <2>5
<1> QED BY <1>2, <1>5, <1>6 DEF Typed

LEMMA NextTyped == ASSUME Typed, [Next]_vars PROVE Typed'
<1>1. CASE UNCHANGED vars
  BY <1>1 DEF vars, envVars, declVars, initVars, Typed, Tables, JobTyped, Contexts, Cached, Advance
<1>2. ASSUME NEW w \in Workers, Worker(w) PROVE Typed'
  BY <1>2, StartTyped, RedeclareTyped, DeclareTyped, InitPushTyped, InitAnsweredTyped,
     ShutdownTyped DEF Worker
<1> QED BY <1>1, <1>2, NextEpochTyped DEF Next, Quit

\* Every variable stays in its type, for any programs: in particular a name
\* that has a context is remembered, and a cached server is one of the epoch.
THEOREM TypeCorrect == Spec => []TypeOK
<1> QED BY InitTyped, NextTyped, TypedIsTypeOK, PTL DEF Spec

-----------------------------------------------------------------------------
(* Numbers.                                                                *)

\* The programs of the job declare their tensors in one order: where one has a
\* tensor, no other has another.
OneOrder == \A p, q \in Programs : \A i \in DOMAIN p \cap DOMAIN q : p[i] = q[i]

\* Tensor n is the i-th of a program.
At(i, n) == \E p \in Programs : i \in DOMAIN p /\ p[i] = n

LEMMA AtUnique ==
    ASSUME OneOrder, NEW i, NEW j, NEW m, NEW n, At(i, m), At(j, n)
    PROVE  i = j <=> m = n
<1>1. PICK p \in Programs : i \in DOMAIN p /\ p[i] = m
  BY DEF At
<1>2. PICK q \in Programs : j \in DOMAIN q /\ q[j] = n
  BY DEF At
<1>3. /\ p \in Seq(Names) /\ q \in Seq(Names)
      /\ \A k, l \in DOMAIN p : p[k] = p[l] => k = l
      /\ \A k, l \in DOMAIN q : q[k] = q[l] => k = l
  BY KeyAssumption
<1>4. DOMAIN p \subseteq DOMAIN q \/ DOMAIN q \subseteq DOMAIN p
  BY <1>3
<1>5. \A k \in DOMAIN p \cap DOMAIN q : p[k] = q[k]
  BY DEF OneOrder
<1> QED BY <1>1, <1>2, <1>3, <1>4, <1>5

\* What a process remembers is in the order of the programs, and so are the
\* numbers that it has given.
Placed(w) ==
    /\ \A i \in DOMAIN declared_tensors[w] : At(i, declared_tensors[w][i])
    /\ next_key[w] <= Len(declared_tensors[w])
    /\ \A n \in DOMAIN name_to_cxt[w] : At(name_to_cxt[w][n].declared_key + 1, n)
    /\ \A i \in 1..next_key[w] : declared_tensors[w][i] \in DOMAIN name_to_cxt[w]
    /\ \A n \in DOMAIN old_key[w] : old_key[w][n] \in Nat /\ At(old_key[w][n] + 1, n)

\* A program is never ahead of the numbers, nor is ReDeclareTensor.
Counted(w) ==
    /\ progress[w].declared <= next_key[w]
    /\ life[w] = "resuming" => redeclared[w] = next_key[w]

Ordered ==
    /\ Typed /\ Numbers /\ DOMAIN old_key = Workers
    /\ \A w \in Workers : Placed(w) /\ Counted(w)

LEMMA DeclaredPlaced ==
    ASSUME OneOrder, Ordered, NEW w \in Workers, NEW n \in Names, NEW kwargs \in BOOLEAN,
           IsTensorDeclared(w, n, kwargs), UNCHANGED old_key,
           n \notin DOMAIN name_to_cxt[w] => At(next_key[w] + 1, n)
    PROVE  Placed(w)'
<1> DEFINE s == declared_tensors[w]
           t == declared_tensors'[w]
<1>1. Typed /\ Placed(w) /\ s \in Seq(Names) /\ next_key[w] \in Nat
  BY DEF Ordered, Typed, Tables
<1>2. /\ DOMAIN name_to_cxt'[w] = DOMAIN name_to_cxt[w] \cup {n}
      /\ \A m \in DOMAIN name_to_cxt[w] : m # n => name_to_cxt'[w][m] = name_to_cxt[w][m]
  BY <1>1, DeclaredDomain
<1>5. t \in Seq(Names)
  BY <1>1, DeclaredEffect
<1>3. CASE n \in DOMAIN name_to_cxt[w]
  <2>1. /\ name_to_cxt'[w][n].declared_key = name_to_cxt[w][n].declared_key
        /\ UNCHANGED <<declared_tensors, next_key>>
    BY <1>1, <1>3, DeclaredEffect DEF SameButKwargs
  <2>2. DOMAIN name_to_cxt'[w] = DOMAIN name_to_cxt[w]
    BY <1>2, <1>3
  <2>3. \A m \in DOMAIN name_to_cxt[w] :
          name_to_cxt'[w][m].declared_key = name_to_cxt[w][m].declared_key
    BY <1>2, <2>1
  <2> QED BY <1>1, <2>1, <2>2, <2>3 DEF Placed
<1>4. CASE n \notin DOMAIN name_to_cxt[w]
  <2>1. /\ name_to_cxt'[w][n].declared_key = next_key[w]
        /\ next_key'[w] = next_key[w] + 1 /\ t = Remember(w, n)
    BY <1>1, <1>4, DeclaredEffect
  <2>2. /\ DOMAIN s \subseteq DOMAIN t /\ \A i \in DOMAIN s : t[i] = s[i]
        /\ \E i \in DOMAIN t : t[i] = n
        /\ \A i \in DOMAIN t : i \notin DOMAIN s => i = Len(s) + 1 /\ t[i] = n
    BY <1>1, <2>1, Remembers
  <2>3. At(next_key[w] + 1, n)
    BY <1>4
  <2>4. ASSUME NEW i \in DOMAIN t PROVE At(i, t[i])
    <3>1. CASE i \in DOMAIN s
      BY <1>1, <2>2, <3>1 DEF Placed
    <3>2. CASE i \notin DOMAIN s
      <4>1. i = Len(s) + 1 /\ t[i] = n
        BY <2>2, <3>2
      <4>2. ASSUME next_key[w] # Len(s) PROVE FALSE
        <5>1. next_key[w] + 1 \in DOMAIN s
          BY <1>1, <4>2 DEF Placed
        <5>2. At(next_key[w] + 1, s[next_key[w] + 1])
          BY <1>1, <5>1 DEF Placed
        <5>3. s[next_key[w] + 1] = n
          BY <2>3, <5>2, AtUnique
        <5>4. t = s
          BY <2>1, <5>1, <5>3 DEF Remember
        <5> QED BY <3>2, <5>4
      <4> QED BY <2>3, <4>1, <4>2
    <3> QED BY <3>1, <3>2
  <2>5. next_key[w] + 1 \in DOMAIN t /\ t[next_key[w] + 1] = n
    <3>1. PICK i \in DOMAIN t : t[i] = n
      BY <2>2
    <3> QED BY <2>3, <2>4, <3>1, AtUnique
  <2>6. next_key'[w] <= Len(t)
    BY <1>1, <1>5, <2>1, <2>5
  <2>7. ASSUME NEW m \in DOMAIN name_to_cxt'[w]
        PROVE  At(name_to_cxt'[w][m].declared_key + 1, m)
    BY <1>1, <1>2, <2>1, <2>3 DEF Placed
  <2>8. ASSUME NEW i \in 1..next_key'[w] PROVE t[i] \in DOMAIN name_to_cxt'[w]
    <3>1. CASE i = next_key[w] + 1
      BY <1>2, <2>5, <3>1
    <3>2. CASE i # next_key[w] + 1
      <4>1. i \in 1..next_key[w]
        BY <1>1, <2>1, <3>2
      <4>2. i \in DOMAIN s /\ s[i] \in DOMAIN name_to_cxt[w]
        BY <1>1, <4>1 DEF Placed
      <4> QED BY <1>2, <2>2, <4>2
    <3> QED BY <3>1, <3>2
  <2> QED BY <1>1, <2>4, <2>6, <2>7, <2>8 DEF Placed
<1> QED BY <1>3, <1>4

\* A process that declares nothing keeps its numbers.
SameNumbers(v) ==
    /\ declared_tensors'[v] = declared_tensors[v] /\ next_key'[v] = next_key[v]
    /\ old_key'[v] = old_key[v] /\ DOMAIN name_to_cxt'[v] = DOMAIN name_to_cxt[v]
    /\ \A n \in DOMAIN name_to_cxt[v] :
          name_to_cxt'[v][n].declared_key = name_to_cxt[v][n].declared_key
LEMMA PlacedStays ==
    ASSUME NEW v \in Workers, Placed(v), SameNumbers(v)
    PROVE  Placed(v)'
BY DEF Placed, SameNumbers

LEMMA CountedStays ==
    ASSUME NEW v \in Workers, Counted(v), progress'[v].declared = progress[v].declared,
           next_key'[v] = next_key[v], life'[v] = "resuming" => life[v] = "resuming",
           redeclared'[v] = redeclared[v]
    PROVE  Counted(v)'
BY DEF Counted

LEMMA InitOrdered == ASSUME Init PROVE Ordered
<1>1. ASSUME NEW w \in Workers
      PROVE  Placed(w) /\ Counted(w)
  <2>1. /\ name_to_cxt[w] = None /\ old_key[w] = None /\ declared_tensors[w] = <<>>
        /\ next_key[w] = 0 /\ progress[w] = NotYet /\ life[w] = "down"
    BY DEF Init, NotYet
  <2>2. DOMAIN None = {} /\ NotYet.declared = 0
    BY DEF None, NotYet
  <2> QED BY <2>1, <2>2 DEF Placed, Counted
<1> QED BY <1>1, InitTyped, InitNumbers DEF Init, Ordered

LEMMA WorkerOrdered ==
    ASSUME OneOrder, Ordered, NEW w \in Workers, Worker(w)
    PROVE  \A v \in Workers : Placed(v)' /\ Counted(v)'
<1> USE DEF Ordered
<1> SUFFICES ASSUME NEW v \in Workers PROVE Placed(v)' /\ Counted(v)'
  OBVIOUS
<1>1. CASE Start(w)
  <2>1. UNCHANGED <<declVars, progress>> /\ (life'[v] = "resuming" => life[v] \in {"down", "resuming"})
    BY <1>1 DEF Start, Typed, Tables
  <2>2. Placed(v)'
    BY <2>1, PlacedStays DEF SameNumbers, declVars
  <2>3. life[v] = "down" => redeclared[v] = 0 /\ next_key[v] = 0
    BY DEF Typed, Advance
  <2> QED BY <2>1, <2>2, <2>3 DEF Counted, declVars
<1>2. CASE Redeclare(w)
  <2>1. life[w] = "resuming" /\ UNCHANGED <<old_key, progress>>
    BY <1>2 DEF Redeclare, initVars
  <2>2. redeclared[w] = next_key[w] /\ progress[w].declared = 0 /\ next_key[w] \in Nat
    BY <2>1 DEF Counted, Typed, Tables, Advance, NotYet
  <2>3. CASE redeclared[w] < Len(declared_tensors[w])
    <3> DEFINE n == declared_tensors[w][redeclared[w] + 1]
    <3>1. /\ IsTensorDeclared(w, n, FALSE) /\ UNCHANGED life
          /\ redeclared' = [redeclared EXCEPT ![w] = @ + 1]
      BY <1>2, <2>3 DEF Redeclare
    <3>2. n \in Names /\ At(next_key[w] + 1, n)
      <4>1. declared_tensors[w] \in Seq(Names) /\ Placed(w)
        BY DEF Typed, Tables
      <4>2. redeclared[w] + 1 \in DOMAIN declared_tensors[w]
        BY <2>2, <2>3, <4>1
      <4> QED BY <2>2, <4>1, <4>2 DEF Placed
    <3> HIDE DEF n
    <3>3. n \notin DOMAIN name_to_cxt[w]
      <4>1. SUFFICES ASSUME n \in DOMAIN name_to_cxt[w] PROVE FALSE
        OBVIOUS
      <4>2. At(name_to_cxt[w][n].declared_key + 1, n)
        BY <4>1 DEF Placed
      <4>3. /\ name_to_cxt[w][n].declared_key \in Nat
            /\ name_to_cxt[w][n].declared_key < next_key[w]
        BY <4>1 DEF Numbers, Numbered
      <4>4. name_to_cxt[w][n].declared_key + 1 = next_key[w] + 1
        BY <3>2, <4>2, AtUnique
      <4> QED BY <2>2, <4>3, <4>4
    <3>4. next_key'[w] = next_key[w] + 1
      BY <3>1, <3>2, <3>3, DeclaredEffect
    <3>5. \A u \in Workers \ {w} :
            /\ declared_tensors'[u] = declared_tensors[u]
            /\ name_to_cxt'[u] = name_to_cxt[u] /\ next_key'[u] = next_key[u]
      BY <3>1, <3>2, DeclaredEffect
    <3>6. CASE v = w
      <4>1. Placed(w)'
        BY <2>1, <3>1, <3>2, DeclaredPlaced
      <4>2. redeclared'[w] = next_key'[w] /\ progress'[w].declared <= next_key'[w]
        BY <2>1, <2>2, <3>1, <3>4 DEF Typed, Tables
      <4> QED BY <3>6, <4>1, <4>2 DEF Counted
    <3>7. CASE v # w
      <4>1. redeclared'[v] = redeclared[v]
        BY <3>1, <3>7 DEF Typed, Tables
      <4> QED BY <2>1, <3>1, <3>5, <3>7, <4>1, PlacedStays, CountedStays DEF SameNumbers
    <3> QED BY <3>6, <3>7
  <2>4. CASE ~(redeclared[w] < Len(declared_tensors[w]))
    <3>1. /\ life' = [life EXCEPT ![w] = "up"]
          /\ UNCHANGED <<declared_tensors, name_to_cxt, next_key, redeclared>>
      BY <1>2, <2>4 DEF Redeclare
    <3>2. life'[v] = "resuming" => life[v] = "resuming"
      BY <3>1 DEF Typed, Tables
    <3> QED BY <2>1, <3>1, <3>2, PlacedStays, CountedStays DEF SameNumbers
  <2> QED BY <2>3, <2>4
<1>3. CASE Declare(w)
  <2> DEFINE d == progress[w].declared
             n == job.program[d + 1]
             kwargs == n \in Compressed
  <2>1. /\ life[w] = "up" /\ d < job.last /\ IsTensorDeclared(w, n, kwargs)
        /\ progress' = [progress EXCEPT ![w].declared = d + 1]
        /\ UNCHANGED <<life, redeclared, old_key>>
    BY <1>3 DEF Declare
  <2>2. d \in Nat /\ d <= next_key[w] /\ next_key[w] \in Nat
    BY DEF Typed, Tables, Counted
  <2>3. progress'[w].declared = d + 1 /\ (v # w => progress'[v] = progress[v])
    BY <2>1 DEF Typed, Tables
  <2>4. n \in Names /\ At(d + 1, n)
    <3>1. job.program \in Programs /\ job.program \in Seq(Names) /\ job.last \in DOMAIN job.program
      BY KeyAssumption DEF Typed, JobTyped
    <3> HIDE DEF d
    <3>2. d + 1 \in DOMAIN job.program
      BY <2>1, <2>2, <3>1
    <3> QED BY <3>1, <3>2 DEF At
  <2>5. kwargs \in BOOLEAN
    OBVIOUS
  <2> HIDE DEF d, n, kwargs
  <2>6. n \notin DOMAIN name_to_cxt[w] => d = next_key[w]
    <3> SUFFICES ASSUME d # next_key[w] PROVE n \in DOMAIN name_to_cxt[w]
      OBVIOUS
    <3>1. d + 1 \in 1..next_key[w] /\ declared_tensors[w] \in Seq(Names)
      BY <2>2 DEF Typed, Tables
    <3>4. next_key[w] <= Len(declared_tensors[w]) /\ Len(declared_tensors[w]) \in Nat
      BY <3>1 DEF Placed
    <3>5. d + 1 \in DOMAIN declared_tensors[w]
      BY <2>2, <3>1, <3>4
    <3>2. /\ d + 1 \in DOMAIN declared_tensors[w]
          /\ declared_tensors[w][d + 1] \in DOMAIN name_to_cxt[w]
          /\ At(d + 1, declared_tensors[w][d + 1])
      BY <3>1, <3>5 DEF Placed
    <3>3. declared_tensors[w][d + 1] = n
      BY <2>4, <3>2, AtUnique
    <3> QED BY <3>2, <3>3
  <2>7. d + 1 <= next_key'[w]
    <3>1. CASE n \in DOMAIN name_to_cxt[w]
      <4>1. At(name_to_cxt[w][n].declared_key + 1, n)
        BY <3>1 DEF Placed
      <4>2. /\ name_to_cxt[w][n].declared_key \in Nat
            /\ name_to_cxt[w][n].declared_key < next_key[w]
        BY <3>1 DEF Numbers, Numbered
      <4>3. name_to_cxt[w][n].declared_key + 1 = d + 1
        BY <2>4, <4>1, AtUnique
      <4>4. next_key' = next_key
        BY <2>1, <2>4, <2>5, <3>1, DeclaredNumber
      <4> QED BY <2>2, <4>2, <4>3, <4>4
    <3>2. CASE n \notin DOMAIN name_to_cxt[w]
      <4>1. next_key'[w] = next_key[w] + 1
        BY <2>1, <2>4, <2>5, <3>2, DeclaredNumber
      <4> QED BY <2>2, <2>6, <3>2, <4>1
    <3> QED BY <3>1, <3>2
  <2>8. \A u \in Workers \ {w} :
          /\ declared_tensors'[u] = declared_tensors[u]
          /\ name_to_cxt'[u] = name_to_cxt[u] /\ next_key'[u] = next_key[u]
    BY <2>1, <2>4, <2>5, DeclaredElsewhere
  <2>9. CASE v = w
    <3>1. Placed(w)'
      BY <2>1, <2>4, <2>5, <2>6, DeclaredPlaced
    <3> QED BY <2>1, <2>3, <2>7, <2>9, <3>1 DEF Counted
  <2>10. CASE v # w
    BY <2>1, <2>3, <2>8, <2>10, PlacedStays, CountedStays DEF SameNumbers
  <2> QED BY <2>9, <2>10
<1>4. CASE InitPush(w)
  <2>1. /\ UNCHANGED <<life, declared_tensors, next_key, redeclared, old_key, progress>>
        /\ progress[w].inited < progress[w].declared
    BY <1>4 DEF InitPush
  <2>2. CASE UNCHANGED name_to_cxt
    BY <2>1, <2>2, PlacedStays, CountedStays DEF SameNumbers
  <2>3. ASSUME NEW server, NEW c, PushStep(w, server, c)
        PROVE  Placed(v)' /\ Counted(v)'
    <3> DEFINE n == Tensor(w)
    <3>1. /\ c = [name_to_cxt[w][n] EXCEPT !.key_list = Keys(w, n)]
          /\ name_to_cxt' = [name_to_cxt EXCEPT ![w][n] = c]
      BY <2>3 DEF PushStep
    <3>2. /\ n \in DOMAIN name_to_cxt[w] /\ name_to_cxt[w][n] \in Context
          /\ Keys(w, n) \in Seq(Nat)
      BY <2>1, TensorIsDeclared
    <3> HIDE DEF n
    <3>3. c \in Context /\ c.declared_key = name_to_cxt[w][n].declared_key
      BY <3>1, <3>2 DEF Context
    <3>4. SameNumbers(v)
      BY <2>1, <3>1, <3>2, <3>3, ContextChanges DEF SameNumbers
    <3> QED BY <2>1, <3>4, PlacedStays, CountedStays
  <2> QED BY <1>4, <2>2, <2>3, InitPushCases DEF AbortStep, declVars
<1>5. CASE InitAnswered(w)
  <2>1. /\ waiting[w] /\ UNCHANGED <<life, declared_tensors, next_key, redeclared, old_key>>
    BY <1>5 DEF InitAnswered
  <2>2. CASE MoreStep(w)
    BY <2>1, <2>2, PlacedStays, CountedStays DEF MoreStep, SameNumbers
  <2>3. ASSUME NEW c, LastStep(w, c) PROVE Placed(v)' /\ Counted(v)'
    <3> DEFINE n == Tensor(w)
    <3>1. /\ c = [name_to_cxt[w][n] EXCEPT !.initialized = TRUE]
          /\ name_to_cxt' = [name_to_cxt EXCEPT ![w][n] = c]
          /\ progress' = [progress EXCEPT ![w].inited = @ + 1]
      BY <2>3 DEF LastStep
    <3>2. n \in DOMAIN name_to_cxt[w] /\ name_to_cxt[w][n] \in Context
      BY <2>1, TensorIsDeclared DEF Typed, Advance
    <3> HIDE DEF n
    <3>3. c \in Context /\ c.declared_key = name_to_cxt[w][n].declared_key
      BY <3>1, <3>2 DEF Context
    <3>4. SameNumbers(v)
      BY <2>1, <3>1, <3>2, <3>3, ContextChanges DEF SameNumbers
    <3>5. progress'[v].declared = progress[v].declared
      BY <3>1, InitedNext
    <3> QED BY <2>1, <3>4, <3>5, PlacedStays, CountedStays
  <2> QED BY <1>5, <2>2, <2>3, InitAnsweredCases
<1>6. CASE Shutdown(w)
  <2>1. /\ life' = [life EXCEPT ![w] = "left"]
        /\ name_to_cxt' = [name_to_cxt EXCEPT ![w] = None]
        /\ next_key' = [next_key EXCEPT ![w] = 0]
        /\ redeclared' = [redeclared EXCEPT ![w] = 0]
        /\ progress' = [progress EXCEPT ![w] = NotYet]
        /\ old_key' = [old_key EXCEPT ![w] =
             [n \in DOMAIN name_to_cxt[w] |-> name_to_cxt[w][n].declared_key]]
        /\ UNCHANGED declared_tensors
    BY <1>6 DEF Shutdown, ResetContexts, NotYet
  <2>2. CASE v = w
    <3>1. /\ name_to_cxt'[w] = None /\ next_key'[w] = 0 /\ progress'[w] = NotYet
          /\ life'[w] = "left"
          /\ old_key'[w] = [n \in DOMAIN name_to_cxt[w] |-> name_to_cxt[w][n].declared_key]
      BY <2>1 DEF Typed, Tables
    <3>2. DOMAIN None = {} /\ NotYet.declared = 0
      BY DEF None, NotYet
    <3>3. Len(declared_tensors[w]) \in Nat
      <4>1. declared_tensors[w] \in Seq(Names)
        BY DEF Typed, Tables
      <4> QED BY <4>1
    <3>4. \A n \in DOMAIN name_to_cxt[w] : name_to_cxt[w][n].declared_key \in Nat
      BY DEF Numbers, Numbered
    <3> QED BY <2>1, <2>2, <3>1, <3>2, <3>3, <3>4 DEF Placed, Counted
  <2>3. CASE v # w
    <3>1. /\ name_to_cxt'[v] = name_to_cxt[v] /\ next_key'[v] = next_key[v]
          /\ progress'[v] = progress[v] /\ life'[v] = life[v]
          /\ old_key'[v] = old_key[v] /\ redeclared'[v] = redeclared[v]
      BY <2>1, <2>3 DEF Typed, Tables
    <3> QED BY <2>1, <3>1, PlacedStays, CountedStays DEF SameNumbers
  <2> QED BY <2>2, <2>3
<1> QED BY <1>1, <1>2, <1>3, <1>4, <1>5, <1>6 DEF Worker

LEMMA NextOrdered == ASSUME OneOrder, Ordered, [Next]_vars PROVE Ordered'
<1>1. Typed' /\ Numbers'
  BY NextTyped, NextKeepsNumbers DEF Ordered
<1>2. DOMAIN old_key' = Workers
  BY DEF Ordered, Next, Worker, Start, Redeclare, Declare, InitPush, InitAnswered, Shutdown,
         NextEpoch, Quit, vars, declVars
<1>3. CASE UNCHANGED vars
  BY <1>1, <1>2, <1>3 DEF Ordered, Placed, Counted, vars, declVars, initVars
<1>4. ASSUME NEW w \in Workers, Worker(w) PROVE Ordered'
  BY <1>1, <1>2, <1>4, WorkerOrdered DEF Ordered
<1>5. ASSUME NEW cluster \in Clusters, NEW program \in Programs, NEW last \in DOMAIN program,
             NEW fresh \in SUBSET Workers, NEW resumes \in BOOLEAN,
             NextEpoch(cluster, program, last, fresh, resumes)
      PROVE  Ordered'
  <2>1. /\ \A w \in Workers : life[w] = "left"
        /\ life' = [w \in Workers |-> "down"]
        /\ declared_tensors' = Renewed(declared_tensors, fresh, <<>>)
        /\ name_to_cxt' = Renewed(name_to_cxt, fresh, None)
        /\ next_key' = Renewed(next_key, fresh, 0)
        /\ UNCHANGED <<redeclared, old_key, progress>>
    BY <1>5 DEF NextEpoch
  <2>2. ASSUME NEW w \in Workers PROVE Placed(w)' /\ Counted(w)'
    <3>1. /\ name_to_cxt[w] = None /\ next_key[w] = 0 /\ progress[w] = NotYet
      BY <2>1 DEF Ordered, Typed, Advance
    <3>2. DOMAIN None = {} /\ NotYet.declared = 0
      BY DEF None, NotYet
    <3>3. /\ name_to_cxt'[w] = None /\ next_key'[w] = 0 /\ life'[w] = "down"
          /\ declared_tensors'[w] = <<>> \/ declared_tensors'[w] = declared_tensors[w]
      BY <2>1, <3>1 DEF Renewed
    <3>4. declared_tensors'[w] \in Seq(Names)
      BY <1>1 DEF Typed, Tables
    <3>5. Len(declared_tensors'[w]) \in Nat
      BY <3>4
    <3>6. \A i \in DOMAIN declared_tensors'[w] : At(i, declared_tensors'[w][i])
      BY <3>3 DEF Ordered, Placed
    <3> QED BY <2>1, <3>1, <3>2, <3>3, <3>5, <3>6 DEF Ordered, Placed, Counted
  <2> QED BY <1>1, <1>2, <2>2 DEF Ordered
<1> QED BY <1>3, <1>4, <1>5 DEF Next, Quit

\* The numbers that two processes give, and that one gives after a resume, are
\* those of the one order.
LEMMA OrderedAgrees == ASSUME OneOrder, Ordered PROVE KeysAgree
<1> USE DEF Ordered
<1>1. ASSUME NEW w \in Workers, NEW n \in DOMAIN name_to_cxt[w]
      PROVE  /\ name_to_cxt[w][n].declared_key \in Nat
             /\ At(name_to_cxt[w][n].declared_key + 1, n)
  BY <1>1 DEF Numbers, Numbered, Placed
<1>2. ASSUME NEW v \in Workers, NEW w \in Workers,
             NEW n \in DOMAIN name_to_cxt[v] \cap DOMAIN name_to_cxt[w]
      PROVE  name_to_cxt[v][n].declared_key = name_to_cxt[w][n].declared_key
  <2> DEFINE a == name_to_cxt[v][n].declared_key
             b == name_to_cxt[w][n].declared_key
  <2>1. a \in Nat /\ b \in Nat /\ At(a + 1, n) /\ At(b + 1, n)
    BY <1>1
  <2> HIDE DEF a, b
  <2>2. a + 1 = b + 1
    BY <2>1, AtUnique
  <2>3. a = b
    BY <2>1, <2>2
  <2> QED BY <2>3 DEF a, b
<1>3. ASSUME NEW w \in Workers, NEW n \in DOMAIN old_key[w] \cap DOMAIN name_to_cxt[w]
      PROVE  name_to_cxt[w][n].declared_key = old_key[w][n]
  <2> DEFINE a == name_to_cxt[w][n].declared_key
             b == old_key[w][n]
  <2>1. a \in Nat /\ b \in Nat /\ At(a + 1, n) /\ At(b + 1, n)
    BY <1>1 DEF Placed
  <2> HIDE DEF a, b
  <2>2. a + 1 = b + 1
    BY <2>1, AtUnique
  <2>3. a = b
    BY <2>1, <2>2
  <2> QED BY <2>3 DEF a, b
<1>4. job.resuming \subseteq Workers
  BY DEF Typed, JobTyped
<1> QED BY <1>2, <1>3, <1>4, TypedIsTypeOK DEF KeysAgree

\* If all programs declare their tensors in one order, any two processes give a
\* tensor one number, in every epoch, and a process that resumes gives it the
\* number it had (global.cc:476, operations.cc:124).
THEOREM KeysAgreeCorrect ==
    ASSUME OneOrder
    PROVE  Spec => []KeysAgree
<1> QED BY InitOrdered, NextOrdered, OrderedAgrees, PTL DEF Spec

-----------------------------------------------------------------------------
(* Tasks.                                                                  *)

\* The push of a command is in pushes, to the server that the cache has.
Record(w, n, c, server) ==
    [worker |-> w, server |-> server, key |-> Keys(w, n)[c.part], tensor |-> n,
     part |-> c.part, cmd |-> c.cmd, offset |-> Offset(partition_bytes[w], c.part),
     len |-> c.len]
PushFor(w, n, c) ==
    /\ Keys(w, n)[c.part] \in DOMAIN ps_kv[w]
    /\ Record(w, n, c, ps_kv[w][Keys(w, n)[c.part]].server) \in pushes
InitCommand(w, n, i) ==
    [part |-> i, cmd |-> "init", len |-> PartLength(Size[n], partition_bytes[w], i)]

\* The servers know the tensor that the process initialises up to its last
\* push, and all of a tensor that is initialised.
Reached(w) == IF waiting[w] THEN sent[w] + 1 ELSE sent[w]
Ahead(w) ==
    /\ sent[w] # 0 => sent[w] < Len(Commands(w, Tensor(w)))
    /\ \A i \in 1..Reached(w) : PushFor(w, Tensor(w), Commands(w, Tensor(w))[i])
    /\ Reached(w) > 0 => name_to_cxt[w][Tensor(w)].key_list = Keys(w, Tensor(w))
Settled(w, n) ==
    /\ name_to_cxt[w][n].key_list = Keys(w, n)
    /\ \A i \in 1..Parts(Size[n], partition_bytes[w]) : PushFor(w, n, InitCommand(w, n, i))
Told(w) ==
    /\ IF progress[w].inited < progress[w].declared THEN Ahead(w) ELSE sent[w] = 0
    /\ \A n \in DOMAIN name_to_cxt[w] : name_to_cxt[w][n].initialized => Settled(w, n)
Announced == Typed /\ \A w \in Workers : Told(w)

\* The commands of a tensor: each partition's init push comes first.
LEMMA CommandsForm ==
    ASSUME NEW w, NEW n, Parts(Size[n], partition_bytes[w]) \in Nat \ {0}
    PROVE  /\ Commands(w, n) \in Seq([part : 1..Parts(Size[n], partition_bytes[w]),
                                      cmd : {"init", "register"},
                                      len : {PartLength(Size[n], partition_bytes[w], i) :
                                               i \in 1..Parts(Size[n], partition_bytes[w])} \cup {1}])
           /\ Len(Commands(w, n)) \in Nat
           /\ Parts(Size[n], partition_bytes[w]) <= Len(Commands(w, n))
           /\ \A i \in 1..Parts(Size[n], partition_bytes[w]) :
                 Commands(w, n)[i] = InitCommand(w, n, i)
           /\ \A i \in 1..Len(Commands(w, n)) :
                 Commands(w, n)[i].len = IF Commands(w, n)[i].cmd = "init"
                    THEN PartLength(Size[n], partition_bytes[w], Commands(w, n)[i].part) ELSE 1
<1> DEFINE parts == Parts(Size[n], partition_bytes[w])
           Of(i) == PartLength(Size[n], partition_bytes[w], i)
           S == [part : 1..parts, cmd : {"init", "register"}, len : {Of(i) : i \in 1..parts} \cup {1}]
           a == [i \in 1..parts |-> [part |-> i, cmd |-> "init", len |-> Of(i)]]
           b == IF KeepsKwargs(w, n)
                THEN [i \in 1..parts |-> [part |-> i, cmd |-> "register", len |-> 1]] ELSE <<>>
<1>1. Commands(w, n) = a \o b
  BY DEF Commands
<1>2. \A i \in 1..parts : InitCommand(w, n, i) = [part |-> i, cmd |-> "init", len |-> Of(i)]
  BY DEF InitCommand
<1>3. parts \in Nat \ {0}
  OBVIOUS
<1> HIDE DEF parts, Of
<1>4. a \in Seq(S) /\ Len(a) = parts /\ \A i \in 1..parts : a[i] = InitCommand(w, n, i)
  BY <1>2, <1>3
<1>5. b \in Seq(S) /\ \A i \in 1..Len(b) : b[i].cmd = "register" /\ b[i].len = 1
  <2>1. CASE KeepsKwargs(w, n)
    <3>1. b = [i \in 1..parts |-> [part |-> i, cmd |-> "register", len |-> 1]]
      BY <2>1
    <3>2. \A i \in 1..parts : [part |-> i, cmd |-> "register", len |-> 1] \in S
      OBVIOUS
    <3> HIDE DEF b, S
    <3>3. b \in Seq(S) /\ Len(b) = parts
      BY <1>3, <3>1, <3>2
    <3> QED BY <3>1, <3>3
  <2>2. CASE ~KeepsKwargs(w, n)
    <3>1. b = <<>>
      BY <2>2
    <3> HIDE DEF b, S
    <3> QED BY <3>1
  <2> QED BY <2>1, <2>2
<1>6. \A i \in 1..Len(a) : a[i].cmd = "init" /\ a[i].len = Of(a[i].part)
  BY <1>3
<1> HIDE DEF a, b, S
<1>7. a \o b \in Seq(S) /\ Len(a \o b) = Len(a) + Len(b) /\ Len(b) \in Nat
  BY <1>4, <1>5
<1>8. ASSUME NEW i \in 1..Len(a \o b)
      PROVE  (a \o b)[i] = IF i <= Len(a) THEN a[i] ELSE b[i - Len(a)]
  BY <1>4, <1>5
<1>9. ASSUME NEW i \in 1..Len(a \o b)
      PROVE  (a \o b)[i].len = IF (a \o b)[i].cmd = "init" THEN Of((a \o b)[i].part) ELSE 1
  <2>1. CASE i <= Len(a)
    <3>1. i \in 1..Len(a) /\ (a \o b)[i] = a[i]
      BY <1>8, <2>1
    <3> QED BY <1>6, <3>1
  <2>2. CASE ~(i <= Len(a))
    <3>1. i - Len(a) \in 1..Len(b) /\ (a \o b)[i] = b[i - Len(a)]
      BY <1>3, <1>4, <1>7, <1>8, <2>2
    <3> QED BY <1>5, <3>1
  <2> QED BY <2>1, <2>2
<1>10. \A i \in 1..parts : (a \o b)[i] = InitCommand(w, n, i)
  BY <1>3, <1>4, <1>7, <1>8
<1>11. Len(a \o b) \in Nat /\ parts <= Len(a \o b)
  BY <1>3, <1>4, <1>7
<1> QED BY <1>1, <1>7, <1>9, <1>10, <1>11 DEF S, parts, Of

\* A push stays where it is while the process keeps its number, its bound, and
\* the servers in its cache.
Keeps(w, n) ==
    /\ name_to_cxt'[w][n].declared_key = name_to_cxt[w][n].declared_key
    /\ partition_bytes'[w] = partition_bytes[w]
    /\ \A k \in DOMAIN ps_kv[w] : /\ k \in DOMAIN ps_kv'[w]
                                  /\ ps_kv'[w][k].server = ps_kv[w][k].server
    /\ pushes \subseteq pushes'
LEMMA KeysStay ==
    ASSUME NEW w, NEW n, Keeps(w, n)
    PROVE  Keys(w, n)' = Keys(w, n)
BY DEF Keeps, Keys
LEMMA PushStays ==
    ASSUME NEW w, NEW n, NEW c, Keeps(w, n), PushFor(w, n, c)
    PROVE  PushFor(w, n, c)'
<1> DEFINE k == Keys(w, n)[c.part]
<1>1. Keys(w, n)' = Keys(w, n) /\ partition_bytes'[w] = partition_bytes[w]
  BY KeysStay DEF Keeps
<1>2. k \in DOMAIN ps_kv'[w] /\ ps_kv'[w][k].server = ps_kv[w][k].server
  BY DEF PushFor, Keeps
<1> QED BY <1>1, <1>2 DEF PushFor, Keeps, Record
LEMMA SettledStays ==
    ASSUME NEW w, NEW n, Keeps(w, n), Settled(w, n),
           name_to_cxt'[w][n].key_list = name_to_cxt[w][n].key_list
    PROVE  Settled(w, n)'
<1>1. /\ Keys(w, n)' = Keys(w, n) /\ partition_bytes'[w] = partition_bytes[w]
      /\ \A i : InitCommand(w, n, i)' = InitCommand(w, n, i)
  BY KeysStay DEF Keeps, InitCommand
<1>2. ASSUME NEW i \in 1..Parts(Size[n], partition_bytes[w])
      PROVE  PushFor(w, n, InitCommand(w, n, i))'
  <2>1. PICK c : c = InitCommand(w, n, i)
    OBVIOUS
  <2>2. PushFor(w, n, c)
    BY <2>1 DEF Settled
  <2>3. PushFor(w, n, c)'
    BY <2>2, PushStays
  <2>4. InitCommand(w, n, i)' = c
    BY <1>1, <2>1
  <2> QED BY <2>3, <2>4 DEF PushFor, Record
<1> QED BY <1>1, <1>2 DEF Settled

LEMMA CommandsStay ==
    ASSUME NEW w, NEW n, Keeps(w, n),
           name_to_cxt'[w][n].kwargs = name_to_cxt[w][n].kwargs
    PROVE  Commands(w, n)' = Commands(w, n)
BY DEF Keeps, Commands, KeepsKwargs

LEMMA AheadStays ==
    ASSUME NEW w, UNCHANGED job, progress'[w].inited = progress[w].inited,
           Keeps(w, Tensor(w)),
           name_to_cxt'[w][Tensor(w)].kwargs = name_to_cxt[w][Tensor(w)].kwargs,
           sent'[w] # 0 => sent'[w] < Len(Commands(w, Tensor(w))),
           NEW m, m = Reached(w)',
           \A i \in 1..m : PushFor(w, Tensor(w), Commands(w, Tensor(w))[i])
                           \/ PushFor(w, Tensor(w), Commands(w, Tensor(w))[i])',
           m > 0 => name_to_cxt'[w][Tensor(w)].key_list = Keys(w, Tensor(w))
    PROVE  Ahead(w)'
<1>1. PICK n : n = Tensor(w)
  OBVIOUS
<1>2. PICK q : q = Commands(w, n)
  OBVIOUS
<1>3. Tensor(w)' = n
  BY <1>1 DEF Tensor
<1>4. Keys(w, n)' = Keys(w, n) /\ Commands(w, n)' = q /\ Keeps(w, n)
  BY <1>1, <1>2, KeysStay, CommandsStay
<1>5. Commands(w, Tensor(w))' = q /\ Keys(w, Tensor(w))' = Keys(w, Tensor(w))
  <2>1. Commands(w, Tensor(w))' = Commands(w, n)'
    BY <1>3 DEF Commands, KeepsKwargs
  <2>2. Keys(w, Tensor(w))' = Keys(w, n)'
    BY <1>3 DEF Keys
  <2> QED BY <1>1, <1>4, <2>1, <2>2
<1>6. ASSUME NEW i \in 1..m PROVE PushFor(w, Tensor(w), Commands(w, Tensor(w))[i])'
  <2>1. PICK c : c = q[i]
    OBVIOUS
  <2>2. CASE PushFor(w, Tensor(w), Commands(w, Tensor(w))[i])
    <3>1. PushFor(w, n, c)
      BY <1>1, <1>2, <2>1, <2>2
    <3>2. PushFor(w, n, c)'
      BY <1>4, <3>1, PushStays
    <3>3. PushFor(w, Tensor(w), c)'
      BY <1>3, <3>2 DEF PushFor, Record, Keys
    <3>4. Commands(w, Tensor(w))'[i] = c
      BY <1>5, <2>1
    <3> QED BY <3>3, <3>4 DEF PushFor, Record
  <2> QED BY <2>2
<1> QED BY <1>1, <1>2, <1>3, <1>5, <1>6 DEF Ahead

LEMMA ToldStays ==
    ASSUME NEW v \in Workers, Told(v), UNCHANGED job,
           progress'[v] = progress[v], sent'[v] = sent[v], waiting'[v] = waiting[v],
           name_to_cxt'[v] = name_to_cxt[v], partition_bytes'[v] = partition_bytes[v],
           ps_kv'[v] = ps_kv[v], pushes \subseteq pushes'
    PROVE  Told(v)'
<1>1. \A n : Keeps(v, n)
  BY DEF Keeps
<1>2. ASSUME Ahead(v) PROVE Ahead(v)'
  <2>1. Reached(v)' = Reached(v)
    BY DEF Reached
  <2>2. PICK m : m = Reached(v)
    OBVIOUS
  <2> QED BY <1>1, <1>2, <2>1, <2>2, AheadStays DEF Ahead
<1>3. ASSUME NEW n, Settled(v, n) PROVE Settled(v, n)'
  BY <1>1, <1>3, SettledStays
<1> QED BY <1>2, <1>3 DEF Told

LEMMA InitAnnounced == ASSUME Init PROVE Announced
<1>1. ASSUME NEW w \in Workers PROVE Told(w)
  <2>1. name_to_cxt[w] = None /\ sent[w] = 0 /\ progress[w] = NotYet
    BY DEF Init, NotYet
  <2> QED BY <2>1 DEF None, NotYet, Told
<1> QED BY <1>1, InitTyped DEF Announced

\* What is encoded and pushed stays while the cache only grows.
LEMMA EncodeKeeps ==
    ASSUME Typed, NEW w \in Workers, NEW n, NEW k, NEW len, NEW server,
           EncodeDefaultKey(w, k, len, server), pushes \subseteq pushes',
           UNCHANGED partition_bytes,
           name_to_cxt'[w][n].declared_key = name_to_cxt[w][n].declared_key
    PROVE  Keeps(w, n)
<1>1. /\ DOMAIN ps_kv'[w] = DOMAIN ps_kv[w] \cup {k}
      /\ \A j \in DOMAIN ps_kv[w] : ps_kv'[w][j].server = ps_kv[w][j].server
  BY EncodeEffect
<1> QED BY <1>1 DEF Keeps

LEMMA DeclareTold ==
    ASSUME Announced, NEW w \in Workers, Declare(w)
    PROVE  Told(w)'
<1> DEFINE d == progress[w].declared
           t == progress[w].inited
           n == job.program[d + 1]
           kwargs == n \in Compressed
<1>1. /\ life[w] = "up" /\ d < job.last /\ IsTensorDeclared(w, n, kwargs)
      /\ progress' = [progress EXCEPT ![w].declared = d + 1]
      /\ UNCHANGED <<job, partition_bytes, sent, waiting, ps_kv, pushes>>
  BY DEF Declare, envVars
<1>2. Typed /\ Told(w) /\ Advance(w)
  BY DEF Announced, Typed
<1>3. d \in Nat /\ t \in Nat /\ t <= d /\ job.last \in Nat
  <2>1. job.last \in Nat
    BY <1>2, KeyAssumption DEF Typed, JobTyped
  <2>2. progress[w] \in [declared : Nat, inited : Nat] /\ progress[w].inited <= progress[w].declared
    BY <1>2 DEF Typed, Tables, Advance
  <2> QED BY <2>1, <2>2
<1>4. progress'[w].declared = d + 1 /\ progress'[w].inited = t
  BY <1>1, <1>2 DEF Typed, Tables
<1>5. /\ n \in Names /\ d + 1 \in DOMAIN job.program
      /\ t < d => Tensor(w) # n /\ Tensor(w) \in DOMAIN name_to_cxt[w]
  <2>1. /\ job.program \in Seq(Names) /\ job.last \in DOMAIN job.program
        /\ \A i, j \in DOMAIN job.program : job.program[i] = job.program[j] => i = j
    BY <1>2, KeyAssumption DEF Typed, JobTyped
  <2> HIDE DEF d, t
  <2>2. d + 1 \in DOMAIN job.program /\ t + 1 \in DOMAIN job.program
    BY <1>1, <1>3, <2>1
  <2>3. t < d => Tensor(w) \in DOMAIN name_to_cxt[w]
    BY <1>2, TensorIsDeclared DEF d, t
  <2> QED BY <1>3, <2>1, <2>2, <2>3 DEF Tensor, t
<1>6. kwargs \in BOOLEAN
  OBVIOUS
<1> HIDE DEF d, t, n, kwargs
<1>7. /\ DOMAIN name_to_cxt'[w] = DOMAIN name_to_cxt[w] \cup {n}
      /\ \A m \in DOMAIN name_to_cxt[w] : m # n => name_to_cxt'[w][m] = name_to_cxt[w][m]
  BY <1>1, <1>2, <1>5, <1>6, DeclaredDomain
<1>8. ASSUME t < d PROVE Ahead(w)'
  <2>1. Ahead(w)
    BY <1>2, <1>8 DEF Told, t, d
  <2>2. Keeps(w, Tensor(w)) /\ name_to_cxt'[w][Tensor(w)] = name_to_cxt[w][Tensor(w)]
    BY <1>1, <1>5, <1>7, <1>8 DEF Keeps
  <2>3. PICK m : m = Reached(w)
    OBVIOUS
  <2>4. Reached(w)' = m
    BY <1>1, <2>3 DEF Reached
  <2>5. /\ sent'[w] # 0 => sent'[w] < Len(Commands(w, Tensor(w)))
        /\ \A i \in 1..m : PushFor(w, Tensor(w), Commands(w, Tensor(w))[i])
        /\ m > 0 => name_to_cxt'[w][Tensor(w)].key_list = Keys(w, Tensor(w))
    BY <1>1, <2>1, <2>2, <2>3 DEF Ahead
  <2>6. progress'[w].inited = progress[w].inited
    BY <1>4 DEF t
  <2> QED BY <1>1, <2>2, <2>4, <2>5, <2>6, AheadStays
<1>9. ASSUME ~(t < d) PROVE Ahead(w)'
  <2>1. sent[w] = 0 /\ ~waiting[w]
    BY <1>2, <1>9 DEF Told, Advance, t, d
  <2>2. sent'[w] = 0 /\ Reached(w)' = 0
    BY <1>1, <2>1 DEF Reached
  <2> QED BY <2>2 DEF Ahead
<1>10. progress'[w].inited < progress'[w].declared
  BY <1>3, <1>4
<1>11. ASSUME NEW m \in DOMAIN name_to_cxt'[w], name_to_cxt'[w][m].initialized
       PROVE  Settled(w, m)'
  <2>1. /\ m \in DOMAIN name_to_cxt[w]
        /\ SameButKwargs(name_to_cxt[w][m], name_to_cxt'[w][m])
    <3>1. CASE m = n
      BY <1>1, <1>2, <1>5, <1>6, <1>11, <3>1, DeclaredFields
    <3>2. CASE m # n
      BY <1>7, <3>2 DEF SameButKwargs
    <3> QED BY <3>1, <3>2
  <2>2. Keeps(w, m)
    BY <1>1, <2>1 DEF Keeps, SameButKwargs
  <2>3. Settled(w, m)
    BY <1>2, <1>11, <2>1 DEF Told, SameButKwargs
  <2> QED BY <2>1, <2>2, <2>3, SettledStays DEF SameButKwargs
<1> QED BY <1>8, <1>9, <1>10, <1>11 DEF Told

LEMMA RedeclareTold ==
    ASSUME Announced, NEW w \in Workers, Redeclare(w)
    PROVE  Told(w)'
<1>1. /\ life[w] = "resuming" /\ Typed /\ Told(w) /\ progress[w] = NotYet
      /\ UNCHANGED <<job, partition_bytes, progress, sent, waiting, ps_kv, pushes>>
  BY DEF Redeclare, envVars, initVars, Announced, Typed, Advance
<1>2. ~(NotYet.inited < NotYet.declared)
  BY DEF NotYet
<1>3. sent[w] = 0
  BY <1>1, <1>2 DEF Told
<1>4. ASSUME NEW m \in DOMAIN name_to_cxt'[w], name_to_cxt'[w][m].initialized
      PROVE  Settled(w, m)'
  <2>1. /\ m \in DOMAIN name_to_cxt[w]
        /\ SameButKwargs(name_to_cxt[w][m], name_to_cxt'[w][m])
    <3>1. CASE redeclared[w] < Len(declared_tensors[w])
      <4> DEFINE n == declared_tensors[w][redeclared[w] + 1]
      <4>1. IsTensorDeclared(w, n, FALSE)
        BY <3>1 DEF Redeclare
      <4>2. n \in Names
        <5>1. declared_tensors[w] \in Seq(Names) /\ redeclared[w] \in Nat
          BY <1>1 DEF Typed, Tables
        <5>2. redeclared[w] + 1 \in DOMAIN declared_tensors[w]
          BY <3>1, <5>1
        <5> QED BY <5>1, <5>2
      <4> HIDE DEF n
      <4>3. /\ DOMAIN name_to_cxt'[w] = DOMAIN name_to_cxt[w] \cup {n}
            /\ \A l \in DOMAIN name_to_cxt[w] : l # n => name_to_cxt'[w][l] = name_to_cxt[w][l]
        BY <1>1, <4>1, <4>2, DeclaredDomain
      <4>4. CASE m = n
        BY <1>1, <1>4, <4>1, <4>2, <4>4, DeclaredFields
      <4>5. CASE m # n
        BY <4>3, <4>5 DEF SameButKwargs
      <4> QED BY <4>4, <4>5
    <3>2. CASE ~(redeclared[w] < Len(declared_tensors[w]))
      BY <3>2 DEF Redeclare, SameButKwargs
    <3> QED BY <3>1, <3>2
  <2>2. Keeps(w, m)
    BY <1>1, <2>1 DEF Keeps, SameButKwargs
  <2>3. Settled(w, m)
    BY <1>1, <1>4, <2>1 DEF Told, SameButKwargs
  <2> QED BY <2>1, <2>2, <2>3, SettledStays DEF SameButKwargs
<1> QED BY <1>1, <1>2, <1>3, <1>4 DEF Told

LEMMA InitPushTold ==
    ASSUME Announced, NEW w \in Workers, NEW server, NEW c, PushStep(w, server, c)
    PROVE  Told(w)'
<1>1. PICK n : n = Tensor(w)
  OBVIOUS
<1>2. PICK command : command = Command(w)
  OBVIOUS
<1>3. PICK keys : keys = Keys(w, n)
  OBVIOUS
<1> DEFINE k == keys[command.part]
<1>4. /\ progress[w].inited < progress[w].declared /\ ~waiting[w]
      /\ EncodeDefaultKey(w, k, command.len, server)
      /\ pushes' = pushes \cup {Pushed(w, server)}
      /\ waiting' = [waiting EXCEPT ![w] = TRUE]
      /\ c = [name_to_cxt[w][n] EXCEPT !.key_list = keys]
      /\ name_to_cxt' = [name_to_cxt EXCEPT ![w][n] = c]
      /\ UNCHANGED <<job, partition_bytes, declared_tensors, progress, sent>>
  BY <1>1, <1>2, <1>3 DEF PushStep, envVars
<1>5. Typed /\ Told(w) /\ Ahead(w)
  BY <1>4 DEF Announced, Told
<1>6. /\ n \in DOMAIN name_to_cxt[w] /\ name_to_cxt[w][n] \in Context
      /\ keys \in Seq(Nat)
  BY <1>1, <1>3, <1>4, <1>5, TensorIsDeclared
<1>7. /\ c \in Context /\ c.declared_key = name_to_cxt[w][n].declared_key
      /\ c.kwargs = name_to_cxt[w][n].kwargs /\ c.key_list = keys
      /\ c.initialized = name_to_cxt[w][n].initialized
  BY <1>4, <1>6 DEF Context
<1>8. /\ DOMAIN name_to_cxt'[w] = DOMAIN name_to_cxt[w] /\ name_to_cxt'[w][n] = c
      /\ \A m \in DOMAIN name_to_cxt[w] : m # n => name_to_cxt'[w][m] = name_to_cxt[w][m]
  BY <1>4, <1>5, <1>6, <1>7, ContextChanges
<1>9. ps_kv'[w][k].server = server /\ k \in DOMAIN ps_kv'[w]
  BY <1>4, <1>5, EncodeEffect
<1>10. ASSUME NEW m \in DOMAIN name_to_cxt[w] PROVE Keeps(w, m)
  BY <1>4, <1>5, <1>7, <1>8, EncodeKeeps
<1>11. PushFor(w, Tensor(w), command)'
  <2>1. Keys(w, n)' = keys
    BY <1>3, <1>6, <1>10, KeysStay
  <2>2. Tensor(w)' = n
    BY <1>1, <1>4 DEF Tensor
  <2>3. Pushed(w, server) =
          [worker |-> w, server |-> server, key |-> k, tensor |-> n, part |-> command.part,
           cmd |-> command.cmd, offset |-> Offset(partition_bytes[w], command.part),
           len |-> command.len]
    BY <1>1, <1>2, <1>3 DEF Pushed
  <2>4. PushFor(w, n, command)'
    BY <1>4, <1>9, <2>1, <2>3 DEF PushFor, Record
  <2> QED BY <2>2, <2>4 DEF PushFor, Record, Keys
<1>12. sent[w] \in Nat /\ waiting'[w] /\ Reached(w) = sent[w] /\ Reached(w)' = sent[w] + 1
  BY <1>4, <1>5 DEF Typed, Tables, Reached
<1>13. Ahead(w)'
  <2>1. PICK m : m = sent[w] + 1
    OBVIOUS
  <2>2. Commands(w, Tensor(w))[m] = command
    BY <1>1, <1>2, <2>1 DEF Command
  <2>3. PushFor(w, Tensor(w), Commands(w, Tensor(w))[m])'
    <3>1. Tensor(w)' = n
      BY <1>1, <1>4 DEF Tensor
    <3>2. Commands(w, n)' = Commands(w, n)
      BY <1>6, <1>7, <1>8, <1>10, CommandsStay
    <3>3. Commands(w, Tensor(w))' = Commands(w, n)'
      BY <3>1 DEF Commands, KeepsKwargs
    <3>4. Commands(w, Tensor(w))'[m] = command
      BY <1>1, <2>2, <3>2, <3>3
    <3> QED BY <1>11, <3>4 DEF PushFor, Record
  <2>4. \A i \in 1..m : PushFor(w, Tensor(w), Commands(w, Tensor(w))[i])
                        \/ PushFor(w, Tensor(w), Commands(w, Tensor(w))[i])'
    <3> SUFFICES ASSUME NEW i \in 1..m
                 PROVE  PushFor(w, Tensor(w), Commands(w, Tensor(w))[i])
                        \/ PushFor(w, Tensor(w), Commands(w, Tensor(w))[i])'
      OBVIOUS
    <3>1. CASE i = m
      BY <2>3, <3>1
    <3>2. CASE i # m
      <4>1. i \in 1..Reached(w)
        BY <1>12, <2>1, <3>2
      <4> QED BY <1>5, <4>1 DEF Ahead
    <3> QED BY <3>1, <3>2
  <2>5. name_to_cxt'[w][Tensor(w)].key_list = Keys(w, Tensor(w))
    BY <1>1, <1>3, <1>7, <1>8
  <2>6. sent'[w] # 0 => sent'[w] < Len(Commands(w, Tensor(w)))
    BY <1>4, <1>5 DEF Ahead
  <2>7. Keeps(w, Tensor(w)) /\ name_to_cxt'[w][Tensor(w)].kwargs = name_to_cxt[w][Tensor(w)].kwargs
    BY <1>1, <1>6, <1>7, <1>8, <1>10
  <2> QED BY <1>4, <1>12, <2>1, <2>4, <2>5, <2>6, <2>7, AheadStays
<1>14. ASSUME NEW m \in DOMAIN name_to_cxt'[w], name_to_cxt'[w][m].initialized
       PROVE  Settled(w, m)'
  <2>1. m \in DOMAIN name_to_cxt[w] /\ name_to_cxt[w][m].initialized
    BY <1>7, <1>8, <1>14
  <2>2. Settled(w, m) /\ Keeps(w, m)
    BY <1>5, <1>10, <2>1 DEF Told
  <2>3. name_to_cxt'[w][m].key_list = name_to_cxt[w][m].key_list
    BY <1>3, <1>7, <1>8, <2>1, <2>2 DEF Settled
  <2> QED BY <2>2, <2>3, SettledStays
<1> QED BY <1>4, <1>13, <1>14 DEF Told

LEMMA MoreTold ==
    ASSUME Announced, NEW w \in Workers, InitAnswered(w), MoreStep(w)
    PROVE  Told(w)'
<1>1. /\ waiting[w] /\ waiting' = [waiting EXCEPT ![w] = FALSE]
      /\ sent[w] + 1 < Len(Commands(w, Tensor(w))) /\ sent' = [sent EXCEPT ![w] = @ + 1]
      /\ UNCHANGED <<job, partition_bytes, progress, name_to_cxt, ps_kv, pushes>>
  BY DEF InitAnswered, MoreStep, envVars
<1>2. Typed /\ Told(w) /\ Ahead(w) /\ progress[w].inited < progress[w].declared
  BY <1>1 DEF Announced, Typed, Advance, Told
<1>3. ~waiting'[w] /\ sent[w] \in Nat /\ sent'[w] = sent[w] + 1
  BY <1>1, <1>2 DEF Typed, Tables
<1>4. Reached(w) = sent[w] + 1 /\ Reached(w)' = sent[w] + 1
  BY <1>1, <1>3 DEF Reached
<1>5. \A m : Keeps(w, m)
  BY <1>1 DEF Keeps
<1>6. Ahead(w)'
  <2>1. PICK m : m = sent[w] + 1
    OBVIOUS
  <2>2. /\ \A i \in 1..m : PushFor(w, Tensor(w), Commands(w, Tensor(w))[i])
        /\ name_to_cxt[w][Tensor(w)].key_list = Keys(w, Tensor(w))
    BY <1>2, <1>3, <1>4, <2>1 DEF Ahead
  <2> QED BY <1>1, <1>3, <1>4, <1>5, <2>1, <2>2, AheadStays
<1>7. ASSUME NEW m, Settled(w, m) PROVE Settled(w, m)'
  BY <1>1, <1>5, <1>7, SettledStays
<1> QED BY <1>1, <1>2, <1>6, <1>7 DEF Told

LEMMA LastTold ==
    ASSUME Announced, NEW w \in Workers, InitAnswered(w), NEW c, LastStep(w, c)
    PROVE  Told(w)'
<1>1. PICK n : n = Tensor(w)
  OBVIOUS
<1>2. /\ waiting[w] /\ waiting' = [waiting EXCEPT ![w] = FALSE]
      /\ ~(sent[w] + 1 < Len(Commands(w, n))) /\ sent' = [sent EXCEPT ![w] = 0]
      /\ c = [name_to_cxt[w][n] EXCEPT !.initialized = TRUE]
      /\ name_to_cxt' = [name_to_cxt EXCEPT ![w][n] = c]
      /\ UNCHANGED <<job, partition_bytes, declared_tensors, ps_kv, pushes>>
  BY <1>1 DEF InitAnswered, LastStep, envVars
<1>3. Typed /\ Told(w) /\ Ahead(w) /\ progress[w].inited < progress[w].declared
  BY <1>2 DEF Announced, Typed, Advance, Told
<1>4. /\ n \in DOMAIN name_to_cxt[w] /\ name_to_cxt[w][n] \in Context
      /\ Parts(Size[n], partition_bytes[w]) \in Nat \ {0}
  BY <1>1, <1>3, TensorIsDeclared
<1>5. /\ c \in Context /\ c.declared_key = name_to_cxt[w][n].declared_key
      /\ c.key_list = name_to_cxt[w][n].key_list
  BY <1>2, <1>4 DEF Context
<1>6. /\ DOMAIN name_to_cxt'[w] = DOMAIN name_to_cxt[w] /\ name_to_cxt'[w][n] = c
      /\ \A m \in DOMAIN name_to_cxt[w] : m # n => name_to_cxt'[w][m] = name_to_cxt[w][m]
  BY <1>2, <1>3, <1>4, <1>5, ContextChanges
<1>7. ~waiting'[w] /\ sent[w] \in Nat /\ sent'[w] = 0
  BY <1>2, <1>3 DEF Typed, Tables
<1>8. Ahead(w)'
  <2>1. Reached(w)' = 0
    BY <1>7 DEF Reached
  <2> QED BY <1>7, <2>1 DEF Ahead
<1>9. Settled(w, n)
  <2>1. Reached(w) = sent[w] + 1
    BY <1>2 DEF Reached
  <2>2. /\ name_to_cxt[w][n].key_list = Keys(w, n)
        /\ \A i \in 1..sent[w] + 1 : PushFor(w, n, Commands(w, n)[i])
    BY <1>1, <1>3, <1>7, <2>1 DEF Ahead
  <2> DEFINE parts == Parts(Size[n], partition_bytes[w])
  <2>3. /\ parts <= Len(Commands(w, n)) /\ Len(Commands(w, n)) \in Nat
        /\ \A i \in 1..parts : Commands(w, n)[i] = InitCommand(w, n, i)
    BY <1>4, CommandsForm
  <2>4. ASSUME NEW i \in 1..parts PROVE PushFor(w, n, InitCommand(w, n, i))
    <3>1. parts \in Nat
      BY <1>4
    <3> HIDE DEF parts
    <3>2. i \in 1..sent[w] + 1
      BY <1>2, <1>7, <2>3, <2>4, <3>1
    <3> QED BY <2>2, <2>3, <2>4, <3>2
  <2> QED BY <2>2, <2>4 DEF Settled
<1>10. ASSUME NEW m \in DOMAIN name_to_cxt'[w], name_to_cxt'[w][m].initialized
       PROVE  Settled(w, m)'
  <2>1. /\ m \in DOMAIN name_to_cxt[w]
        /\ name_to_cxt'[w][m].declared_key = name_to_cxt[w][m].declared_key
        /\ name_to_cxt'[w][m].key_list = name_to_cxt[w][m].key_list
    BY <1>5, <1>6
  <2>2. Keeps(w, m)
    BY <1>2, <2>1 DEF Keeps
  <2>3. Settled(w, m)
    BY <1>3, <1>6, <1>9, <1>10, <2>1 DEF Told
  <2> QED BY <2>1, <2>2, <2>3, SettledStays
<1> QED BY <1>7, <1>8, <1>10 DEF Told

LEMMA WorkerAnnounced ==
    ASSUME Announced, NEW w \in Workers, Worker(w)
    PROVE  \A v \in Workers : Told(v)'
<1> USE DEF Announced
<1>1. ASSUME NEW v \in Workers,
             progress'[v] = progress[v], sent'[v] = sent[v], waiting'[v] = waiting[v],
             name_to_cxt'[v] = name_to_cxt[v], partition_bytes'[v] = partition_bytes[v],
             ps_kv'[v] = ps_kv[v], pushes \subseteq pushes', UNCHANGED job
      PROVE  Told(v)'
  BY <1>1, ToldStays
<1>2. ASSUME NEW v \in Workers, v # w PROVE Told(v)'
  <2>1. name_to_cxt'[v] = name_to_cxt[v]
    BY <1>2 DEF Worker, Start, Redeclare, Declare, InitPush, InitAnswered, Shutdown, declVars,
                IsTensorDeclared, ResetContexts, Typed, Tables
  <2>2. progress'[v] = progress[v] /\ sent'[v] = sent[v] /\ waiting'[v] = waiting[v]
    BY <1>2 DEF Worker, Start, Redeclare, Declare, InitPush, InitAnswered, Shutdown, initVars,
                Typed, Tables
  <2>3. partition_bytes'[v] = partition_bytes[v] /\ UNCHANGED job
    BY <1>2 DEF Worker, Start, Redeclare, Declare, InitPush, InitAnswered, Shutdown, envVars,
                Typed, Tables
  <2>4. ps_kv'[v] = ps_kv[v]
    BY <1>2 DEF Worker, Start, Redeclare, Declare, InitPush, InitAnswered, Shutdown, initVars,
                EncodeDefaultKey, ResetKeys, Typed, Tables
  <2>5. pushes \subseteq pushes'
    BY <1>2 DEF Worker, Start, Redeclare, Declare, InitPush, InitAnswered, Shutdown, initVars
  <2> QED BY <1>1, <2>1, <2>2, <2>3, <2>4, <2>5
<1>3. Told(w)'
  <2>1. CASE Start(w)
    <3>1. /\ name_to_cxt[w] = None /\ progress[w] = NotYet
          /\ UNCHANGED <<name_to_cxt, progress, sent>>
      BY <2>1 DEF Start, declVars, Typed, Advance
    <3>2. DOMAIN None = {} /\ ~(NotYet.inited < NotYet.declared)
      BY DEF None, NotYet
    <3>3. sent[w] = 0
      BY <3>1, <3>2 DEF Told
    <3> QED BY <3>1, <3>2, <3>3 DEF Told
  <2>2. CASE InitPush(w)
    <3>1. CASE AbortStep(w)
      BY <1>1, <3>1 DEF AbortStep, envVars, declVars
    <3> QED BY <2>2, <3>1, InitPushCases, InitPushTold
  <2>3. CASE InitAnswered(w)
    BY <2>3, InitAnsweredCases, MoreTold, LastTold
  <2>4. CASE Shutdown(w)
    <3>1. /\ progress[w].inited = job.last /\ UNCHANGED sent
          /\ progress' = [progress EXCEPT ![w] = NotYet]
          /\ name_to_cxt' = [name_to_cxt EXCEPT ![w] = None]
      BY <2>4 DEF Shutdown, ResetContexts, NotYet
    <3>2. job.last \in Nat /\ progress[w].declared <= job.last /\ progress[w].declared \in Nat
      <4>1. job.last \in Nat
        BY KeyAssumption DEF Typed, JobTyped
      <4> QED BY <4>1 DEF Typed, Tables, Advance
    <3>3. sent[w] = 0
      BY <3>1, <3>2 DEF Told
    <3>4. progress'[w] = NotYet /\ name_to_cxt'[w] = None
      BY <3>1 DEF Typed, Tables
    <3>5. DOMAIN None = {} /\ ~(NotYet.inited < NotYet.declared)
      BY DEF None, NotYet
    <3> QED BY <3>1, <3>3, <3>4, <3>5 DEF Told
  <2> QED BY <2>1, <2>2, <2>3, <2>4, RedeclareTold, DeclareTold DEF Worker
<1> QED BY <1>2, <1>3

LEMMA NextAnnounced == ASSUME Announced, [Next]_vars PROVE Announced'
<1>1. Typed'
  BY NextTyped DEF Announced
<1>2. CASE UNCHANGED vars
  <2>1. ASSUME NEW v \in Workers PROVE Told(v)'
    BY <1>2, ToldStays DEF vars, envVars, declVars, initVars, Announced
  <2> QED BY <1>1, <2>1 DEF Announced
<1>3. ASSUME NEW cluster, NEW program, NEW last, NEW fresh, NEW resumes,
             NextEpoch(cluster, program, last, fresh, resumes)
      PROVE  Announced'
  <2>1. ASSUME NEW v \in Workers PROVE Told(v)'
    <3>1. /\ name_to_cxt[v] = None /\ progress[v] = NotYet /\ UNCHANGED <<progress, sent>>
          /\ name_to_cxt' = Renewed(name_to_cxt, fresh, None)
      BY <1>3 DEF NextEpoch, Announced, Typed, Advance
    <3>2. DOMAIN None = {} /\ ~(NotYet.inited < NotYet.declared)
      BY DEF None, NotYet
    <3>3. sent[v] = 0 /\ name_to_cxt'[v] = None
      BY <3>1, <3>2 DEF Announced, Told, Renewed
    <3> QED BY <3>1, <3>2, <3>3 DEF Told
  <2> QED BY <1>1, <2>1 DEF Announced
<1> QED BY <1>1, <1>2, <1>3, WorkerAnnounced DEF Next, Quit, Announced

\* The tasks of an initialised tensor are those that its init pushes announced
\* to the servers (operations.cc:172 and 385), for any programs, whatever the
\* machine's bound on a partition.
THEOREM TasksCorrect == Spec => []TasksAsInitialised
<1>1. ASSUME Announced PROVE TasksAsInitialised
  <2> SUFFICES ASSUME NEW w \in Workers, NEW n \in DOMAIN name_to_cxt[w],
                      name_to_cxt[w][n].initialized
               PROVE  /\ Len(name_to_cxt[w][n].key_list) = Len(PartitionTensor(w, n))
                      /\ \A i \in DOMAIN PartitionTensor(w, n) :
                            \E p \in pushes :
                               /\ p.worker = w /\ p.cmd = "init" /\ p.tensor = n
                               /\ p.key = PartitionTensor(w, n)[i].key
                               /\ p.server = ps_kv[w][PartitionTensor(w, n)[i].key].server
                               /\ p.offset = PartitionTensor(w, n)[i].offset
                               /\ p.len = PartitionTensor(w, n)[i].len
    BY DEF TasksAsInitialised
  <2> DEFINE bound == partition_bytes[w]
             parts == Parts(Size[n], bound)
  <2>1. Settled(w, n) /\ Typed
    BY <1>1 DEF Announced, Told
  <2>2. n \in Names /\ name_to_cxt[w][n] \in Context
    BY <2>1 DEF Typed, Tables, Contexts
  <2>3. parts \in Nat \ {0}
    <3>1. Size[n] \in Nat \ {0} /\ bound \in Nat \ {0}
      BY <2>1, <2>2, KeyAssumption DEF Typed, Tables
    <3> QED BY <3>1, DivUpBounds DEF Parts
  <2>4. name_to_cxt[w][n].key_list = Keys(w, n) /\ Len(Keys(w, n)) = parts
    BY <2>1, <2>3 DEF Settled, Keys, KeyList
  <2>5. /\ Len(PartitionTensor(w, n)) = parts /\ DOMAIN PartitionTensor(w, n) = 1..parts
        /\ \A i \in 1..parts :
              /\ PartitionTensor(w, n)[i].key = Keys(w, n)[i]
              /\ PartitionTensor(w, n)[i].offset = Offset(bound, i)
              /\ PartitionTensor(w, n)[i].len = PartLength(Size[n], bound, i)
    BY <2>3, <2>4 DEF PartitionTensor
  <2>6. ASSUME NEW i \in 1..parts
        PROVE  \E p \in pushes :
                  /\ p.worker = w /\ p.cmd = "init" /\ p.tensor = n
                  /\ p.key = Keys(w, n)[i] /\ p.server = ps_kv[w][Keys(w, n)[i]].server
                  /\ p.offset = Offset(bound, i) /\ p.len = PartLength(Size[n], bound, i)
    <3>1. PushFor(w, n, InitCommand(w, n, i))
      BY <2>1, <2>6 DEF Settled
    <3> QED BY <3>1 DEF PushFor, Record, InitCommand
  <2> QED BY <2>4, <2>5, <2>6
<1> QED BY <1>1, InitAnnounced, NextAnnounced, PTL DEF Spec

-----------------------------------------------------------------------------
(* Pushes.                                                                 *)

\* The bound on a partition of w in every epoch, after BytePSGlobal::Init.
Bytes(w) == RoundUp(PartitionBytes, LocalSize[w] * PageSize)

\* All machines round the bound to the same length, no tensor has more
\* partitions than a declared key has keys, and every process computes the
\* same hash: it does not read the characters of a destroyed string.
OneBound == \A v, w \in Workers : Bytes(v) = Bytes(w)
FewParts == \A w \in Workers, n \in Names : Parts(Size[n], Bytes(w)) <= Base
OneHash == \A c \in Clusters : c.knob = "naive" \/ c.kept

\* A length that is rounded up already stays as it is at a resume.
LEMMA RoundedStays ==
    ASSUME NEW x \in Nat \ {0}, NEW y \in Nat \ {0}
    PROVE  RoundUp(RoundUp(x, y), y) = RoundUp(x, y)
<1> DEFINE q == DivUp(x, y)
           r == DivUp(q * y, y)
<1>1. q \in Nat \ {0}
  BY DivUpBounds
<1> HIDE DEF q
<1>2. q * y \in Nat \ {0}
  BY <1>1
<1>3. r \in Nat \ {0} /\ (r - 1) * y < q * y /\ q * y <= r * y
  BY <1>2, DivUpBounds
<1> HIDE DEF r
<1>4. r - 1 \in Nat /\ r * y \in Nat /\ (r - 1) * y \in Nat /\ q * y \in Nat
  <2>1. r - 1 \in Nat
    BY <1>3
  <2>2. \A a, b \in Nat : a * b \in Nat
    OBVIOUS
  <2> QED BY <1>1, <1>3, <2>1, <2>2
<1>5. r - 1 < q
  <2>1. CASE q <= r - 1
    <3>1. q * y <= (r - 1) * y
      BY <1>1, <1>4, <2>1, EarlierParts
    <3> DEFINE a == q * y
               b == (r - 1) * y
    <3>2. a \in Nat /\ b \in Nat /\ a <= b /\ b < a
      BY <1>3, <1>4, <3>1
    <3> HIDE DEF a, b
    <3> QED BY <3>2
  <2> QED BY <1>1, <1>4, <2>1
<1>6. q <= r
  <2>1. CASE r <= q - 1
    <3>1. q - 1 \in Nat /\ r * y <= (q - 1) * y
      BY <1>1, <1>3, <2>1, EarlierParts
    <3>2. (q - 1) * y = q * y - y
      BY <1>1
    <3> DEFINE a == q * y
               b == r * y
    <3>3. a \in Nat /\ b \in Nat /\ a <= b /\ b <= a - y
      BY <1>3, <1>4, <3>1, <3>2
    <3> HIDE DEF a, b
    <3> QED BY <3>3
  <2> QED BY <1>1, <1>3, <2>1
<1>7. r = q
  BY <1>1, <1>3, <1>5, <1>6
<1> QED BY <1>7 DEF RoundUp, q, r

\* The bound of a process, the servers in its cache, and where a push goes.
Bounded(w) == IF life[w] = "down" THEN partition_bytes[w] \in {PartitionBytes, Bytes(w)}
              ELSE partition_bytes[w] = Bytes(w)
ServerOf(k) == HashedServer[job.cluster, k]
Hashed(w) == \A k \in DOMAIN ps_kv[w] : ps_kv[w][k].server = ServerOf(k)
Routed(p) ==
    \E w \in Workers, i \in Nat :
       /\ At(i + 1, p.tensor) /\ p.part \in 1..Base /\ p.key = i * Base + p.part - 1
       /\ p.server = ServerOf(p.key)
       /\ p.offset = Offset(Bytes(w), p.part)
       /\ p.len = IF p.cmd = "init" THEN PartLength(Size[p.tensor], Bytes(w), p.part) ELSE 1
Meeting ==
    /\ Ordered /\ Announced
    /\ \A w \in Workers : Bounded(w) /\ Hashed(w)
    /\ \A p \in pushes : Routed(p)

\* The command that a process sends next is one of its tensor's.
LEMMA CommandOf ==
    ASSUME Announced, NEW w \in Workers, progress[w].inited < progress[w].declared
    PROVE  /\ Command(w).part \in 1..Parts(Size[Tensor(w)], partition_bytes[w])
           /\ Command(w).len = IF Command(w).cmd = "init"
                 THEN PartLength(Size[Tensor(w)], partition_bytes[w], Command(w).part) ELSE 1
<1> DEFINE n == Tensor(w)
           q == Commands(w, n)
           parts == Parts(Size[n], partition_bytes[w])
<1>1. Typed /\ Ahead(w) /\ sent[w] \in Nat
  BY DEF Announced, Typed, Tables, Told
<1>2. parts \in Nat \ {0}
  BY <1>1, TensorIsDeclared
<1>3. /\ q \in Seq([part : 1..parts, cmd : {"init", "register"},
                    len : {PartLength(Size[n], partition_bytes[w], i) : i \in 1..parts} \cup {1}])
      /\ Len(q) \in Nat /\ parts <= Len(q)
      /\ \A i \in 1..Len(q) :
            q[i].len = IF q[i].cmd = "init"
                       THEN PartLength(Size[n], partition_bytes[w], q[i].part) ELSE 1
  BY <1>2, CommandsForm
<1>4. sent[w] # 0 => sent[w] < Len(q)
  BY <1>1 DEF Ahead
<1> DEFINE S == [part : 1..parts, cmd : {"init", "register"},
                 len : {PartLength(Size[n], partition_bytes[w], i) : i \in 1..parts} \cup {1}]
<1> HIDE DEF q, parts
<1>5. sent[w] + 1 \in 1..Len(q)
  BY <1>1, <1>2, <1>3, <1>4
<1>6. q[sent[w] + 1].part \in 1..parts
  <2>1. q \in Seq(S)
    BY <1>3
  <2>2. \A r \in S : r.part \in 1..parts
    OBVIOUS
  <2> HIDE DEF S
  <2>3. q[sent[w] + 1] \in S
    BY <1>5, <2>1
  <2> QED BY <2>2, <2>3
<1> QED BY <1>3, <1>5, <1>6 DEF Command, q, parts

LEMMA RoutedPush ==
    ASSUME OneHash, FewParts, Meeting, NEW w \in Workers, NEW server, NEW c,
           PushStep(w, server, c)
    PROVE  Routed(Pushed(w, server))
           /\ server = ServerOf(Keys(w, Tensor(w))[Command(w).part])
<1> DEFINE n == Tensor(w)
           part == Command(w).part
           d == name_to_cxt[w][n].declared_key
           k == Keys(w, n)[part]
           parts == Parts(Size[n], partition_bytes[w])
<1>1. /\ life[w] = "up" /\ progress[w].inited < progress[w].declared
      /\ EncodeDefaultKey(w, k, Command(w).len, server)
  BY DEF PushStep
<1>2. /\ n \in DOMAIN name_to_cxt[w] /\ n \in Names /\ parts \in Nat \ {0}
      /\ Typed /\ partition_bytes[w] = Bytes(w) /\ Hashed(w)
  BY <1>1, TensorIsDeclared DEF Meeting, Ordered, Bounded
<1>3. d \in Nat /\ At(d + 1, n)
  BY <1>2 DEF Meeting, Ordered, Placed, Numbers, Numbered
<1>4. /\ part \in 1..parts
      /\ Command(w).len = IF Command(w).cmd = "init"
                          THEN PartLength(Size[n], Bytes(w), part) ELSE 1
  BY <1>1, <1>2, CommandOf DEF Meeting
<1>5. part \in 1..Base
  <2>1. parts <= Base
    BY <1>2 DEF FewParts
  <2> HIDE DEF parts, part
  <2> QED BY <1>2, <1>4, <2>1, BaseIsNat
<1>6. k = d * Base + part - 1
  BY <1>4 DEF Keys, KeyList
<1>7. server = ServerOf(k)
  <2>1. CASE k \in DOMAIN ps_kv[w]
    BY <1>1, <1>2, <2>1 DEF EncodeDefaultKey, Hashed
  <2>2. CASE k \notin DOMAIN ps_kv[w]
    <3>1. server \in Choices(k)
      BY <1>1, <2>2 DEF EncodeDefaultKey
    <3>2. job.cluster.knob = "naive" \/ job.cluster.kept
      BY <1>2 DEF Typed, JobTyped, OneHash
    <3>3. Choices(k) = {ServerOf(k)}
      BY <3>2, Zenon DEF Choices, ServerOf
    <3> QED BY <3>1, <3>3
  <2> QED BY <2>1, <2>2
<1>8. /\ Pushed(w, server).tensor = n /\ Pushed(w, server).part = part
      /\ Pushed(w, server).key = k /\ Pushed(w, server).server = server
      /\ Pushed(w, server).cmd = Command(w).cmd
      /\ Pushed(w, server).offset = Offset(Bytes(w), part)
      /\ Pushed(w, server).len = Command(w).len
  BY <1>2 DEF Pushed
<1> HIDE DEF n, part, d, k, parts
<1>9. Routed(Pushed(w, server))
  BY <1>3, <1>4, <1>5, <1>6, <1>7, <1>8 DEF Routed
<1> QED BY <1>7, <1>9 DEF k, n, part

LEMMA ServerStays == ASSUME UNCHANGED job, NEW k PROVE ServerOf(k)' = ServerOf(k)
BY Zenon DEF ServerOf
LEMMA RoutedStays == ASSUME UNCHANGED job, NEW p, Routed(p) PROVE Routed(p)'
<1>1. \A k : ServerOf(k)' = ServerOf(k)
  BY ServerStays
<1> QED BY <1>1 DEF Routed

LEMMA InitMeeting == ASSUME Init PROVE Meeting
<1>1. ASSUME NEW w \in Workers PROVE Bounded(w) /\ Hashed(w)
  BY DEF Init, Bounded, Hashed, None
<1>2. pushes = {}
  BY DEF Init
<1> QED BY <1>1, <1>2, InitOrdered, InitAnnounced DEF Meeting

LEMMA WorkerBounded ==
    ASSUME Meeting, NEW w \in Workers, Worker(w), NEW v \in Workers
    PROVE  Bounded(v)'
<1>1. Typed /\ Bounded(v) /\ Bounded(w)
  BY DEF Meeting, Announced
<1>2. CASE Start(w)
  <2>1. /\ life[w] = "down" /\ life'[w] # "down" /\ (v # w => life'[v] = life[v])
        /\ partition_bytes'[w] = RoundUp(partition_bytes[w], LocalSize[w] * PageSize)
        /\ v # w => partition_bytes'[v] = partition_bytes[v]
    BY <1>1, <1>2 DEF Start, Typed, Tables
  <2>2. partition_bytes'[w] = Bytes(w)
    <3>1. LocalSize[w] * PageSize \in Nat \ {0} /\ PartitionBytes \in Nat \ {0}
      <4>1. LocalSize[w] \in Nat \ {0} /\ PageSize \in Nat \ {0} /\ PartitionBytes \in Nat \ {0}
        BY KeyAssumption
      <4>2. \A a, b \in Nat \ {0} : a * b \in Nat \ {0}
        OBVIOUS
      <4> QED BY <4>1, <4>2
    <3>2. RoundUp(Bytes(w), LocalSize[w] * PageSize) = Bytes(w)
      BY <3>1, RoundedStays DEF Bytes
    <3>3. partition_bytes[w] \in {PartitionBytes, Bytes(w)}
      BY <1>1, <2>1 DEF Bounded
    <3> QED BY <2>1, <3>2, <3>3 DEF Bytes
  <2>3. CASE v = w
    BY <2>1, <2>2, <2>3 DEF Bounded, Bytes
  <2>4. CASE v # w
    BY <1>1, <2>1, <2>4 DEF Bounded, Bytes
  <2> QED BY <2>3, <2>4
<1>3. CASE ~Start(w)
  <2>1. /\ UNCHANGED partition_bytes
        /\ (life'[v] = "down") <=> (life[v] = "down")
    BY <1>1, <1>3 DEF Worker, Redeclare, Declare, InitPush, InitAnswered, Shutdown, envVars,
                      Typed, Tables
  <2> QED BY <1>1, <2>1 DEF Bounded, Bytes
<1> QED BY <1>2, <1>3

LEMMA WorkerRouted ==
    ASSUME OneHash, FewParts, Meeting, NEW w \in Workers, Worker(w)
    PROVE  /\ \A v \in Workers : Hashed(v)'
           /\ \A p \in pushes' : Routed(p)'
<1>1. UNCHANGED job
  BY DEF Worker, Start, Redeclare, Declare, InitPush, InitAnswered, Shutdown, envVars
<1>2. /\ Typed /\ (\A v \in Workers : Hashed(v)) /\ \A p \in pushes : Routed(p)'
  BY <1>1, RoutedStays DEF Meeting, Announced
<1>3. \A k : ServerOf(k)' = ServerOf(k)
  BY <1>1, ServerStays
<1>4. CASE UNCHANGED <<ps_kv, pushes>>
  BY <1>2, <1>3, <1>4 DEF Hashed
<1>5. CASE Shutdown(w)
  <2>1. ps_kv' = [ps_kv EXCEPT ![w] = None] /\ UNCHANGED pushes
    BY <1>5 DEF Shutdown, ResetKeys
  <2>2. DOMAIN None = {} /\ ps_kv'[w] = None /\ \A v \in Workers : v # w => ps_kv'[v] = ps_kv[v]
    BY <1>2, <2>1 DEF None, Typed, Tables
  <2> QED BY <1>2, <1>3, <2>1, <2>2 DEF Hashed
<1>6. ASSUME NEW server, NEW c, PushStep(w, server, c)
      PROVE  /\ \A v \in Workers : Hashed(v)'
             /\ \A p \in pushes' : Routed(p)'
  <2>1. PICK push : push = Pushed(w, server)
    OBVIOUS
  <2>2. PICK k : k = Keys(w, Tensor(w))[Command(w).part]
    OBVIOUS
  <2>3. /\ EncodeDefaultKey(w, k, Command(w).len, server)
        /\ pushes' = pushes \cup {push}
    BY <1>6, <2>1, <2>2 DEF PushStep
  <2>4. Routed(push) /\ server = ServerOf(k)
    BY <1>6, <2>1, <2>2, RoutedPush
  <2>5. Routed(push)'
    BY <1>1, <2>4, RoutedStays
  <2>6. /\ \A v \in Workers \ {w} : ps_kv'[v] = ps_kv[v]
        /\ DOMAIN ps_kv'[w] = DOMAIN ps_kv[w] \cup {k}
        /\ \A j \in DOMAIN ps_kv[w] : ps_kv'[w][j].server = ps_kv[w][j].server
        /\ ps_kv'[w][k].server = server
    BY <1>2, <2>3, EncodeEffect
  <2>7. ASSUME NEW v \in Workers PROVE Hashed(v)'
    <3>1. CASE v = w
      BY <1>2, <1>3, <2>4, <2>6, <3>1 DEF Hashed
    <3>2. CASE v # w
      BY <1>2, <1>3, <2>6, <3>2 DEF Hashed
    <3> QED BY <3>1, <3>2
  <2> QED BY <1>2, <2>3, <2>5, <2>7
<1>7. CASE InitPush(w)
  BY <1>2, <1>4, <1>6, <1>7, InitPushCases DEF AbortStep
<1>8. InitPush(w) \/ Shutdown(w) \/ UNCHANGED <<ps_kv, pushes>>
  BY DEF Worker, Start, Redeclare, Declare, InitAnswered, initVars
<1> QED BY <1>4, <1>5, <1>7, <1>8

LEMMA NextMeeting ==
    ASSUME OneOrder, OneHash, FewParts, Meeting, [Next]_vars
    PROVE  Meeting'
<1>1. Ordered' /\ Announced'
  BY NextOrdered, NextAnnounced DEF Meeting
<1>2. CASE UNCHANGED vars
  <2>1. UNCHANGED <<job, life, partition_bytes, ps_kv, pushes>>
    BY <1>2 DEF vars, envVars, initVars
  <2>2. \A k : ServerOf(k)' = ServerOf(k)
    BY <2>1, ServerStays
  <2>3. \A p \in pushes' : Routed(p)'
    BY <2>1, RoutedStays DEF Meeting
  <2>4. ASSUME NEW w \in Workers PROVE Bounded(w)' /\ Hashed(w)'
    BY <2>1, <2>2 DEF Meeting, Bounded, Hashed, Bytes
  <2> QED BY <1>1, <2>3, <2>4 DEF Meeting
<1>3. ASSUME NEW w \in Workers, Worker(w) PROVE Meeting'
  BY <1>1, <1>3, WorkerBounded, WorkerRouted DEF Meeting
<1>4. ASSUME NEW cluster, NEW program, NEW last, NEW fresh, NEW resumes,
             NextEpoch(cluster, program, last, fresh, resumes)
      PROVE  Meeting'
  <2>1. /\ \A w \in Workers : life[w] = "left"
        /\ life' = [w \in Workers |-> "down"] /\ pushes' = {}
        /\ ps_kv' = Renewed(ps_kv, fresh, None)
        /\ partition_bytes' = Renewed(partition_bytes, fresh, PartitionBytes)
    BY <1>4 DEF NextEpoch
  <2>2. ASSUME NEW w \in Workers PROVE Bounded(w)' /\ Hashed(w)'
    <3>1. ps_kv[w] = None /\ partition_bytes[w] = Bytes(w) /\ DOMAIN None = {}
      BY <2>1 DEF Meeting, Announced, Typed, Advance, Bounded, None
    <3>2. ps_kv'[w] = None /\ partition_bytes'[w] \in {PartitionBytes, Bytes(w)}
      BY <2>1, <3>1 DEF Renewed
    <3>3. life'[w] = "down"
      BY <2>1
    <3> QED BY <3>1, <3>2, <3>3 DEF Bounded, Hashed, Bytes
  <2> QED BY <1>1, <2>1, <2>2 DEF Meeting
<1> QED BY <1>2, <1>3, <1>4 DEF Next, Quit

\* All workers push a partition under one key to one server, with one length,
\* and a server takes nothing else under that key (global.cc:718,
\* operations.cc:339-345, 414).
THEOREM PushesMeetCorrect ==
    ASSUME OneOrder, OneHash, OneBound, FewParts
    PROVE  Spec => []PushesMeet
<1>1. ASSUME Meeting PROVE PushesMeet
  <2> SUFFICES ASSUME NEW p \in pushes, NEW q \in pushes
               PROVE  /\ Meets(p, q) <=> p.tensor = q.tensor /\ p.part = q.part /\ p.cmd = q.cmd
                      /\ Meets(p, q) => p.offset = q.offset /\ p.len = q.len
    BY DEF PushesMeet
  <2>1. Routed(p) /\ Routed(q)
    BY <1>1 DEF Meeting
  <2>2. PICK v \in Workers, i \in Nat :
          /\ At(i + 1, p.tensor) /\ p.part \in 1..Base /\ p.key = i * Base + p.part - 1
          /\ p.server = ServerOf(p.key) /\ p.offset = Offset(Bytes(v), p.part)
          /\ p.len = IF p.cmd = "init" THEN PartLength(Size[p.tensor], Bytes(v), p.part) ELSE 1
    BY <2>1 DEF Routed
  <2>3. PICK w \in Workers, j \in Nat :
          /\ At(j + 1, q.tensor) /\ q.part \in 1..Base /\ q.key = j * Base + q.part - 1
          /\ q.server = ServerOf(q.key) /\ q.offset = Offset(Bytes(w), q.part)
          /\ q.len = IF q.cmd = "init" THEN PartLength(Size[q.tensor], Bytes(w), q.part) ELSE 1
    BY <2>1 DEF Routed
  <2>4. Bytes(v) = Bytes(w)
    BY DEF OneBound
  <2>5. i + 1 = j + 1 <=> p.tensor = q.tensor
    BY <2>2, <2>3, AtUnique
  <2>6. p.key = q.key => i = j /\ p.part = q.part
    <3>1. ASSUME p.key = q.key PROVE i = j /\ p.part = q.part
      <4>1. i * Base + p.part - 1 = j * Base + q.part - 1
        BY <2>2, <2>3, <3>1
      <4>2. PICK a, b : a = p.part /\ b = q.part
        OBVIOUS
      <4>3. a \in 1..Base /\ b \in 1..Base /\ i * Base + a - 1 = j * Base + b - 1
        BY <2>2, <2>3, <4>1, <4>2
      <4> QED BY <4>2, <4>3, BaseIsNat, KeyOfOnePart
    <3> QED BY <3>1
  <2>7. i = j <=> p.tensor = q.tensor
    BY <2>5
  <2>8. i = j /\ p.part = q.part => p.key = q.key
    BY <2>2, <2>3
  <2>9. p.key = q.key => p.server = q.server
    BY <2>2, <2>3
  <2>10. p.tensor = q.tensor /\ p.part = q.part /\ p.cmd = q.cmd
           => p.offset = q.offset /\ p.len = q.len
    BY <2>2, <2>3, <2>4
  <2> QED BY <2>6, <2>7, <2>8, <2>9, <2>10 DEF Meets
<1> QED BY <1>1, InitMeeting, NextMeeting, PTL DEF Spec

=============================================================================
