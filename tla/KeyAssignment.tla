---------------------------- MODULE KeyAssignment ----------------------------
(***************************************************************************)
(* How the worker processes of a job come to use the same key, on the same *)
(* server, for the same partition of the same tensor (global.cc and        *)
(* InitTensor of operations.cc).  Nobody distributes the keys: a process   *)
(* numbers its tensors in the order in which they are declared, numbers    *)
(* the partitions, and hashes the number.                                  *)
(*                                                                         *)
(* A job is a sequence of epochs.  In an epoch every process starts        *)
(* (byteps_init, or byteps_resume after a suspend), declares and inits the *)
(* first tensors of the program, and leaves (BytePSGlobal::Shutdown).      *)
(* Between two epochs processes may be replaced by new ones, and the       *)
(* servers are started anew, maybe another number of them.  The framework  *)
(* is external: torch/ops.cc is empty.                                     *)
(***************************************************************************)
EXTENDS Hashing, FiniteSets

CONSTANTS
    Workers,        \* the root processes, one on each worker machine
    Names,          \* the names of the tensors
    Size,           \* Size[n]: the length of tensor n
    Compressed,     \* the tensors declared with a compressor
    Programs,       \* the orders in which a program may declare its tensors
    LocalSize,      \* LocalSize[w]: the devices of the machine of w
    PageSize,       \* _pagesize
    PartitionBytes, \* the default of _partition_bytes
    MinCompress,    \* BYTEPS_MIN_COMPRESS_BYTES
    ReduceRoots,    \* BYTEPS_REDUCE_ROOTS
    Clusters,       \* the environments of an epoch; see below
    MaxEpoch        \* bound: the epochs of a job

\* A cluster has servers, a hash function, and the outcome of the undefined
\* behaviour of the functions that read the characters of a temporary string:
\* whether the build leaves them readable after the string is destroyed.
Knobs == {"naive", "djb2", "sdbm", "mixed"}

ASSUME KeyAssumption ==
    /\ IsFiniteSet(Workers) /\ Workers # {}
    /\ Size \in [Names -> Nat \ {0}] /\ Compressed \subseteq Names
    /\ \A p \in Programs : /\ p \in Seq(Names) /\ p # <<>>
                           /\ \A i, j \in DOMAIN p : p[i] = p[j] => i = j
    /\ LocalSize \in [Workers -> Nat \ {0}]
    /\ PageSize \in Nat \ {0} /\ PartitionBytes \in Nat \ {0} /\ MinCompress \in Nat
    /\ ReduceRoots \in Seq(Nat)
    /\ ReduceRoots # <<>>
    /\ Clusters \subseteq [servers : Nat \ {0}, knob : Knobs, kept : BOOLEAN]
    /\ MaxEpoch \in Nat \ {0}

VARIABLES
    epoch,            \* how many epochs the job is in
    job,              \* the cluster, the program, how many of its tensors the
                      \* epoch uses, and who resumes
    life,             \* life[w]: what the process is doing
    declared_tensors, \* declared_tensors[w]: _declared_tensors
    name_to_cxt,      \* name_to_cxt[w]: _name_to_cxt
    next_key,         \* next_key[w]: next_key_
    redeclared,       \* redeclared[w]: the position of ReDeclareTensor
    progress,         \* progress[w]: the tensors that the program has declared
                      \* and has initialised in this epoch
    sent,             \* sent[w]: the pushes of InitTensor that are answered
    waiting,          \* waiting[w]: whether a push of InitTensor is outstanding
    ps_kv,            \* ps_kv[w]: ps_kv_, the server and the length of a key
    accumulated,      \* accumulated[w]: _server_accumulated_len
    partition_bytes,  \* partition_bytes[w]: _partition_bytes
    reduce_roots,     \* reduce_roots[w]: _reduce_roots
    pushes,           \* the pushes of the epoch
    old_key,          \* history: old_key[w], the keys before the last Shutdown
    aborted           \* whether a check of Hash_Mixed_Mode has failed

initVars == <<progress, sent, waiting, ps_kv, accumulated, pushes, aborted>>
envVars == <<epoch, job, partition_bytes, reduce_roots>>
declVars == <<declared_tensors, name_to_cxt, next_key, redeclared, old_key>>
vars == <<envVars, life, declVars, initVars>>

None == [n \in {} |-> 0]
NumWorkers == Cardinality(Workers)

-----------------------------------------------------------------------------
(* Partitions and keys.                                                    *)

DivUp(x, y) == (x + y - 1) \div y
RoundUpAPage(x, y) == (x \div y + 1) * y
RoundUp(x, y) == DivUp(x, y) * y

\* The partitions of a tensor and the length of the i-th.
Parts(size, bound) == DivUp(size, bound)
Offset(bound, i) == (i - 1) * bound
PartLength(size, bound, i) ==
    IF size - Offset(bound, i) > bound THEN bound ELSE size - Offset(bound, i)

\* The keys of a tensor: 2^16 of them belong to each declared key.
KeyList(declared_key, parts) == [i \in 1..parts |-> declared_key * Base + i - 1]

\* PartitionTensor of EnqueueTensor: the tasks of an initialised tensor.
PartitionTensorInFull(w, n) ==
    LET bound == partition_bytes[w]
    IN  [i \in 1..Parts(Size[n], bound) |->
           [key |-> name_to_cxt[w][n].key_list[i], offset |-> Offset(bound, i),
            len |-> bound]]
PartitionTensor(w, n) ==
    LET bound == partition_bytes[w]
    IN  [i \in 1..Parts(Size[n], bound) |->
           [key |-> name_to_cxt[w][n].key_list[i],
            offset |-> Offset(bound, i),
            len |-> PartLength(Size[n], bound, i)]]

-----------------------------------------------------------------------------
(* The key cache.                                                          *)

\* The checks of Hash_Mixed_Mode.
HashFails(cluster) ==
    /\ cluster.knob = "mixed"
    /\ \/ Bound < cluster.servers
       \/ ~RatioPermitted(NumWorkers, cluster.servers - NumWorkers)

\* The server of every key that a tensor may have, in every cluster.
AllKeys == {d * Base + i : d \in 0..Cardinality(Names) - 1,
                           i \in UNION {0..Size[n] - 1 : n \in Names}}
HashedServer ==
    [cluster \in {c \in Clusters : ~HashFails(c)}, k \in AllKeys |->
       LET m == cluster.servers
       IN  CASE cluster.knob = "naive" -> Hash_Naive(k, m)
             [] cluster.knob = "djb2" -> Hash_DJB2(k, m)
             [] cluster.knob = "sdbm" -> Hash_SDBM(k, m)
             [] cluster.knob = "mixed" -> Hash_Mixed_Mode(k, NumWorkers, m)]

\* The servers that EncodeDefaultKey may choose for a key.
Choices(k) == IF job.cluster.knob = "naive" \/ job.cluster.kept
              THEN {HashedServer[job.cluster, k]}
              ELSE 0..job.cluster.servers - 1

\* A key is encoded once; later calls only change its length.
EncodeDefaultKey(w, k, len, server) ==
    IF k \in DOMAIN ps_kv[w]
    THEN /\ server = ps_kv[w][k].server
         /\ ps_kv' = [ps_kv EXCEPT ![w][k].len = len]
         /\ UNCHANGED accumulated
    ELSE /\ server \in Choices(k)
         /\ ps_kv' = [ps_kv EXCEPT ![w] =
              [j \in DOMAIN @ \cup {k} |->
                 IF j = k THEN [server |-> server, len |-> len] ELSE @[j]]]
         /\ accumulated' = [accumulated EXCEPT ![w][server] = @ + len]

-----------------------------------------------------------------------------
(* Starting and leaving.                                                   *)

\* The lengths per server that Init appends, to what should be empty.
ServerLoads(w) == [s \in 0..job.cluster.servers - 1 |->
                     IF s \in DOMAIN accumulated[w] THEN accumulated[w][s] ELSE 0]

\* BytePSGlobal::Init, called by byteps_init and by byteps_resume.
AppendNewRoots(roots) ==
    IF roots = <<>> THEN ReduceRoots ELSE roots \o Tail(ReduceRoots)
AppendRoots(roots) == roots \o ReduceRoots
Start(w) ==
    /\ life[w] = "down"
    /\ partition_bytes' =
         [partition_bytes EXCEPT ![w] = RoundUp(@, LocalSize[w] * PageSize)]
    /\ accumulated' = [accumulated EXCEPT ![w] = ServerLoads(w)]
    /\ reduce_roots' = [reduce_roots EXCEPT ![w] = AppendRoots(@)]
    /\ life' = [life EXCEPT ![w] = IF w \in job.resuming THEN "resuming" ELSE "up"]
    /\ UNCHANGED <<epoch, job, declVars, progress, sent, waiting, ps_kv, pushes, aborted>>

\* BytePSGlobal::Shutdown, which all processes enter before it returns in one.
ResetNothing(w) == UNCHANGED <<ps_kv, accumulated>>
ResetKeys(w) == /\ ps_kv' = [ps_kv EXCEPT ![w] = None]
                /\ accumulated' = [accumulated EXCEPT ![w] = None]
ResetNextKey(w) == next_key' = [next_key EXCEPT ![w] = 0] /\ UNCHANGED name_to_cxt
ResetContexts(w) == /\ name_to_cxt' = [name_to_cxt EXCEPT ![w] = None]
                    /\ next_key' = [next_key EXCEPT ![w] = 0]
Shutdown(w) ==
    /\ life[w] = "up" /\ progress[w].inited = job.last
    /\ life' = [life EXCEPT ![w] = "left"]
    /\ ResetContexts(w) /\ ResetKeys(w)
    /\ old_key' = [old_key EXCEPT ![w] =
         [n \in DOMAIN name_to_cxt[w] |-> name_to_cxt[w][n].declared_key]]
    /\ redeclared' = [redeclared EXCEPT ![w] = 0]
    /\ progress' = [progress EXCEPT ![w] = [declared |-> 0, inited |-> 0]]
    /\ UNCHANGED <<envVars, declared_tensors, sent, waiting, pushes, aborted>>

\* What a new process has instead of the value v of the one it replaces.
Renewed(v, fresh, new) == [w \in Workers |-> IF w \in fresh THEN new ELSE v[w]]

\* The next epoch.  A process that goes on either resumes the training of the
\* old program or inits again, maybe for another program; the processes in
\* fresh are new ones.
NextEpoch(cluster, program, last, fresh, resumes) ==
    /\ \A w \in Workers : life[w] = "left"
    /\ epoch < MaxEpoch /\ epoch' = epoch + 1
    /\ resumes => program = job.program
    /\ job' = [cluster |-> cluster, program |-> program, last |-> last,
               resuming |-> IF resumes THEN Workers \ fresh ELSE {}]
    /\ life' = [w \in Workers |-> "down"]
    /\ declared_tensors' = Renewed(declared_tensors, fresh, <<>>)
    /\ name_to_cxt' = Renewed(name_to_cxt, fresh, None)
    /\ next_key' = Renewed(next_key, fresh, 0)
    /\ ps_kv' = Renewed(ps_kv, fresh, None)
    /\ accumulated' = Renewed(accumulated, fresh, None)
    /\ partition_bytes' = Renewed(partition_bytes, fresh, PartitionBytes)
    /\ reduce_roots' = Renewed(reduce_roots, fresh, <<>>)
    /\ pushes' = {}
    /\ UNCHANGED <<redeclared, old_key, progress, sent, waiting, aborted>>

-----------------------------------------------------------------------------
(* Declaration.                                                            *)

RememberFirst(w, n) ==
    IF \E i \in DOMAIN declared_tensors[w] : declared_tensors[w][i] = n
    THEN declared_tensors[w] ELSE <<n>> \o declared_tensors[w]
Remember(w, n) ==
    IF \E i \in DOMAIN declared_tensors[w] : declared_tensors[w][i] = n
    THEN declared_tensors[w] ELSE Append(declared_tensors[w], n)

\* IsTensorDeclared, and RegisterCompressor after it.
IsTensorDeclared(w, n, kwargs) ==
    IF n \in DOMAIN name_to_cxt[w]
    THEN /\ name_to_cxt' = [name_to_cxt EXCEPT ![w][n].kwargs = @ \/ kwargs]
         /\ UNCHANGED <<declared_tensors, next_key>>
    ELSE /\ declared_tensors' = [declared_tensors EXCEPT ![w] = Remember(w, n)]
         /\ name_to_cxt' = [name_to_cxt EXCEPT ![w] =
              [m \in DOMAIN @ \cup {n} |->
                 IF m = n THEN [declared_key |-> next_key[w], initialized |-> FALSE,
                                key_list |-> <<>>, kwargs |-> kwargs]
                 ELSE @[m]]]
         /\ next_key' = [next_key EXCEPT ![w] = @ + 1]

\* ReDeclareTensor, one name at a time.
Redeclare(w) ==
    /\ life[w] = "resuming"
    /\ IF redeclared[w] < Len(declared_tensors[w])
       THEN /\ IsTensorDeclared(w, declared_tensors[w][redeclared[w] + 1], FALSE)
            /\ redeclared' = [redeclared EXCEPT ![w] = @ + 1]
            /\ UNCHANGED life
       ELSE /\ life' = [life EXCEPT ![w] = "up"]
            /\ UNCHANGED <<declared_tensors, name_to_cxt, next_key, redeclared>>
    /\ UNCHANGED <<envVars, old_key, initVars>>

\* The program declares its next tensor, also after a resume, with the compressor's
\* settings: ReDeclareTensor (global.cc:486) declares names only, and Shutdown
\* has forgotten the settings (global.cc:443), so a program that relies on it
\* goes on without compressors.
Declare(w) ==
    /\ life[w] = "up" /\ progress[w].declared < job.last
    /\ LET n == job.program[progress[w].declared + 1]
       IN  IsTensorDeclared(w, n, n \in Compressed)
    /\ progress' = [progress EXCEPT ![w].declared = @ + 1]
    /\ UNCHANGED <<envVars, life, redeclared, old_key, sent, waiting, ps_kv, accumulated,
                   pushes, aborted>>

-----------------------------------------------------------------------------
(* InitTensor.                                                             *)

\* The tensor that w initialises next, and whether it registers a compressor.
Tensor(w) == job.program[progress[w].inited + 1]
KeepsKwargs(w, n) == name_to_cxt[w][n].kwargs /\ Size[n] >= MinCompress
Keys(w, n) == KeyList(name_to_cxt[w][n].declared_key, Parts(Size[n], partition_bytes[w]))

\* All the pushes of InitTensor: the partitions, and the registrations if any.
Commands(w, n) ==
    LET parts == Parts(Size[n], partition_bytes[w])
        Part(i, cmd, len) == [part |-> i, cmd |-> cmd, len |-> len]
    IN  [i \in 1..parts |-> Part(i, "init", PartLength(Size[n], partition_bytes[w], i))]
        \o (IF KeepsKwargs(w, n)
            THEN [i \in 1..parts |-> Part(i, "register", 1)] ELSE <<>>)

\* A push of InitTensor: the next partition, or registration.
InitPush(w) ==
    /\ life[w] = "up" /\ ~waiting[w] /\ ~aborted
    /\ progress[w].inited < progress[w].declared
    /\ LET n == Tensor(w)
           command == Commands(w, n)[sent[w] + 1]
           k == Keys(w, n)[command.part]
       IN  IF HashFails(job.cluster)
           THEN aborted' = TRUE
                /\ UNCHANGED <<ps_kv, accumulated, pushes, waiting, name_to_cxt>>
           ELSE /\ \E server \in 0..job.cluster.servers - 1 :
                     /\ EncodeDefaultKey(w, k, command.len, server)
                     /\ pushes' = pushes \cup
                          {[worker |-> w, server |-> server, key |-> k, tensor |-> n,
                            part |-> command.part, cmd |-> command.cmd,
                            offset |-> Offset(partition_bytes[w], command.part),
                            len |-> command.len]}
                /\ waiting' = [waiting EXCEPT ![w] = TRUE]
                /\ name_to_cxt' = [name_to_cxt EXCEPT ![w][n].key_list = Keys(w, n)]
                /\ UNCHANGED aborted
    /\ UNCHANGED <<envVars, life, declared_tensors, next_key, redeclared, old_key,
                   progress, sent>>

\* The push that w waits for: the last one it sent.
Outstanding(w) ==
    LET n == Tensor(w)
        command == Commands(w, n)[sent[w] + 1]
    IN  CHOOSE p \in pushes : /\ p.worker = w /\ p.tensor = n
                              /\ p.part = command.part /\ p.cmd = command.cmd

\* The server answers the push of a key when all workers have sent theirs.
Meets(p, q) == p.server = q.server /\ p.key = q.key /\ p.cmd = q.cmd
InitAnswered(w) ==
    /\ waiting[w] /\ ~aborted
    /\ \A v \in Workers : \E q \in pushes : q.worker = v /\ Meets(Outstanding(w), q)
    /\ waiting' = [waiting EXCEPT ![w] = FALSE]
    /\ IF sent[w] + 1 < Len(Commands(w, Tensor(w)))
       THEN /\ sent' = [sent EXCEPT ![w] = @ + 1]
            /\ UNCHANGED <<progress, name_to_cxt>>
       ELSE /\ sent' = [sent EXCEPT ![w] = 0]
            /\ progress' = [progress EXCEPT ![w].inited = @ + 1]
            /\ name_to_cxt' = [name_to_cxt EXCEPT ![w][Tensor(w)].initialized = TRUE]
    /\ UNCHANGED <<envVars, life, declared_tensors, next_key, redeclared, old_key,
                   ps_kv, accumulated, pushes, aborted>>

-----------------------------------------------------------------------------

Init ==
    /\ epoch = 1
    /\ \E cluster \in Clusters, program \in Programs :
         \E last \in DOMAIN program :
            job = [cluster |-> cluster, program |-> program, last |-> last,
                   resuming |-> {}]
    /\ life = [w \in Workers |-> "down"]
    /\ declared_tensors = [w \in Workers |-> <<>>]
    /\ name_to_cxt = [w \in Workers |-> None]
    /\ next_key = [w \in Workers |-> 0]
    /\ redeclared = [w \in Workers |-> 0]
    /\ progress = [w \in Workers |-> [declared |-> 0, inited |-> 0]]
    /\ sent = [w \in Workers |-> 0]
    /\ waiting = [w \in Workers |-> FALSE]
    /\ ps_kv = [w \in Workers |-> None]
    /\ accumulated = [w \in Workers |-> None]
    /\ partition_bytes = [w \in Workers |-> PartitionBytes]
    /\ reduce_roots = [w \in Workers |-> <<>>]
    /\ pushes = {}
    /\ old_key = [w \in Workers |-> None]
    /\ aborted = FALSE

Worker(w) == \/ Start(w) \/ Redeclare(w) \/ Declare(w)
             \/ InitPush(w) \/ InitAnswered(w) \/ Shutdown(w)

\* The job is over, or a check has ended a process.
Over == (epoch = MaxEpoch /\ \A w \in Workers : life[w] = "left") \/ aborted
Quit == Over /\ UNCHANGED vars

Next ==
    \/ \E w \in Workers : Worker(w)
    \/ \E cluster \in Clusters, program \in Programs, fresh \in SUBSET Workers,
          resumes \in BOOLEAN :
          \E last \in DOMAIN program : NextEpoch(cluster, program, last, fresh, resumes)
    \/ Quit

Spec == Init /\ [][Next]_vars

\* Each process runs.
FairSpec == Spec /\ \A w \in Workers : WF_vars(Worker(w))

=============================================================================
