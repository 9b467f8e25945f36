----------------------- MODULE KeyAssignmentProperties -----------------------
(* What the processes of a job rely on when they push under a key.         *)
EXTENDS KeyAssignment

Context == [declared_key : Nat, initialized : BOOLEAN, key_list : Seq(Nat),
            kwargs : BOOLEAN]

\* Every variable has its type: in particular a context exists only for a name
\* that _declared_tensors remembers.
TypeOK ==
    /\ epoch \in 1..MaxEpoch
    /\ job.cluster \in Clusters /\ job.program \in Programs
    /\ job.last \in DOMAIN job.program /\ job.resuming \subseteq Workers
    /\ life \in [Workers -> {"down", "resuming", "up", "left"}]
    /\ \A w \in Workers :
          /\ declared_tensors[w] \in Seq(Names)
          /\ \A n \in DOMAIN name_to_cxt[w] :
                /\ name_to_cxt[w][n] \in Context
                /\ \E i \in DOMAIN declared_tensors[w] : declared_tensors[w][i] = n
          /\ next_key[w] \in Nat
          /\ redeclared[w] \in 0..Len(declared_tensors[w])
          /\ progress[w].inited \in 0..progress[w].declared
          /\ progress[w].declared \in 0..job.last
          /\ \A k \in DOMAIN ps_kv[w] : ps_kv[w][k].server \in DOMAIN accumulated[w]
    /\ sent \in [Workers -> Nat]
    /\ waiting \in [Workers -> BOOLEAN] /\ aborted \in BOOLEAN
    /\ partition_bytes \in [Workers -> Nat \ {0}]

\* Any two processes, however often each was suspended, resumed or replaced,
\* give a tensor the same number (global.cc:476), so that next_key_ agrees
\* without a message; and a process that resumes gives every tensor the number
\* it had when it was suspended (operations.cc:124, "redeclare tensor with
\* original order").
KeysAgree ==
    /\ TypeOK
    /\ \A v, w \in Workers : \A n \in DOMAIN name_to_cxt[v] \cap DOMAIN name_to_cxt[w] :
          name_to_cxt[v][n].declared_key = name_to_cxt[w][n].declared_key
    /\ \A w \in {w \in job.resuming : life[w] = "up"} :
          \A n \in DOMAIN old_key[w] \cap DOMAIN name_to_cxt[w] :
             name_to_cxt[w][n].declared_key = old_key[w][n]

\* Within a process a key belongs to one partition of one tensor: no two
\* declared tensors share a number, and no number is above next_key_.
KeysDistinct ==
    \A w \in Workers : \A m, n \in DOMAIN name_to_cxt[w] :
       /\ name_to_cxt[w][n].declared_key < next_key[w]
       /\ name_to_cxt[w][m].declared_key = name_to_cxt[w][n].declared_key => m = n

\* All workers push a partition under one key to one server, whatever the
\* number of servers was in an earlier epoch (the cache ps_kv_ of global.cc:718
\* is stale otherwise), and a server takes nothing else under that key: were two
\* tensors to share a key, or two workers to cut a tensor differently, it would
\* sum one into another (operations.cc:339-345, 414).
PushesMeet ==
    \A p, q \in pushes :
       /\ Meets(p, q) <=> p.tensor = q.tensor /\ p.part = q.part /\ p.cmd = q.cmd
       /\ Meets(p, q) => p.offset = q.offset /\ p.len = q.len

\* Processes reduce a key at the same root (global.h:108), though _reduce_roots of
\* one that was suspended holds the roots several times.  The code needs it of
\* the processes of one machine.  It is stated for any two, which differ as those
\* do, in how often each was suspended; the root depends on nothing else.
Djb2 == [k \in AllKeys, m \in 1..MaxEpoch * Len(ReduceRoots) |-> Hash_DJB2(k, m)]
Root(w, k) == reduce_roots[w][Djb2[k, Len(reduce_roots[w])] + 1]
ReduceRootsAgree ==
    \A v, w \in Workers :
       life[v] \in {"resuming", "up"} /\ life[w] \in {"resuming", "up"} =>
          \A p \in pushes : Root(v, p.key) = Root(w, p.key)

\* Mixed mode ends a process only as its message says (global.cc:662), if there
\* are more servers on machines of their own than workers.
MixedAbortsAsDocumented == aborted => job.cluster.servers - NumWorkers > NumWorkers

\* The tasks of EnqueueTensor are those that InitTensor told the servers of: a
\* task's key was pushed to the server of the cache, with its offset and length.
TasksAsInitialised ==
    \A w \in Workers : \A n \in DOMAIN name_to_cxt[w] :
       name_to_cxt[w][n].initialized =>
          /\ Len(name_to_cxt[w][n].key_list) = Len(PartitionTensor(w, n))
          /\ \A i \in DOMAIN PartitionTensor(w, n) :
                LET task == PartitionTensor(w, n)[i]
                IN  \E p \in pushes :
                       /\ p.worker = w /\ p.cmd = "init" /\ p.tensor = n
                       /\ p.key = task.key /\ p.server = ps_kv[w][task.key].server
                       /\ p.offset = task.offset /\ p.len = task.len

\* InitTensor is a global barrier (operations.cc:419): it returns in every
\* process, so every process gets through its epoch.
EpochsEnd == \A w \in Workers : life[w] = "down" ~> life[w] = "left" \/ aborted

=============================================================================
