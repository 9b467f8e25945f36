--------------------------- MODULE ServerProperties ---------------------------
(***************************************************************************)
(* What the server of module Server promises.                              *)
(***************************************************************************)
EXTENDS Server

\* Every variable stays in its type.
TypeOK ==
    /\ stage \in [Keys -> [Workers -> Stage]]
    /\ round \in [Keys -> [Workers -> Rounds]]
    /\ got \in [Keys -> [Workers -> Element]]
    /\ stored \in [Keys -> Element]
    /\ request \in [Keys -> SUBSET KVMeta]
    /\ merged \in [Keys -> {"null", "stored", "cbuf"}]
    /\ compressor_map \subseteq Keys
    /\ cbuf \in [Keys -> Element]
    /\ hash_cache \in [Keys -> Threads \union {NoThread}]
    /\ acc_load \in [Threads -> Nat]
    /\ queue \in [Threads -> Seq(EngineMessage)]
    /\ engine \in [Threads -> SUBSET Keys]
    /\ stopped \subseteq Threads
    /\ is_push_finished \in [Keys -> BOOLEAN]
    /\ pull_cnt \in [Keys -> Nat]
    /\ seen_sender \in [Keys -> SUBSET Workers]
    /\ q_pull_reqmeta \in [Keys -> SUBSET KVMeta]
    /\ phase \in {"running", "finalized"}
    /\ aborted \in {"no", "stored->tensor", "hash_cache_", "flag_mu_",
                    "merged.tensor", "inc_server_", "inc_reducer_"}
    /\ epoch \in [Keys -> Nat]

-----------------------------------------------------------------------------
(* Safety.                                                                 *)

\* No request of a worker is outstanding.
NothingOutstanding == \A k \in Keys, w \in Workers : stage[k][w] \in {"start", "ready"}

\* No check of the handler or of an engine thread fails: a pull never comes
\* before its buffer, its thread and its merged tensor are known (server.cc:437,
\* 83, 50).  Two things may end the server: flag vectors that have no slot for a
\* thread, and a worker that left with a request outstanding, for which an engine
\* thread then uses the reducer or the ps-lite server that start_server deleted.
AbortsExplained ==
    \/ aborted = "no"
    \/ aborted = "flag_mu_" /\ NumFlagSlots < NumThreads
    \/ /\ aborted \in {"inc_server_", "inc_reducer_"} /\ phase = "finalized"
       /\ LeaveEarly /\ ~NothingOutstanding

\* The handler and the engine threads find a flag for the thread of a key, as
\* the comment "push not finished, put into the queue, and wait for the engine"
\* (server.cc:472) has it; nothing gives the vectors a size (server.h:84-88).
FlagsExist == aborted # "flag_mu_"

\* The worker has pushed its contribution of round r of the key and has not
\* been given the sum of that round.
Waits(k, w, r) ==
    round[k][w] = r /\ stage[k][w] \in {"pushed", "pull", "pullHeld"}

\* The server has handled the worker's push of round r.
Pushed(k, w, r) == round[k][w] > r \/ (round[k][w] = r /\ stage[k][w] # "push")

\* The ALL_RECV of a key is queued or being executed.
Closing(k) ==
    \E i \in Threads :
       \/ k \in engine[i]
       \/ \E j \in DOMAIN queue[i] :
             queue[i][j].key = k /\ queue[i][j].ops = "ALL_RECV"

\* The pull flags follow the rounds of the workers.  Between two rounds every
\* sender is forgotten; while a round is answered, the senders seen are exactly
\* the workers that no longer wait for it, pull_cnt counts them, and somebody
\* still waits.  So no answer is given twice, and none to a wrong round.
PullAccounting ==
    \A k \in Keys :
       IF is_push_finished[k]
       THEN /\ ~Closing(k)
            /\ seen_sender[k] = {w \in Workers : ~Waits(k, w, epoch[k])}
            /\ pull_cnt[k] = Cardinality(seen_sender[k])
            /\ pull_cnt[k] < NumWorkers
       ELSE /\ seen_sender[k] = {} /\ pull_cnt[k] = 0
            /\ \A w \in Workers : ~Waits(k, w, epoch[k])

\* A worker has the answer of a round only after all workers have pushed that
\* round, and no worker is more than one round ahead of another.
Barrier ==
    \A k \in Keys : \A v, w \in Workers :
       /\ round[k][v] <= round[k][w] + 1
       /\ stage[k][w] \in {"answered", "ready"} => Pushed(k, v, round[k][w])

\* The lock-free write of merged (server.cc:147-156) never meets the handler's
\* read of it: while an ALL_RECV of a key is pending the handler answers no pull
\* of that key, and every worker has its pull ahead or held.
MergedNotShared ==
    \A k \in Keys : Closing(k) =>
       /\ ~is_push_finished[k]
       /\ request[k] = {}
       /\ \A w \in Workers : Waits(k, w, epoch[k] + 1)

\* When the engine declares a round finished, the buffer holds in every element
\* the contribution of every worker to that round, and nothing of another round.
SumComplete ==
    \A i \in Threads : \A k \in engine[i] : stored[k] = Sum(epoch[k] + 1)

\* A sum in the form in which a pull of the key returns it.
AsSent(k, S) == IF k \in Compressed THEN Encode(S) ELSE S

\* A pull returns in an element the complete sum of its round, unless the next
\* round has overwritten the element: then it returns contributions of that next
\* round, and never the worker's own.  For a compressed key those are gradients
\* that Decompress left in the buffer (server.cc:143), where the worker expects
\* a code.  Different elements of one answer may be of the two rounds: see
\* ExactAnswer in ServerTensorProperties.
ElementOfOneRound ==
    \A k \in Keys, w \in Workers :
       stage[k][w] = "ready" /\ round[k][w] > 0 =>
          \/ got[k][w] = AsSent(k, Sum(round[k][w]))
          \/ got[k][w] # {} /\ got[k][w] \subseteq (Workers \ {w}) \X {round[k][w] + 1}

\* After ps::Finalize, if no worker left with a request outstanding, the engine
\* threads have no message but TERMINATE to take, and the workers have all
\* finished the same rounds.
ShutdownQuiescent ==
    phase = "finalized" /\ NothingOutstanding =>
       /\ \A i \in Threads :
             /\ engine[i] = {}
             /\ \A j \in DOMAIN queue[i] : queue[i][j].ops = "TERMINATE"
       /\ \A k \in Keys : \A v, w \in Workers : round[k][v] = round[k][w]

\* GetThreadID balances (server.cc:104): no engine thread has more load than
\* another by more than one of its own keys.
EngineLoad ==
    \A i, j \in Threads :
       acc_load[i] - acc_load[j] <= 0
       \/ \E k \in Keys : acc_load[i] - acc_load[j] <= LenOf[k] /\ hash_cache[k] = i

\* In async mode every acknowledged push of a key without a compressor is in the
\* buffer for good.  Of a compressed key the code is in the buffer, summed as if
\* its bytes were numbers (server.cc:360): no gradient that could be kept.
AsyncKeepsPushes ==
    ~SyncMode =>
       \A k \in Keys \ compressor_map, w \in Workers : \A r \in 1 .. MaxRound :
          r < round[k][w] \/ Waits(k, w, r) => <<w, r>> \in stored[k]

\* In async mode no pull is ever answered: only the engine threads set the merged
\* tensor (server.cc:134, 153), which async mode does not start (server.cc:528),
\* so the first pull fails the check of server.cc:50, although the key has its
\* buffer and the pushes are in it.
AsyncPullsFail ==
    ~SyncMode =>
       /\ aborted \in {"no", "merged.tensor"}
       /\ \A k \in Keys, w \in Workers : stage[k][w] # "answered" /\ got[k][w] = {}

-----------------------------------------------------------------------------
(* The server implements the all-reduce.                                   *)

\* The rounds of which the server has handled the worker's push.
Contributed == [k \in Keys |-> [w \in Workers |->
                  IF stage[k][w] = "push" THEN round[k][w] - 1 ELSE round[k][w]]]

\* The rounds of which the worker has received the answer.
Answered == [k \in Keys |-> [w \in Workers |->
               IF stage[k][w] \in {"push", "pushed", "pull", "pullHeld", "answered"}
               THEN round[k][w] - 1 ELSE round[k][w]]]

\* What a worker got, whatever the form in which it came.
Plain(S) == {<<m[1], m[2]>> : m \in S}
Gotten == [k \in Keys |-> [w \in Workers |-> Plain(got[k][w])]]

Abstract == INSTANCE AllReduce
               WITH contributed <- Contributed, answered <- Answered, got <- Gotten

\* In sync mode the handler and the engine threads together implement AllReduce
\* for each element of a tensor.
ImplementsAllReduce == Abstract!Spec

-----------------------------------------------------------------------------
(* Liveness.                                                               *)

\* A worker that pulls gets its answer, and one that starts gets through the
\* init, and the registration of its compressor, of all its keys (the handler
\* withholds these answers until all workers have sent theirs, server.cc:309),
\* unless the server has ended, or the worker has left.
RequestsAnswered ==
    \A k \in Keys, w \in Workers :
       stage[k][w] \in {"init", "register", "pull"} ~>
          stage[k][w] = "ready" \/ aborted # "no" \/ phase = "finalized"

\* After ps::Finalize every engine thread returns and start_server joins it,
\* unless a thread has used what was deleted.
EnginesStop == phase = "finalized" /\ SyncMode ~> stopped = Threads \/ aborted # "no"

=============================================================================
