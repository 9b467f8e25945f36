------------------------------- MODULE Server -------------------------------
(***************************************************************************)
(* The DeepINC parameter server (server/server.cc): the request handler    *)
(* that ps-lite calls for every push and pull, the engine threads that sum *)
(* the pushed gradients, the flags by which both decide when a pull is     *)
(* answered, and the shutdown of the engine threads.                       *)
(*                                                                         *)
(* The workers are the environment: for one key a worker has at most one   *)
(* request outstanding (InitTensor waits for its pushes; a partition goes  *)
(* from the PUSH queue to the PULL queue in the callback of its push).     *)
(* Requests of different keys or workers reach the handler in any order.   *)
(*                                                                         *)
(* The module follows one element of the tensor of each key.  The engine   *)
(* threads copy and sum element by element without a lock, and ps-lite     *)
(* sends from the same memory, so only an element is read and written in   *)
(* one step; ServerTensor has the parts of a tensor side by side.          *)
(*                                                                         *)
(* An element is abstracted to the set of contributions summed in it, a    *)
(* contribution being <<worker, round>>; round 0 is the value of the init  *)
(* push.  A worker pushes a round once, so no contribution is summed twice *)
(* and sets lose nothing.  The empty set is a buffer not yet allocated.    *)
(***************************************************************************)
EXTENDS Integers, FiniteSets, Sequences

CONSTANTS
    Workers,       \* the ps-lite workers, ps::NumWorkers() of them
    Keys,          \* the keys (tensor partitions) of this server
    Compressed,    \* the keys for which the workers register a compressor
    NumThreads,    \* engine_thread_num_
    NumFlagSlots,  \* the size of flag_mu_ and of the four vectors beside it;
                   \* 0 in the code, which never sizes them
    LenOf,         \* the length of the tensor of each key
    SyncMode,      \* sync_mode_, i.e. ENABLE_ASYNC is not set
    LeaveEarly,    \* whether workers may leave with requests outstanding
    MaxRound       \* bound: the rounds of pushes a worker makes

NumWorkers == Cardinality(Workers)
Threads == 0 .. (NumThreads - 1)
Rounds == 0 .. MaxRound
NoThread == -1

\* The environment and build settings under which the server is started.
ASSUME ServerAssumption ==
    /\ IsFiniteSet(Workers) /\ Workers # {}
    /\ Keys # {}
    /\ Compressed \subseteq Keys
    /\ NumThreads \in Nat \ {0}
    /\ NumFlagSlots \in Nat
    /\ LenOf \in [Keys -> Nat \ {0}]
    /\ SyncMode \in BOOLEAN /\ LeaveEarly \in BOOLEAN
    /\ MaxRound \in Nat

\* What the server remembers of a request: its sender and, for the timestamp
\* that tells two requests of a sender apart, its round.
KVMeta == Workers \X Rounds

\* Contributions in the code of a compressor, which has to be decompressed
\* before they can be summed.
Encode(S) == {<<m[1], m[2], "encoded">> : m \in S}

\* An element: the contributions summed in it.
Element == SUBSET (KVMeta \union Encode(KVMeta))

\* The complete sum of a round.
Sum(r) == Workers \X {r}

Operation == {"COPY_FIRST", "SUM_RECV", "ALL_RECV", "TERMINATE"}

\* A message to an engine thread; src is the received gradient, decompressed
\* when the thread needs it, and {} for the two operations that have none.
EngineMessage == [key : Keys, ops : Operation, src : Element]

\* What a worker is doing with a key.  A stage "...Held" is a request that the
\* handler has buffered without an answer.
Stage == {"start", "init", "initHeld", "inited", "register", "registerHeld",
          "ready", "push", "pushed", "pull", "pullHeld", "answered"}

VARIABLES
    stage,             \* [Keys -> [Workers -> Stage]]
    round,             \* the round of a worker's last push of a key
    got,               \* what a worker's last pull of a key returned
    stored,            \* an element of store_[key].tensor
    request,           \* update_buf_[key].request
    merged,            \* what update_buf_[key].merged.tensor points to
    compressor_map,    \* the keys of compressor_map_
    cbuf,              \* what the buffer of a key's compressor has of it
    hash_cache,        \* the engine thread of a key, or NoThread
    acc_load,          \* the accumulated tensor length of an engine thread
    queue,             \* engine_queues_
    engine,            \* {key} while a thread is between lines 156 and 167
    stopped,           \* the engine threads that have returned
    is_push_finished,  \* the flags of a key, each in the slot of its thread
    pull_cnt,
    seen_sender,
    q_pull_reqmeta,
    phase,             \* "running", or "finalized" after ps::Finalize
    aborted,           \* the check that ended the process, or "no"
    epoch              \* history: the ALL_RECV messages done for a key

workerVars == <<stage, round, got>>
storeVars == <<stored, request, compressor_map, hash_cache, acc_load>>
engineVars == <<queue, engine, stopped, merged, cbuf>>
flagVars == <<is_push_finished, pull_cnt, seen_sender, q_pull_reqmeta>>
vars == <<workerVars, storeVars, engineVars, flagVars, phase, aborted, epoch>>

Up == phase = "running" /\ aborted = "no"

Init ==
    /\ stage = [k \in Keys |-> [w \in Workers |-> "start"]]
    /\ round = [k \in Keys |-> [w \in Workers |-> 0]]
    /\ got = [k \in Keys |-> [w \in Workers |-> {}]]
    /\ stored = [k \in Keys |-> {}]
    /\ request = [k \in Keys |-> {}]
    /\ merged = [k \in Keys |-> "null"]
    /\ compressor_map = {}
    /\ cbuf = [k \in Keys |-> {}]
    /\ hash_cache = [k \in Keys |-> NoThread]
    /\ acc_load = [i \in Threads |-> 0]
    /\ queue = [i \in Threads |-> << >>]
    /\ engine = [i \in Threads |-> {}]
    /\ stopped = {}
    /\ is_push_finished = [k \in Keys |-> FALSE]
    /\ pull_cnt = [k \in Keys |-> 0]
    /\ seen_sender = [k \in Keys |-> {}]
    /\ q_pull_reqmeta = [k \in Keys |-> {}]
    /\ phase = "running"
    /\ aborted = "no"
    /\ epoch = [k \in Keys |-> 0]

-----------------------------------------------------------------------------
(* The workers.                                                            *)

Meta(k, w) == <<w, round[k][w]>>

Goes(k, w, s) == stage' = [stage EXCEPT ![k][w] = s]

\* InitTensor: the blocking push that allocates the tensor on the server.
IssueInit(k, w) ==
    /\ Up /\ stage[k][w] = "start"
    /\ Goes(k, w, "init")
    /\ UNCHANGED <<round, got, storeVars, engineVars, flagVars, phase, aborted, epoch>>

\* InitTensor: the blocking push of the compressor's settings.
IssueRegister(k, w) ==
    /\ Up /\ stage[k][w] = "inited"
    /\ Goes(k, w, "register")
    /\ UNCHANGED <<round, got, storeVars, engineVars, flagVars, phase, aborted, epoch>>

\* RunPushLoopOnce: ZPush of the next round.
IssuePush(k, w) ==
    /\ Up /\ stage[k][w] = "ready" /\ round[k][w] < MaxRound
    /\ Goes(k, w, "push")
    /\ round' = [round EXCEPT ![k][w] = @ + 1]
    /\ UNCHANGED <<got, storeVars, engineVars, flagVars, phase, aborted, epoch>>

\* RunPullLoopOnce: ZPull, after the callback of the push.
IssuePull(k, w) ==
    /\ Up /\ stage[k][w] = "pushed"
    /\ Goes(k, w, "pull")
    /\ UNCHANGED <<round, got, storeVars, engineVars, flagVars, phase, aborted, epoch>>

\* What merged.tensor points to.
MergedTensor(k) == IF merged[k] = "cbuf" THEN cbuf[k] ELSE stored[k]

\* A pull response is built over the merged buffer without a copy: what the
\* worker gets of the element is what the buffer holds when ps-lite sends it.
Receive(k, w) ==
    /\ Up /\ stage[k][w] = "answered"
    /\ Goes(k, w, "ready")
    /\ got' = [got EXCEPT ![k][w] = MergedTensor(k)]
    /\ UNCHANGED <<round, storeVars, engineVars, flagVars, phase, aborted, epoch>>

-----------------------------------------------------------------------------
(* DeepIncServerHandle, under handle_mu_.                                  *)

\* The stage of a worker whose init push is answered.
AfterInit(k) == IF k \in Compressed THEN "inited" ELSE "ready"

\* SendPushResponse to every buffered request and to the one being handled.
Respond(k, metas, s) ==
    stage' = [stage EXCEPT ![k] =
                 [w \in Workers |-> IF Meta(k, w) \in metas THEN s ELSE @[w]]]

\* Not all workers have sent theirs.
StillCollecting(metas) == Cardinality(metas) < NumWorkers

\* A push of a key that has no buffer yet: the response is withheld until all
\* workers have pushed, the last one's tensor initialising the buffer.
HandleInitPush(k, w) ==
    /\ Up /\ stage[k][w] = "init" /\ stored[k] = {}
    /\ LET metas == request[k] \union {Meta(k, w)}
       IN  IF StillCollecting(metas)
           THEN /\ request' = [request EXCEPT ![k] = metas]
                /\ Goes(k, w, "initHeld")
                /\ UNCHANGED stored
           ELSE /\ stored' = [stored EXCEPT ![k] = {Meta(k, w)}]
                /\ request' = [request EXCEPT ![k] = {}]
                /\ Respond(k, metas, AfterInit(k))
    /\ UNCHANGED <<round, got, compressor_map, hash_cache, acc_load,
                   engineVars, flagVars, phase, aborted, epoch>>

\* A compressor registration: the first one creates the compressor, and all
\* workers are answered when the last one has registered.
HandleRegister(k, w) ==
    /\ Up /\ stage[k][w] = "register"
    /\ compressor_map' = compressor_map \union {k}
    /\ LET metas == request[k] \union {Meta(k, w)}
       IN  IF StillCollecting(metas)
           THEN /\ request' = [request EXCEPT ![k] = metas]
                /\ Goes(k, w, "registerHeld")
           ELSE /\ request' = [request EXCEPT ![k] = {}]
                /\ Respond(k, metas, "ready")
    /\ UNCHANGED <<round, got, stored, hash_cache, acc_load,
                   engineVars, flagVars, phase, aborted, epoch>>

\* The first of the least loaded engine threads.
MostLoaded(i) == \A j \in Threads : acc_load[i] >= acc_load[j]
LeastLoaded(i) ==
    \A j \in Threads : /\ acc_load[i] <= acc_load[j]
                       /\ j < i => acc_load[i] < acc_load[j]

\* GetThreadID of a push: the thread tid of the key, chosen at its first push.
GetThreadID(k, tid) ==
    IF hash_cache[k] # NoThread
    THEN tid = hash_cache[k] /\ UNCHANGED <<hash_cache, acc_load>>
    ELSE /\ LeastLoaded(tid)
         /\ hash_cache' = [hash_cache EXCEPT ![k] = tid]
         /\ acc_load' = [acc_load EXCEPT ![tid] = @ + LenOf[k]]

Message(k, op, src) == [key |-> k, ops |-> op, src |-> src]

\* The queue of the thread after the push of a round: COPY_FIRST of the first
\* worker, SUM_RECV of the others, and ALL_RECV after the last of them.
FirstOrSum(k) == IF request[k] = {} THEN "COPY_FIRST" ELSE "SUM_RECV"
AllReceived(metas) == Cardinality(metas) = NumWorkers
WithPush(q, k, w) == Append(q, Message(k, FirstOrSum(k), {Meta(k, w)}))
WithClose(q, k) == Append(q, Message(k, "ALL_RECV", {}))

EnqueueClosingFirst(q, k, w) ==
    IF AllReceived(request[k] \union {Meta(k, w)})
    THEN WithPush(WithClose(q, k), k, w)
    ELSE WithPush(q, k, w)
EnqueueClosingEarly(q, k, w) ==
    IF Cardinality(request[k]) + 2 = NumWorkers
    THEN WithClose(WithPush(q, k, w), k)
    ELSE WithPush(q, k, w)
Enqueue(q, k, w) ==
    IF AllReceived(request[k] \union {Meta(k, w)})
    THEN WithClose(WithPush(q, k, w), k)
    ELSE WithPush(q, k, w)

\* The push of a round in sync mode.  It is acknowledged at once; the push of
\* the last worker also closes the round.
HandlePush(k, w) ==
    /\ Up /\ SyncMode /\ stage[k][w] = "push" /\ stored[k] # {}
    /\ \E tid \in Threads :
          /\ GetThreadID(k, tid)
          /\ queue' = [queue EXCEPT ![tid] = Enqueue(@, k, w)]
    /\ LET metas == request[k] \union {Meta(k, w)}
       IN  request' = [request EXCEPT ![k] = IF AllReceived(metas) THEN {} ELSE metas]
    /\ Goes(k, w, "pushed")
    /\ UNCHANGED <<round, got, stored, compressor_map, engine, stopped, merged,
                   cbuf, flagVars, phase, aborted, epoch>>

\* What a worker's push consists of: its gradient, compressed if the key has a
\* compressor.
AsPushed(k, w) == IF k \in compressor_map THEN Encode({Meta(k, w)}) ELSE {Meta(k, w)}

\* The buffer after the push of a worker in async mode: the received bytes are
\* summed as they are.
AsyncCopy(k, w) == AsPushed(k, w)
AsyncSum(k, w) == stored[k] \union AsPushed(k, w)

\* The push of a round in async mode: summed into the buffer by the handler.
\* The request list is emptied again, so that every push takes this branch.
HandlePushAsync(k, w) ==
    /\ Up /\ ~SyncMode /\ stage[k][w] = "push" /\ stored[k] # {}
    /\ \E tid \in Threads : GetThreadID(k, tid)
    /\ stored' = [stored EXCEPT ![k] = AsyncSum(k, w)]
    /\ request' = [request EXCEPT ![k] = {}]
    /\ Goes(k, w, "pushed")
    /\ UNCHANGED <<round, got, compressor_map, engineVars, flagVars, phase,
                   aborted, epoch>>

\* The handler answers a pull itself in async mode, and in sync mode if the
\* round is finished and the worker has not had the answer of that round.
AnswersUnfinished(k, w) == ~SyncMode \/ w \notin seen_sender[k]
AnswersAgain(k, w) == ~SyncMode \/ is_push_finished[k]
AnswersNow(k, w) == ~SyncMode \/ (is_push_finished[k] /\ w \notin seen_sender[k])

\* The check that a pull fails, in the order of the code.
PullFailureUnmerged(k, w) ==
    IF stored[k] = {} THEN "stored->tensor"
    ELSE IF SyncMode /\ hash_cache[k] = NoThread THEN "hash_cache_"
    ELSE IF SyncMode /\ hash_cache[k] >= NumFlagSlots THEN "flag_mu_"
    ELSE "no"
PullFailure(k, w) ==
    IF stored[k] = {} THEN "stored->tensor"
    ELSE IF SyncMode /\ hash_cache[k] = NoThread THEN "hash_cache_"
    ELSE IF SyncMode /\ hash_cache[k] >= NumFlagSlots THEN "flag_mu_"
    ELSE IF AnswersNow(k, w) /\ merged[k] = "null" THEN "merged.tensor"
    ELSE "no"

PullAborts(k, w) ==
    /\ Up /\ stage[k][w] = "pull"
    /\ PullFailure(k, w) # "no"
    /\ aborted' = PullFailure(k, w)
    /\ UNCHANGED <<workerVars, storeVars, engineVars, flagVars, phase, epoch>>

\* Counting one answered pull of a round.  With the pull of the last worker
\* the flags are cleared for the next round.
CountPullsDown(k, senders) ==
    /\ is_push_finished' = [is_push_finished EXCEPT ![k] = TRUE]
    /\ pull_cnt' = [pull_cnt EXCEPT ![k] = @ - Cardinality(senders)]
    /\ seen_sender' = [seen_sender EXCEPT ![k] = @ \union senders]
CountPullsKeepingSenders(k, senders) ==
    /\ seen_sender' = [seen_sender EXCEPT ![k] = @ \union senders]
    /\ IF pull_cnt[k] + Cardinality(senders) = NumWorkers
       THEN /\ is_push_finished' = [is_push_finished EXCEPT ![k] = FALSE]
            /\ pull_cnt' = [pull_cnt EXCEPT ![k] = 0]
       ELSE /\ is_push_finished' = [is_push_finished EXCEPT ![k] = TRUE]
            /\ pull_cnt' = [pull_cnt EXCEPT ![k] = @ + Cardinality(senders)]
CountPullsKeepingFlag(k, senders) ==
    /\ is_push_finished' = [is_push_finished EXCEPT ![k] = TRUE]
    /\ IF pull_cnt[k] + Cardinality(senders) = NumWorkers
       THEN /\ pull_cnt' = [pull_cnt EXCEPT ![k] = 0]
            /\ seen_sender' = [seen_sender EXCEPT ![k] = {}]
       ELSE /\ pull_cnt' = [pull_cnt EXCEPT ![k] = @ + Cardinality(senders)]
            /\ seen_sender' = [seen_sender EXCEPT ![k] = @ \union senders]
CountPulls(k, senders) ==
    IF pull_cnt[k] + Cardinality(senders) = NumWorkers
    THEN /\ is_push_finished' = [is_push_finished EXCEPT ![k] = FALSE]
         /\ pull_cnt' = [pull_cnt EXCEPT ![k] = 0]
         /\ seen_sender' = [seen_sender EXCEPT ![k] = {}]
    ELSE /\ is_push_finished' = [is_push_finished EXCEPT ![k] = TRUE]
         /\ pull_cnt' = [pull_cnt EXCEPT ![k] = @ + Cardinality(senders)]
         /\ seen_sender' = [seen_sender EXCEPT ![k] = @ \union senders]

\* A pull that the handler answers.
HandlePull(k, w) ==
    /\ Up /\ stage[k][w] = "pull"
    /\ PullFailure(k, w) = "no" /\ AnswersNow(k, w)
    /\ IF SyncMode
       THEN CountPulls(k, {w})
       ELSE UNCHANGED <<is_push_finished, pull_cnt, seen_sender>>
    /\ Goes(k, w, "answered")
    /\ UNCHANGED <<round, got, storeVars, engineVars, q_pull_reqmeta, phase,
                   aborted, epoch>>

\* A pull that comes before its round is finished: left to the engine.
HoldPull(k, w) ==
    /\ Up /\ stage[k][w] = "pull"
    /\ PullFailure(k, w) = "no" /\ ~AnswersNow(k, w)
    /\ q_pull_reqmeta' = [q_pull_reqmeta EXCEPT ![k] = @ \union {Meta(k, w)}]
    /\ Goes(k, w, "pullHeld")
    /\ UNCHANGED <<round, got, storeVars, engineVars, is_push_finished, pull_cnt,
                   seen_sender, phase, aborted, epoch>>

-----------------------------------------------------------------------------
(* DeepIncServerEngineThread.                                              *)

\* The next message of thread i is one of operation op.
AtFront(i, op) ==
    /\ aborted = "no" /\ i \notin stopped /\ engine[i] = {}
    /\ queue[i] # << >> /\ Head(queue[i]).ops = op

Takes(i, op) == AtFront(i, op) /\ queue' = [queue EXCEPT ![i] = Tail(@)]

\* Decompress writes the received gradient to the compressor's own buffer, where
\* the code of the last sum was: an answer may still be read from there.
Decompress(k, src) ==
    cbuf' = IF k \in compressor_map THEN [cbuf EXCEPT ![k] = src] ELSE cbuf

EngineCopyFirst(i) ==
    /\ Takes(i, "COPY_FIRST")
    /\ LET msg == Head(queue[i])
       IN  /\ Decompress(msg.key, msg.src)
           /\ stored' = [stored EXCEPT ![msg.key] = msg.src]
    /\ UNCHANGED <<workerVars, request, compressor_map, hash_cache, acc_load, engine,
                   stopped, merged, flagVars, phase, aborted, epoch>>

EngineSumRecv(i) ==
    /\ Takes(i, "SUM_RECV")
    /\ LET msg == Head(queue[i])
       IN  /\ Decompress(msg.key, msg.src)
           /\ stored' = [stored EXCEPT ![msg.key] = @ \union msg.src]
    /\ UNCHANGED <<workerVars, request, compressor_map, hash_cache, acc_load, engine,
                   stopped, merged, flagVars, phase, aborted, epoch>>

\* ALL_RECV, first part: merged is set without a lock.
EngineAllRecv(i) ==
    /\ Takes(i, "ALL_RECV")
    /\ LET k == Head(queue[i]).key
       IN  /\ IF k \in compressor_map
              THEN /\ cbuf' = [cbuf EXCEPT ![k] = Encode(stored[k])]
                   /\ merged' = [merged EXCEPT ![k] = "cbuf"]
              ELSE /\ merged' = [merged EXCEPT ![k] = "stored"]
                   /\ UNCHANGED cbuf
           /\ engine' = [engine EXCEPT ![i] = {k}]
    /\ UNCHANGED <<workerVars, storeVars, stopped, flagVars, phase, aborted, epoch>>

\* The held pulls that the end of a round answers.
ServedAgain(k) == {m \in q_pull_reqmeta[k] : m[1] \in seen_sender[k]}
Served(k) == {m \in q_pull_reqmeta[k] : m[1] \notin seen_sender[k]}

\* ALL_RECV, second part, under flag_mu_: the round is finished and the pulls
\* held for it are answered.
EngineFinishRound(i) ==
    /\ aborted = "no" /\ i < NumFlagSlots
    /\ \E k \in engine[i] :
          /\ phase = "running" \/ Served(k) = {}
          /\ CountPulls(k, {m[1] : m \in Served(k)})
          /\ q_pull_reqmeta' = [q_pull_reqmeta EXCEPT ![k] = @ \ Served(k)]
          /\ Respond(k, Served(k), "answered")
          /\ epoch' = [epoch EXCEPT ![k] = @ + 1]
    /\ engine' = [engine EXCEPT ![i] = {}]
    /\ UNCHANGED <<round, got, storeVars, queue, stopped, merged, cbuf, phase, aborted>>

\* The pointers that start_server deletes and clears after ps::Finalize, and
\* the vectors that have no element i: what ends the process if it is used.  A
\* copy or a sum that was begun before the reducer was deleted may also end.
\* That a code fits its message (server.cc:140) is in module Compression.
EngineFailure(i) ==
    IF engine[i] # {} /\ i >= NumFlagSlots THEN "flag_mu_"
    ELSE IF phase = "finalized" /\ (\E k \in engine[i] : Served(k) # {})
    THEN "inc_server_"
    ELSE IF phase = "finalized" /\ (AtFront(i, "COPY_FIRST") \/ AtFront(i, "SUM_RECV"))
    THEN "inc_reducer_"
    ELSE "no"

EngineAborts(i) ==
    /\ aborted = "no" /\ EngineFailure(i) # "no"
    /\ aborted' = EngineFailure(i)
    /\ UNCHANGED <<workerVars, storeVars, engineVars, flagVars, phase, epoch>>

EngineTerminate(i) ==
    /\ Takes(i, "TERMINATE")
    /\ stopped' = stopped \union {i}
    /\ UNCHANGED <<workerVars, storeVars, engine, merged, cbuf, flagVars, phase,
                   aborted, epoch>>

Engine(i) == \/ EngineCopyFirst(i) \/ EngineSumRecv(i) \/ EngineAllRecv(i)
             \/ EngineFinishRound(i) \/ EngineAborts(i) \/ EngineTerminate(i)

-----------------------------------------------------------------------------
(* start_server.                                                           *)

\* A worker leaves with no request outstanding; BytePSGlobal::Shutdown does not
\* wait for that, so it may also leave with an answer or a pull still to come.
MayLeave(k, w) ==
    IF LeaveEarly THEN stage[k][w] \notin {"init", "register", "push", "pull"}
    ELSE stage[k][w] \in {"start", "ready"}

\* One TERMINATE, whose key is left unset, for each engine queue; in async mode
\* there are no engine queues.
NoTermination == queue
Termination ==
    IF SyncMode
    THEN [i \in Threads |->
             Append(queue[i], Message(CHOOSE k \in Keys : TRUE, "TERMINATE", {}))]
    ELSE queue

\* The barrier of ps::Finalize: every worker has left.
AllWorkersLeft == \A k \in Keys, w \in Workers : MayLeave(k, w)

\* After the barrier the reducer and the ps-lite server are deleted, and the
\* engine threads are told to stop.
Finalize ==
    /\ Up /\ AllWorkersLeft
    /\ phase' = "finalized"
    /\ queue' = Termination
    /\ UNCHANGED <<workerVars, storeVars, engine, stopped, merged, cbuf, flagVars,
                   aborted, epoch>>

\* The process is over: the engine threads are joined.
Quit ==
    /\ phase = "finalized" /\ (SyncMode => stopped = Threads)
    /\ UNCHANGED vars

-----------------------------------------------------------------------------

Worker(k, w) == \/ IssueInit(k, w) \/ IssueRegister(k, w) \/ IssuePush(k, w)
                \/ IssuePull(k, w) \/ Receive(k, w)

Handle(k, w) == \/ HandleInitPush(k, w) \/ HandleRegister(k, w)
                \/ HandlePush(k, w) \/ HandlePushAsync(k, w)
                \/ PullAborts(k, w) \/ HandlePull(k, w) \/ HoldPull(k, w)

Next == \/ \E k \in Keys, w \in Workers : Worker(k, w) \/ Handle(k, w)
        \/ \E i \in Threads : Engine(i)
        \/ Finalize
        \/ Quit

Spec == Init /\ [][Next]_vars

\* The threads of the server and of the workers run; ps-lite delivers.
Fairness == /\ \A k \in Keys, w \in Workers :
                  WF_vars(Worker(k, w)) /\ WF_vars(Handle(k, w))
            /\ \A i \in Threads : WF_vars(Engine(i))

FairSpec == Spec /\ Fairness

=============================================================================
