--------------------------- MODULE ServerInvariant ---------------------------
(***************************************************************************)
(* The inductive invariant of the server in sync mode.  epoch[k] counts    *)
(* the rounds of key k that the engine has finished; every worker's stage  *)
(* and round, the request list, the flags and the queued messages are      *)
(* described relative to it.                                               *)
(***************************************************************************)
EXTENDS ServerProperties

-----------------------------------------------------------------------------
(* Where a worker is, relative to the finished rounds of a key.            *)

\* The worker's contribution to the round being collected has been handled.
Counted(k, w) == Waits(k, w, epoch[k] + 1)

\* The worker has not had, or not yet asked for, the answer of the last
\* finished round.
Late(k, w) == round[k][w] = epoch[k] /\ stage[k][w] \in {"pushed", "pull"}

\* The worker is done with the last finished round.
Between(k, w) ==
    \/ round[k][w] = epoch[k] /\ stage[k][w] \in {"ready", "answered"}
    \/ round[k][w] = epoch[k] + 1 /\ stage[k][w] = "push"

\* A key is being initialised, or its compressor registered, or trained.
InitPhase(k) ==
    /\ stored[k] = {} /\ epoch[k] = 0
    /\ \A w \in Workers : round[k][w] = 0 /\ stage[k][w] \in {"start", "init", "initHeld"}
RegisterPhase(k) ==
    /\ stored[k] # {} /\ epoch[k] = 0
    /\ \A w \in Workers :
          round[k][w] = 0 /\ stage[k][w] \in {"inited", "register", "registerHeld"}
TrainPhase(k) ==
    /\ stored[k] # {}
    /\ \A w \in Workers : Counted(k, w) \/ Late(k, w) \/ Between(k, w)

PhaseInv(k) == InitPhase(k) \/ RegisterPhase(k) \/ TrainPhase(k)

-----------------------------------------------------------------------------
(* The handler's lists and the flags.                                      *)

\* The workers whose request is in update_buf_[key].request.
Buffered(k, w) == stage[k][w] \in {"initHeld", "registerHeld"} \/ Counted(k, w)

RequestInv(k) ==
    request[k] = IF Closing(k) THEN {}
                 ELSE {Meta(k, w) : w \in {v \in Workers : Buffered(k, v)}}

HeldInv(k) ==
    q_pull_reqmeta[k] = {Meta(k, w) : w \in {v \in Workers : stage[k][v] = "pullHeld"}}

FlagInv(k) ==
    IF is_push_finished[k]
    THEN /\ seen_sender[k] = {w \in Workers : ~Late(k, w)}
         /\ \E w \in Workers : Late(k, w)
         /\ merged[k] # "null"
    ELSE /\ seen_sender[k] = {}
         /\ \A w \in Workers : ~Late(k, w)

CountInv(k) == pull_cnt[k] = Cardinality(seen_sender[k])

CloseInv(k) == Closing(k) => \A w \in Workers : Counted(k, w)

HashInv(k) ==
    \A w \in Workers : stage[k][w] \in {"pushed", "pull"} => hash_cache[k] # NoThread

KeyInv(k) ==
    /\ PhaseInv(k) /\ RequestInv(k) /\ HeldInv(k)
    /\ FlagInv(k) /\ CountInv(k) /\ CloseInv(k) /\ HashInv(k)

-----------------------------------------------------------------------------
(* The messages.                                                           *)

\* Position j of queue i holds a message for key k.
MessageAt(i, j, k) ==
    /\ j \in DOMAIN queue[i]
    /\ queue[i][j].key = k /\ queue[i][j].ops # "TERMINATE"

\* A message is with the thread of its key.  A push carries the contribution of
\* a counted worker.  ALL_RECV is the last message of its key.
MessageInv(i, j, k) ==
    MessageAt(i, j, k) =>
       /\ hash_cache[k] = i
       /\ queue[i][j].ops # "ALL_RECV" =>
             \E w \in Workers : Counted(k, w) /\ queue[i][j].src = {Meta(k, w)}
       /\ queue[i][j].ops = "ALL_RECV" =>
             \A n \in DOMAIN queue[i] : MessageAt(i, n, k) => n <= j

\* A thread closes one key at a time, after the last message of that key.
EngineInv(i, k) ==
    k \in engine[i] =>
       /\ engine[i] = {k} /\ hash_cache[k] = i /\ merged[k] # "null"
       /\ \A j \in DOMAIN queue[i] : ~MessageAt(i, j, k)

QueueInv ==
    \A i \in Threads : \A k \in Keys :
       EngineInv(i, k) /\ \A j \in DOMAIN queue[i] : MessageInv(i, j, k)

\* After the shutdown of well-behaved workers no request is outstanding.
LeaveInv ==
    phase = "finalized" /\ ~LeaveEarly =>
       \A k \in Keys, w \in Workers : stage[k][w] \in {"start", "ready"}

\* The first inductive invariant: rounds, flags and messages.
Accounting == (\A k \in Keys : KeyInv(k)) /\ QueueInv /\ LeaveInv

-----------------------------------------------------------------------------
(* The contents of the buffers.                                            *)

\* A push of the worker is still queued.
SumPending(k, w) ==
    \E i \in Threads : \E j \in DOMAIN queue[i] :
       /\ MessageAt(i, j, k) /\ queue[i][j].ops # "ALL_RECV"
       /\ queue[i][j].src = {Meta(k, w)}

CopyPending(k) ==
    \E i \in Threads : \E j \in DOMAIN queue[i] :
       MessageAt(i, j, k) /\ queue[i][j].ops = "COPY_FIRST"

\* COPY_FIRST comes before every other message of its key, and no push is
\* queued twice.
OrderInv(k) ==
    \A i \in Threads : \A j, n \in DOMAIN queue[i] :
       MessageAt(i, j, k) /\ MessageAt(i, n, k) =>
          /\ queue[i][j].ops = "COPY_FIRST" => j <= n
          /\ queue[i][j].ops # "ALL_RECV" /\ queue[i][j].src = queue[i][n].src => j = n

\* The contributions summed so far in the round being collected.
Summed(k) == {Meta(k, w) : w \in {v \in Workers : Counted(k, v) /\ ~SumPending(k, v)}}

\* The buffer holds the round being collected, once its COPY_FIRST is done; until
\* then every push of it is queued, and the buffer holds the last finished round.
ContentInv(k) ==
    IF (\E w \in Workers : Counted(k, w)) /\ ~CopyPending(k)
    THEN stored[k] = Summed(k) /\ stored[k] # {}
    ELSE /\ epoch[k] > 0 => stored[k] = Sum(epoch[k])
         /\ \A w \in Workers : Counted(k, w) => SumPending(k, w)

\* While a round is closed, the merged tensor is the buffer or its code.
ClosedInv(k) ==
    (\E i \in Threads : k \in engine[i]) => MergedTensor(k) = AsSent(k, stored[k])

\* What an answer is built over: the last finished round, or contributions of
\* the round being collected.
AnswerInv(k) ==
    epoch[k] > 0 /\ (\A i \in Threads : k \notin engine[i]) =>
       \/ MergedTensor(k) = AsSent(k, Sum(epoch[k]))
       \/ /\ MergedTensor(k) # {}
          /\ \A m \in MergedTensor(k) :
                \E w \in Workers : Counted(k, w) /\ m = Meta(k, w)

\* Round 0 is the init push: it is neither pulled nor answered.
StartedInv(k) ==
    \A w \in Workers :
       stage[k][w] \in {"push", "pushed", "pull", "pullHeld", "answered"} => round[k][w] > 0

ContentsOf(k) ==
    OrderInv(k) /\ ContentInv(k) /\ ClosedInv(k) /\ AnswerInv(k) /\ StartedInv(k)

\* The second inductive invariant: what the buffers hold.
Contents == \A k \in Keys : ContentsOf(k)

\* When the rounds of a key begin, its compressor is registered if it has one.
Registering == {"inited", "register", "registerHeld"}
Setup == Registering \union {"start", "init", "initHeld"}
RegisteredInv(k) ==
    \A w \in Workers :
       /\ stage[k][w] \in Registering => k \in Compressed
       /\ stage[k][w] \notin Setup => (k \in compressor_map <=> k \in Compressed)

\* The third: which keys have a compressor.
Registered == compressor_map \subseteq Compressed /\ \A k \in Keys : RegisteredInv(k)

IInv == TypeOK /\ Accounting /\ Contents /\ Registered

=============================================================================
