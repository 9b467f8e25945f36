------------------------------ MODULE ServerProof ------------------------------
(***************************************************************************)
(* Proofs about the server, for every set of workers and keys, any number  *)
(* of engine threads and any number of rounds: type correctness, the load  *)
(* of the threads and async mode; then, in sync mode, that the rounds of   *)
(* the workers, the request list, the pull flags and the queued messages   *)
(* stay consistent (Accounting), hence the safety properties of the flags, *)
(* the barrier, the engine and the shutdown.                               *)
(***************************************************************************)
EXTENDS ServerInvariant, FiniteSetTheorems, TLAPS

-----------------------------------------------------------------------------
(* Lemmas about the operators of the model.                                *)

\* The senders of a set of requests are finitely many.
LEMMA SendersFinite ==
  ASSUME ServerAssumption, NEW S \in SUBSET KVMeta
  PROVE  /\ {m[1] : m \in S} \subseteq Workers
         /\ IsFiniteSet({m[1] : m \in S})
         /\ Cardinality({m[1] : m \in S}) \in Nat
<1>1. {m[1] : m \in S} \subseteq Workers
  BY DEF KVMeta
<1>2. IsFiniteSet(Workers)
  BY DEF ServerAssumption
<1>3. IsFiniteSet({m[1] : m \in S})
  BY <1>1, <1>2, FS_Subset
<1>4. QED
  BY <1>1, <1>3, FS_CardinalityType

\* The push of a round adds well-formed messages to a queue.
LEMMA EnqueueType ==
  ASSUME NEW q \in Seq(EngineMessage), NEW k \in Keys, NEW w \in Workers,
         round \in [Keys -> [Workers -> Rounds]]
  PROVE  Enqueue(q, k, w) \in Seq(EngineMessage)
<1>1. Meta(k, w) \in KVMeta
  BY DEF Meta, KVMeta
<1>2. Message(k, FirstOrSum(k), {Meta(k, w)}) \in EngineMessage
  BY <1>1 DEF Message, FirstOrSum, EngineMessage, Operation, Element
<1>3. Message(k, "ALL_RECV", {}) \in EngineMessage
  BY DEF Message, EngineMessage, Operation, Element
<1>4. QED
  BY <1>2, <1>3 DEF Enqueue, WithPush, WithClose

\* Counting answered pulls keeps the types of the flags.
LEMMA CountPullsType ==
  ASSUME TypeOK, NEW k \in Keys, NEW S \in SUBSET Workers,
         Cardinality(S) \in Nat, CountPulls(k, S)
  PROVE  /\ is_push_finished' \in [Keys -> BOOLEAN]
         /\ pull_cnt' \in [Keys -> Nat]
         /\ seen_sender' \in [Keys -> SUBSET Workers]
<1>1. /\ is_push_finished \in [Keys -> BOOLEAN]
      /\ pull_cnt \in [Keys -> Nat]
      /\ seen_sender \in [Keys -> SUBSET Workers]
  BY DEF TypeOK
<1>2. CASE pull_cnt[k] + Cardinality(S) = NumWorkers
  <2>1. /\ is_push_finished' = [is_push_finished EXCEPT ![k] = FALSE]
        /\ pull_cnt' = [pull_cnt EXCEPT ![k] = 0]
        /\ seen_sender' = [seen_sender EXCEPT ![k] = {}]
    BY <1>2 DEF CountPulls
  <2>2. QED
    BY <1>1, <2>1
<1>3. CASE pull_cnt[k] + Cardinality(S) # NumWorkers
  <2>1. /\ is_push_finished' = [is_push_finished EXCEPT ![k] = TRUE]
        /\ pull_cnt' = [pull_cnt EXCEPT ![k] = pull_cnt[k] + Cardinality(S)]
        /\ seen_sender' = [seen_sender EXCEPT ![k] = seen_sender[k] \union S]
    BY <1>3 DEF CountPulls
  <2>2. is_push_finished' \in [Keys -> BOOLEAN]
    BY <1>1, <2>1
  <2>3. pull_cnt' \in [Keys -> Nat]
    BY <1>1, <2>1
  <2>4. seen_sender' \in [Keys -> SUBSET Workers]
    BY <1>1, <2>1
  <2>5. QED
    BY <2>2, <2>3, <2>4
<1>4. QED
  BY <1>2, <1>3

-----------------------------------------------------------------------------
(* Type correctness.                                                       *)

\* What the steps of the workers keep of the types.
LEMMA WorkerType ==
  ASSUME TypeOK, NEW k \in Keys, NEW w \in Workers, Worker(k, w),
         ServerAssumption
  PROVE  TypeOK'
<1> USE DEF TypeOK, storeVars, engineVars, flagVars, Goes, Stage
<1>1. CASE IssueInit(k, w)
  BY <1>1 DEF IssueInit
<1>2. CASE IssueRegister(k, w)
  BY <1>2 DEF IssueRegister
<1>3. CASE IssuePush(k, w)
  <2>1. round[k][w] + 1 \in Rounds
    BY <1>3 DEF IssuePush, Rounds, ServerAssumption
  <2>2. QED
    BY <1>3, <2>1 DEF IssuePush
<1>4. CASE IssuePull(k, w)
  BY <1>4 DEF IssuePull
<1>5. CASE Receive(k, w)
  BY <1>5 DEF Receive, MergedTensor
<1>6. QED
  BY <1>1, <1>2, <1>3, <1>4, <1>5 DEF Worker

\* What the steps of the handler keep of the types.
LEMMA HandleType ==
  ASSUME TypeOK, NEW k \in Keys, NEW w \in Workers, Handle(k, w),
         ServerAssumption
  PROVE  TypeOK'
<1>1. Meta(k, w) \in KVMeta
  BY DEF TypeOK, Meta, KVMeta
<1>2. ASSUME NEW S, NEW s \in Stage, Respond(k, S, s)
      PROVE  stage' \in [Keys -> [Workers -> Stage]]
  BY <1>2 DEF TypeOK, Respond
<1>3. ASSUME NEW s \in Stage, Goes(k, w, s)
      PROVE  stage' \in [Keys -> [Workers -> Stage]]
  BY <1>3 DEF TypeOK, Goes
<1>4. ASSUME NEW tid \in Threads, GetThreadID(k, tid)
      PROVE  /\ hash_cache' \in [Keys -> Threads \union {NoThread}]
             /\ acc_load' \in [Threads -> Nat]
  <2>1. /\ hash_cache \in [Keys -> Threads \union {NoThread}]
        /\ acc_load \in [Threads -> Nat]
        /\ LenOf[k] \in Nat
    BY DEF TypeOK, ServerAssumption
  <2>2. QED
    BY <1>4, <2>1 DEF GetThreadID
<1>5. CASE HandleInitPush(k, w)
  <2>1. stage' \in [Keys -> [Workers -> Stage]]
    BY <1>2, <1>3, <1>5 DEF HandleInitPush, AfterInit, Stage
  <2>2. stored' \in [Keys -> Element] /\ request' \in [Keys -> SUBSET KVMeta]
    <3>1. stored \in [Keys -> Element] /\ request \in [Keys -> SUBSET KVMeta]
      BY DEF TypeOK
    <3>2. {Meta(k, w)} \in Element /\ request[k] \union {Meta(k, w)} \in SUBSET KVMeta
      BY <1>1, <3>1 DEF Element
    <3>3. QED
      BY <1>5, <3>1, <3>2 DEF HandleInitPush
  <2>3. QED
    BY <1>5, <2>1, <2>2 DEF HandleInitPush, TypeOK, engineVars, flagVars
<1>6. CASE HandleRegister(k, w)
  <2>1. stage' \in [Keys -> [Workers -> Stage]]
    BY <1>2, <1>3, <1>6 DEF HandleRegister, Stage
  <2>2. request' \in [Keys -> SUBSET KVMeta]
    <3>1. request \in [Keys -> SUBSET KVMeta]
      BY DEF TypeOK
    <3>2. request[k] \union {Meta(k, w)} \in SUBSET KVMeta
      BY <1>1, <3>1
    <3>3. QED
      BY <1>6, <3>1, <3>2 DEF HandleRegister
  <2>3. QED
    BY <1>6, <2>1, <2>2 DEF HandleRegister, TypeOK, engineVars, flagVars
<1>7. CASE HandlePush(k, w)
  <2>1. stage' \in [Keys -> [Workers -> Stage]]
    BY <1>3, <1>7 DEF HandlePush, Stage
  <2>2. request' \in [Keys -> SUBSET KVMeta]
    BY <1>1, <1>7 DEF HandlePush, TypeOK
  <2>3. PICK tid \in Threads :
           /\ GetThreadID(k, tid)
           /\ queue' = [queue EXCEPT ![tid] = Enqueue(@, k, w)]
    BY <1>7 DEF HandlePush
  <2>4. queue' \in [Threads -> Seq(EngineMessage)]
    BY <2>3, EnqueueType DEF TypeOK
  <2>5. QED
    BY <1>4, <1>7, <2>1, <2>2, <2>3, <2>4 DEF HandlePush, TypeOK, flagVars
<1>8. CASE HandlePushAsync(k, w)
  <2>1. stage' \in [Keys -> [Workers -> Stage]]
    BY <1>3, <1>8 DEF HandlePushAsync, Stage
  <2>2. stored' \in [Keys -> Element] /\ request' \in [Keys -> SUBSET KVMeta]
    <3>1. stored \in [Keys -> Element] /\ request \in [Keys -> SUBSET KVMeta]
      BY DEF TypeOK
    <3>2. AsPushed(k, w) \in Element
      BY <1>1 DEF AsPushed, Element, Encode
    <3>3. QED
      BY <1>8, <3>1, <3>2 DEF HandlePushAsync, AsyncSum, Element
  <2>3. PICK tid \in Threads : GetThreadID(k, tid)
    BY <1>8 DEF HandlePushAsync
  <2>4. QED
    BY <1>4, <1>8, <2>1, <2>2, <2>3 DEF HandlePushAsync, TypeOK, engineVars, flagVars
<1>9. CASE PullAborts(k, w)
  BY <1>9 DEF PullAborts, PullFailure, TypeOK, workerVars, storeVars, engineVars, flagVars
<1>10. CASE HandlePull(k, w)
  <2>1. stage' \in [Keys -> [Workers -> Stage]]
    BY <1>3, <1>10 DEF HandlePull, Stage
  <2>2. Cardinality({w}) = 1
    BY FS_Singleton
  <2>3. /\ is_push_finished' \in [Keys -> BOOLEAN]
        /\ pull_cnt' \in [Keys -> Nat]
        /\ seen_sender' \in [Keys -> SUBSET Workers]
    <3>1. CASE SyncMode
      <4>1. CountPulls(k, {w}) /\ {w} \in SUBSET Workers /\ Cardinality({w}) \in Nat
        BY <1>10, <2>2, <3>1 DEF HandlePull
      <4>2. QED
        BY <4>1, CountPullsType
    <3>2. CASE ~SyncMode
      BY <1>10, <3>2 DEF HandlePull, TypeOK
    <3>3. QED
      BY <3>1, <3>2
  <2>4. QED
    BY <1>10, <2>1, <2>3 DEF HandlePull, TypeOK, storeVars, engineVars
<1>11. CASE HoldPull(k, w)
  <2>1. stage' \in [Keys -> [Workers -> Stage]]
    BY <1>3, <1>11 DEF HoldPull, Stage
  <2>2. q_pull_reqmeta' \in [Keys -> SUBSET KVMeta]
    BY <1>1, <1>11 DEF HoldPull, TypeOK
  <2>3. QED
    BY <1>11, <2>1, <2>2 DEF HoldPull, TypeOK, storeVars, engineVars
<1>12. QED
  BY <1>5, <1>6, <1>7, <1>8, <1>9, <1>10, <1>11 DEF Handle

\* The code of an element is an element.
LEMMA EncodeType ==
  ASSUME NEW S \in Element
  PROVE  Encode(S) \in Element
<1>1. ASSUME NEW m \in KVMeta \union Encode(KVMeta)
      PROVE  m[1] \in Workers /\ m[2] \in Rounds
  BY DEF Encode, KVMeta
<1>2. \A m \in S : <<m[1], m[2]>> \in KVMeta
  BY <1>1 DEF Element, KVMeta
<1>3. ASSUME NEW m \in S
      PROVE  <<m[1], m[2], "encoded">> \in Encode(KVMeta)
  <2>1. PICK c \in KVMeta : c = <<m[1], m[2]>>
    BY <1>2
  <2>2. c[1] = m[1] /\ c[2] = m[2]
    BY <2>1
  <2>3. QED
    BY <2>2 DEF Encode
<1>4. QED
  BY <1>3 DEF Element, Encode

\* A step of an engine thread keeps the types.
LEMMA EngineType ==
  ASSUME TypeOK, NEW i \in Threads, Engine(i), ServerAssumption
  PROVE  TypeOK'
<1>1. ASSUME NEW op, Takes(i, op)
      PROVE  /\ Head(queue[i]) \in EngineMessage
             /\ Head(queue[i]).key \in Keys
             /\ Head(queue[i]).src \in Element
             /\ queue' \in [Threads -> Seq(EngineMessage)]
  <2>1. queue \in [Threads -> Seq(EngineMessage)]
    BY DEF TypeOK
  <2>2. /\ queue[i] \in Seq(EngineMessage) /\ queue[i] # << >>
        /\ queue' = [queue EXCEPT ![i] = Tail(queue[i])]
    BY <1>1, <2>1 DEF Takes, AtFront
  <2>3. /\ Head(queue[i]) \in EngineMessage
        /\ Tail(queue[i]) \in Seq(EngineMessage)
    BY <2>2
  <2>4. QED
    BY <2>1, <2>2, <2>3 DEF EngineMessage
<1>2. CASE EngineCopyFirst(i)
  <2>1. /\ Takes(i, "COPY_FIRST")
        /\ Decompress(Head(queue[i]).key, Head(queue[i]).src)
        /\ stored' = [stored EXCEPT ![Head(queue[i]).key] = Head(queue[i]).src]
    BY <1>2 DEF EngineCopyFirst
  <2>2. stored' \in [Keys -> Element] /\ cbuf' \in [Keys -> Element]
    BY <1>1, <2>1 DEF TypeOK, Decompress
  <2>3. QED
    BY <1>1, <1>2, <2>1, <2>2 DEF EngineCopyFirst, TypeOK, workerVars, flagVars
<1>3. CASE EngineSumRecv(i)
  <2>1. /\ Takes(i, "SUM_RECV")
        /\ Decompress(Head(queue[i]).key, Head(queue[i]).src)
        /\ stored' = [stored EXCEPT ![Head(queue[i]).key] = @ \union Head(queue[i]).src]
    BY <1>3 DEF EngineSumRecv
  <2>2. stored' \in [Keys -> Element] /\ cbuf' \in [Keys -> Element]
    BY <1>1, <2>1 DEF TypeOK, Decompress, Element
  <2>3. QED
    BY <1>1, <1>3, <2>1, <2>2 DEF EngineSumRecv, TypeOK, workerVars, flagVars
<1>4. CASE EngineAllRecv(i)
  <2>1. Takes(i, "ALL_RECV")
    BY <1>4 DEF EngineAllRecv
  <2>2. /\ cbuf' \in [Keys -> Element]
        /\ merged' \in [Keys -> {"null", "stored", "cbuf"}]
        /\ engine' \in [Threads -> SUBSET Keys]
    <3> DEFINE k == Head(queue[i]).key
    <3>1. k \in Keys
      BY <1>1, <2>1
    <3>2. /\ cbuf \in [Keys -> Element] /\ stored \in [Keys -> Element]
          /\ merged \in [Keys -> {"null", "stored", "cbuf"}]
          /\ engine \in [Threads -> SUBSET Keys]
      BY DEF TypeOK
    <3>3. Encode(stored[k]) \in Element
      BY <3>1, <3>2, EncodeType
    <3>4. QED
      BY <1>4, <3>1, <3>2, <3>3 DEF EngineAllRecv
  <2>3. QED
    BY <1>1, <1>4, <2>1, <2>2 DEF EngineAllRecv, TypeOK, workerVars, storeVars, flagVars
<1>5. CASE EngineFinishRound(i)
  <2>1. PICK k \in engine[i] :
          /\ CountPulls(k, {m[1] : m \in Served(k)})
          /\ q_pull_reqmeta' = [q_pull_reqmeta EXCEPT ![k] = @ \ Served(k)]
          /\ Respond(k, Served(k), "answered")
          /\ epoch' = [epoch EXCEPT ![k] = @ + 1]
    BY <1>5 DEF EngineFinishRound
  <2>2. k \in Keys
    BY DEF TypeOK
  <2>3. Served(k) \in SUBSET KVMeta
    BY <2>2 DEF Served, TypeOK
  <2>4. /\ {m[1] : m \in Served(k)} \subseteq Workers
        /\ Cardinality({m[1] : m \in Served(k)}) \in Nat
    BY <2>3, SendersFinite
  <2>5. /\ is_push_finished' \in [Keys -> BOOLEAN]
        /\ pull_cnt' \in [Keys -> Nat]
        /\ seen_sender' \in [Keys -> SUBSET Workers]
    BY <2>1, <2>2, <2>4, CountPullsType
  <2>6. /\ q_pull_reqmeta' \in [Keys -> SUBSET KVMeta]
        /\ stage' \in [Keys -> [Workers -> Stage]]
        /\ epoch' \in [Keys -> Nat]
    BY <2>1, <2>2 DEF Respond, TypeOK, Stage
  <2>7. engine' \in [Threads -> SUBSET Keys]
    BY <1>5 DEF EngineFinishRound, TypeOK
  <2>8. QED
    BY <1>5, <2>5, <2>6, <2>7 DEF EngineFinishRound, TypeOK, storeVars
<1>6. CASE EngineAborts(i)
  BY <1>6 DEF EngineAborts, EngineFailure, TypeOK, workerVars, storeVars, engineVars, flagVars
<1>7. CASE EngineTerminate(i)
  BY <1>1, <1>7 DEF EngineTerminate, TypeOK, workerVars, storeVars, flagVars
<1>8. QED
  BY <1>2, <1>3, <1>4, <1>5, <1>6, <1>7 DEF Engine

\* Every step keeps every variable in its type.
LEMMA TypeStep ==
  ASSUME TypeOK, [Next]_vars, ServerAssumption
  PROVE  TypeOK'
<1>1. ASSUME NEW k \in Keys, NEW w \in Workers, Worker(k, w) \/ Handle(k, w)
      PROVE  TypeOK'
  BY <1>1, WorkerType, HandleType
<1>2. ASSUME NEW i \in Threads, Engine(i)
      PROVE  TypeOK'
  BY <1>2, EngineType
<1>3. CASE Finalize
  <2>1. PICK k \in Keys : k = CHOOSE x \in Keys : TRUE
    BY DEF ServerAssumption
  <2>2. Message(CHOOSE x \in Keys : TRUE, "TERMINATE", {}) \in EngineMessage
    BY <2>1 DEF Message, EngineMessage, Operation, Element
  <2>3. queue \in [Threads -> Seq(EngineMessage)]
    BY DEF TypeOK
  <2>4. queue' \in [Threads -> Seq(EngineMessage)]
    <3> DEFINE m == Message(CHOOSE x \in Keys : TRUE, "TERMINATE", {})
    <3>1. \/ queue' = queue
          \/ queue' = [i \in Threads |-> Append(queue[i], m)]
      BY <1>3 DEF Finalize, Termination
    <3>2. m \in EngineMessage
      BY <2>2
    <3> HIDE DEF m
    <3>3. ASSUME NEW i \in Threads
          PROVE  Append(queue[i], m) \in Seq(EngineMessage)
      BY <2>3, <3>2
    <3>4. QED
      BY <2>3, <3>1, <3>3
  <2>5. QED
    BY <1>3, <2>4 DEF Finalize, TypeOK, workerVars, storeVars, flagVars
<1>4. CASE Quit \/ UNCHANGED vars
  BY <1>4 DEF Quit, TypeOK, vars, workerVars, storeVars, engineVars, flagVars
<1>5. QED
  BY <1>1, <1>2, <1>3, <1>4 DEF Next

\* The variables start in their types.
LEMMA TypeInit == ServerAssumption /\ Init => TypeOK
  BY DEF Init, TypeOK, ServerAssumption, Stage, Rounds, Element, Threads, NoThread

\* Type correctness of the server, in sync and in async mode.
THEOREM TypeCorrect == Spec => []TypeOK
<1>1. Init => TypeOK
  BY TypeInit, ServerAssumption
<1>2. TypeOK /\ [Next]_vars => TypeOK'
  BY TypeStep, ServerAssumption
<1>3. QED
  BY <1>1, <1>2, PTL DEF Spec

-----------------------------------------------------------------------------
(* The load of the engine threads.                                         *)

\* GetThreadID keeps the threads balanced: only a least loaded one gets a key.
LEMMA GetThreadLoad ==
  ASSUME ServerAssumption, TypeOK, EngineLoad,
         NEW k \in Keys, NEW tid \in Threads, GetThreadID(k, tid)
  PROVE  EngineLoad'
<1>1. CASE hash_cache[k] # NoThread
  BY <1>1 DEF GetThreadID, EngineLoad
<1>2. CASE hash_cache[k] = NoThread
  <2>1. /\ \A j \in Threads : acc_load[tid] <= acc_load[j]
        /\ hash_cache' = [hash_cache EXCEPT ![k] = tid]
        /\ acc_load' = [acc_load EXCEPT ![tid] = acc_load[tid] + LenOf[k]]
    BY <1>2 DEF GetThreadID, LeastLoaded
  <2>2. /\ acc_load \in [Threads -> Nat] /\ LenOf[k] \in Nat /\ NoThread \notin Threads
        /\ hash_cache \in [Keys -> Threads \union {NoThread}]
    BY DEF TypeOK, ServerAssumption, NoThread, Threads
  <2>3. /\ \A j \in Threads : acc_load'[j] = IF j = tid THEN acc_load[tid] + LenOf[k]
                                             ELSE acc_load[j]
        /\ \A c \in Keys : hash_cache'[c] = IF c = k THEN tid ELSE hash_cache[c]
    BY <2>1, <2>2
  <2> SUFFICES ASSUME NEW i \in Threads, NEW j \in Threads
               PROVE  \/ acc_load'[i] - acc_load'[j] <= 0
                      \/ \E c \in Keys : /\ acc_load'[i] - acc_load'[j] <= LenOf[c]
                                         /\ hash_cache'[c] = i
    BY DEF EngineLoad
  <2>4. CASE i = tid
    <3>1. acc_load[i] <= acc_load[j] /\ acc_load[i] \in Nat /\ acc_load[j] \in Nat
      BY <2>1, <2>2, <2>4
    <3>2. acc_load'[i] - acc_load'[j] <= LenOf[k] /\ hash_cache'[k] = i
      BY <2>2, <2>3, <2>4, <3>1
    <3>3. QED
      BY <3>2
  <2>5. CASE i # tid
    <3>1. /\ acc_load[i] \in Nat /\ acc_load[j] \in Nat
          /\ acc_load'[i] = acc_load[i] /\ acc_load'[j] >= acc_load[j]
          /\ acc_load'[j] \in Nat
      BY <2>2, <2>3, <2>5
    <3>2. CASE acc_load[i] - acc_load[j] <= 0
      BY <3>1, <3>2
    <3>3. ASSUME NEW c \in Keys, acc_load[i] - acc_load[j] <= LenOf[c], hash_cache[c] = i
          PROVE  acc_load'[i] - acc_load'[j] <= LenOf[c] /\ hash_cache'[c] = i
      <4>1. c # k /\ LenOf[c] \in Nat
        BY <1>2, <2>2, <3>3 DEF ServerAssumption
      <4>2. QED
        BY <2>3, <3>1, <3>3, <4>1
    <3>4. QED
      BY <3>2, <3>3 DEF EngineLoad
  <2>6. QED
    BY <2>4, <2>5
<1>3. QED
  BY <1>1, <1>2

\* No engine thread gets more than one of its keys ahead of another, in sync and
\* in async mode (GetThreadID, server.cc:78-106).
THEOREM EngineLoadCorrect == Spec => []EngineLoad
<1>1. Init => EngineLoad
  BY DEF Init, EngineLoad
<1>2. TypeOK /\ EngineLoad /\ [Next]_vars => EngineLoad'
  <2> SUFFICES ASSUME TypeOK, EngineLoad, [Next]_vars
               PROVE  EngineLoad'
    OBVIOUS
  <2>1. CASE UNCHANGED <<acc_load, hash_cache>>
    BY <2>1 DEF EngineLoad
  <2>2. ASSUME NEW k \in Keys, NEW w \in Workers, HandlePush(k, w) \/ HandlePushAsync(k, w)
        PROVE  EngineLoad'
    <3>1. PICK tid \in Threads : GetThreadID(k, tid)
      BY <2>2 DEF HandlePush, HandlePushAsync
    <3>2. QED
      BY <3>1, GetThreadLoad, ServerAssumption
  <2>3. ASSUME NEW k \in Keys, NEW w \in Workers, Worker(k, w) \/ Handle(k, w)
        PROVE  EngineLoad'
    BY <2>1, <2>2, <2>3 DEF Worker, Handle, IssueInit, IssueRegister, IssuePush, IssuePull,
       Receive, HandleInitPush, HandleRegister, PullAborts, HandlePull, HoldPull, storeVars
  <2>4. ASSUME NEW i \in Threads, Engine(i)
        PROVE  EngineLoad'
    BY <2>1, <2>4 DEF Engine, EngineCopyFirst, EngineSumRecv, EngineAllRecv,
       EngineFinishRound, EngineAborts, EngineTerminate, storeVars
  <2>5. CASE Finalize \/ Quit \/ UNCHANGED vars
    BY <2>1, <2>5 DEF Finalize, Quit, vars, storeVars
  <2>6. QED
    BY <2>3, <2>4, <2>5 DEF Next
<1>3. QED
  BY <1>1, <1>2, TypeCorrect, PTL DEF Spec

-----------------------------------------------------------------------------
(* Async mode.                                                             *)

\* In async mode the engine threads have nothing to do, the request list holds
\* init pushes and registrations only, and every push handled is in the buffer,
\* whatever the worker has done since.
AsyncInv ==
    /\ \A i \in Threads : queue[i] = << >> /\ engine[i] = {}
    /\ \A k \in Keys : request[k] \subseteq Workers \X {0}
    /\ \A k \in Keys, w \in Workers :
          stage[k][w] \in {"start", "init", "initHeld", "inited", "register", "registerHeld"}
             => round[k][w] = 0
    /\ \A k \in Keys \ compressor_map, w \in Workers : \A r \in 1 .. MaxRound :
          Pushed(k, w, r) => <<w, r>> \in stored[k]

\* The answers to the init pushes, or to the registrations, of a key concern
\* workers that have pushed no round.
LEMMA AsyncInit ==
  ASSUME ServerAssumption, TypeOK, AsyncInv, NEW k \in Keys, NEW w \in Workers,
         HandleInitPush(k, w) \/ HandleRegister(k, w)
  PROVE  AsyncInv'
<1>1. /\ stage \in [Keys -> [Workers -> Stage]]
      /\ round \in [Keys -> [Workers -> Nat]]
      /\ request \in [Keys -> SUBSET KVMeta] /\ stored \in [Keys -> Element]
  BY DEF TypeOK, Rounds, ServerAssumption
<1>2. round[k][w] = 0 /\ round' = round /\ UNCHANGED <<queue, engine>>
  BY DEF AsyncInv, HandleInitPush, HandleRegister, engineVars
<1>3. request[k] \union {Meta(k, w)} \subseteq Workers \X {0}
  BY <1>2 DEF AsyncInv, Meta
<1>4. \A c \in Keys : request'[c] \subseteq Workers \X {0}
  BY <1>1, <1>3 DEF AsyncInv, HandleInitPush, HandleRegister
<1>5. \A c \in Keys, v \in Workers : stage'[c][v] = stage[c][v] \/ round[c][v] = 0
  <2>1. \A v \in Workers : Meta(k, v) \in Workers \X {0} => round[k][v] = 0
    BY DEF Meta
  <2>2. CASE stage' = [stage EXCEPT ![k][w] = "initHeld"]
             \/ stage' = [stage EXCEPT ![k][w] = "registerHeld"]
    BY <1>1, <1>2, <2>2
  <2>3. ASSUME NEW s, Respond(k, request[k] \union {Meta(k, w)}, s)
        PROVE  \A c \in Keys, v \in Workers : stage'[c][v] = stage[c][v] \/ round[c][v] = 0
    <3>1. \A v \in Workers : stage'[k][v] = stage[k][v]
                             \/ Meta(k, v) \in request[k] \union {Meta(k, w)}
      BY <1>1, <2>3 DEF Respond
    <3>2. \A c \in Keys : c # k => stage'[c] = stage[c]
      BY <1>1, <2>3 DEF Respond
    <3>3. QED
      BY <1>3, <2>1, <3>1, <3>2
  <2>4. QED
    BY <2>2, <2>3 DEF HandleInitPush, HandleRegister, Goes
<1>6. \A c \in Keys : stored'[c] = stored[c] \/ stored[c] = {}
  BY <1>1 DEF HandleInitPush, HandleRegister
<1>7. ASSUME NEW c \in Keys \ compressor_map', NEW v \in Workers, NEW r \in 1 .. MaxRound,
             Pushed(c, v, r)'
      PROVE  <<v, r>> \in stored'[c]
  <2>1. Pushed(c, v, r)
    <3>1. /\ c \in Keys /\ r \in Nat \ {0} /\ round'[c][v] = round[c][v] /\ round[c][v] \in Nat
          /\ stage'[c][v] = stage[c][v] \/ round[c][v] = 0
      BY <1>1, <1>2, <1>5
    <3>2. QED
      BY <1>7, <3>1 DEF Pushed
  <2>2. c \notin compressor_map
    BY DEF HandleInitPush, HandleRegister
  <2>3. QED
    BY <1>6, <2>1, <2>2 DEF AsyncInv
<1>8. \A c \in Keys, v \in Workers :
         stage'[c][v] \in {"start", "init", "initHeld", "inited", "register", "registerHeld"}
            => round'[c][v] = 0
  BY <1>2, <1>5 DEF AsyncInv
<1>9. QED
  BY <1>2, <1>4, <1>7, <1>8 DEF AsyncInv

\* A step of a worker, or of the handler, that keeps what AsyncInv says of every
\* worker.
LEMMA AsyncFrame ==
  ASSUME AsyncInv, UNCHANGED <<queue, engine, compressor_map>>,
         \A c \in Keys : request'[c] \subseteq request[c] /\ stored[c] \subseteq stored'[c],
         \A c \in Keys, v \in Workers :
            \/ round'[c][v] = round[c][v]
            \/ stage'[c][v] = "push",
         \A c \in Keys, v \in Workers :
            \/ stage'[c][v] \notin {"start", "init", "initHeld", "inited", "register",
                                    "registerHeld"}
            \/ stage[c][v] \in {"start", "init", "initHeld", "inited", "register",
                                "registerHeld"} /\ stage'[c][v] # "push",
         \A c \in Keys \ compressor_map, v \in Workers : \A r \in 1 .. MaxRound :
            Pushed(c, v, r)' => Pushed(c, v, r) \/ <<v, r>> \in stored'[c]
  PROVE  AsyncInv'
<1>1. \A i \in Threads : queue'[i] = << >> /\ engine'[i] = {}
  BY DEF AsyncInv
<1>2. \A c \in Keys : request'[c] \subseteq Workers \X {0}
  BY DEF AsyncInv
<1>3. \A c \in Keys, v \in Workers :
         stage'[c][v] \in {"start", "init", "initHeld", "inited", "register", "registerHeld"}
            => round'[c][v] = 0
  BY DEF AsyncInv
<1>4. \A c \in Keys \ compressor_map', v \in Workers : \A r \in 1 .. MaxRound :
         Pushed(c, v, r)' => <<v, r>> \in stored'[c]
  BY DEF AsyncInv
<1>5. QED
  BY <1>1, <1>2, <1>3, <1>4 DEF AsyncInv

\* Every step in async mode keeps AsyncInv.
LEMMA AsyncStep ==
  ASSUME ServerAssumption, ~SyncMode, TypeOK, AsyncInv, [Next]_vars
  PROVE  AsyncInv'
<1>1. /\ stage \in [Keys -> [Workers -> Stage]]
      /\ round \in [Keys -> [Workers -> Nat]]
      /\ request \in [Keys -> SUBSET KVMeta] /\ stored \in [Keys -> Element]
  BY DEF TypeOK, Rounds, ServerAssumption
<1>2. CASE UNCHANGED <<stage, round, request, stored, queue, engine, compressor_map>>
  BY <1>2 DEF AsyncInv, Pushed
<1>3. ASSUME NEW k \in Keys, NEW w \in Workers, Worker(k, w)
      PROVE  AsyncInv'
  <2>1. UNCHANGED <<queue, engine, request, stored, compressor_map>>
    BY <1>3 DEF Worker, IssueInit, IssueRegister, IssuePush, IssuePull, Receive,
       storeVars, engineVars
  <2>2. \A c \in Keys, v \in Workers :
           \/ stage'[c][v] = stage[c][v] /\ round'[c][v] = round[c][v]
           \/ /\ stage[c][v] = "start" /\ stage'[c][v] = "init"
              /\ round'[c][v] = round[c][v]
           \/ /\ stage[c][v] = "inited" /\ stage'[c][v] = "register"
              /\ round'[c][v] = round[c][v]
           \/ /\ stage[c][v] = "pushed" /\ stage'[c][v] = "pull"
              /\ round'[c][v] = round[c][v]
           \/ /\ stage[c][v] = "answered" /\ stage'[c][v] = "ready"
              /\ round'[c][v] = round[c][v]
           \/ /\ stage[c][v] = "ready" /\ stage'[c][v] = "push"
              /\ round'[c][v] = round[c][v] + 1
    BY <1>1, <1>3 DEF Worker, IssueInit, IssueRegister, IssuePush, IssuePull, Receive, Goes
  <2>3. ASSUME NEW c \in Keys, NEW v \in Workers, NEW r \in 1 .. MaxRound, Pushed(c, v, r)'
        PROVE  Pushed(c, v, r)
    <3>1. r \in Nat /\ round[c][v] \in Nat
      BY <1>1
    <3>2. \/ stage'[c][v] = stage[c][v] /\ round'[c][v] = round[c][v]
          \/ stage[c][v] # "push" /\ round'[c][v] = round[c][v]
          \/ /\ stage[c][v] # "push" /\ stage'[c][v] = "push"
             /\ round'[c][v] = round[c][v] + 1
      BY <2>2
    <3>3. QED
      BY <2>3, <3>1, <3>2 DEF Pushed
  <2>4. QED
    BY <2>1, <2>2, <2>3, AsyncFrame
<1>4. ASSUME NEW k \in Keys, NEW w \in Workers, HandlePushAsync(k, w)
      PROVE  AsyncInv'
  <2>1. /\ UNCHANGED <<queue, engine, round, compressor_map>>
        /\ request' = [request EXCEPT ![k] = {}]
        /\ stored' = [stored EXCEPT ![k] = stored[k] \union AsPushed(k, w)]
        /\ k \notin compressor_map => AsPushed(k, w) = {<<w, round[k][w]>>}
        /\ stage' = [stage EXCEPT ![k][w] = "pushed"]
    BY <1>4 DEF HandlePushAsync, AsyncSum, AsPushed, Meta, Goes, engineVars
  <2>2. \A c \in Keys : request'[c] \subseteq request[c] /\ stored[c] \subseteq stored'[c]
    BY <1>1, <2>1
  <2>3. \A c \in Keys, v \in Workers :
           stage'[c][v] = IF c = k /\ v = w THEN "pushed" ELSE stage[c][v]
    BY <1>1, <2>1
  <2>4. ASSUME NEW c \in Keys \ compressor_map, NEW v \in Workers, NEW r \in 1 .. MaxRound,
               Pushed(c, v, r)'
        PROVE  Pushed(c, v, r) \/ <<v, r>> \in stored'[c]
    <3>1. CASE c = k /\ v = w /\ round[c][v] = r
      BY <1>1, <2>1, <3>1
    <3>2. CASE ~(c = k /\ v = w /\ round[c][v] = r)
      BY <2>1, <2>3, <2>4, <3>2 DEF Pushed
    <3>3. QED
      BY <3>1, <3>2
  <2>5. QED
    BY <2>1, <2>2, <2>3, <2>4, AsyncFrame
<1>5. ASSUME NEW k \in Keys, NEW w \in Workers, HandlePull(k, w) \/ HoldPull(k, w)
      PROVE  AsyncInv'
  <2>1. UNCHANGED <<queue, engine, request, stored, round, compressor_map>>
    BY <1>5 DEF HandlePull, HoldPull, storeVars, engineVars
  <2>2. \A c \in Keys, v \in Workers :
           \/ stage'[c][v] = stage[c][v]
           \/ stage[c][v] = "pull" /\ stage'[c][v] \in {"answered", "pullHeld"}
    BY <1>1, <1>5 DEF HandlePull, HoldPull, Goes
  <2>3. \A c \in Keys, v \in Workers : \A r \in 1 .. MaxRound :
           Pushed(c, v, r)' => Pushed(c, v, r)
    BY <2>1, <2>2 DEF Pushed
  <2>4. QED
    BY <2>1, <2>2, <2>3, AsyncFrame
<1>6. ASSUME NEW k \in Keys, NEW w \in Workers, Handle(k, w)
      PROVE  AsyncInv'
  <2>1. CASE HandleInitPush(k, w) \/ HandleRegister(k, w)
    BY <2>1, AsyncInit
  <2>2. CASE HandlePush(k, w)
    BY <2>2 DEF HandlePush
  <2>3. CASE PullAborts(k, w)
    BY <1>2, <2>3 DEF PullAborts, workerVars, storeVars, engineVars
  <2>4. QED
    BY <1>4, <1>5, <1>6, <2>1, <2>2, <2>3 DEF Handle
<1>7. ASSUME NEW i \in Threads, Engine(i)
      PROVE  AsyncInv'
  <2>1. queue[i] = << >> /\ engine[i] = {}
    BY DEF AsyncInv
  <2>2. EngineAborts(i)
    BY <1>7, <2>1 DEF Engine, EngineCopyFirst, EngineSumRecv, EngineAllRecv,
       EngineFinishRound, EngineTerminate, Takes, AtFront
  <2>3. QED
    BY <1>2, <2>2 DEF EngineAborts, workerVars, storeVars, engineVars
<1>8. CASE Finalize
  BY <1>2, <1>8 DEF Finalize, Termination, workerVars, storeVars
<1>9. CASE Quit \/ UNCHANGED vars
  BY <1>2, <1>9 DEF Quit, vars, workerVars, storeVars, engineVars
<1>10. QED
  BY <1>3, <1>6, <1>7, <1>8, <1>9 DEF Next

\* In async mode no acknowledged push of a key without a compressor is ever lost
\* from the buffer: neither an engine thread nor a later push overwrites it
\* (server.cc:357-362, 427-431).
THEOREM AsyncPushesKept == Spec => []AsyncKeepsPushes
<1>1. Init => AsyncInv
  BY ServerAssumption DEF Init, AsyncInv, Pushed
<1>2. ASSUME ~SyncMode
      PROVE  TypeOK /\ AsyncInv /\ [Next]_vars => AsyncInv'
  BY <1>2, AsyncStep, ServerAssumption
<1>3. AsyncInv => AsyncKeepsPushes
  BY DEF AsyncInv, AsyncKeepsPushes, Pushed, Waits
<1>4. SyncMode => AsyncKeepsPushes
  BY DEF AsyncKeepsPushes
<1>5. CASE SyncMode
  BY <1>4, <1>5, PTL
<1>6. CASE ~SyncMode
  BY <1>1, <1>2, <1>3, <1>6, TypeCorrect, PTL DEF Spec
<1>7. QED
  BY <1>5, <1>6

-----------------------------------------------------------------------------
(* Counting requests.                                                      *)

\* As many requests of one round as there are workers are the requests of all.
LEMMA AllCollected ==
  ASSUME ServerAssumption, NEW r, NEW S \in SUBSET (Workers \X {r})
  PROVE  /\ IsFiniteSet(S) /\ Cardinality(S) \in Nat /\ NumWorkers \in Nat
         /\ Cardinality(S) <= NumWorkers
         /\ Cardinality(S) = NumWorkers <=> S = Workers \X {r}
<1>1. IsFiniteSet({r}) /\ Cardinality({r}) = 1
  BY FS_Singleton
<1>2. IsFiniteSet(Workers) /\ NumWorkers \in Nat
  BY FS_CardinalityType DEF ServerAssumption, NumWorkers
<1>3. /\ IsFiniteSet(Workers \X {r})
      /\ Cardinality(Workers \X {r}) = NumWorkers
  BY <1>1, <1>2, FS_Product DEF NumWorkers
<1>4. QED
  BY <1>2, <1>3, FS_Subset, FS_CardinalityType

\* The request list of a round is full when every other worker is counted.
LEMMA RequestFull ==
  ASSUME ServerAssumption, TypeOK, NEW k \in Keys, NEW w \in Workers,
         NEW B \in SUBSET Workers, \A v \in B : round[k][v] = round[k][w],
         \A m : m \in request[k] <=> \E v \in B : m = Meta(k, v)
  PROVE  /\ Cardinality(request[k] \union {Meta(k, w)}) < NumWorkers <=> B \union {w} # Workers
         /\ Cardinality(request[k] \union {Meta(k, w)}) = NumWorkers <=> B \union {w} = Workers
         /\ \A v \in Workers :
               Meta(k, v) \in request[k] \union {Meta(k, w)} <=> v \in B \union {w}
<1> DEFINE metas == request[k] \union {Meta(k, w)}
           r == round[k][w]
<1>1. \A v \in B \union {w} : Meta(k, v) = <<v, r>>
  BY DEF Meta
<1>2. metas = {<<v, r>> : v \in B \union {w}}
  BY <1>1
<1>3. metas \in SUBSET (Workers \X {r})
  BY <1>2
<1>4. metas = Workers \X {r} <=> B \union {w} = Workers
  <2>1. \A v \in Workers : <<v, r>> \in metas <=> v \in B \union {w}
    BY <1>2
  <2>2. \A v \in Workers : <<v, r>> \in Workers \X {r}
    OBVIOUS
  <2>3. \A m \in Workers \X {r} : \E v \in Workers : m = <<v, r>>
    OBVIOUS
  <2>4. ASSUME B \union {w} = Workers
        PROVE  metas = Workers \X {r}
    BY <1>3, <2>1, <2>3, <2>4
  <2>5. ASSUME metas = Workers \X {r}
        PROVE  B \union {w} = Workers
    BY <2>1, <2>2, <2>5
  <2>6. QED
    BY <2>4, <2>5
<1>5. \A v \in Workers : Meta(k, v) \in metas <=> v \in B \union {w}
  BY <1>1, <1>2 DEF Meta
<1> HIDE DEF metas, r
<1>6. /\ Cardinality(metas) \in Nat /\ NumWorkers \in Nat
      /\ Cardinality(metas) <= NumWorkers
      /\ Cardinality(metas) = NumWorkers <=> metas = Workers \X {r}
  BY <1>3, AllCollected
<1>7. Cardinality(metas) < NumWorkers <=> metas # Workers \X {r}
  BY <1>6
<1>8. Cardinality(metas) = NumWorkers <=> metas = Workers \X {r}
  BY <1>6
<1>9. QED
  BY <1>3, <1>4, <1>5, <1>7, <1>8 DEF metas

-----------------------------------------------------------------------------
(* Messages of a queue.                                                    *)

\* Append and Tail, element by element.
LEMMA AppendAt ==
  ASSUME NEW M, NEW q \in Seq(M), NEW x \in M
  PROVE  /\ Append(q, x) \in Seq(M) /\ Len(q) \in Nat
         /\ Len(Append(q, x)) = Len(q) + 1
         /\ \A j \in 1 .. Len(q) : Append(q, x)[j] = q[j]
         /\ Append(q, x)[Len(q) + 1] = x
  OBVIOUS

LEMMA TailAt ==
  ASSUME NEW M, NEW q \in Seq(M), q # << >>
  PROVE  /\ Tail(q) \in Seq(M)
         /\ DOMAIN Tail(q) = 1 .. (Len(q) - 1)
         /\ \A j \in 1 .. (Len(q) - 1) : Tail(q)[j] = q[j + 1]
<1>1. Tail(q) \in Seq(M) /\ Len(Tail(q)) = Len(q) - 1
  OBVIOUS
<1>2. DOMAIN Tail(q) = 1 .. Len(Tail(q))
  BY <1>1
<1>3. \A j \in 1 .. Len(Tail(q)) : Tail(q)[j] = q[j + 1]
  OBVIOUS
<1>4. QED
  BY <1>1, <1>2, <1>3

\* What handling a push adds to the queue of a thread, and where.
LEMMA EnqueueAt ==
  ASSUME TypeOK, NEW q \in Seq(EngineMessage), NEW k \in Keys, NEW w \in Workers
  PROVE  LET e == Enqueue(q, k, w)
             full == AllReceived(request[k] \union {Meta(k, w)})
         IN  /\ e \in Seq(EngineMessage)
             /\ Len(e) = IF full THEN Len(q) + 2 ELSE Len(q) + 1
             /\ \A j \in 1 .. Len(q) : e[j] = q[j]
             /\ e[Len(q) + 1] = Message(k, FirstOrSum(k), {Meta(k, w)})
             /\ full => e[Len(q) + 2] = Message(k, "ALL_RECV", {})
<1> DEFINE first == Message(k, FirstOrSum(k), {Meta(k, w)})
           close == Message(k, "ALL_RECV", {})
           e == Enqueue(q, k, w)
           full == AllReceived(request[k] \union {Meta(k, w)})
<1>1. Meta(k, w) \in KVMeta
  BY DEF Meta, KVMeta, TypeOK
<1>2. first \in EngineMessage /\ close \in EngineMessage
  BY <1>1 DEF Message, FirstOrSum, EngineMessage, Operation, Element
<1>3. e = IF full THEN Append(Append(q, first), close) ELSE Append(q, first)
  BY DEF Enqueue, WithPush, WithClose
<1> HIDE DEF first, close, e, full
<1>4. ASSUME full
      PROVE  /\ e \in Seq(EngineMessage) /\ Len(e) = Len(q) + 2
             /\ \A j \in 1 .. Len(q) : e[j] = q[j]
             /\ e[Len(q) + 1] = first
             /\ e[Len(q) + 2] = close
  <2> DEFINE a == Append(q, first)
  <2>1. /\ a \in Seq(EngineMessage) /\ Len(q) \in Nat /\ Len(a) = Len(q) + 1
        /\ \A j \in 1 .. Len(q) : a[j] = q[j]
        /\ a[Len(q) + 1] = first
    BY <1>2, AppendAt
  <2> HIDE DEF a
  <2>2. /\ Append(a, close) \in Seq(EngineMessage)
        /\ Len(Append(a, close)) = Len(a) + 1
        /\ \A j \in 1 .. Len(a) : Append(a, close)[j] = a[j]
        /\ Append(a, close)[Len(a) + 1] = close
    BY <1>2, <2>1, AppendAt
  <2>3. e = Append(a, close)
    BY <1>3, <1>4 DEF a
  <2>4. Len(e) = Len(q) + 2 /\ e[Len(q) + 2] = close
    BY <2>1, <2>2, <2>3
  <2>5. e[Len(q) + 1] = first
    BY <2>1, <2>2, <2>3
  <2>6. QED
    BY <2>1, <2>2, <2>3, <2>4, <2>5
<1>5. ASSUME ~full
      PROVE  /\ e \in Seq(EngineMessage) /\ Len(e) = Len(q) + 1
             /\ \A j \in 1 .. Len(q) : e[j] = q[j]
             /\ e[Len(q) + 1] = first
  BY <1>2, <1>3, <1>5, AppendAt
<1>6. QED
  BY <1>4, <1>5 DEF first, close, e, full

\* Taking a message moves the others one place to the front.
LEMMA TakeAt ==
  ASSUME TypeOK, NEW i \in Threads, NEW op, Takes(i, op)
  PROVE  /\ queue[i] # << >> /\ 1 \in DOMAIN queue[i]
         /\ queue[i][1] = Head(queue[i]) /\ queue[i][1].ops = op
         /\ queue[i][1].key \in Keys
         /\ \A n \in Threads : n # i => queue'[n] = queue[n]
         /\ \A j \in DOMAIN queue'[i] :
               /\ j \in Nat \ {0} /\ j + 1 \in DOMAIN queue[i]
               /\ queue'[i][j] = queue[i][j + 1]
         /\ \A j \in DOMAIN queue[i] :
               /\ j \in Nat
               /\ j # 1 => j - 1 \in DOMAIN queue'[i] /\ queue'[i][j - 1] = queue[i][j]
<1>1. queue \in [Threads -> Seq(EngineMessage)]
  BY DEF TypeOK
<1>2. /\ queue[i] \in Seq(EngineMessage) /\ queue[i] # << >>
      /\ Head(queue[i]).ops = op
      /\ queue' = [queue EXCEPT ![i] = Tail(queue[i])]
  BY <1>1 DEF Takes, AtFront
<1>3. queue'[i] = Tail(queue[i])
  BY <1>1, <1>2
<1>4. Len(queue[i]) \in Nat \ {0} /\ DOMAIN queue[i] = 1 .. Len(queue[i])
  BY <1>2
<1>5. /\ DOMAIN queue'[i] = 1 .. (Len(queue[i]) - 1)
      /\ \A j \in 1 .. (Len(queue[i]) - 1) : queue'[i][j] = queue[i][j + 1]
  BY <1>2, <1>3, TailAt
<1>6. Head(queue[i]) = queue[i][1] /\ queue[i][1] \in EngineMessage
  BY <1>2, <1>4
<1>7. QED
  BY <1>1, <1>2, <1>4, <1>5, <1>6 DEF EngineMessage

\* So every message left in a queue was in it before.
LEMMA TakeMessage ==
  ASSUME TypeOK, NEW i \in Threads, NEW op, Takes(i, op), NEW k \in Keys
  PROVE  /\ \A n \in Threads : \A j : n # i => (MessageAt(n, j, k)' <=> MessageAt(n, j, k))
         /\ \A j : MessageAt(i, j, k)' =>
               /\ j \in Nat \ {0} /\ MessageAt(i, j + 1, k)
               /\ queue'[i][j] = queue[i][j + 1]
         /\ \A j : MessageAt(i, j, k) =>
               /\ j \in Nat
               /\ j # 1 => MessageAt(i, j - 1, k)' /\ queue'[i][j - 1] = queue[i][j]
  BY TakeAt DEF MessageAt

-----------------------------------------------------------------------------
(* What a step leaves alone.                                               *)

\* A key whose variables a step does not change keeps its invariant.
LEMMA KeyFrame ==
  ASSUME NEW c \in Keys, KeyInv(c),
         stage'[c] = stage[c], round'[c] = round[c], epoch'[c] = epoch[c],
         stored'[c] = {} <=> stored[c] = {},
         request'[c] = request[c], q_pull_reqmeta'[c] = q_pull_reqmeta[c],
         is_push_finished'[c] = is_push_finished[c],
         seen_sender'[c] = seen_sender[c], pull_cnt'[c] = pull_cnt[c],
         merged[c] # "null" => merged'[c] # "null",
         hash_cache[c] # NoThread => hash_cache'[c] # NoThread,
         Closing(c)' <=> Closing(c)
  PROVE  KeyInv(c)'
<1>1. \A v \in Workers : /\ Counted(c, v)' <=> Counted(c, v)
                         /\ Late(c, v)' <=> Late(c, v)
                         /\ Between(c, v)' <=> Between(c, v)
                         /\ Buffered(c, v)' <=> Buffered(c, v)
                         /\ Meta(c, v)' = Meta(c, v)
  BY DEF Counted, Waits, Late, Between, Buffered, Meta
<1>2. PhaseInv(c)'
  BY <1>1 DEF KeyInv, PhaseInv, InitPhase, RegisterPhase, TrainPhase
<1>3. RequestInv(c)'
  <2>1. {Meta(c, v)' : v \in {u \in Workers : Buffered(c, u)'}}
          = {Meta(c, v) : v \in {u \in Workers : Buffered(c, u)}}
    BY <1>1
  <2>2. QED
    BY <2>1 DEF KeyInv, RequestInv
<1>4. HeldInv(c)'
  <2>1. {Meta(c, v)' : v \in {u \in Workers : stage'[c][u] = "pullHeld"}}
          = {Meta(c, v) : v \in {u \in Workers : stage[c][u] = "pullHeld"}}
    BY <1>1
  <2>2. QED
    BY <2>1 DEF KeyInv, HeldInv
<1>5. FlagInv(c)'
  BY <1>1 DEF KeyInv, FlagInv
<1>6. CountInv(c)' /\ CloseInv(c)' /\ HashInv(c)'
  BY <1>1 DEF KeyInv, CountInv, CloseInv, HashInv
<1>7. QED
  BY <1>2, <1>3, <1>4, <1>5, <1>6 DEF KeyInv

\* A step of a worker that does not change what the server knows of it.
LEMMA QuietStep ==
  ASSUME TypeOK, Accounting, NEW k \in Keys, NEW w \in Workers, phase = "running",
         UNCHANGED <<storeVars, engineVars, flagVars, epoch, phase>>,
         \A c \in Keys : c # k => stage'[c] = stage[c] /\ round'[c] = round[c],
         \A v \in Workers : v # w => /\ stage'[k][v] = stage[k][v]
                                    /\ round'[k][v] = round[k][v],
         Counted(k, w)' <=> Counted(k, w), Late(k, w)' <=> Late(k, w),
         Buffered(k, w)' <=> Buffered(k, w),
         stage'[k][w] = "pullHeld" <=> stage[k][w] = "pullHeld",
         Buffered(k, w) \/ stage[k][w] = "pullHeld" => round'[k][w] = round[k][w],
         stage'[k][w] \in {"pushed", "pull"} => stage[k][w] \in {"pushed", "pull"},
         PhaseInv(k)'
  PROVE  Accounting'
<1>1. \A c \in Keys : /\ Closing(c)' <=> Closing(c)
                      /\ \A i, j : MessageAt(i, j, c)' <=> MessageAt(i, j, c)
  BY DEF MessageAt, Closing, engineVars
<1>2. ASSUME NEW c \in Keys, c # k
      PROVE  KeyInv(c)'
  <2>1. KeyInv(c)
    BY DEF Accounting
  <2>2. QED
    BY <1>1, <1>2, <2>1, KeyFrame DEF storeVars, engineVars, flagVars
<1>3. KeyInv(k)
  BY DEF Accounting
<1>4. \A v \in Workers : /\ Counted(k, v)' <=> Counted(k, v)
                         /\ Late(k, v)' <=> Late(k, v)
                         /\ Buffered(k, v)' <=> Buffered(k, v)
                         /\ stage'[k][v] = "pullHeld" <=> stage[k][v] = "pullHeld"
                         /\ Buffered(k, v) \/ stage[k][v] = "pullHeld" => Meta(k, v)' = Meta(k, v)
  BY DEF Counted, Waits, Late, Buffered, Meta
<1>5. RequestInv(k)'
  <2>1. {Meta(k, v)' : v \in {u \in Workers : Buffered(k, u)'}}
          = {Meta(k, v) : v \in {u \in Workers : Buffered(k, u)}}
    BY <1>4
  <2>2. QED
    BY <1>1, <1>3, <2>1 DEF KeyInv, RequestInv, storeVars
<1>6. HeldInv(k)'
  <2>1. {Meta(k, v)' : v \in {u \in Workers : stage'[k][u] = "pullHeld"}}
          = {Meta(k, v) : v \in {u \in Workers : stage[k][u] = "pullHeld"}}
    BY <1>4
  <2>2. QED
    BY <1>3, <2>1 DEF KeyInv, HeldInv, flagVars
<1>7. FlagInv(k)' /\ CountInv(k)' /\ CloseInv(k)'
  BY <1>1, <1>3, <1>4 DEF KeyInv, FlagInv, CountInv, CloseInv, flagVars, engineVars
<1>8. HashInv(k)'
  BY <1>3 DEF KeyInv, HashInv, storeVars
<1>9. KeyInv(k)'
  BY <1>5, <1>6, <1>7, <1>8 DEF KeyInv
<1>10. QueueInv'
  <2> SUFFICES ASSUME NEW i \in Threads, NEW c \in Keys
               PROVE  EngineInv(i, c)' /\ \A j \in DOMAIN queue'[i] : MessageInv(i, j, c)'
    BY DEF QueueInv
  <2>1. EngineInv(i, c) /\ \A j \in DOMAIN queue[i] : MessageInv(i, j, c)
    BY DEF Accounting, QueueInv
  <2>2. \A v \in Workers : Counted(c, v) => Counted(c, v)' /\ Meta(c, v)' = Meta(c, v)
    BY <1>4 DEF Counted, Waits, Meta, Buffered
  <2>3. EngineInv(i, c)'
    BY <1>1, <2>1 DEF EngineInv, engineVars, storeVars
  <2>4. ASSUME NEW j \in DOMAIN queue'[i]
        PROVE  MessageInv(i, j, c)'
    BY <1>1, <2>1, <2>2 DEF MessageInv, engineVars, storeVars
  <2>5. QED
    BY <2>3, <2>4
<1>11. LeaveInv'
  BY DEF LeaveInv
<1>12. QED
  BY <1>2, <1>9, <1>10, <1>11 DEF Accounting

-----------------------------------------------------------------------------
(* The steps of the workers.                                               *)

\* The steps of the workers keep the accounting.
LEMMA WorkerAccounting ==
  ASSUME ServerAssumption, TypeOK, Accounting,
         NEW k \in Keys, NEW w \in Workers, Worker(k, w)
  PROVE  Accounting'
<1>1. PhaseInv(k)
  BY DEF Accounting, KeyInv
<1>2. /\ stage \in [Keys -> [Workers -> Stage]]
      /\ round \in [Keys -> [Workers -> Nat]]
      /\ epoch \in [Keys -> Nat]
  BY DEF TypeOK, Rounds, ServerAssumption
<1>3. CASE IssueInit(k, w)
  <2>1. /\ phase = "running" /\ UNCHANGED <<storeVars, engineVars, flagVars, epoch, phase>>
        /\ \A c \in Keys : c # k => stage'[c] = stage[c] /\ round'[c] = round[c]
        /\ \A v \in Workers : v # w => /\ stage'[k][v] = stage[k][v]
                                      /\ round'[k][v] = round[k][v]
        /\ stage[k][w] = "start" /\ stage'[k][w] = "init"
        /\ round'[k][w] = round[k][w]
    BY <1>3, <1>2 DEF IssueInit, Goes, Up
  <2>2. InitPhase(k)
    BY <1>1, <2>1 DEF PhaseInv, InitPhase, RegisterPhase, TrainPhase, Counted, Waits, Late, Between
  <2>3. PhaseInv(k)'
    BY <1>2, <2>1, <2>2 DEF PhaseInv, InitPhase, RegisterPhase, TrainPhase, Counted,
       Waits, Late, Between, storeVars
  <2>4. /\ Counted(k, w)' <=> Counted(k, w)
        /\ Late(k, w)' <=> Late(k, w)
        /\ Buffered(k, w)' <=> Buffered(k, w)
        /\ Buffered(k, w) => round'[k][w] = round[k][w]
    BY <1>2, <2>1, <2>2 DEF Counted, Waits, Late, Between, Buffered, TrainPhase
  <2>5. QED
    BY <2>1, <2>3, <2>4, QuietStep
<1>4. CASE IssueRegister(k, w)
  <2>1. /\ phase = "running" /\ UNCHANGED <<storeVars, engineVars, flagVars, epoch, phase>>
        /\ \A c \in Keys : c # k => stage'[c] = stage[c] /\ round'[c] = round[c]
        /\ \A v \in Workers : v # w => /\ stage'[k][v] = stage[k][v]
                                      /\ round'[k][v] = round[k][v]
        /\ stage[k][w] = "inited" /\ stage'[k][w] = "register"
        /\ round'[k][w] = round[k][w]
    BY <1>4, <1>2 DEF IssueRegister, Goes, Up
  <2>2. RegisterPhase(k)
    BY <1>1, <2>1 DEF PhaseInv, InitPhase, RegisterPhase, TrainPhase, Counted, Waits, Late, Between
  <2>3. PhaseInv(k)'
    BY <1>2, <2>1, <2>2 DEF PhaseInv, InitPhase, RegisterPhase, TrainPhase, Counted,
       Waits, Late, Between, storeVars
  <2>4. /\ Counted(k, w)' <=> Counted(k, w)
        /\ Late(k, w)' <=> Late(k, w)
        /\ Buffered(k, w)' <=> Buffered(k, w)
        /\ Buffered(k, w) => round'[k][w] = round[k][w]
    BY <1>2, <2>1, <2>2 DEF Counted, Waits, Late, Between, Buffered, TrainPhase
  <2>5. QED
    BY <2>1, <2>3, <2>4, QuietStep
<1>5. CASE IssuePush(k, w)
  <2>1. /\ phase = "running" /\ UNCHANGED <<storeVars, engineVars, flagVars, epoch, phase>>
        /\ \A c \in Keys : c # k => stage'[c] = stage[c] /\ round'[c] = round[c]
        /\ \A v \in Workers : v # w => /\ stage'[k][v] = stage[k][v]
                                      /\ round'[k][v] = round[k][v]
        /\ stage[k][w] = "ready" /\ stage'[k][w] = "push"
        /\ round'[k][w] = round[k][w] + 1
    BY <1>5, <1>2 DEF IssuePush, Goes, Up
  <2>2. TrainPhase(k) /\ Between(k, w)
    BY <1>1, <2>1 DEF PhaseInv, InitPhase, RegisterPhase, TrainPhase, Counted, Waits, Late, Between
  <2>3. PhaseInv(k)'
    BY <1>2, <2>1, <2>2 DEF PhaseInv, InitPhase, RegisterPhase, TrainPhase, Counted,
       Waits, Late, Between, storeVars
  <2>4. /\ Counted(k, w)' <=> Counted(k, w)
        /\ Late(k, w)' <=> Late(k, w)
        /\ Buffered(k, w)' <=> Buffered(k, w)
        /\ Buffered(k, w) => round'[k][w] = round[k][w]
    BY <1>2, <2>1, <2>2 DEF Counted, Waits, Late, Between, Buffered, TrainPhase
  <2>5. QED
    BY <2>1, <2>3, <2>4, QuietStep
<1>6. CASE IssuePull(k, w)
  <2>1. /\ phase = "running" /\ UNCHANGED <<storeVars, engineVars, flagVars, epoch, phase>>
        /\ \A c \in Keys : c # k => stage'[c] = stage[c] /\ round'[c] = round[c]
        /\ \A v \in Workers : v # w => /\ stage'[k][v] = stage[k][v]
                                      /\ round'[k][v] = round[k][v]
        /\ stage[k][w] = "pushed" /\ stage'[k][w] = "pull"
        /\ round'[k][w] = round[k][w]
    BY <1>6, <1>2 DEF IssuePull, Goes, Up
  <2>2. TrainPhase(k) /\ (Counted(k, w) \/ Late(k, w))
    BY <1>1, <2>1 DEF PhaseInv, InitPhase, RegisterPhase, TrainPhase, Counted, Waits, Late, Between
  <2>3. PhaseInv(k)'
    BY <1>2, <2>1, <2>2 DEF PhaseInv, InitPhase, RegisterPhase, TrainPhase, Counted,
       Waits, Late, Between, storeVars
  <2>4. /\ Counted(k, w)' <=> Counted(k, w)
        /\ Late(k, w)' <=> Late(k, w)
        /\ Buffered(k, w)' <=> Buffered(k, w)
        /\ Buffered(k, w) => round'[k][w] = round[k][w]
    BY <1>2, <2>1, <2>2 DEF Counted, Waits, Late, Between, Buffered, TrainPhase
  <2>5. QED
    BY <2>1, <2>3, <2>4, QuietStep
<1>7. CASE Receive(k, w)
  <2>1. /\ phase = "running" /\ UNCHANGED <<storeVars, engineVars, flagVars, epoch, phase>>
        /\ \A c \in Keys : c # k => stage'[c] = stage[c] /\ round'[c] = round[c]
        /\ \A v \in Workers : v # w => /\ stage'[k][v] = stage[k][v]
                                      /\ round'[k][v] = round[k][v]
        /\ stage[k][w] = "answered" /\ stage'[k][w] = "ready"
        /\ round'[k][w] = round[k][w]
    BY <1>7, <1>2 DEF Receive, Goes, Up
  <2>2. TrainPhase(k) /\ Between(k, w)
    BY <1>1, <2>1 DEF PhaseInv, InitPhase, RegisterPhase, TrainPhase, Counted, Waits, Late, Between
  <2>3. PhaseInv(k)'
    BY <1>2, <2>1, <2>2 DEF PhaseInv, InitPhase, RegisterPhase, TrainPhase, Counted,
       Waits, Late, Between, storeVars
  <2>4. /\ Counted(k, w)' <=> Counted(k, w)
        /\ Late(k, w)' <=> Late(k, w)
        /\ Buffered(k, w)' <=> Buffered(k, w)
        /\ Buffered(k, w) => round'[k][w] = round[k][w]
    BY <1>2, <2>1, <2>2 DEF Counted, Waits, Late, Between, Buffered, TrainPhase
  <2>5. QED
    BY <2>1, <2>3, <2>4, QuietStep
<1>8. QED
  BY <1>3, <1>4, <1>5, <1>6, <1>7 DEF Worker

-----------------------------------------------------------------------------
(* The steps of the handler.                                               *)

\* A step that does not touch the queues keeps what is known of the messages
\* if every counted worker stays counted.
LEMMA QueueFrame ==
  ASSUME QueueInv, queue' = queue, engine' = engine,
         \A c \in Keys : hash_cache'[c] = hash_cache[c] /\ merged'[c] = merged[c],
         \A c \in Keys : \A v \in Workers :
            Counted(c, v) => Counted(c, v)' /\ Meta(c, v)' = Meta(c, v)
  PROVE  QueueInv'
<1> SUFFICES ASSUME NEW i \in Threads, NEW c \in Keys
             PROVE  EngineInv(i, c)' /\ \A j \in DOMAIN queue'[i] : MessageInv(i, j, c)'
  BY DEF QueueInv
<1>1. EngineInv(i, c) /\ \A j \in DOMAIN queue[i] : MessageInv(i, j, c)
  BY DEF QueueInv
<1>2. \A n, j : MessageAt(n, j, c)' <=> MessageAt(n, j, c)
  BY DEF MessageAt
<1>3. EngineInv(i, c)'
  BY <1>1, <1>2 DEF EngineInv
<1>4. ASSUME NEW j \in DOMAIN queue'[i]
      PROVE  MessageInv(i, j, c)'
  BY <1>1, <1>2 DEF MessageInv
<1>5. QED
  BY <1>3, <1>4

\* A step that changes only what is buffered of a key whose training has not
\* begun keeps the accounting.
LEMMA BufferStep ==
  ASSUME TypeOK, Accounting, NEW k \in Keys, phase = "running",
         UNCHANGED <<round, hash_cache, merged, queue, engine, flagVars, epoch, phase>>,
         \A c \in Keys : c # k => /\ stage'[c] = stage[c] /\ stored'[c] = stored[c]
                               /\ request'[c] = request[c],
         \A v \in Workers : ~Counted(k, v) /\ ~Late(k, v) /\ stage[k][v] # "pullHeld",
         \A v \in Workers : ~Counted(k, v)' /\ ~Late(k, v)' /\ stage'[k][v] # "pullHeld",
         request'[k] = {Meta(k, v) : v \in {u \in Workers : Buffered(k, u)'}},
         PhaseInv(k)', Workers # {}
  PROVE  Accounting'
<1>1. /\ PhaseInv(k) /\ RequestInv(k) /\ HeldInv(k)
      /\ FlagInv(k) /\ CountInv(k) /\ CloseInv(k) /\ HashInv(k)
  BY DEF Accounting, KeyInv
<1>2. \A c \in Keys : Closing(c)' <=> Closing(c)
  BY DEF Closing
<1>3. ASSUME NEW c \in Keys, c # k
      PROVE  KeyInv(c)'
  <2>1. KeyInv(c)
    BY DEF Accounting
  <2>2. QED
    BY <1>2, <1>3, <2>1, KeyFrame DEF flagVars
<1>4. ~Closing(k)'
  BY <1>1, <1>2 DEF CloseInv
<1>5. RequestInv(k)'
  <2>1. \A v : Meta(k, v)' = Meta(k, v)
    BY DEF Meta
  <2>2. {Meta(k, v)' : v \in {u \in Workers : Buffered(k, u)'}}
          = {Meta(k, v) : v \in {u \in Workers : Buffered(k, u)'}}
    BY <2>1
  <2>3. QED
    BY <1>4, <2>2 DEF RequestInv
<1>6. HeldInv(k)'
  <2>1. q_pull_reqmeta[k] = {}
    BY <1>1 DEF HeldInv
  <2>2. QED
    BY <2>1 DEF HeldInv, flagVars
<1>7. FlagInv(k)' /\ CountInv(k)' /\ CloseInv(k)'
  BY <1>1, <1>4 DEF FlagInv, CountInv, CloseInv, flagVars
<1>8. HashInv(k)'
  <2>1. \A v \in Workers : stage'[k][v] \notin {"pushed", "pull"}
    BY DEF PhaseInv, InitPhase, RegisterPhase, TrainPhase, Between, Counted, Late, Waits
  <2>2. QED
    BY <2>1 DEF HashInv
<1>9. QueueInv'
  <2>1. \A c \in Keys : \A v \in Workers :
           Counted(c, v) => Counted(c, v)' /\ Meta(c, v)' = Meta(c, v)
    BY DEF Counted, Waits, Meta
  <2>2. QueueInv
    BY DEF Accounting
  <2>3. QED
    BY <2>1, <2>2, QueueFrame
<1>10. LeaveInv'
  BY DEF LeaveInv
<1>11. QED
  BY <1>3, <1>5, <1>6, <1>7, <1>8, <1>9, <1>10 DEF Accounting, KeyInv

\* The two buffered exchanges that precede the training keep the accounting.
LEMMA InitAccounting ==
  ASSUME ServerAssumption, TypeOK, Accounting, NEW k \in Keys, NEW w \in Workers,
         HandleInitPush(k, w) \/ HandleRegister(k, w)
  PROVE  Accounting'
<1> DEFINE metas == request[k] \union {Meta(k, w)}
           B == {v \in Workers : Buffered(k, v)}
<1>1. /\ PhaseInv(k) /\ RequestInv(k) /\ HeldInv(k)
      /\ FlagInv(k) /\ CountInv(k) /\ CloseInv(k) /\ HashInv(k)
      /\ Workers # {}
  BY DEF Accounting, KeyInv, ServerAssumption
<1>2. /\ stage \in [Keys -> [Workers -> Stage]]
      /\ round \in [Keys -> [Workers -> Nat]]
      /\ epoch \in [Keys -> Nat]
      /\ stored \in [Keys -> Element]
      /\ request \in [Keys -> SUBSET KVMeta]
  BY DEF TypeOK, Rounds, ServerAssumption
<1>3. CASE HandleInitPush(k, w)
  <2>1. InitPhase(k)
    BY <1>1, <1>3 DEF HandleInitPush, PhaseInv, InitPhase, RegisterPhase, TrainPhase, Counted,
       Waits, Late, Between
  <2>2. /\ \A v \in Workers : ~Counted(k, v) /\ ~Late(k, v) /\ stage[k][v] # "pullHeld"
        /\ \A v \in Workers : Buffered(k, v) <=> stage[k][v] = "initHeld"
    BY <2>1, <1>2 DEF InitPhase, Counted, Waits, Late, Buffered
  <2>3. ~Closing(k) /\ ~is_push_finished[k]
    BY <1>1, <2>2 DEF CloseInv, FlagInv, ServerAssumption
  <2>4. request[k] = {Meta(k, v) : v \in B}
    BY <1>1, <2>3 DEF RequestInv
  <2>5. \A v \in Workers : round[k][v] = 0
    BY <2>1 DEF InitPhase
  <2>6. /\ StillCollecting(metas) <=> B \union {w} # Workers
        /\ \A v \in Workers : Meta(k, v) \in metas <=> v \in B \union {w}
    <3>1. B \in SUBSET Workers /\ (\A v \in B : round[k][v] = round[k][w])
      BY <2>5
    <3>2. \A m : m \in request[k] <=> \E v \in B : m = Meta(k, v)
      BY <2>4
    <3> HIDE DEF B
    <3>3. StillCollecting(request[k] \union {Meta(k, w)}) <=> B \union {w} # Workers
      BY <3>1, <3>2, RequestFull DEF StillCollecting
    <3>5. \A v \in Workers :
             Meta(k, v) \in request[k] \union {Meta(k, w)} <=> v \in B \union {w}
      BY <3>1, <3>2, RequestFull, Zenon
    <3>4. QED
      BY <3>3, <3>5
  <2>7. /\ UNCHANGED <<round, hash_cache, merged, queue, engine, flagVars, epoch, phase>>
        /\ phase = "running" /\ stage[k][w] = "init"
        /\ \A c \in Keys : c # k => /\ stage'[c] = stage[c] /\ stored'[c] = stored[c]
                                  /\ request'[c] = request[c]
    BY <1>2, <1>3 DEF HandleInitPush, Goes, Respond, Up, engineVars
  <2>8. /\ \A v \in Workers : ~Counted(k, v)' /\ ~Late(k, v)' /\ stage'[k][v] # "pullHeld"
        /\ request'[k] = {Meta(k, v) : v \in {u \in Workers : Buffered(k, u)'}}
        /\ PhaseInv(k)'
    <3>1. CASE StillCollecting(metas)
      <4>1. stage' = [stage EXCEPT ![k][w] = "initHeld"] /\ request'[k] = metas
            /\ (stored'[k] = {} <=> stored[k] = {})
        BY <1>2, <1>3, <3>1 DEF HandleInitPush, Goes
      <4>2. /\ stage'[k][w] = "initHeld"
            /\ \A v \in Workers : v # w => stage'[k][v] = stage[k][v]
        BY <1>2, <4>1
      <4>3. \A v \in Workers : /\ ~Counted(k, v)' /\ ~Late(k, v)'
                               /\ stage'[k][v] # "pullHeld"
                               /\ Buffered(k, v)' <=> v \in B \union {w}
        BY <1>2, <2>1, <2>2, <2>7, <4>2 DEF InitPhase, Counted, Waits, Late, Buffered
      <4>4. metas = {Meta(k, v) : v \in B \union {w}}
        BY <2>4
      <4>5. InitPhase(k)'
        BY <1>2, <2>1, <2>7, <4>1, <4>2 DEF InitPhase
      <4>6. {u \in Workers : Buffered(k, u)'} = B \union {w}
        BY <4>3
      <4>7. QED
        BY <4>1, <4>3, <4>4, <4>5, <4>6 DEF PhaseInv
    <3>2. CASE ~StillCollecting(metas)
      <4>1. /\ Respond(k, metas, AfterInit(k)) /\ request'[k] = {}
            /\ stored'[k] # {}
        <5>1. /\ Respond(k, metas, AfterInit(k)) /\ request' = [request EXCEPT ![k] = {}]
              /\ stored' = [stored EXCEPT ![k] = {Meta(k, w)}]
          BY <1>3, <3>2 DEF HandleInitPush
        <5>2. QED
          BY <1>2, <5>1
      <4>2. \A v \in Workers : stage'[k][v] = AfterInit(k)
        BY <1>2, <2>6, <3>2, <4>1 DEF Respond
      <4>3. \A v \in Workers : /\ ~Counted(k, v)' /\ ~Late(k, v)'
                               /\ stage'[k][v] # "pullHeld" /\ ~Buffered(k, v)'
        BY <4>2 DEF Counted, Waits, Late, Buffered, AfterInit
      <4>4. RegisterPhase(k)' \/ TrainPhase(k)'
        BY <1>2, <2>1, <2>5, <2>7, <4>1, <4>2 DEF InitPhase, RegisterPhase, TrainPhase, AfterInit, Between
      <4>5. QED
        BY <4>1, <4>3, <4>4 DEF PhaseInv
    <3>3. QED
      BY <3>1, <3>2
  <2>9. QED
    BY <1>1, <1>2, <2>2, <2>7, <2>8, BufferStep
<1>4. CASE HandleRegister(k, w)
  <2>1. RegisterPhase(k)
    BY <1>1, <1>4 DEF HandleRegister, PhaseInv, InitPhase, RegisterPhase, TrainPhase, Counted,
       Waits, Late, Between
  <2>2. /\ \A v \in Workers : ~Counted(k, v) /\ ~Late(k, v) /\ stage[k][v] # "pullHeld"
        /\ \A v \in Workers : Buffered(k, v) <=> stage[k][v] = "registerHeld"
    BY <2>1, <1>2 DEF RegisterPhase, Counted, Waits, Late, Buffered
  <2>3. ~Closing(k) /\ ~is_push_finished[k]
    BY <1>1, <2>2 DEF CloseInv, FlagInv, ServerAssumption
  <2>4. request[k] = {Meta(k, v) : v \in B}
    BY <1>1, <2>3 DEF RequestInv
  <2>5. \A v \in Workers : round[k][v] = 0
    BY <2>1 DEF RegisterPhase
  <2>6. /\ StillCollecting(metas) <=> B \union {w} # Workers
        /\ \A v \in Workers : Meta(k, v) \in metas <=> v \in B \union {w}
    <3>1. B \in SUBSET Workers /\ (\A v \in B : round[k][v] = round[k][w])
      BY <2>5
    <3>2. \A m : m \in request[k] <=> \E v \in B : m = Meta(k, v)
      BY <2>4
    <3> HIDE DEF B
    <3>3. StillCollecting(request[k] \union {Meta(k, w)}) <=> B \union {w} # Workers
      BY <3>1, <3>2, RequestFull DEF StillCollecting
    <3>5. \A v \in Workers :
             Meta(k, v) \in request[k] \union {Meta(k, w)} <=> v \in B \union {w}
      BY <3>1, <3>2, RequestFull, Zenon
    <3>4. QED
      BY <3>3, <3>5
  <2>7. /\ UNCHANGED <<round, hash_cache, merged, queue, engine, flagVars, epoch, phase>>
        /\ phase = "running" /\ stage[k][w] = "register"
        /\ \A c \in Keys : c # k => /\ stage'[c] = stage[c] /\ stored'[c] = stored[c]
                                  /\ request'[c] = request[c]
    BY <1>2, <1>4 DEF HandleRegister, Goes, Respond, Up, engineVars
  <2>8. /\ \A v \in Workers : ~Counted(k, v)' /\ ~Late(k, v)' /\ stage'[k][v] # "pullHeld"
        /\ request'[k] = {Meta(k, v) : v \in {u \in Workers : Buffered(k, u)'}}
        /\ PhaseInv(k)'
    <3>1. CASE StillCollecting(metas)
      <4>1. stage' = [stage EXCEPT ![k][w] = "registerHeld"] /\ request'[k] = metas
            /\ (stored'[k] = {} <=> stored[k] = {})
        BY <1>2, <1>4, <3>1 DEF HandleRegister, Goes
      <4>2. /\ stage'[k][w] = "registerHeld"
            /\ \A v \in Workers : v # w => stage'[k][v] = stage[k][v]
        BY <1>2, <4>1
      <4>3. \A v \in Workers : /\ ~Counted(k, v)' /\ ~Late(k, v)'
                               /\ stage'[k][v] # "pullHeld"
                               /\ Buffered(k, v)' <=> v \in B \union {w}
        BY <1>2, <2>1, <2>2, <2>7, <4>2 DEF RegisterPhase, Counted, Waits, Late, Buffered
      <4>4. metas = {Meta(k, v) : v \in B \union {w}}
        BY <2>4
      <4>5. RegisterPhase(k)'
        BY <1>2, <2>1, <2>7, <4>1, <4>2 DEF RegisterPhase
      <4>6. {u \in Workers : Buffered(k, u)'} = B \union {w}
        BY <4>3
      <4>7. QED
        BY <4>1, <4>3, <4>4, <4>5, <4>6 DEF PhaseInv
    <3>2. CASE ~StillCollecting(metas)
      <4>1. /\ Respond(k, metas, "ready") /\ request'[k] = {}
            /\ stored'[k] # {}
        BY <1>2, <1>4, <2>1, <3>2 DEF HandleRegister, RegisterPhase
      <4>2. \A v \in Workers : stage'[k][v] = "ready"
        BY <1>2, <2>6, <3>2, <4>1 DEF Respond
      <4>3. \A v \in Workers : /\ ~Counted(k, v)' /\ ~Late(k, v)'
                               /\ stage'[k][v] # "pullHeld" /\ ~Buffered(k, v)'
        BY <4>2 DEF Counted, Waits, Late, Buffered, AfterInit
      <4>4. RegisterPhase(k)' \/ TrainPhase(k)'
        BY <1>2, <2>1, <2>5, <2>7, <4>1, <4>2 DEF RegisterPhase, RegisterPhase, TrainPhase, AfterInit, Between
      <4>5. QED
        BY <4>1, <4>3, <4>4 DEF PhaseInv
    <3>3. QED
      BY <3>1, <3>2
  <2>9. QED
    BY <1>1, <1>2, <2>2, <2>7, <2>8, BufferStep
<1>5. QED
  BY <1>3, <1>4

\* What handling a push does to the messages: the earlier ones stay, and after
\* the L messages of the thread come the push itself and, if two messages are
\* added, the end of the round.
Adds(k, w, tid, L, added) ==
    /\ L \in Nat
    /\ \A i \in Threads, c \in Keys : \A j :
          /\ MessageAt(i, j, c) =>
                /\ MessageAt(i, j, c)' /\ queue'[i][j] = queue[i][j]
                /\ i = tid => j \in 1 .. L
          /\ MessageAt(i, j, c)' =>
                \/ MessageAt(i, j, c)
                \/ /\ i = tid /\ c = k
                   /\ j = L + 1 \/ (added = 2 /\ j = L + 2)
    /\ queue'[tid][L + 1].key = k
    /\ queue'[tid][L + 1].ops = FirstOrSum(k)
    /\ queue'[tid][L + 1].src = {Meta(k, w)}
    /\ MessageAt(tid, L + 1, k)'
    /\ added = 2 => /\ MessageAt(tid, L + 2, k)' /\ queue'[tid][L + 2].ops = "ALL_RECV"
                   /\ queue'[tid][L + 2].src = {}

\* The push of a worker adds the message of the end of the round if it is the
\* last of all workers.
LEMMA PushAt ==
  ASSUME TypeOK, NEW k \in Keys, NEW w \in Workers, NEW tid \in Threads,
         queue' = [queue EXCEPT ![tid] = Enqueue(@, k, w)],
         NEW L, L = Len(queue[tid]),
         NEW added \in {1, 2},
         added = 2 <=> Cardinality(request[k] \union {Meta(k, w)}) = NumWorkers
  PROVE  Adds(k, w, tid, L, added)
<1> DEFINE q == queue[tid]
           e == Enqueue(q, k, w)
<1>1. queue \in [Threads -> Seq(EngineMessage)]
  BY DEF TypeOK
<1>2. q \in Seq(EngineMessage) /\ L \in Nat /\ DOMAIN q = 1 .. L
  BY <1>1
<1>3. /\ queue'[tid] = e
      /\ \A i \in Threads : i # tid => queue'[i] = queue[i]
  BY <1>1
<1>4. /\ e \in Seq(EngineMessage)
      /\ Len(e) = IF added = 2 THEN L + 2 ELSE L + 1
      /\ \A j \in 1 .. L : e[j] = q[j]
      /\ e[L + 1] = Message(k, FirstOrSum(k), {Meta(k, w)})
      /\ added = 2 => e[L + 2] = Message(k, "ALL_RECV", {})
  <2>1. /\ e \in Seq(EngineMessage)
        /\ Len(e) = IF AllReceived(request[k] \union {Meta(k, w)})
                    THEN Len(q) + 2 ELSE Len(q) + 1
        /\ \A j \in 1 .. Len(q) : e[j] = q[j]
        /\ e[Len(q) + 1] = Message(k, FirstOrSum(k), {Meta(k, w)})
        /\ AllReceived(request[k] \union {Meta(k, w)}) =>
              e[Len(q) + 2] = Message(k, "ALL_RECV", {})
    BY <1>2, EnqueueAt
  <2>2. added = 2 <=> AllReceived(request[k] \union {Meta(k, w)})
    BY DEF AllReceived
  <2> HIDE DEF e
  <2>3. QED
    BY <2>1, <2>2
<1>5. DOMAIN e = 1 .. Len(e)
  BY <1>4
<1> HIDE DEF e, q
<1>6. /\ e[L + 1].key = k /\ e[L + 1].ops = FirstOrSum(k)
      /\ e[L + 1].ops # "TERMINATE" /\ e[L + 1].src = {Meta(k, w)}
      /\ added = 2 => /\ e[L + 2].key = k /\ e[L + 2].ops = "ALL_RECV"
                     /\ e[L + 2].src = {}
  BY <1>4 DEF Message, FirstOrSum
<1>7. \A j : j \in DOMAIN e <=> j \in 1 .. L \/ j = L + 1 \/ (added = 2 /\ j = L + 2)
  BY <1>2, <1>4, <1>5
<1>8. /\ MessageAt(tid, L + 1, k)'
      /\ added = 2 => /\ MessageAt(tid, L + 2, k)' /\ queue'[tid][L + 2].ops = "ALL_RECV"
                     /\ queue'[tid][L + 2].src = {}
  BY <1>3, <1>6, <1>7 DEF MessageAt
<1>9. ASSUME NEW i \in Threads, NEW c \in Keys, NEW j
      PROVE  /\ MessageAt(i, j, c) =>
                   /\ MessageAt(i, j, c)' /\ queue'[i][j] = queue[i][j]
                   /\ i = tid => j \in 1 .. L
             /\ MessageAt(i, j, c)' =>
                   \/ MessageAt(i, j, c)
                   \/ /\ i = tid /\ c = k
                      /\ j = L + 1 \/ (added = 2 /\ j = L + 2)
  <2>1. CASE i = tid
    <3>1. queue[i] = q /\ queue'[i] = e
      BY <1>3, <2>1 DEF q
    <3>2. \A n \in 1 .. L : n \in DOMAIN q /\ n \in DOMAIN e /\ e[n] = q[n]
      BY <1>2, <1>4, <1>7
    <3>3. MessageAt(i, j, c)' => \/ MessageAt(i, j, c)
                                 \/ c = k /\ (j = L + 1 \/ (added = 2 /\ j = L + 2))
      BY <1>6, <1>7, <3>1, <3>2 DEF MessageAt
    <3>4. MessageAt(i, j, c) => /\ MessageAt(i, j, c)' /\ queue'[i][j] = queue[i][j]
                                /\ j \in 1 .. L
      BY <1>2, <3>1, <3>2 DEF MessageAt
    <3>5. QED
      BY <2>1, <3>3, <3>4
  <2>2. CASE i # tid
    BY <1>3, <2>2 DEF MessageAt
  <2>3. QED
    BY <2>1, <2>2
<1>10. QED
  BY <1>2, <1>3, <1>6, <1>8, <1>9 DEF q, e, Adds

\* The push of a round keeps the accounting.
LEMMA PushAccounting ==
  ASSUME ServerAssumption, TypeOK, Accounting,
         NEW k \in Keys, NEW w \in Workers, HandlePush(k, w)
  PROVE  Accounting'
<1> DEFINE B == {v \in Workers : Buffered(k, v)}
<1>1. /\ PhaseInv(k) /\ RequestInv(k) /\ HeldInv(k)
      /\ FlagInv(k) /\ CountInv(k) /\ CloseInv(k) /\ HashInv(k)
  BY DEF Accounting, KeyInv
<1>2. /\ stage \in [Keys -> [Workers -> Stage]]
      /\ round \in [Keys -> [Workers -> Nat]]
      /\ epoch \in [Keys -> Nat]
      /\ hash_cache \in [Keys -> Threads \union {NoThread}]
      /\ request \in [Keys -> SUBSET KVMeta]
  BY DEF TypeOK, Rounds, ServerAssumption
<1>3. PICK tid \in Threads :
         /\ GetThreadID(k, tid)
         /\ queue' = [queue EXCEPT ![tid] = Enqueue(@, k, w)]
  BY DEF HandlePush
<1>0. PICK L : L = Len(queue[tid])
  OBVIOUS
<1>4. PICK added \in {1, 2} :
            added = 2 <=> Cardinality(request[k] \union {Meta(k, w)}) = NumWorkers
  <2>1. CASE Cardinality(request[k] \union {Meta(k, w)}) = NumWorkers
    BY <2>1, 2 \in {1, 2}
  <2>2. CASE Cardinality(request[k] \union {Meta(k, w)}) # NumWorkers
    BY <2>2, 1 \in {1, 2}, 1 # 2
  <2>3. QED
    BY <2>1, <2>2
<1>5. /\ L \in Nat
      /\ \A i \in Threads, c \in Keys : \A j :
            /\ MessageAt(i, j, c) =>
                  /\ MessageAt(i, j, c)' /\ queue'[i][j] = queue[i][j]
                  /\ i = tid => j \in 1 .. L
            /\ MessageAt(i, j, c)' =>
                  \/ MessageAt(i, j, c)
                  \/ /\ i = tid /\ c = k
                     /\ j = L + 1 \/ (added = 2 /\ j = L + 2)
      /\ queue'[tid][L + 1].key = k
      /\ queue'[tid][L + 1].ops \in {"COPY_FIRST", "SUM_RECV"}
      /\ queue'[tid][L + 1].src = {Meta(k, w)}
      /\ added = 2 => MessageAt(tid, L + 2, k)' /\ queue'[tid][L + 2].ops = "ALL_RECV"
  <2>1. Adds(k, w, tid, L, added)
    BY <1>0, <1>3, <1>4, PushAt
  <2>2. QED
    BY <2>1 DEF Adds, FirstOrSum
<1>6. /\ UNCHANGED <<round, stored, engine, merged, flagVars, epoch, phase>>
      /\ phase = "running" /\ stage[k][w] = "push" /\ stored[k] # {}
      /\ \A c \in Keys : c # k => /\ stage'[c] = stage[c] /\ request'[c] = request[c]
                                  /\ hash_cache'[c] = hash_cache[c]
      /\ \A v \in Workers : v # w => stage'[k][v] = stage[k][v]
      /\ stage'[k][w] = "pushed"
  BY <1>2, <1>3 DEF HandlePush, Goes, Up, GetThreadID
<1>7. /\ hash_cache'[k] = tid
      /\ hash_cache[k] # NoThread => hash_cache[k] = tid
  BY <1>2, <1>3 DEF GetThreadID
<1>8. TrainPhase(k) /\ Between(k, w) /\ round[k][w] = epoch[k] + 1
  BY <1>1, <1>6 DEF PhaseInv, InitPhase, RegisterPhase, TrainPhase, Counted, Waits, Late, Between
<1>9. /\ \A v \in Workers : Counted(k, v)' <=> Counted(k, v) \/ v = w
      /\ \A v \in Workers : Late(k, v)' <=> Late(k, v)
      /\ ~Counted(k, w) /\ ~Late(k, w)
      /\ \A c \in Keys : \A v \in Workers : Meta(c, v)' = Meta(c, v)
  <2>1. \A c \in Keys : \A v \in Workers : Meta(c, v)' = Meta(c, v)
    BY <1>6 DEF Meta
  <2>2. epoch'[k] = epoch[k] /\ round'[k] = round[k] /\ epoch[k] + 1 # epoch[k]
    BY <1>2, <1>6
  <2>3. QED
    BY <1>6, <1>8, <2>1, <2>2 DEF Counted, Waits, Late
<1>10. \A v \in Workers : /\ Buffered(k, v) <=> Counted(k, v)
                          /\ Buffered(k, v)' <=> v \in B \union {w}
  <2>1. \A v \in Workers : stage[k][v] \notin {"initHeld", "registerHeld"}
    BY <1>8 DEF TrainPhase, Counted, Waits, Late, Between
  <2>2. QED
    BY <1>6, <1>9, <2>1 DEF Buffered
<1>11. ~Closing(k)
  BY <1>1, <1>9 DEF CloseInv
<1>12. request[k] = {Meta(k, v) : v \in B}
  BY <1>1, <1>11 DEF RequestInv
<1>13. added = 2 <=> \A v \in Workers : Counted(k, v)'
  <2>1. B \in SUBSET Workers /\ \A v \in B : round[k][v] = round[k][w]
    BY <1>8, <1>10 DEF Counted, Waits
  <2>2. \A m : m \in request[k] <=> \E v \in B : m = Meta(k, v)
    BY <1>12
  <2>3. B \union {w} = Workers <=> \A v \in Workers : Counted(k, v)'
    BY <1>9, <1>10
  <2>4. added = 2 <=> Cardinality(request[k] \union {Meta(k, w)}) = NumWorkers
    BY <1>4
  <2> HIDE DEF B
  <2>5. Cardinality(request[k] \union {Meta(k, w)}) = NumWorkers <=> B \union {w} = Workers
    BY <2>1, <2>2, RequestFull
  <2>6. QED
    BY <2>3, <2>4, <2>5
<1>14. Closing(k)' <=> added = 2
  <2>1. ASSUME added = 2
        PROVE  Closing(k)'
    <3>1. MessageAt(tid, L + 2, k)' /\ queue'[tid][L + 2].ops = "ALL_RECV"
      BY <1>5, <2>1
    <3>2. QED
      BY <3>1 DEF Closing, MessageAt
  <2>2. ASSUME added # 2, NEW i \in Threads, NEW j \in DOMAIN queue'[i],
               queue'[i][j].key = k, queue'[i][j].ops = "ALL_RECV"
        PROVE  FALSE
    <3>1. MessageAt(i, j, k)'
      BY <2>2 DEF MessageAt
    <3>2. CASE MessageAt(i, j, k)
      <4>1. queue'[i][j] = queue[i][j]
        BY <1>5, <3>2
      <4>2. QED
        BY <1>11, <2>2, <3>2, <4>1 DEF Closing, MessageAt
    <3>3. CASE i = tid /\ j = L + 1
      BY <1>5, <2>2, <3>3
    <3>4. QED
      BY <1>5, <2>2, <3>1, <3>2, <3>3
  <2>3. \A i \in Threads : k \notin engine'[i]
    BY <1>6, <1>11 DEF Closing
  <2>4. QED
    BY <2>1, <2>2, <2>3 DEF Closing
<1>15. ASSUME NEW c \in Keys, c # k
       PROVE  KeyInv(c)'
  <2>1. KeyInv(c)
    BY DEF Accounting
  <2>2. Closing(c)' <=> Closing(c)
    <3>1. \A i \in Threads : \A j : /\ MessageAt(i, j, c)' <=> MessageAt(i, j, c)
                                    /\ MessageAt(i, j, c) => queue'[i][j] = queue[i][j]
      BY <1>5, <1>15
    <3>2. \A i \in Threads : \A j :
             j \in DOMAIN queue[i] /\ queue[i][j].key = c /\ queue[i][j].ops = "ALL_RECV"
             <=> j \in DOMAIN queue'[i] /\ queue'[i][j].key = c /\ queue'[i][j].ops = "ALL_RECV"
      BY <3>1 DEF MessageAt
    <3>3. QED
      BY <1>6, <3>2 DEF Closing
  <2>3. QED
    BY <1>6, <1>15, <2>1, <2>2, KeyFrame DEF flagVars
<1>16. PhaseInv(k)'
  BY <1>6, <1>8, <1>9 DEF PhaseInv, TrainPhase, Between
<1>17. RequestInv(k)'
  <2>1. request'[k] = IF added = 2 THEN {} ELSE request[k] \union {Meta(k, w)}
    BY <1>2, <1>4 DEF HandlePush, AllReceived
  <2>2. request[k] \union {Meta(k, w)} = {Meta(k, v)' : v \in {u \in Workers : Buffered(k, u)'}}
    BY <1>9, <1>10, <1>12
  <2>3. QED
    BY <1>14, <2>1, <2>2 DEF RequestInv
<1>18. HeldInv(k)'
  <2>1. {Meta(k, v)' : v \in {u \in Workers : stage'[k][u] = "pullHeld"}}
          = {Meta(k, v) : v \in {u \in Workers : stage[k][u] = "pullHeld"}}
    BY <1>6, <1>9
  <2>2. QED
    BY <1>1, <1>6, <2>1 DEF HeldInv, flagVars
<1>19. FlagInv(k)' /\ CountInv(k)'
  BY <1>1, <1>6, <1>9 DEF FlagInv, CountInv, flagVars
<1>20. CloseInv(k)'
  BY <1>13, <1>14 DEF CloseInv
<1>21. HashInv(k)'
  <2>1. tid # NoThread
    BY DEF Threads, NoThread
  <2>2. QED
    BY <1>7, <2>1 DEF HashInv
<1>22. \A c \in Keys : \A v \in Workers : Counted(c, v) => Counted(c, v)'
  BY <1>6, <1>9 DEF Counted, Waits
<1>23. ASSUME NEW i \in Threads, NEW c \in Keys
       PROVE  EngineInv(i, c)' /\ \A j \in DOMAIN queue'[i] : MessageInv(i, j, c)'
  <2>1. EngineInv(i, c) /\ \A j \in DOMAIN queue[i] : MessageInv(i, j, c)
    BY DEF Accounting, QueueInv
  <2>2. ASSUME c \in engine'[i]
        PROVE  /\ engine'[i] = {c} /\ hash_cache'[c] = i /\ merged'[c] # "null"
               /\ \A j \in DOMAIN queue'[i] : ~MessageAt(i, j, c)'
    <3>1. c \in engine[i] /\ c # k
      BY <1>6, <1>11, <2>2 DEF Closing
    <3>2. \A j : ~MessageAt(i, j, c)
      BY <2>1, <3>1 DEF EngineInv, MessageAt
    <3>3. QED
      BY <1>5, <1>6, <2>1, <3>1, <3>2 DEF EngineInv
  <2>3. ASSUME NEW j, MessageAt(i, j, c), c # k \/ hash_cache[k] = tid
        PROVE  MessageInv(i, j, c)'
    <3>1. MessageInv(i, j, c)
      BY <2>1, <2>3 DEF MessageAt
    <3>2. hash_cache'[c] = i
      BY <1>6, <1>7, <2>3, <3>1 DEF MessageInv
    <3>3. queue'[i][j] = queue[i][j]
      BY <1>5, <2>3
    <3>4. queue[i][j].ops # "ALL_RECV" =>
             \E v \in Workers : Counted(c, v)' /\ queue'[i][j].src = {Meta(c, v)'}
      BY <1>9, <1>22, <2>3, <3>1, <3>3 DEF MessageInv
    <3>5. ASSUME queue[i][j].ops = "ALL_RECV", NEW n, MessageAt(i, n, c)'
          PROVE  n <= j
      <4>1. c # k
        BY <1>11, <2>3, <3>5 DEF Closing, MessageAt
      <4>2. MessageAt(i, n, c)
        BY <1>5, <3>5, <4>1
      <4>3. QED
        BY <2>3, <3>1, <3>5, <4>2 DEF MessageInv, MessageAt
    <3>6. QED
      BY <3>2, <3>3, <3>4, <3>5 DEF MessageInv
  <2>4. ASSUME c = k, NEW j, MessageAt(i, j, c)
        PROVE  hash_cache[k] = tid
    <3>1. hash_cache[k] = i
      BY <2>1, <2>4 DEF MessageInv, MessageAt
    <3>2. i # NoThread
      BY DEF Threads, NoThread
    <3>3. QED
      BY <1>7, <3>1, <3>2
  <2>5. ASSUME i = tid, c = k, NEW j, j = L + 1
        PROVE  MessageInv(i, j, c)'
    BY <1>5, <1>7, <1>9, <2>5 DEF MessageInv
  <2>6. ASSUME i = tid, c = k, added = 2, NEW j, j = L + 2
        PROVE  MessageInv(i, j, c)'
    <3>1. queue'[i][j].ops = "ALL_RECV"
      BY <1>5, <2>6
    <3>2. ASSUME NEW n, MessageAt(i, n, c)'
          PROVE  n <= j
      <4>1. n \in 1 .. L \/ n = L + 1 \/ n = L + 2
        BY <1>5, <2>6, <3>2
      <4>2. QED
        BY <1>5, <2>6, <4>1
    <3>3. QED
      BY <1>7, <2>6, <3>1, <3>2 DEF MessageInv
  <2>7. ASSUME NEW j \in DOMAIN queue'[i]
        PROVE  MessageInv(i, j, c)'
    <3>1. CASE ~MessageAt(i, j, c)'
      BY <3>1 DEF MessageInv
    <3>2. CASE MessageAt(i, j, c)
      BY <2>3, <2>4, <3>2
    <3>3. CASE i = tid /\ c = k /\ (j = L + 1 \/ (added = 2 /\ j = L + 2))
      BY <2>5, <2>6, <3>3
    <3>4. QED
      BY <1>5, <3>1, <3>2, <3>3
  <2>8. QED
    BY <2>2, <2>7 DEF EngineInv
<1>24. KeyInv(k)'
  BY <1>16, <1>17, <1>18, <1>19, <1>20, <1>21 DEF KeyInv
<1>25. LeaveInv'
  BY <1>6 DEF LeaveInv
<1>26. QED
  BY <1>15, <1>23, <1>24, <1>25 DEF Accounting, QueueInv

\* Counting the pulls of workers not yet seen: the round stays open until all
\* workers are seen.
Counts(k, S) ==
    /\ is_push_finished'[k] <=> seen_sender[k] \union S # Workers
    /\ seen_sender'[k] = IF seen_sender[k] \union S = Workers
                         THEN {} ELSE seen_sender[k] \union S
    /\ pull_cnt'[k] = Cardinality(seen_sender'[k])
    /\ \A c \in Keys : c # k => /\ is_push_finished'[c] = is_push_finished[c]
                                /\ seen_sender'[c] = seen_sender[c]
                                /\ pull_cnt'[c] = pull_cnt[c]

LEMMA CountPullsAt ==
  ASSUME ServerAssumption, TypeOK, NEW k \in Keys, NEW S \in SUBSET Workers,
         S \intersect seen_sender[k] = {}, CountInv(k), CountPulls(k, S)
  PROVE  Counts(k, S)
<1> DEFINE T == seen_sender[k] \union S
<1>1. /\ is_push_finished \in [Keys -> BOOLEAN]
      /\ pull_cnt \in [Keys -> Nat]
      /\ seen_sender \in [Keys -> SUBSET Workers]
  BY DEF TypeOK
<1>2. IsFiniteSet(Workers)
  BY DEF ServerAssumption
<1>3. IsFiniteSet(S) /\ IsFiniteSet(seen_sender[k]) /\ T \in SUBSET Workers
  BY <1>1, <1>2, FS_Subset
<1>4. Cardinality(T) = pull_cnt[k] + Cardinality(S)
  <2>1. seen_sender[k] \intersect S = {}
    OBVIOUS
  <2>2. Cardinality(T) = Cardinality(seen_sender[k]) + Cardinality(S)
                          - Cardinality(seen_sender[k] \intersect S)
    BY <1>3, FS_Union
  <2>3. Cardinality(seen_sender[k] \intersect S) = 0
    BY <2>1, FS_EmptySet
  <2>4. /\ Cardinality(seen_sender[k]) \in Nat /\ Cardinality(S) \in Nat
    BY <1>3, FS_CardinalityType
  <2>5. pull_cnt[k] = Cardinality(seen_sender[k])
    BY DEF CountInv
  <2> HIDE DEF T
  <2>6. QED
    BY <2>2, <2>3, <2>4, <2>5
<1>5. Cardinality(T) = NumWorkers <=> T = Workers
  BY <1>2, <1>3, FS_Subset DEF NumWorkers
<1> HIDE DEF T
<1>6. CASE T = Workers
  <2>1. /\ is_push_finished' = [is_push_finished EXCEPT ![k] = FALSE]
        /\ pull_cnt' = [pull_cnt EXCEPT ![k] = 0]
        /\ seen_sender' = [seen_sender EXCEPT ![k] = {}]
    BY <1>4, <1>5, <1>6 DEF CountPulls
  <2>2. pull_cnt'[k] = Cardinality(seen_sender'[k])
    BY <1>1, <2>1, FS_EmptySet
  <2>3. QED
    BY <1>1, <1>6, <2>1, <2>2 DEF Counts, T
<1>7. CASE T # Workers
  <2>1. /\ is_push_finished' = [is_push_finished EXCEPT ![k] = TRUE]
        /\ pull_cnt' = [pull_cnt EXCEPT ![k] = Cardinality(T)]
        /\ seen_sender' = [seen_sender EXCEPT ![k] = T]
    BY <1>4, <1>5, <1>7 DEF CountPulls, T
  <2>2. pull_cnt'[k] = Cardinality(seen_sender'[k])
    BY <1>1, <2>1
  <2>3. QED
    BY <1>1, <1>7, <2>1, <2>2 DEF Counts, T
<1>8. QED
  BY <1>6, <1>7

\* Handling a pull changes the stage of a worker and the flags of a key only.
LEMMA PullStep ==
  ASSUME TypeOK, Accounting, NEW k \in Keys, phase = "running",
         UNCHANGED <<round, storeVars, engineVars, epoch, phase>>,
         \A c \in Keys : c # k => /\ stage'[c] = stage[c]
                                  /\ q_pull_reqmeta'[c] = q_pull_reqmeta[c]
                                  /\ is_push_finished'[c] = is_push_finished[c]
                                  /\ seen_sender'[c] = seen_sender[c]
                                  /\ pull_cnt'[c] = pull_cnt[c],
         \A v \in Workers : /\ Counted(k, v)' <=> Counted(k, v)
                            /\ Buffered(k, v)' <=> Buffered(k, v)
                            /\ stage'[k][v] \in {"pushed", "pull"}
                                  => stage[k][v] \in {"pushed", "pull"},
         PhaseInv(k)', HeldInv(k)', FlagInv(k)', CountInv(k)'
  PROVE  Accounting'
<1>1. KeyInv(k)
  BY DEF Accounting
<1>2. \A c \in Keys : Closing(c)' <=> Closing(c)
  BY DEF Closing, engineVars
<1>3. ASSUME NEW c \in Keys, c # k
      PROVE  KeyInv(c)'
  <2>1. KeyInv(c)
    BY DEF Accounting
  <2>2. QED
    BY <1>2, <1>3, <2>1, KeyFrame DEF storeVars, engineVars
<1>4. \A c \in Keys : \A v \in Workers : Meta(c, v)' = Meta(c, v)
  BY DEF Meta
<1>5. RequestInv(k)'
  <2>1. {Meta(k, v)' : v \in {u \in Workers : Buffered(k, u)'}}
          = {Meta(k, v) : v \in {u \in Workers : Buffered(k, u)}}
    BY <1>4
  <2>2. QED
    BY <1>1, <1>2, <2>1 DEF KeyInv, RequestInv, storeVars
<1>6. CloseInv(k)' /\ HashInv(k)'
  BY <1>1, <1>2 DEF KeyInv, CloseInv, HashInv, storeVars
<1>7. QueueInv'
  <2>1. \A c \in Keys : \A v \in Workers : Counted(c, v) => Counted(c, v)'
    BY DEF Counted, Waits
  <2>2. QueueInv
    BY DEF Accounting
  <2>3. QED
    BY <1>4, <2>1, <2>2, QueueFrame DEF engineVars, storeVars
<1>8. LeaveInv'
  BY DEF LeaveInv
<1>9. QED
  BY <1>3, <1>5, <1>6, <1>7, <1>8 DEF Accounting, KeyInv

\* The pulls, answered or held, keep the accounting.
LEMMA PullsAccounting ==
  ASSUME ServerAssumption, SyncMode, TypeOK, Accounting,
         NEW k \in Keys, NEW w \in Workers, HandlePull(k, w) \/ HoldPull(k, w)
  PROVE  Accounting'
<1>1. /\ PhaseInv(k) /\ RequestInv(k) /\ HeldInv(k)
      /\ FlagInv(k) /\ CountInv(k) /\ CloseInv(k) /\ HashInv(k)
  BY DEF Accounting, KeyInv
<1>2. /\ stage \in [Keys -> [Workers -> Stage]]
      /\ round \in [Keys -> [Workers -> Nat]]
      /\ epoch \in [Keys -> Nat]
      /\ q_pull_reqmeta \in [Keys -> SUBSET KVMeta]
  BY DEF TypeOK, Rounds, ServerAssumption
<1>3. /\ phase = "running" /\ stage[k][w] = "pull"
      /\ UNCHANGED <<round, storeVars, engineVars, epoch, phase>>
      /\ \A c \in Keys : c # k => stage'[c] = stage[c]
      /\ \A v \in Workers : v # w => stage'[k][v] = stage[k][v]
  BY <1>2 DEF HandlePull, HoldPull, Goes, Up
<1>4. TrainPhase(k) /\ (Counted(k, w) \/ Late(k, w))
  BY <1>1, <1>3 DEF PhaseInv, InitPhase, RegisterPhase, TrainPhase, Counted, Waits, Late, Between
<1>5. epoch[k] + 1 # epoch[k]
  BY <1>2
<1>6. \A c \in Keys : \A v \in Workers : Meta(c, v)' = Meta(c, v)
  BY <1>3 DEF Meta
<1>7. CASE HandlePull(k, w)
  <2>1. /\ stage'[k][w] = "answered" /\ q_pull_reqmeta' = q_pull_reqmeta
        /\ is_push_finished[k] /\ w \notin seen_sender[k]
        /\ CountPulls(k, {w})
    BY <1>2, <1>7 DEF HandlePull, Goes, AnswersNow
  <2>2. /\ Late(k, w) /\ seen_sender[k] = {v \in Workers : ~Late(k, v)}
        /\ merged[k] # "null"
    BY <1>1, <2>1 DEF FlagInv
  <2>3. /\ \A v \in Workers : Late(k, v)' <=> Late(k, v) /\ v # w
        /\ \A v \in Workers : Counted(k, v)' <=> Counted(k, v)
        /\ \A v \in Workers : Buffered(k, v)' <=> Buffered(k, v)
        /\ Between(k, w)'
    BY <1>3, <1>5, <2>1, <2>2 DEF Late, Counted, Waits, Buffered, Between
  <2>4. Counts(k, {w})
    BY <1>1, <2>1, CountPullsAt
  <2>5. FlagInv(k)' /\ CountInv(k)'
    <3>1. seen_sender[k] \union {w} = {v \in Workers : ~Late(k, v)'}
      BY <2>2, <2>3
    <3>2. seen_sender[k] \union {w} = Workers <=> \A v \in Workers : ~Late(k, v)'
      BY <3>1
    <3>3. merged'[k] # "null"
      BY <1>3, <2>2 DEF engineVars
    <3>4. QED
      BY <2>4, <3>1, <3>2, <3>3 DEF Counts, FlagInv, CountInv
  <2>6. HeldInv(k)'
    <3>1. {Meta(k, v)' : v \in {u \in Workers : stage'[k][u] = "pullHeld"}}
            = {Meta(k, v) : v \in {u \in Workers : stage[k][u] = "pullHeld"}}
      BY <1>3, <1>6, <2>1
    <3>2. QED
      BY <1>1, <2>1, <3>1 DEF HeldInv
  <2>7. PhaseInv(k)'
    <3>1. \A v \in Workers : Between(k, v) => Between(k, v)'
      BY <1>3, <2>3 DEF Between
    <3>2. stored'[k] # {}
      BY <1>3, <1>4 DEF TrainPhase, storeVars
    <3>3. QED
      BY <1>4, <2>3, <3>1, <3>2 DEF TrainPhase, PhaseInv
  <2>8. \A v \in Workers : stage'[k][v] \in {"pushed", "pull"}
                              => stage[k][v] \in {"pushed", "pull"}
    BY <1>3, <2>1
  <2>9. QED
    BY <1>3, <2>1, <2>3, <2>4, <2>5, <2>6, <2>7, <2>8, PullStep DEF Counts
<1>8. CASE HoldPull(k, w)
  <2>1. /\ stage'[k][w] = "pullHeld"
        /\ q_pull_reqmeta' = [q_pull_reqmeta EXCEPT ![k] = @ \union {Meta(k, w)}]
        /\ ~is_push_finished[k] \/ w \in seen_sender[k]
        /\ UNCHANGED <<is_push_finished, pull_cnt, seen_sender>>
    BY <1>2, <1>8 DEF HoldPull, Goes, AnswersNow
  <2>2. Counted(k, w) /\ ~Late(k, w)
    BY <1>1, <1>4, <2>1 DEF FlagInv
  <2>3. /\ \A v \in Workers : Late(k, v)' <=> Late(k, v)
        /\ \A v \in Workers : Counted(k, v)' <=> Counted(k, v)
        /\ \A v \in Workers : Buffered(k, v)' <=> Buffered(k, v)
    BY <1>3, <1>5, <2>1, <2>2 DEF Late, Counted, Waits, Buffered
  <2>4. FlagInv(k)' /\ CountInv(k)'
    BY <1>1, <1>3, <2>1, <2>3 DEF FlagInv, CountInv, engineVars
  <2>5. HeldInv(k)'
    <3>1. {Meta(k, v)' : v \in {u \in Workers : stage'[k][u] = "pullHeld"}}
            = {Meta(k, v) : v \in {u \in Workers : stage[k][u] = "pullHeld"}} \union {Meta(k, w)}
      BY <1>3, <1>6, <2>1
    <3>2. q_pull_reqmeta'[k] = q_pull_reqmeta[k] \union {Meta(k, w)}
      BY <1>2, <2>1
    <3>3. QED
      BY <1>1, <3>1, <3>2 DEF HeldInv
  <2>6. PhaseInv(k)'
    <3>1. \A v \in Workers : Between(k, v) => Between(k, v)'
      BY <1>3 DEF Between
    <3>2. stored'[k] # {}
      BY <1>3, <1>4 DEF TrainPhase, storeVars
    <3>3. QED
      BY <1>4, <2>3, <3>1, <3>2 DEF TrainPhase, PhaseInv
  <2>7. /\ \A v \in Workers : stage'[k][v] \in {"pushed", "pull"}
                                => stage[k][v] \in {"pushed", "pull"}
        /\ \A c \in Keys : c # k => q_pull_reqmeta'[c] = q_pull_reqmeta[c]
    BY <1>2, <1>3, <2>1
  <2>8. QED
    BY <1>3, <2>1, <2>3, <2>4, <2>5, <2>6, <2>7, PullStep
<1>9. QED
  BY <1>7, <1>8

-----------------------------------------------------------------------------
(* The steps of the engine threads.                                        *)

\* What is known of the messages still queued does not change when a thread
\* takes one.
LEMMA TakeKeepsMessages ==
  ASSUME TypeOK, QueueInv, NEW i \in Threads, NEW op, Takes(i, op),
         UNCHANGED <<stage, round, epoch, hash_cache>>,
         NEW n \in Threads, NEW c \in Keys
  PROVE  \A j \in DOMAIN queue'[n] : MessageInv(n, j, c)'
<1>1. \A j \in DOMAIN queue[n] : MessageInv(n, j, c)
  BY DEF QueueInv
<1>2. \A v \in Workers : (Counted(c, v)' <=> Counted(c, v)) /\ Meta(c, v)' = Meta(c, v)
  BY DEF Counted, Waits, Meta
<1>3. CASE n # i
  <2>1. queue'[n] = queue[n]
    BY <1>3, TakeAt
  <2>2. \A j : MessageAt(n, j, c)' <=> MessageAt(n, j, c)
    BY <2>1 DEF MessageAt
  <2>3. QED
    BY <1>1, <1>2, <2>1, <2>2 DEF MessageInv
<1>4. CASE n = i
  <2>1. ASSUME NEW j, MessageAt(i, j, c)'
        PROVE  MessageInv(i, j, c)'
    <3>1. /\ j \in Nat /\ MessageAt(i, j + 1, c)
          /\ queue'[i][j] = queue[i][j + 1]
      BY <2>1, TakeMessage
    <3>2. MessageInv(i, j + 1, c)
      BY <1>1, <1>4, <3>1 DEF MessageAt
    <3>3. ASSUME queue'[i][j].ops = "ALL_RECV", NEW m, MessageAt(i, m, c)'
          PROVE  m <= j
      <4>1. m \in Nat /\ MessageAt(i, m + 1, c)
        BY <3>3, TakeMessage
      <4>2. m + 1 <= j + 1
        BY <3>1, <3>2, <3>3, <4>1 DEF MessageInv, MessageAt
      <4>3. QED
        BY <3>1, <4>1, <4>2
    <3>4. hash_cache'[c] = i
      BY <3>1, <3>2 DEF MessageInv
    <3>5. queue'[i][j].ops # "ALL_RECV" =>
             \E v \in Workers : Counted(c, v)' /\ queue'[i][j].src = {Meta(c, v)'}
      BY <1>2, <3>1, <3>2 DEF MessageInv
    <3>6. QED
      BY <3>3, <3>4, <3>5 DEF MessageInv
  <2>2. QED
    BY <1>4, <2>1 DEF MessageInv
<1>5. QED
  BY <1>3, <1>4

\* Taking a message other than ALL_RECV closes no key.
LEMMA TakeClosing ==
  ASSUME TypeOK, NEW i \in Threads, NEW op, op # "ALL_RECV", Takes(i, op),
         engine' = engine, NEW c \in Keys
  PROVE  Closing(c)' <=> Closing(c)
<1>1. \A n \in Threads : n # i => queue'[n] = queue[n]
  BY TakeAt
<1>2. ASSUME NEW j \in DOMAIN queue'[i], queue'[i][j].key = c, queue'[i][j].ops = "ALL_RECV"
      PROVE  Closing(c)
  BY <1>2, TakeAt DEF Closing
<1>3. ASSUME NEW j \in DOMAIN queue[i], queue[i][j].key = c, queue[i][j].ops = "ALL_RECV"
      PROVE  Closing(c)'
  <2>1. j # 1
    BY <1>3, TakeAt
  <2>2. j - 1 \in DOMAIN queue'[i] /\ queue'[i][j - 1] = queue[i][j]
    BY <2>1, TakeAt
  <2>3. QED
    BY <1>3, <2>2 DEF Closing
<1>4. ASSUME Closing(c)'
      PROVE  Closing(c)
  BY <1>1, <1>2, <1>4 DEF Closing
<1>5. ASSUME Closing(c)
      PROVE  Closing(c)'
  BY <1>1, <1>3, <1>5 DEF Closing
<1>6. QED
  BY <1>4, <1>5

\* Taking a message other than ALL_RECV keeps the accounting if no buffer
\* becomes empty or allocated.
LEMMA TakeStep ==
  ASSUME TypeOK, Accounting, NEW i \in Threads, NEW op, op # "ALL_RECV", Takes(i, op),
         UNCHANGED <<stage, round, request, hash_cache, engine, merged, flagVars,
                     phase, epoch>>,
         \A c \in Keys : stored'[c] = {} <=> stored[c] = {}
  PROVE  Accounting'
<1>1. ASSUME NEW c \in Keys
      PROVE  KeyInv(c)'
  <2>1. KeyInv(c) /\ (Closing(c)' <=> Closing(c))
    BY TakeClosing DEF Accounting
  <2>2. QED
    BY <2>1, KeyFrame DEF flagVars
<1>2. ASSUME NEW n \in Threads, NEW c \in Keys
      PROVE  EngineInv(n, c)' /\ \A j \in DOMAIN queue'[n] : MessageInv(n, j, c)'
  <2>1. QueueInv /\ EngineInv(n, c)
    BY DEF Accounting, QueueInv
  <2>2. EngineInv(n, c)'
    <3>1. \A j : MessageAt(n, j, c)' => \E m \in DOMAIN queue[n] : MessageAt(n, m, c)
      BY TakeMessage DEF MessageAt
    <3>2. QED
      BY <2>1, <3>1 DEF EngineInv
  <2>3. QED
    BY <2>1, <2>2, TakeKeepsMessages
<1>3. LeaveInv'
  BY DEF Accounting, LeaveInv
<1>4. QED
  BY <1>1, <1>2, <1>3 DEF Accounting, QueueInv

\* A queued push is of a key in training, and carries a contribution.
LEMMA PushMessage ==
  ASSUME TypeOK, Accounting, NEW i \in Threads, NEW k \in Keys, NEW j,
         MessageAt(i, j, k), queue[i][j].ops # "ALL_RECV"
  PROVE  stored[k] # {} /\ queue[i][j].src # {}
<1>1. MessageInv(i, j, k) /\ PhaseInv(k)
  BY DEF Accounting, QueueInv, MessageAt, KeyInv
<1>2. PICK w \in Workers : Counted(k, w) /\ queue[i][j].src = {Meta(k, w)}
  BY <1>1 DEF MessageInv
<1>3. stored[k] # {}
  BY <1>1, <1>2 DEF PhaseInv, InitPhase, RegisterPhase, TrainPhase, Counted, Waits
<1>4. QED
  BY <1>2, <1>3

\* The sums of the engine threads, and their end, keep the accounting.
LEMMA SumAccounting ==
  ASSUME TypeOK, Accounting, NEW i \in Threads,
         EngineCopyFirst(i) \/ EngineSumRecv(i) \/ EngineTerminate(i)
  PROVE  Accounting'
<1>1. stored \in [Keys -> Element]
  BY DEF TypeOK
<1>2. CASE EngineCopyFirst(i) \/ EngineSumRecv(i)
  <2>1. PICK op \in {"COPY_FIRST", "SUM_RECV"} : Takes(i, op)
    BY <1>2 DEF EngineCopyFirst, EngineSumRecv
  <2>2. /\ 1 \in DOMAIN queue[i] /\ queue[i][1] = Head(queue[i])
        /\ queue[i][1].ops = op /\ queue[i][1].key \in Keys
    BY <2>1, TakeAt
  <2>3. PICK k \in Keys : k = queue[i][1].key
    BY <2>2
  <2>4. stored[k] # {} /\ queue[i][1].src # {}
    <3>1. MessageAt(i, 1, k)
      BY <2>2, <2>3 DEF MessageAt
    <3>2. QED
      BY <2>2, <3>1, PushMessage
  <2>5. /\ stored'[k] # {}
        /\ \A c \in Keys : c # k => stored'[c] = stored[c]
    BY <1>1, <1>2, <2>2, <2>3, <2>4 DEF EngineCopyFirst, EngineSumRecv
  <2>6. UNCHANGED <<stage, round, request, hash_cache, engine, merged, flagVars, phase, epoch>>
    BY <1>2 DEF EngineCopyFirst, EngineSumRecv, workerVars
  <2>7. QED
    BY <2>1, <2>4, <2>5, <2>6, TakeStep
<1>3. CASE EngineTerminate(i)
  <2>1. Takes(i, "TERMINATE")
    BY <1>3 DEF EngineTerminate
  <2>2. UNCHANGED <<stage, round, request, stored, hash_cache, engine, merged, flagVars,
                    phase, epoch>>
    BY <1>3 DEF EngineTerminate, workerVars, storeVars
  <2>3. QED
    BY <2>1, <2>2, TakeStep
<1>4. QED
  BY <1>2, <1>3

\* Setting merged at the end of a round keeps the accounting.
LEMMA AllRecvAccounting ==
  ASSUME TypeOK, Accounting, NEW i \in Threads, EngineAllRecv(i)
  PROVE  Accounting'
<1>1. Takes(i, "ALL_RECV") /\ engine[i] = {}
  BY DEF EngineAllRecv, Takes, AtFront
<1>2. /\ 1 \in DOMAIN queue[i] /\ queue[i][1] = Head(queue[i])
      /\ queue[i][1].ops = "ALL_RECV" /\ queue[i][1].key \in Keys
      /\ \A n \in Threads : n # i => queue'[n] = queue[n]
  BY <1>1, TakeAt
<1>3. PICK k \in Keys : k = queue[i][1].key
  BY <1>2
<1>4. /\ engine' = [engine EXCEPT ![i] = {k}]
      /\ engine \in [Threads -> SUBSET Keys]
      /\ merged'[k] # "null"
      /\ \A c \in Keys : c # k => merged'[c] = merged[c]
      /\ UNCHANGED <<stage, round, storeVars, flagVars, phase, epoch>>
  BY <1>2, <1>3 DEF EngineAllRecv, TypeOK, workerVars
<1>5. MessageAt(i, 1, k) /\ Closing(k)
  BY <1>2, <1>3 DEF MessageAt, Closing
<1>6. Closing(k)'
  BY <1>4 DEF Closing
<1>7. ASSUME NEW c \in Keys, c # k
      PROVE  Closing(c)' <=> Closing(c)
  <2>1. \A n \in Threads : c \in engine'[n] <=> c \in engine[n]
    BY <1>1, <1>4, <1>7
  <2>2. ASSUME NEW j \in DOMAIN queue'[i], queue'[i][j].key = c,
               queue'[i][j].ops = "ALL_RECV"
        PROVE  Closing(c)
    BY <1>1, <2>2, TakeAt DEF Closing
  <2>3. ASSUME NEW j \in DOMAIN queue[i], queue[i][j].key = c,
               queue[i][j].ops = "ALL_RECV"
        PROVE  Closing(c)'
    <3>1. j # 1
      BY <1>3, <1>7, <2>3
    <3>2. j - 1 \in DOMAIN queue'[i] /\ queue'[i][j - 1] = queue[i][j]
      BY <1>1, <3>1, TakeAt
    <3>3. QED
      BY <2>3, <3>2 DEF Closing
  <2>4. ASSUME Closing(c)'
        PROVE  Closing(c)
    BY <1>2, <2>1, <2>2, <2>4 DEF Closing
  <2>5. ASSUME Closing(c)
        PROVE  Closing(c)'
    BY <1>2, <2>1, <2>3, <2>5 DEF Closing
  <2>6. QED
    BY <2>4, <2>5
<1>8. ASSUME NEW c \in Keys
      PROVE  KeyInv(c)'
  <2>1. KeyInv(c) /\ (Closing(c)' <=> Closing(c))
    BY <1>5, <1>6, <1>7 DEF Accounting
  <2>2. merged[c] # "null" => merged'[c] # "null"
    BY <1>4
  <2>3. QED
    BY <1>4, <2>1, <2>2, KeyFrame DEF storeVars, flagVars
<1>9. ASSUME NEW n \in Threads, NEW c \in Keys
      PROVE  EngineInv(n, c)' /\ \A j \in DOMAIN queue'[n] : MessageInv(n, j, c)'
  <2>1. /\ QueueInv /\ EngineInv(n, c)
        /\ \A j \in DOMAIN queue[n] : MessageInv(n, j, c)
    BY DEF Accounting, QueueInv
  <2>2. \A j \in DOMAIN queue'[n] : MessageInv(n, j, c)'
    BY <1>1, <1>4, <2>1, TakeKeepsMessages DEF storeVars
  <2>3. CASE n = i /\ c = k
    <3>1. ASSUME NEW j, MessageAt(i, j, k)'
          PROVE  FALSE
      <4>1. j \in Nat \ {0} /\ MessageAt(i, j + 1, k)
        BY <1>1, <3>1, TakeMessage
      <4>2. j + 1 <= 1
        BY <1>2, <1>5, <2>1, <2>3, <4>1 DEF MessageInv, MessageAt
      <4>3. QED
        BY <4>1, <4>2
    <3>2. hash_cache'[k] = i
      BY <1>2, <1>4, <1>5, <2>1, <2>3 DEF MessageInv, storeVars
    <3>3. EngineInv(n, c)'
      BY <1>4, <2>3, <3>1, <3>2 DEF EngineInv
    <3>4. QED
      BY <2>2, <3>3
  <2>4. CASE ~(n = i /\ c = k)
    <3>1. ASSUME c \in engine'[n]
          PROVE  n # i /\ c \in engine[n] /\ engine'[n] = engine[n]
      BY <1>1, <1>4, <2>4, <3>1
    <3>2. \A j : n # i => (MessageAt(n, j, c)' <=> MessageAt(n, j, c))
      BY <1>2 DEF MessageAt
    <3>3. merged[c] # "null" => merged'[c] # "null"
      BY <1>4
    <3>4. EngineInv(n, c)'
      BY <1>2, <1>4, <2>1, <3>1, <3>2, <3>3 DEF EngineInv, storeVars
    <3>5. QED
      BY <2>2, <3>4
  <2>5. QED
    BY <2>3, <2>4
<1>10. LeaveInv'
  BY <1>4 DEF Accounting, LeaveInv
<1>11. QED
  BY <1>8, <1>9, <1>10 DEF Accounting, QueueInv

\* While a thread ends the round of a key, that key has no message and no other
\* thread, and every worker has pushed and waits.
LEMMA EndOfRound ==
  ASSUME ServerAssumption, TypeOK, Accounting, NEW i \in Threads, NEW k \in engine[i]
  PROVE  /\ k \in Keys /\ engine[i] = {k} /\ hash_cache[k] = i /\ merged[k] # "null"
         /\ \A n \in Threads : n # i => k \notin engine[n]
         /\ \A n \in Threads : \A j : ~MessageAt(n, j, k)
         /\ Closing(k) /\ request[k] = {} /\ stored[k] # {}
         /\ \A v \in Workers : Counted(k, v)
         /\ is_push_finished[k] = FALSE /\ seen_sender[k] = {}
<1>1. k \in Keys
  BY DEF TypeOK
<1>2. /\ KeyInv(k)
      /\ \A n \in Threads : EngineInv(n, k) /\ \A j \in DOMAIN queue[n] : MessageInv(n, j, k)
  BY <1>1 DEF Accounting, QueueInv
<1>3. /\ engine[i] = {k} /\ hash_cache[k] = i /\ merged[k] # "null"
      /\ \A j : ~MessageAt(i, j, k)
  BY <1>2 DEF EngineInv, MessageAt
<1>4. \A n \in Threads : n # i => k \notin engine[n]
  BY <1>2, <1>3 DEF EngineInv
<1>5. \A n \in Threads : \A j : ~MessageAt(n, j, k)
  BY <1>2, <1>3 DEF MessageInv, MessageAt
<1>6. Closing(k)
  BY DEF Closing
<1>7. request[k] = {} /\ \A v \in Workers : Counted(k, v)
  BY <1>2, <1>6 DEF KeyInv, RequestInv, CloseInv
<1>8. epoch[k] + 1 # epoch[k]
  BY <1>1 DEF TypeOK
<1>9. \A v \in Workers : ~Late(k, v)
  BY <1>7, <1>8 DEF Counted, Waits, Late
<1>10. is_push_finished[k] = FALSE /\ seen_sender[k] = {}
  BY <1>1, <1>2, <1>9 DEF KeyInv, FlagInv, TypeOK
<1>11. stored[k] # {}
  BY <1>2, <1>7 DEF ServerAssumption, KeyInv, PhaseInv, InitPhase, TrainPhase, RegisterPhase, Counted, Waits
<1>12. QED
  BY <1>1, <1>3, <1>4, <1>5, <1>6, <1>7, <1>10, <1>11

\* The end of a round, which answers the pulls held for it, keeps the accounting.
LEMMA FinishAccounting ==
  ASSUME ServerAssumption, TypeOK, Accounting, NEW i \in Threads, EngineFinishRound(i)
  PROVE  Accounting'
<1>1. PICK k \in engine[i] :
         /\ CountPulls(k, {m[1] : m \in Served(k)})
         /\ q_pull_reqmeta' = [q_pull_reqmeta EXCEPT ![k] = @ \ Served(k)]
         /\ Respond(k, Served(k), "answered")
         /\ epoch' = [epoch EXCEPT ![k] = @ + 1]
  BY DEF EngineFinishRound
<1>2. /\ k \in Keys /\ engine[i] = {k} /\ hash_cache[k] = i /\ merged[k] # "null"
      /\ \A n \in Threads : n # i => k \notin engine[n]
      /\ \A n \in Threads : \A j : ~MessageAt(n, j, k)
      /\ Closing(k) /\ request[k] = {} /\ stored[k] # {}
      /\ \A v \in Workers : Counted(k, v)
      /\ is_push_finished[k] = FALSE /\ seen_sender[k] = {}
  BY EndOfRound
<1>3. /\ stage \in [Keys -> [Workers -> Stage]]
      /\ round \in [Keys -> [Workers -> Nat]]
      /\ epoch \in [Keys -> Nat]
      /\ engine \in [Threads -> SUBSET Keys]
      /\ q_pull_reqmeta \in [Keys -> SUBSET KVMeta]
  BY DEF TypeOK, Rounds, ServerAssumption
<1>4. KeyInv(k)
  BY <1>2 DEF Accounting
<1>5. /\ UNCHANGED <<round, storeVars, queue, merged, phase>>
      /\ engine' = [engine EXCEPT ![i] = {}]
  BY DEF EngineFinishRound
<1> DEFINE H == {v \in Workers : stage[k][v] = "pullHeld"}
<1>6. Served(k) = q_pull_reqmeta[k] /\ q_pull_reqmeta[k] = {Meta(k, v) : v \in H}
  BY <1>2, <1>4 DEF Served, KeyInv, HeldInv
<1>7. {m[1] : m \in Served(k)} = H
  <2>1. \A v : Meta(k, v)[1] = v
    BY DEF Meta
  <2> HIDE DEF H
  <2>2. QED
    BY <1>6, <2>1
<1>8. \A v \in Workers : Meta(k, v) \in Served(k) <=> v \in H
  BY <1>6 DEF Meta
<1>9. /\ \A c \in Keys : c # k => /\ stage'[c] = stage[c] /\ epoch'[c] = epoch[c]
                                  /\ q_pull_reqmeta'[c] = q_pull_reqmeta[c]
      /\ epoch'[k] = epoch[k] + 1
      /\ q_pull_reqmeta'[k] = {}
      /\ \A v \in Workers : stage'[k][v] = IF v \in H THEN "answered" ELSE stage[k][v]
  BY <1>1, <1>2, <1>3, <1>6, <1>8 DEF Respond
<1>10. Counts(k, H)
  <2>1. H \in SUBSET Workers /\ H \intersect seen_sender[k] = {} /\ CountInv(k)
    BY <1>2, <1>4 DEF KeyInv
  <2>2. CountPulls(k, H)
    BY <1>1, <1>7
  <2> HIDE DEF H
  <2>3. QED
    BY <1>2, <2>1, <2>2, CountPullsAt
<1>11. \A v \in Workers : /\ round'[k][v] = epoch'[k] /\ epoch'[k] + 1 # epoch'[k]
                          /\ stage'[k][v] \in {"pushed", "pull", "answered"}
                          /\ stage'[k][v] = "answered" <=> v \in H
  <2>1. epoch'[k] + 1 # epoch'[k]
    BY <1>2, <1>3, <1>9
  <2>2. \A v \in Workers : /\ round[k][v] = epoch[k] + 1
                           /\ stage[k][v] \in {"pushed", "pull", "pullHeld"}
                           /\ v \in H <=> stage[k][v] = "pullHeld"
    BY <1>2 DEF Counted, Waits
  <2> HIDE DEF H
  <2>3. \A v \in Workers : round'[k][v] = epoch'[k]
    BY <1>5, <1>9, <2>2
  <2>4. \A v \in Workers : /\ stage'[k][v] \in {"pushed", "pull", "answered"}
                           /\ stage'[k][v] = "answered" <=> v \in H
    BY <1>9, <2>2
  <2>5. QED
    BY <2>1, <2>3, <2>4
<1>12. \A v \in Workers : /\ Late(k, v)' <=> v \notin H
                          /\ ~Counted(k, v)' /\ ~Buffered(k, v)'
                          /\ v \in H => Between(k, v)'
  BY <1>11 DEF Late, Counted, Waits, Buffered, Between
<1> HIDE DEF H
<1>13. ~Closing(k)'
  <2>1. \A n \in Threads : k \notin engine'[n]
    BY <1>2, <1>3, <1>5
  <2>2. QED
    BY <1>2, <1>5, <2>1 DEF Closing, MessageAt
<1>14. ASSUME NEW c \in Keys, c # k
       PROVE  KeyInv(c)'
  <2>1. \A n \in Threads : c \in engine'[n] <=> c \in engine[n]
    BY <1>2, <1>3, <1>5, <1>14
  <2>2. Closing(c)' <=> Closing(c)
    BY <1>5, <2>1 DEF Closing
  <2>3. KeyInv(c)
    BY DEF Accounting
  <2>4. QED
    BY <1>5, <1>9, <1>10, <1>14, <2>2, <2>3, KeyFrame DEF Counts, storeVars
<1>15. PhaseInv(k)'
  <2>1. stored'[k] # {}
    BY <1>2, <1>5 DEF storeVars
  <2>2. QED
    BY <1>12, <2>1 DEF PhaseInv, TrainPhase
<1>16. RequestInv(k)'
  <2>1. request'[k] = {}
    BY <1>2, <1>5 DEF storeVars
  <2>2. {Meta(k, v)' : v \in {u \in Workers : Buffered(k, u)'}} = {}
    BY <1>12
  <2>3. QED
    BY <1>13, <2>1, <2>2 DEF RequestInv
<1>17. HeldInv(k)'
  <2>1. {Meta(k, v)' : v \in {u \in Workers : stage'[k][u] = "pullHeld"}} = {}
    BY <1>11
  <2>2. QED
    BY <1>9, <2>1 DEF HeldInv
<1>18. FlagInv(k)' /\ CountInv(k)'
  <2>1. H \in SUBSET Workers
    BY DEF H
  <2>2. H = {v \in Workers : ~Late(k, v)'}
    BY <1>12, <2>1
  <2>3. H = Workers <=> \A v \in Workers : ~Late(k, v)'
    BY <2>2
  <2>4. merged'[k] # "null" /\ seen_sender[k] \union H = H
    BY <1>2, <1>5
  <2>5. QED
    BY <1>10, <2>2, <2>3, <2>4 DEF Counts, FlagInv, CountInv
<1>19. CloseInv(k)' /\ HashInv(k)'
  <2>1. hash_cache'[k] # NoThread
    BY <1>2, <1>5 DEF storeVars, Threads, NoThread
  <2>2. QED
    BY <1>13, <2>1 DEF CloseInv, HashInv
<1>20. ASSUME NEW n \in Threads, NEW c \in Keys
       PROVE  EngineInv(n, c)' /\ \A j \in DOMAIN queue'[n] : MessageInv(n, j, c)'
  <2>1. EngineInv(n, c) /\ \A j \in DOMAIN queue[n] : MessageInv(n, j, c)
    BY DEF Accounting, QueueInv
  <2>2. \A m, j : MessageAt(m, j, c)' <=> MessageAt(m, j, c)
    BY <1>5 DEF MessageAt
  <2>3. CASE c = k
    <3>1. k \notin engine'[n]
      BY <1>2, <1>3, <1>5
    <3>2. QED
      BY <1>2, <2>2, <2>3, <3>1 DEF EngineInv, MessageInv
  <2>4. CASE c # k
    <3>1. \A v \in Workers : (Counted(c, v)' <=> Counted(c, v)) /\ Meta(c, v)' = Meta(c, v)
      BY <1>5, <1>9, <2>4 DEF Counted, Waits, Meta
    <3>2. c \in engine'[n] => c \in engine[n] /\ engine'[n] = engine[n]
      BY <1>3, <1>5
    <3>3. EngineInv(n, c)'
      BY <1>5, <2>1, <2>2, <3>2 DEF EngineInv, storeVars
    <3>4. ASSUME NEW j \in DOMAIN queue'[n]
          PROVE  MessageInv(n, j, c)'
      BY <1>5, <2>1, <2>2, <3>1 DEF MessageInv, storeVars
    <3>5. QED
      BY <3>3, <3>4
  <2>5. QED
    BY <2>3, <2>4
<1>21. LeaveInv'
  <2>1. PICK v \in Workers : TRUE
    BY DEF ServerAssumption
  <2>2. stage[k][v] \notin {"start", "ready"}
    BY <1>2 DEF Counted, Waits
  <2>3. QED
    BY <1>2, <1>5, <2>2 DEF Accounting, LeaveInv
<1>22. QED
  BY <1>14, <1>15, <1>16, <1>17, <1>18, <1>19, <1>20, <1>21 DEF Accounting, KeyInv, QueueInv

-----------------------------------------------------------------------------
(* The other steps, and the theorems.                                      *)

\* A step that changes only what the accounting does not speak of, or adds
\* TERMINATE messages, keeps it.
LEMMA OtherStep ==
  ASSUME Accounting,
         UNCHANGED <<stage, round, storeVars, engine, merged, flagVars, epoch>>,
         \A n \in Threads : \A c \in Keys : \A j :
            /\ MessageAt(n, j, c)' <=> MessageAt(n, j, c)
            /\ MessageAt(n, j, c) => queue'[n][j] = queue[n][j],
         LeaveInv'
  PROVE  Accounting'
<1>1. ASSUME NEW c \in Keys
      PROVE  KeyInv(c)'
  <2>1. KeyInv(c)
    BY DEF Accounting
  <2>2. \A n \in Threads : \A j :
           j \in DOMAIN queue[n] /\ queue[n][j].key = c /\ queue[n][j].ops = "ALL_RECV"
           <=> j \in DOMAIN queue'[n] /\ queue'[n][j].key = c /\ queue'[n][j].ops = "ALL_RECV"
    BY DEF MessageAt
  <2>3. Closing(c)' <=> Closing(c)
    BY <2>2 DEF Closing
  <2>4. QED
    BY <2>1, <2>3, KeyFrame DEF storeVars, flagVars
<1>2. ASSUME NEW n \in Threads, NEW c \in Keys
      PROVE  EngineInv(n, c)' /\ \A j \in DOMAIN queue'[n] : MessageInv(n, j, c)'
  <2>1. EngineInv(n, c) /\ \A j \in DOMAIN queue[n] : MessageInv(n, j, c)
    BY DEF Accounting, QueueInv
  <2>2. \A v \in Workers : (Counted(c, v)' <=> Counted(c, v)) /\ Meta(c, v)' = Meta(c, v)
    BY DEF Counted, Waits, Meta
  <2>3. EngineInv(n, c)'
    BY <2>1 DEF EngineInv, MessageAt, storeVars
  <2>4. ASSUME NEW j, MessageAt(n, j, c)'
        PROVE  MessageInv(n, j, c)'
    <3>1. MessageAt(n, j, c) /\ queue'[n][j] = queue[n][j] /\ MessageInv(n, j, c)
      BY <2>1, <2>4 DEF MessageAt
    <3>2. \A m \in DOMAIN queue'[n] : MessageAt(n, m, c)' =>
             m \in DOMAIN queue[n] /\ MessageAt(n, m, c)
      BY DEF MessageAt
    <3>3. QED
      BY <2>2, <3>1, <3>2 DEF MessageInv, storeVars
  <2>5. QED
    BY <2>3, <2>4 DEF MessageInv
<1>3. QED
  BY <1>1, <1>2 DEF Accounting, QueueInv

\* The shutdown adds only TERMINATE messages, at the ends of the queues.
LEMMA FinalizeMessages ==
  ASSUME TypeOK, Finalize, NEW n \in Threads, NEW c \in Keys, NEW j
  PROVE  /\ MessageAt(n, j, c)' <=> MessageAt(n, j, c)
         /\ MessageAt(n, j, c) => queue'[n][j] = queue[n][j]
<1>1. PICK m : m = Message(CHOOSE k \in Keys : TRUE, "TERMINATE", {})
  OBVIOUS
<1>2. m.ops = "TERMINATE"
  BY <1>1 DEF Message
<1>3. queue'[n] = queue[n] \/ queue'[n] = Append(queue[n], m)
  BY <1>1 DEF Finalize, Termination
<1>4. queue[n] \in Seq(EngineMessage)
  BY DEF TypeOK
<1>5. CASE queue'[n] = Append(queue[n], m)
  <2>1. /\ DOMAIN queue[n] = 1 .. Len(queue[n]) /\ Len(queue[n]) \in Nat
        /\ DOMAIN queue'[n] = 1 .. (Len(queue[n]) + 1)
        /\ \A x \in 1 .. Len(queue[n]) : queue'[n][x] = queue[n][x]
        /\ queue'[n][Len(queue[n]) + 1] = m
    BY <1>4, <1>5
  <2>2. \A x : x \in DOMAIN queue'[n] <=> x \in DOMAIN queue[n] \/ x = Len(queue[n]) + 1
    BY <2>1
  <2>3. QED
    BY <1>2, <2>1, <2>2 DEF MessageAt
<1>6. CASE queue'[n] = queue[n]
  BY <1>6 DEF MessageAt
<1>7. QED
  BY <1>3, <1>5, <1>6

\* The shutdown keeps the accounting.
LEMMA FinalizeAccounting ==
  ASSUME TypeOK, Accounting, Finalize
  PROVE  Accounting'
<1>1. UNCHANGED <<stage, round, storeVars, engine, merged, flagVars, epoch>>
  BY DEF Finalize, workerVars
<1>2. LeaveInv'
  BY <1>1 DEF Finalize, AllWorkersLeft, MayLeave, LeaveInv
<1>3. QED
  BY <1>1, <1>2, FinalizeMessages, OtherStep

\* Every step of a server in sync mode keeps the accounting.
LEMMA AccountingStep ==
  ASSUME ServerAssumption, SyncMode, TypeOK, Accounting, [Next]_vars
  PROVE  Accounting'
<1>1. ASSUME NEW k \in Keys, NEW w \in Workers, Worker(k, w)
      PROVE  Accounting'
  BY <1>1, WorkerAccounting
<1>2. ASSUME UNCHANGED <<stage, round, storeVars, engineVars, flagVars, epoch, phase>>
      PROVE  Accounting'
  <2>1. \A n \in Threads : \A c \in Keys : \A j :
           /\ MessageAt(n, j, c)' <=> MessageAt(n, j, c)
           /\ MessageAt(n, j, c) => queue'[n][j] = queue[n][j]
    BY <1>2 DEF engineVars, MessageAt
  <2>2. LeaveInv'
    BY <1>2 DEF Accounting, LeaveInv
  <2>3. QED
    BY <1>2, <2>1, <2>2, OtherStep DEF engineVars
<1>3. ASSUME NEW k \in Keys, NEW w \in Workers, Handle(k, w)
      PROVE  Accounting'
  <2>1. CASE HandleInitPush(k, w) \/ HandleRegister(k, w)
    BY <2>1, InitAccounting
  <2>2. CASE HandlePush(k, w)
    BY <2>2, PushAccounting
  <2>3. CASE HandlePushAsync(k, w)
    BY <2>3 DEF HandlePushAsync
  <2>4. CASE PullAborts(k, w)
    BY <1>2, <2>4 DEF PullAborts, workerVars
  <2>5. CASE HandlePull(k, w) \/ HoldPull(k, w)
    BY <2>5, PullsAccounting
  <2>6. QED
    BY <1>3, <2>1, <2>2, <2>3, <2>4, <2>5 DEF Handle
<1>4. ASSUME NEW i \in Threads, Engine(i)
      PROVE  Accounting'
  <2>1. CASE EngineCopyFirst(i) \/ EngineSumRecv(i) \/ EngineTerminate(i)
    BY <2>1, SumAccounting
  <2>2. CASE EngineAllRecv(i)
    BY <2>2, AllRecvAccounting
  <2>3. CASE EngineFinishRound(i)
    BY <2>3, FinishAccounting
  <2>4. CASE EngineAborts(i)
    BY <1>2, <2>4 DEF EngineAborts, workerVars
  <2>5. QED
    BY <1>4, <2>1, <2>2, <2>3, <2>4 DEF Engine
<1>5. CASE Finalize
  BY <1>5, FinalizeAccounting
<1>6. CASE Quit \/ UNCHANGED vars
  BY <1>2, <1>6 DEF Quit, vars, workerVars
<1>7. QED
  BY <1>1, <1>3, <1>4, <1>5, <1>6 DEF Next

\* The accounting holds when the server starts.
LEMMA AccountingInit ==
  ASSUME ServerAssumption, Init
  PROVE  Accounting
<1>1. /\ \A k \in Keys, w \in Workers : stage[k][w] = "start" /\ round[k][w] = 0
      /\ \A k \in Keys : /\ stored[k] = {} /\ request[k] = {} /\ epoch[k] = 0
                         /\ is_push_finished[k] = FALSE /\ pull_cnt[k] = 0
                         /\ seen_sender[k] = {} /\ q_pull_reqmeta[k] = {}
      /\ \A i \in Threads : queue[i] = << >> /\ engine[i] = {}
      /\ phase = "running"
  BY DEF Init
<1>2. \A i \in Threads : DOMAIN queue[i] = {}
  BY <1>1
<1>3. ASSUME NEW k \in Keys
      PROVE  KeyInv(k)
  <2>1. \A w \in Workers : ~Counted(k, w) /\ ~Late(k, w) /\ ~Buffered(k, w)
    BY <1>1 DEF Counted, Waits, Late, Buffered
  <2>2. ~Closing(k)
    BY <1>1, <1>2 DEF Closing
  <2>3. Cardinality({}) = 0
    BY FS_EmptySet
  <2>4. {w \in Workers : Buffered(k, w)} = {} /\ {w \in Workers : stage[k][w] = "pullHeld"} = {}
    BY <1>1, <2>1
  <2>5. PhaseInv(k) /\ FlagInv(k) /\ CountInv(k) /\ CloseInv(k) /\ HashInv(k)
    BY <1>1, <2>1, <2>2, <2>3 DEF PhaseInv, InitPhase, FlagInv, CountInv, CloseInv, HashInv
  <2>6. RequestInv(k) /\ HeldInv(k)
    BY <1>1, <2>2, <2>4 DEF RequestInv, HeldInv
  <2>7. QED
    BY <2>5, <2>6 DEF KeyInv
<1>4. QueueInv
  BY <1>1, <1>2 DEF QueueInv, EngineInv, MessageInv
<1>5. LeaveInv
  BY <1>1 DEF LeaveInv
<1>6. QED
  BY <1>3, <1>4, <1>5 DEF Accounting

\* The rounds of the workers, the request lists, the pull flags and the queued
\* messages of a server in sync mode are consistent in every reachable state.
THEOREM AccountingCorrect == SyncMode => (Spec => []Accounting)
<1>1. Init => TypeOK /\ Accounting
  BY TypeInit, AccountingInit, ServerAssumption
<1>2. ASSUME SyncMode
      PROVE  TypeOK /\ Accounting /\ [Next]_vars => TypeOK' /\ Accounting'
  BY <1>2, TypeStep, AccountingStep, ServerAssumption
<1>3. ASSUME SyncMode
      PROVE  Spec => []Accounting
  BY <1>1, <1>2, <1>3, PTL DEF Spec
<1>4. QED
  BY <1>3

-----------------------------------------------------------------------------
(* What follows from the accounting: the pull flags, the barrier, the      *)
(* exclusion of handler and engine, the quiescent shutdown, and that no    *)
(* check of the server fails.                                              *)

\* A worker waits for the last finished round exactly if it is late.
LEMMA WaitsIsLate ==
  ASSUME TypeOK, Accounting, NEW k \in Keys, NEW w \in Workers
  PROVE  Waits(k, w, epoch[k]) <=> Late(k, w)
<1>1. PhaseInv(k) /\ epoch[k] + 1 # epoch[k]
  BY DEF Accounting, KeyInv, TypeOK
<1>2. QED
  BY <1>1 DEF PhaseInv, InitPhase, RegisterPhase, TrainPhase, Counted, Late, Between, Waits

\* While a round is being closed no worker is late.
LEMMA ClosingNotLate ==
  ASSUME TypeOK, Accounting, NEW k \in Keys, Closing(k)
  PROVE  /\ \A w \in Workers : Counted(k, w) /\ ~Late(k, w)
         /\ ~is_push_finished[k] /\ request[k] = {}
<1>1. /\ \A w \in Workers : Counted(k, w)
      /\ epoch[k] + 1 # epoch[k]
  BY DEF Accounting, KeyInv, CloseInv, TypeOK
<1>2. \A w \in Workers : ~Late(k, w)
  BY <1>1 DEF Counted, Waits, Late
<1>3. ~is_push_finished[k] /\ request[k] = {}
  BY <1>2 DEF Accounting, KeyInv, FlagInv, RequestInv
<1>4. QED
  BY <1>1, <1>2, <1>3

\* The accounting entails that the pull flags follow the rounds.
LEMMA PullAccountingHolds ==
  ASSUME ServerAssumption, TypeOK, Accounting
  PROVE  PullAccounting
<1> SUFFICES ASSUME NEW k \in Keys
             PROVE  IF is_push_finished[k]
                    THEN /\ ~Closing(k)
                         /\ seen_sender[k] = {w \in Workers : ~Waits(k, w, epoch[k])}
                         /\ pull_cnt[k] = Cardinality(seen_sender[k])
                         /\ pull_cnt[k] < NumWorkers
                    ELSE /\ seen_sender[k] = {} /\ pull_cnt[k] = 0
                         /\ \A w \in Workers : ~Waits(k, w, epoch[k])
  BY DEF PullAccounting
<1>1. FlagInv(k) /\ CountInv(k)
  BY DEF Accounting, KeyInv
<1>2. \A w \in Workers : Waits(k, w, epoch[k]) <=> Late(k, w)
  BY WaitsIsLate
<1>3. CASE is_push_finished[k]
  <2>1. ~Closing(k)
    BY <1>3, ClosingNotLate
  <2>2. seen_sender[k] = {w \in Workers : ~Waits(k, w, epoch[k])}
    BY <1>1, <1>2, <1>3 DEF FlagInv
  <2>3. seen_sender[k] # Workers /\ seen_sender[k] \in SUBSET Workers
    BY <1>1, <1>3 DEF FlagInv
  <2>4. IsFiniteSet(Workers)
    BY DEF ServerAssumption
  <2>5. Cardinality(seen_sender[k]) < NumWorkers
    <3>1. /\ Cardinality(seen_sender[k]) \in Nat /\ NumWorkers \in Nat
          /\ Cardinality(seen_sender[k]) <= NumWorkers
          /\ Cardinality(seen_sender[k]) # NumWorkers
      BY <2>3, <2>4, FS_Subset, FS_CardinalityType DEF NumWorkers
    <3>2. QED
      BY <3>1
  <2>6. QED
    BY <1>1, <1>3, <2>1, <2>2, <2>5 DEF CountInv
<1>4. CASE ~is_push_finished[k]
  BY <1>1, <1>2, <1>4, FS_EmptySet DEF FlagInv, CountInv
<1>5. QED
  BY <1>3, <1>4

\* The accounting entails that the workers keep within one round.
LEMMA BarrierHolds ==
  ASSUME ServerAssumption, TypeOK, Accounting
  PROVE  Barrier
<1> SUFFICES ASSUME NEW k \in Keys, NEW v \in Workers, NEW w \in Workers
             PROVE  /\ round[k][v] <= round[k][w] + 1
                    /\ stage[k][w] \in {"answered", "ready"} => Pushed(k, v, round[k][w])
  BY DEF Barrier
<1>1. PhaseInv(k)
  BY DEF Accounting, KeyInv
<1>2. epoch[k] \in Nat /\ round[k][v] \in Nat /\ round[k][w] \in Nat
  BY DEF TypeOK, Rounds, ServerAssumption
<1>3. CASE InitPhase(k) \/ RegisterPhase(k)
  BY <1>2, <1>3 DEF InitPhase, RegisterPhase
<1>4. CASE TrainPhase(k)
  <2>1. \A u \in {v, w} : \/ round[k][u] = epoch[k] /\ stage[k][u] # "push"
                          \/ round[k][u] = epoch[k] + 1
                             /\ stage[k][u] \notin {"answered", "ready"}
    BY <1>4 DEF TrainPhase, Counted, Late, Between, Waits
  <2>2. QED
    BY <1>2, <2>1 DEF Pushed
<1>5. QED
  BY <1>1, <1>3, <1>4 DEF PhaseInv

\* The accounting entails that the shutdown finds the engine idle.
LEMMA ShutdownHolds ==
  ASSUME ServerAssumption, TypeOK, Accounting
  PROVE  ShutdownQuiescent
<1> SUFFICES ASSUME phase = "finalized", NothingOutstanding
             PROVE  /\ \A i \in Threads :
                          /\ engine[i] = {}
                          /\ \A j \in DOMAIN queue[i] : queue[i][j].ops = "TERMINATE"
                    /\ \A k \in Keys : \A v, w \in Workers : round[k][v] = round[k][w]
  BY DEF ShutdownQuiescent
<1>1. \A k \in Keys, w \in Workers : stage[k][w] \in {"start", "ready"}
  BY DEF NothingOutstanding
<1>2. \A k \in Keys, w \in Workers : ~Counted(k, w)
  BY <1>1 DEF Counted, Waits
<1>3. \A k \in Keys : ~Closing(k)
  BY <1>2, ClosingNotLate DEF ServerAssumption
<1>4. ASSUME NEW i \in Threads
      PROVE  engine[i] = {}
  BY <1>3 DEF Closing, TypeOK
<1>5. ASSUME NEW i \in Threads, NEW j \in DOMAIN queue[i], queue[i][j].ops # "TERMINATE"
      PROVE  FALSE
  <2>1. queue[i] \in Seq(EngineMessage)
    BY DEF TypeOK
  <2>2. queue[i][j].key \in Keys
    <3>1. queue[i][j] \in EngineMessage
      BY <2>1
    <3>2. QED
      BY <3>1 DEF EngineMessage
  <2>3. PICK k \in Keys : k = queue[i][j].key
    BY <2>2
  <2>4. MessageInv(i, j, k) /\ MessageAt(i, j, k)
    BY <1>5, <2>3 DEF Accounting, QueueInv, MessageAt
  <2>5. queue[i][j].ops = "ALL_RECV"
    BY <1>2, <2>4 DEF MessageInv
  <2>6. QED
    BY <1>3, <2>3, <2>5 DEF Closing
<1>6. ASSUME NEW k \in Keys, NEW v \in Workers, NEW w \in Workers
      PROVE  round[k][v] = round[k][w]
  <2>1. PhaseInv(k)
    BY DEF Accounting, KeyInv
  <2>2. QED
    BY <1>1, <2>1 DEF PhaseInv, InitPhase, RegisterPhase, TrainPhase, Counted, Late,
       Between, Waits
<1>7. QED
  BY <1>4, <1>5, <1>6

\* No step of the server fails a check while workers leave in order; only a flag
\* vector can be too short.
LEMMA AbortStep ==
  ASSUME ServerAssumption, SyncMode, TypeOK, Accounting, AbortsExplained, [Next]_vars
  PROVE  AbortsExplained'
<1>1. ASSUME NEW k \in Keys, NEW w \in Workers, PullAborts(k, w)
      PROVE  AbortsExplained'
  <2>1. stage[k][w] = "pull" /\ PullFailure(k, w) # "no" /\ aborted' = PullFailure(k, w)
    BY <1>1 DEF PullAborts
  <2>2. PhaseInv(k) /\ FlagInv(k) /\ HashInv(k)
    BY DEF Accounting, KeyInv
  <2>3. stored[k] # {}
    BY <2>1, <2>2 DEF PhaseInv, InitPhase, RegisterPhase, TrainPhase
  <2>4. hash_cache[k] # NoThread
    BY <2>1, <2>2 DEF HashInv
  <2>5. hash_cache[k] \in Threads /\ NumThreads \in Nat /\ NumFlagSlots \in Nat
    BY <2>4 DEF TypeOK, ServerAssumption
  <2>6. hash_cache[k] >= NumFlagSlots => NumFlagSlots < NumThreads
    BY <2>5 DEF Threads
  <2>7. AnswersNow(k, w) => merged[k] # "null"
    BY <2>2 DEF AnswersNow, FlagInv
  <2>8. QED
    BY <2>1, <2>3, <2>4, <2>6, <2>7 DEF PullFailure, AbortsExplained
<1>2. ASSUME NEW i \in Threads, EngineAborts(i)
      PROVE  AbortsExplained'
  <2>1. EngineFailure(i) # "no" /\ aborted' = EngineFailure(i)
    BY <1>2 DEF EngineAborts
  <2>2. i \in Nat /\ i < NumThreads /\ NumThreads \in Nat /\ NumFlagSlots \in Nat
    BY DEF Threads, ServerAssumption
  <2>3. i >= NumFlagSlots => NumFlagSlots < NumThreads
    BY <2>2
  <2>4. ASSUME phase = "finalized", ~LeaveEarly \/ NothingOutstanding
        PROVE  engine[i] = {} /\ ~AtFront(i, "COPY_FIRST") /\ ~AtFront(i, "SUM_RECV")
    <3>1. NothingOutstanding
      BY <2>4 DEF Accounting, LeaveInv, NothingOutstanding
    <3>4. engine[i] = {} /\ \A j \in DOMAIN queue[i] : queue[i][j].ops = "TERMINATE"
      BY <2>4, <3>1, ShutdownHolds DEF ShutdownQuiescent
    <3>2. queue[i] # << >> => Head(queue[i]) = queue[i][1] /\ 1 \in DOMAIN queue[i]
      <4>1. queue[i] \in Seq(EngineMessage)
        BY DEF TypeOK
      <4>2. QED
        BY <4>1
    <3>3. QED
      BY <3>2, <3>4 DEF AtFront
  <2>6. aborted' = "flag_mu_" => NumFlagSlots < NumThreads
    BY <2>1, <2>3 DEF EngineFailure
  <2>7. ASSUME aborted' # "flag_mu_"
        PROVE  /\ aborted' \in {"inc_server_", "inc_reducer_"} /\ phase = "finalized"
               /\ LeaveEarly /\ ~NothingOutstanding
    BY <2>1, <2>4, <2>7 DEF EngineFailure
  <2>8. UNCHANGED <<stage, phase>>
    BY <1>2 DEF EngineAborts, workerVars
  <2>9. QED
    BY <2>1, <2>6, <2>7, <2>8 DEF EngineFailure, AbortsExplained, NothingOutstanding
<1>3. CASE UNCHANGED <<aborted, phase, stage>>
  BY <1>3 DEF AbortsExplained, NothingOutstanding
<1>4. CASE aborted = "no" /\ UNCHANGED aborted
  BY <1>4 DEF AbortsExplained
<1>5. ASSUME NEW k \in Keys, NEW w \in Workers, Worker(k, w) \/ Handle(k, w)
      PROVE  AbortsExplained'
  BY <1>1, <1>4, <1>5 DEF Up, Worker, Handle, IssueInit, IssueRegister, IssuePush, IssuePull,
     Receive, HandleInitPush, HandleRegister, HandlePush, HandlePushAsync, HandlePull, HoldPull
<1>6. ASSUME NEW i \in Threads, Engine(i)
      PROVE  AbortsExplained'
  <2>1. CASE EngineFinishRound(i)
    BY <1>4, <2>1 DEF EngineFinishRound
  <2>2. CASE EngineCopyFirst(i) \/ EngineSumRecv(i) \/ EngineAllRecv(i) \/ EngineTerminate(i)
    BY <1>3, <2>2 DEF EngineCopyFirst, EngineSumRecv, EngineAllRecv, EngineTerminate,
       workerVars
  <2>3. QED
    BY <1>2, <1>6, <2>1, <2>2 DEF Engine
<1>7. CASE Finalize \/ Quit \/ UNCHANGED vars
  BY <1>3, <1>7, <1>4 DEF Finalize, Up, Quit, vars, workerVars
<1>8. QED
  BY <1>5, <1>6, <1>7 DEF Next

-----------------------------------------------------------------------------

\* The pull flags follow the rounds of the workers (server.cc:446-469, 176-197):
\* no pull is answered twice, or with a round that is not its own.
THEOREM PullAccountingCorrect == SyncMode => (Spec => []PullAccounting)
<1>1. TypeOK /\ Accounting => PullAccounting
  BY PullAccountingHolds, ServerAssumption
<1>2. QED
  BY <1>1, TypeCorrect, AccountingCorrect, PTL

\* No worker is answered before all have pushed, and none is two rounds ahead.
THEOREM BarrierCorrect == SyncMode => (Spec => []Barrier)
<1>1. TypeOK /\ Accounting => Barrier
  BY BarrierHolds, ServerAssumption
<1>2. QED
  BY <1>1, TypeCorrect, AccountingCorrect, PTL

\* The engine's unlocked write of merged (server.cc:147-156) is never
\* concurrent with a read of it by the handler.
THEOREM MergedNotSharedCorrect == SyncMode => (Spec => []MergedNotShared)
<1>1. TypeOK /\ Accounting => MergedNotShared
  BY ClosingNotLate DEF MergedNotShared, Counted
<1>2. QED
  BY <1>1, TypeCorrect, AccountingCorrect, PTL

\* When no worker leaves with a request outstanding, ps::Finalize finds the
\* engine threads idle.
THEOREM ShutdownCorrect == SyncMode => (Spec => []ShutdownQuiescent)
<1>1. TypeOK /\ Accounting => ShutdownQuiescent
  BY ShutdownHolds, ServerAssumption
<1>2. QED
  BY <1>1, TypeCorrect, AccountingCorrect, PTL

\* Whatever the size of the flag vectors, no check fails: only an engine thread
\* without a slot in them (server.cc:167, 446; server.h:84-88), or a worker that
\* left with a request outstanding, can end the server.
THEOREM NoAbort == SyncMode => (Spec => []AbortsExplained)
<1>1. Init => AbortsExplained
  BY DEF Init, AbortsExplained
<1>2. ASSUME SyncMode
      PROVE  TypeOK /\ Accounting /\ AbortsExplained /\ [Next]_vars => AbortsExplained'
  BY <1>2, AbortStep, ServerAssumption
<1>3. ASSUME SyncMode
      PROVE  Spec => []AbortsExplained
  BY <1>1, <1>2, <1>3, TypeCorrect, AccountingCorrect, PTL DEF Spec
<1>4. QED
  BY <1>3

=============================================================================
