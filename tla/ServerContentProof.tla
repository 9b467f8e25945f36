-------------------------- MODULE ServerContentProof --------------------------
(***************************************************************************)
(* What the buffers of the server hold (Contents), hence what a pull       *)
(* returns, and that the server implements AllReduce.                      *)
(***************************************************************************)
EXTENDS ServerProof

-----------------------------------------------------------------------------
(* Messages.                                                               *)

\* A step that keeps the messages of a key where they are.
LEMMA SameMessages ==
  ASSUME NEW c \in Keys, OrderInv(c),
         \A n \in Threads : \A j : /\ MessageAt(n, j, c)' <=> MessageAt(n, j, c)
                                   /\ MessageAt(n, j, c) => queue'[n][j] = queue[n][j]
  PROVE  /\ OrderInv(c)'
         /\ CopyPending(c)' <=> CopyPending(c)
         /\ \A v \in Workers : Meta(c, v)' = Meta(c, v) =>
               (SumPending(c, v)' <=> SumPending(c, v))
<1>1. \A n \in Threads : \A j :
         /\ MessageAt(n, j, c) => j \in DOMAIN queue[n]
         /\ MessageAt(n, j, c)' => j \in DOMAIN queue'[n]
  BY DEF MessageAt
<1>2. OrderInv(c)'
  BY <1>1 DEF OrderInv
<1>3. CopyPending(c)' <=> CopyPending(c)
  BY <1>1 DEF CopyPending
<1>4. ASSUME NEW v \in Workers, Meta(c, v)' = Meta(c, v)
      PROVE  SumPending(c, v)' <=> SumPending(c, v)
  BY <1>1, <1>4 DEF SumPending
<1>5. QED
  BY <1>2, <1>3, <1>4

\* When a thread takes a message, the order of the others stays, and what is
\* pending is what was pending elsewhere than at the front.
LEMMA TakePending ==
  ASSUME TypeOK, NEW i \in Threads, NEW op, Takes(i, op), NEW c \in Keys, OrderInv(c)
  PROVE  /\ OrderInv(c)'
         /\ CopyPending(c)' <=>
               \E n \in Threads : \E j : /\ MessageAt(n, j, c) /\ ~(n = i /\ j = 1)
                                         /\ queue[n][j].ops = "COPY_FIRST"
         /\ \A v \in Workers : Meta(c, v)' = Meta(c, v) =>
               (SumPending(c, v)' <=>
                  \E n \in Threads : \E j : /\ MessageAt(n, j, c) /\ ~(n = i /\ j = 1)
                                            /\ queue[n][j].ops # "ALL_RECV"
                                            /\ queue[n][j].src = {Meta(c, v)})
<1>1. \A n \in Threads : \A j :
         /\ MessageAt(n, j, c) => j \in DOMAIN queue[n]
         /\ MessageAt(n, j, c)' => j \in DOMAIN queue'[n]
  BY DEF MessageAt
<1>2. \A n \in Threads : \A j : n # i => (MessageAt(n, j, c)' <=> MessageAt(n, j, c))
  BY TakeMessage
<1>3. \A n \in Threads : n # i => queue'[n] = queue[n]
  BY TakeAt
<1>4. \A j : MessageAt(i, j, c)' =>
         /\ j \in Nat \ {0} /\ MessageAt(i, j + 1, c) /\ queue'[i][j] = queue[i][j + 1]
  BY TakeMessage
<1>5. \A j : MessageAt(i, j, c) =>
         /\ j \in Nat
         /\ j # 1 => MessageAt(i, j - 1, c)' /\ queue'[i][j - 1] = queue[i][j]
  BY TakeMessage
<1>6. ASSUME NEW n \in Threads, NEW j \in DOMAIN queue'[n], NEW m \in DOMAIN queue'[n],
             MessageAt(n, j, c)', MessageAt(n, m, c)'
      PROVE  /\ queue'[n][j].ops = "COPY_FIRST" => j <= m
             /\ queue'[n][j].ops # "ALL_RECV" /\ queue'[n][j].src = queue'[n][m].src => j = m
  <2>1. CASE n # i
    BY <1>1, <1>2, <1>3, <1>6, <2>1 DEF OrderInv
  <2>2. CASE n = i
    <3>1. /\ j \in Nat /\ MessageAt(i, j + 1, c) /\ queue'[i][j] = queue[i][j + 1]
          /\ m \in Nat /\ MessageAt(i, m + 1, c) /\ queue'[i][m] = queue[i][m + 1]
      BY <1>4, <1>6, <2>2
    <3>2. /\ queue[i][j + 1].ops = "COPY_FIRST" => j + 1 <= m + 1
          /\ queue[i][j + 1].ops # "ALL_RECV" /\ queue[i][j + 1].src = queue[i][m + 1].src
               => j + 1 = m + 1
      BY <1>1, <3>1 DEF OrderInv
    <3>3. QED
      BY <2>2, <3>1, <3>2
  <2>3. QED
    BY <2>1, <2>2
<1>7. OrderInv(c)'
  BY <1>6 DEF OrderInv
<1>8. CopyPending(c)' <=>
         \E n \in Threads : \E j : /\ MessageAt(n, j, c) /\ ~(n = i /\ j = 1)
                                   /\ queue[n][j].ops = "COPY_FIRST"
  <2>1. ASSUME NEW n \in Threads, NEW j, MessageAt(n, j, c)',
               queue'[n][j].ops = "COPY_FIRST"
        PROVE  \E x : /\ MessageAt(n, x, c) /\ ~(n = i /\ x = 1)
                      /\ queue[n][x].ops = "COPY_FIRST"
    <3>1. CASE n # i
      BY <1>2, <1>3, <2>1, <3>1
    <3>2. CASE n = i
      <4>1. /\ j \in Nat \ {0} /\ MessageAt(i, j + 1, c)
            /\ queue[i][j + 1].ops = "COPY_FIRST" /\ j + 1 # 1
        BY <1>4, <2>1, <3>2
      <4>2. QED
        BY <3>2, <4>1
    <3>3. QED
      BY <3>1, <3>2
  <2>2. ASSUME NEW n \in Threads, NEW j, MessageAt(n, j, c), ~(n = i /\ j = 1),
               queue[n][j].ops = "COPY_FIRST"
        PROVE  \E x : MessageAt(n, x, c)' /\ queue'[n][x].ops = "COPY_FIRST"
    BY <1>2, <1>3, <1>5, <2>2
  <2>3. ASSUME CopyPending(c)'
        PROVE  \E n \in Threads : \E j : /\ MessageAt(n, j, c) /\ ~(n = i /\ j = 1)
                                         /\ queue[n][j].ops = "COPY_FIRST"
    <3>1. \E n \in Threads : \E j :
             MessageAt(n, j, c)' /\ queue'[n][j].ops = "COPY_FIRST"
      BY <2>3 DEF CopyPending
    <3>2. QED
      BY <2>1, <3>1
  <2>4. ASSUME NEW n \in Threads, NEW j, MessageAt(n, j, c), ~(n = i /\ j = 1),
               queue[n][j].ops = "COPY_FIRST"
        PROVE  CopyPending(c)'
    <3>1. PICK x : MessageAt(n, x, c)' /\ queue'[n][x].ops = "COPY_FIRST"
      BY <2>2, <2>4
    <3>2. QED
      BY <1>1, <3>1 DEF CopyPending
  <2>5. QED
    BY <2>3, <2>4
<1>9. ASSUME NEW v \in Workers, Meta(c, v)' = Meta(c, v)
      PROVE  SumPending(c, v)' <=>
                \E n \in Threads : \E j : /\ MessageAt(n, j, c) /\ ~(n = i /\ j = 1)
                                          /\ queue[n][j].ops # "ALL_RECV"
                                          /\ queue[n][j].src = {Meta(c, v)}
  <2>1. ASSUME NEW n \in Threads, NEW j, MessageAt(n, j, c)',
               queue'[n][j].ops # "ALL_RECV", queue'[n][j].src = {Meta(c, v)}
        PROVE  \E x : /\ MessageAt(n, x, c) /\ ~(n = i /\ x = 1)
                      /\ queue[n][x].ops # "ALL_RECV" /\ queue[n][x].src = {Meta(c, v)}
    <3>1. CASE n # i
      BY <1>2, <1>3, <2>1, <3>1
    <3>2. CASE n = i
      <4>1. /\ j \in Nat \ {0} /\ MessageAt(i, j + 1, c) /\ j + 1 # 1
            /\ queue[i][j + 1].ops # "ALL_RECV" /\ queue[i][j + 1].src = {Meta(c, v)}
        BY <1>4, <2>1, <3>2
      <4>2. QED
        BY <3>2, <4>1
    <3>3. QED
      BY <3>1, <3>2
  <2>2. ASSUME NEW n \in Threads, NEW j, MessageAt(n, j, c), ~(n = i /\ j = 1),
               queue[n][j].ops # "ALL_RECV", queue[n][j].src = {Meta(c, v)}
        PROVE  \E x : /\ MessageAt(n, x, c)'
                      /\ queue'[n][x].ops # "ALL_RECV" /\ queue'[n][x].src = {Meta(c, v)}
    BY <1>2, <1>3, <1>5, <2>2
  <2>3. ASSUME SumPending(c, v)'
        PROVE  \E n \in Threads : \E j : /\ MessageAt(n, j, c) /\ ~(n = i /\ j = 1)
                                         /\ queue[n][j].ops # "ALL_RECV"
                                         /\ queue[n][j].src = {Meta(c, v)}
    <3>1. \E n \in Threads : \E j :
             /\ MessageAt(n, j, c)' /\ queue'[n][j].ops # "ALL_RECV"
             /\ queue'[n][j].src = {Meta(c, v)}
      BY <1>9, <2>3 DEF SumPending
    <3>2. QED
      BY <2>1, <3>1
  <2>4. ASSUME NEW n \in Threads, NEW j, MessageAt(n, j, c), ~(n = i /\ j = 1),
               queue[n][j].ops # "ALL_RECV", queue[n][j].src = {Meta(c, v)}
        PROVE  SumPending(c, v)'
    <3>1. PICK x : /\ MessageAt(n, x, c)' /\ queue'[n][x].ops # "ALL_RECV"
                   /\ queue'[n][x].src = {Meta(c, v)}
      BY <2>2, <2>4
    <3>2. QED
      BY <1>1, <1>9, <3>1 DEF SumPending
  <2>5. QED
    BY <2>3, <2>4
<1>10. QED
  BY <1>7, <1>8, <1>9

\* Taking a message that is not of a key keeps what is pending of that key.
LEMMA TakeOther ==
  ASSUME TypeOK, NEW i \in Threads, NEW op, Takes(i, op), NEW c \in Keys, OrderInv(c),
         ~MessageAt(i, 1, c)
  PROVE  /\ OrderInv(c)'
         /\ CopyPending(c)' <=> CopyPending(c)
         /\ \A v \in Workers : Meta(c, v)' = Meta(c, v) =>
               (SumPending(c, v)' <=> SumPending(c, v))
<1>1. \A n \in Threads : \A j : MessageAt(n, j, c) => ~(n = i /\ j = 1)
  OBVIOUS
<1>2. \A n \in Threads : \A j : MessageAt(n, j, c) => j \in DOMAIN queue[n]
  BY DEF MessageAt
<1>3. OrderInv(c)'
  BY TakePending
<1>4. CopyPending(c)' <=>
         \E n \in Threads : \E j : /\ MessageAt(n, j, c) /\ ~(n = i /\ j = 1)
                                   /\ queue[n][j].ops = "COPY_FIRST"
  BY TakePending
<1>5. CopyPending(c)' <=> CopyPending(c)
  BY <1>1, <1>2, <1>4 DEF CopyPending
<1>6. ASSUME NEW v \in Workers, Meta(c, v)' = Meta(c, v)
      PROVE  SumPending(c, v)' <=> SumPending(c, v)
  <2>1. SumPending(c, v)' <=>
           \E n \in Threads : \E j : /\ MessageAt(n, j, c) /\ ~(n = i /\ j = 1)
                                     /\ queue[n][j].ops # "ALL_RECV"
                                     /\ queue[n][j].src = {Meta(c, v)}
    BY <1>6, TakePending
  <2>2. QED
    BY <1>1, <1>2, <2>1 DEF SumPending
<1>7. QED
  BY <1>3, <1>5, <1>6

-----------------------------------------------------------------------------
(* Steps that change no contents.                                          *)

\* A key whose buffers, messages and counted workers a step does not change
\* keeps its contents.
LEMMA ContentFrame ==
  ASSUME NEW c \in Keys, ContentsOf(c), OrderInv(c)', StartedInv(c)',
         CopyPending(c)' <=> CopyPending(c),
         \A v \in Workers : /\ Counted(c, v)' <=> Counted(c, v)
                            /\ Counted(c, v) => /\ Meta(c, v)' = Meta(c, v)
                                                /\ SumPending(c, v)' <=> SumPending(c, v),
         epoch'[c] = epoch[c], stored'[c] = stored[c],
         MergedTensor(c)' = MergedTensor(c),
         \A n \in Threads : c \in engine'[n] <=> c \in engine[n]
  PROVE  ContentsOf(c)'
<1>1. Summed(c)' = Summed(c)
  <2>1. \A v \in Workers : Counted(c, v)' /\ ~SumPending(c, v)' <=>
                           Counted(c, v) /\ ~SumPending(c, v)
    OBVIOUS
  <2>2. {Meta(c, v)' : v \in {u \in Workers : Counted(c, u)' /\ ~SumPending(c, u)'}}
          = {Meta(c, v) : v \in {u \in Workers : Counted(c, u) /\ ~SumPending(c, u)}}
    BY <2>1
  <2>3. QED
    BY <2>2 DEF Summed
<1>2. ContentInv(c)'
  BY <1>1 DEF ContentsOf, ContentInv
<1>3. ClosedInv(c)'
  BY DEF ContentsOf, ClosedInv
<1>4. AnswerInv(c)'
  BY DEF ContentsOf, AnswerInv
<1>5. QED
  BY <1>2, <1>3, <1>4 DEF ContentsOf

\* A step that leaves the buffers and the messages of a key alone.
LEMMA QuietKey ==
  ASSUME NEW c \in Keys, ContentsOf(c), StartedInv(c)',
         epoch'[c] = epoch[c], stored'[c] = stored[c],
         merged'[c] = merged[c], cbuf'[c] = cbuf[c],
         \A n \in Threads : c \in engine'[n] <=> c \in engine[n],
         \A n \in Threads : \A j : /\ MessageAt(n, j, c)' <=> MessageAt(n, j, c)
                                   /\ MessageAt(n, j, c) => queue'[n][j] = queue[n][j],
         \A v \in Workers : /\ Counted(c, v)' <=> Counted(c, v)
                            /\ Counted(c, v) => Meta(c, v)' = Meta(c, v)
  PROVE  ContentsOf(c)'
<1>1. OrderInv(c)
  BY DEF ContentsOf
<1>2. /\ OrderInv(c)'
      /\ CopyPending(c)' <=> CopyPending(c)
      /\ \A v \in Workers : Meta(c, v)' = Meta(c, v) =>
            (SumPending(c, v)' <=> SumPending(c, v))
  BY <1>1, SameMessages
<1>3. MergedTensor(c)' = MergedTensor(c)
  BY DEF MergedTensor
<1>4. QED
  BY <1>1, <1>2, <1>3, ContentFrame

\* A step that leaves the buffers and the messages of all keys alone.
LEMMA QuietContents ==
  ASSUME Contents,
         UNCHANGED <<stored, merged, cbuf, engine, epoch>>,
         \A c \in Keys : \A n \in Threads : \A j :
            /\ MessageAt(n, j, c)' <=> MessageAt(n, j, c)
            /\ MessageAt(n, j, c) => queue'[n][j] = queue[n][j],
         \A c \in Keys : \A v \in Workers :
            /\ Counted(c, v)' <=> Counted(c, v)
            /\ Counted(c, v) => Meta(c, v)' = Meta(c, v),
         \A c \in Keys : StartedInv(c)'
  PROVE  Contents'
  BY QuietKey DEF Contents

\* The steps of the workers keep the contents.
LEMMA WorkerContents ==
  ASSUME ServerAssumption, TypeOK, Contents, NEW k \in Keys, NEW w \in Workers, Worker(k, w)
  PROVE  Contents'
<1>1. /\ stage \in [Keys -> [Workers -> Stage]]
      /\ round \in [Keys -> [Workers -> Nat]]
  BY DEF TypeOK, Rounds, ServerAssumption
<1>2. /\ UNCHANGED <<storeVars, engineVars, epoch>>
      /\ \A c \in Keys : c # k => stage'[c] = stage[c] /\ round'[c] = round[c]
      /\ \A v \in Workers : v # w => /\ stage'[k][v] = stage[k][v]
                                    /\ round'[k][v] = round[k][v]
  BY <1>1 DEF Worker, IssueInit, IssueRegister, IssuePush, IssuePull, Receive, Goes
<1>3. \/ /\ stage[k][w] \in {"start", "inited", "answered"}
         /\ stage'[k][w] \in {"init", "register", "ready"}
         /\ round'[k][w] = round[k][w]
      \/ /\ stage[k][w] = "ready" /\ stage'[k][w] = "push"
         /\ round'[k][w] = round[k][w] + 1
      \/ /\ stage[k][w] = "pushed" /\ stage'[k][w] = "pull"
         /\ round'[k][w] = round[k][w]
  BY <1>1 DEF Worker, IssueInit, IssueRegister, IssuePush, IssuePull, Receive, Goes
<1>4. \A c \in Keys : \A v \in Workers :
         /\ Counted(c, v)' <=> Counted(c, v)
         /\ Counted(c, v) => Meta(c, v)' = Meta(c, v)
  BY <1>2, <1>3 DEF Counted, Waits, Meta
<1>5. \A c \in Keys : StartedInv(c)'
  <2>1. \A c \in Keys : StartedInv(c)
    BY DEF Contents, ContentsOf
  <2>2. round[k][w] \in Nat
    BY <1>1
  <2>3. QED
    BY <1>2, <1>3, <2>1, <2>2 DEF StartedInv
<1>6. \A c \in Keys : \A n \in Threads : \A j :
         /\ MessageAt(n, j, c)' <=> MessageAt(n, j, c)
         /\ MessageAt(n, j, c) => queue'[n][j] = queue[n][j]
  BY <1>2 DEF MessageAt, engineVars
<1>7. QED
  BY <1>2, <1>4, <1>5, <1>6, QuietContents DEF storeVars, engineVars

\* The pulls, answered or held, keep the contents.
LEMMA PullContents ==
  ASSUME ServerAssumption, SyncMode, TypeOK, Accounting, Contents,
         NEW k \in Keys, NEW w \in Workers, HandlePull(k, w) \/ HoldPull(k, w)
  PROVE  Contents'
<1>1. /\ stage \in [Keys -> [Workers -> Stage]]
      /\ epoch \in [Keys -> Nat]
  BY DEF TypeOK
<1>2. /\ UNCHANGED <<round, storeVars, engineVars, epoch>>
      /\ \A c \in Keys : c # k => stage'[c] = stage[c]
      /\ \A v \in Workers : v # w => stage'[k][v] = stage[k][v]
      /\ stage[k][w] = "pull"
  BY <1>1 DEF HandlePull, HoldPull, Goes
<1>3. /\ stage'[k][w] \in {"answered", "pullHeld"}
      /\ Counted(k, w)' <=> Counted(k, w)
  <2>1. CASE HandlePull(k, w)
    <3>1. stage'[k][w] = "answered" /\ is_push_finished[k] /\ w \notin seen_sender[k]
      BY <1>1, <2>1 DEF HandlePull, Goes, AnswersNow
    <3>2. Late(k, w) /\ epoch[k] + 1 # epoch[k]
      BY <1>1, <3>1 DEF Accounting, KeyInv, FlagInv
    <3>3. QED
      BY <1>2, <3>1, <3>2 DEF Counted, Waits, Late
  <2>2. CASE HoldPull(k, w)
    <3>1. stage'[k][w] = "pullHeld"
      BY <1>1, <2>2 DEF HoldPull, Goes
    <3>2. QED
      BY <1>2, <3>1 DEF Counted, Waits
  <2>3. QED
    BY <2>1, <2>2
<1>4. \A c \in Keys : \A v \in Workers :
         /\ Counted(c, v)' <=> Counted(c, v)
         /\ Counted(c, v) => Meta(c, v)' = Meta(c, v)
  BY <1>2, <1>3 DEF Counted, Waits, Meta
<1>5. \A c \in Keys : StartedInv(c)'
  <2>1. \A c \in Keys : StartedInv(c)
    BY DEF Contents, ContentsOf
  <2>2. QED
    BY <1>2, <1>3, <2>1 DEF StartedInv
<1>6. \A c \in Keys : \A n \in Threads : \A j :
         /\ MessageAt(n, j, c)' <=> MessageAt(n, j, c)
         /\ MessageAt(n, j, c) => queue'[n][j] = queue[n][j]
  BY <1>2 DEF MessageAt, engineVars
<1>7. QED
  BY <1>2, <1>4, <1>5, <1>6, QuietContents DEF storeVars, engineVars

-----------------------------------------------------------------------------
(* The pushes.                                                             *)

\* The exchanges that precede the training keep the contents.
LEMMA InitContents ==
  ASSUME ServerAssumption, TypeOK, Accounting, Contents, NEW k \in Keys, NEW w \in Workers,
         HandleInitPush(k, w) \/ HandleRegister(k, w)
  PROVE  Contents'
<1>1. /\ stage \in [Keys -> [Workers -> Stage]]
      /\ stored \in [Keys -> Element]
  BY DEF TypeOK
<1>2. /\ UNCHANGED <<round, engineVars, epoch>>
      /\ \A c \in Keys : c # k => stage'[c] = stage[c] /\ stored'[c] = stored[c]
      /\ \A v \in Workers : stage'[k][v] \in
            {stage[k][v], "initHeld", "registerHeld", "inited", "ready"}
  BY <1>1 DEF HandleInitPush, HandleRegister, Goes, Respond, AfterInit
<1>3. /\ epoch[k] = 0
      /\ \A v \in Workers : ~Counted(k, v)
  <2>1. PhaseInv(k) /\ stage[k][w] \in {"init", "register"}
    BY DEF Accounting, KeyInv, HandleInitPush, HandleRegister
  <2>2. InitPhase(k) \/ RegisterPhase(k)
    BY <2>1 DEF PhaseInv, TrainPhase, Counted, Waits, Late, Between
  <2>3. QED
    BY <2>2 DEF InitPhase, RegisterPhase, Counted, Waits
<1>4. \A v \in Workers : ~Counted(k, v)'
  BY <1>2, <1>3 DEF Counted, Waits
<1>5. \A c \in Keys : StartedInv(c)'
  <2>1. \A c \in Keys : StartedInv(c)
    BY DEF Contents, ContentsOf
  <2>2. QED
    BY <1>2, <2>1 DEF StartedInv
<1>6. ASSUME NEW c \in Keys
      PROVE  \A n \in Threads : \A j : /\ MessageAt(n, j, c)' <=> MessageAt(n, j, c)
                                       /\ MessageAt(n, j, c) => queue'[n][j] = queue[n][j]
  BY <1>2 DEF MessageAt, engineVars
<1>7. ASSUME NEW c \in Keys, c # k
      PROVE  ContentsOf(c)'
  <2>1. ContentsOf(c)
    BY DEF Contents
  <2>2. \A v \in Workers : /\ Counted(c, v)' <=> Counted(c, v)
                           /\ Counted(c, v) => Meta(c, v)' = Meta(c, v)
    BY <1>2, <1>7 DEF Counted, Waits, Meta
  <2>3. QED
    BY <1>2, <1>5, <1>6, <1>7, <2>1, <2>2, QuietKey DEF engineVars
<1>8. ContentsOf(k)'
  <2>1. OrderInv(k)'
    <3>1. OrderInv(k)
      BY DEF Contents, ContentsOf
    <3>2. QED
      BY <1>6, <3>1, SameMessages
  <2>2. ContentInv(k)' /\ AnswerInv(k)'
    BY <1>2, <1>3, <1>4 DEF ContentInv, AnswerInv
  <2>3. ClosedInv(k)'
    <3>1. ~Closing(k)
      BY <1>3 DEF Accounting, KeyInv, CloseInv, ServerAssumption
    <3>2. \A n \in Threads : k \notin engine'[n]
      BY <1>2, <3>1 DEF Closing, engineVars
    <3>3. QED
      BY <3>2 DEF ClosedInv
  <2>4. QED
    BY <1>5, <2>1, <2>2, <2>3 DEF ContentsOf
<1>9. QED
  BY <1>7, <1>8 DEF Contents

\* The push of a round keeps the contents.
LEMMA PushContents ==
  ASSUME ServerAssumption, TypeOK, Accounting, Contents,
         NEW k \in Keys, NEW w \in Workers, HandlePush(k, w)
  PROVE  Contents'
<1>1. /\ stage \in [Keys -> [Workers -> Stage]]
      /\ epoch \in [Keys -> Nat]
      /\ hash_cache \in [Keys -> Threads \union {NoThread}]
  BY DEF TypeOK
<1>2. PICK tid \in Threads :
         /\ GetThreadID(k, tid)
         /\ queue' = [queue EXCEPT ![tid] = Enqueue(@, k, w)]
  BY DEF HandlePush
<1>3. PICK L : L = Len(queue[tid])
  OBVIOUS
<1>4. PICK added \in {1, 2} :
            added = 2 <=> Cardinality(request[k] \union {Meta(k, w)}) = NumWorkers
  <2>1. CASE Cardinality(request[k] \union {Meta(k, w)}) = NumWorkers
    BY <2>1, 2 \in {1, 2}
  <2>2. CASE Cardinality(request[k] \union {Meta(k, w)}) # NumWorkers
    BY <2>2, 1 \in {1, 2}, 1 # 2
  <2>3. QED
    BY <2>1, <2>2
<1>5. Adds(k, w, tid, L, added)
  BY <1>2, <1>3, <1>4, PushAt
<1>6. /\ UNCHANGED <<round, stored, engine, merged, cbuf, epoch>>
      /\ stage[k][w] = "push" /\ stage'[k][w] = "pushed"
      /\ \A c \in Keys : c # k => stage'[c] = stage[c]
      /\ \A v \in Workers : v # w => stage'[k][v] = stage[k][v]
  BY <1>1 DEF HandlePush, Goes
<1>7. round[k][w] = epoch[k] + 1
  <2>1. PhaseInv(k)
    BY DEF Accounting, KeyInv
  <2>2. QED
    BY <1>6, <2>1 DEF PhaseInv, InitPhase, RegisterPhase, TrainPhase, Counted, Waits, Late, Between
<1>8. /\ \A c \in Keys : \A v \in Workers : Meta(c, v)' = Meta(c, v)
      /\ \A v \in Workers : Counted(k, v)' <=> Counted(k, v) \/ v = w
      /\ ~Counted(k, w)
      /\ \A c \in Keys : c # k => \A v \in Workers : Counted(c, v)' <=> Counted(c, v)
  BY <1>6, <1>7 DEF Meta, Counted, Waits
<1>9. ~Closing(k)
  BY <1>8 DEF Accounting, KeyInv, CloseInv
<1>10. \A c \in Keys : StartedInv(c)'
  <2>1. \A c \in Keys : StartedInv(c)
    BY DEF Contents, ContentsOf
  <2>2. QED
    BY <1>6, <2>1 DEF StartedInv
<1>11. ASSUME NEW c \in Keys, c # k
       PROVE  ContentsOf(c)'
  <2>1. ContentsOf(c)
    BY DEF Contents
  <2>2. \A n \in Threads : \A j : /\ MessageAt(n, j, c)' <=> MessageAt(n, j, c)
                                  /\ MessageAt(n, j, c) => queue'[n][j] = queue[n][j]
    BY <1>5, <1>11 DEF Adds
  <2>3. QED
    BY <1>6, <1>8, <1>10, <1>11, <2>1, <2>2, QuietKey
\* The queued messages of the key are pushes of counted workers.
<1>12. ASSUME NEW n \in Threads, NEW j, MessageAt(n, j, k)
       PROVE  /\ queue[n][j].ops # "ALL_RECV"
              /\ \E v \in Workers : Counted(k, v) /\ queue[n][j].src = {Meta(k, v)}
  <2>1. queue[n][j].ops # "ALL_RECV"
    BY <1>9, <1>12 DEF Closing, MessageAt
  <2>2. MessageInv(n, j, k)
    BY <1>12 DEF Accounting, QueueInv, MessageAt
  <2>3. QED
    BY <1>12, <2>1, <2>2 DEF MessageInv
<1>13. /\ L \in Nat
       /\ \A n \in Threads : \A j :
             /\ MessageAt(n, j, k) =>
                   /\ MessageAt(n, j, k)' /\ queue'[n][j] = queue[n][j]
                   /\ n = tid => j \in 1 .. L
             /\ MessageAt(n, j, k)' =>
                   \/ MessageAt(n, j, k)
                   \/ /\ n = tid
                      /\ j = L + 1 \/ (added = 2 /\ j = L + 2)
       /\ queue'[tid][L + 1].ops = FirstOrSum(k)
       /\ queue'[tid][L + 1].src = {Meta(k, w)}
       /\ MessageAt(tid, L + 1, k)'
       /\ added = 2 => /\ MessageAt(tid, L + 2, k)' /\ queue'[tid][L + 2].ops = "ALL_RECV"
                      /\ queue'[tid][L + 2].src = {}
  BY <1>5 DEF Adds
<1>14. FirstOrSum(k) = IF \E v \in Workers : Counted(k, v) THEN "SUM_RECV" ELSE "COPY_FIRST"
  <2>1. request[k] = {Meta(k, v) : v \in {u \in Workers : Buffered(k, u)}}
    BY <1>9 DEF Accounting, KeyInv, RequestInv
  <2>2. \A v \in Workers : Buffered(k, v) <=> Counted(k, v)
    <3>1. PhaseInv(k)
      BY DEF Accounting, KeyInv
    <3>2. \A v \in Workers : stage[k][v] \notin {"initHeld", "registerHeld"}
      BY <1>6, <3>1 DEF PhaseInv, InitPhase, RegisterPhase, TrainPhase, Counted, Waits, Late, Between
    <3>3. QED
      BY <3>2 DEF Buffered
  <2>3. request[k] = {} <=> ~\E v \in Workers : Counted(k, v)
    BY <2>1, <2>2
  <2>4. QED
    BY <2>3 DEF FirstOrSum
<1>15. /\ FirstOrSum(k) # "ALL_RECV"
       /\ \A u, v \in Workers : Meta(k, u) = Meta(k, v) => u = v
  BY DEF FirstOrSum, Meta
<1>16. OrderInv(k)'
  <2> SUFFICES ASSUME NEW n \in Threads, NEW j, NEW m, MessageAt(n, j, k)', MessageAt(n, m, k)'
               PROVE  /\ queue'[n][j].ops = "COPY_FIRST" => j <= m
                      /\ queue'[n][j].ops # "ALL_RECV" /\ queue'[n][j].src = queue'[n][m].src
                           => j = m
    BY DEF OrderInv
  <2>1. OrderInv(k)
    BY DEF Contents, ContentsOf
  <2>2. CASE MessageAt(n, j, k) /\ MessageAt(n, m, k)
    BY <1>13, <2>1, <2>2 DEF OrderInv, MessageAt
  <2>3. CASE MessageAt(n, j, k) /\ ~MessageAt(n, m, k)
    <3>1. PICK v \in Workers : Counted(k, v) /\ queue'[n][j].src = {Meta(k, v)}
      BY <1>12, <1>13, <2>3
    <3>2. v # w
      BY <1>8, <3>1
    <3>3. n = tid /\ j \in 1 .. L /\ (m = L + 1 \/ (added = 2 /\ m = L + 2))
      BY <1>13, <2>3
    <3>4. queue'[n][m].src \in {{Meta(k, w)}, {}}
      BY <1>13, <3>3
    <3>5. queue'[n][j].src # queue'[n][m].src
      BY <1>15, <3>1, <3>2, <3>4
    <3>6. j <= m
      BY <1>13, <3>3
    <3>7. QED
      BY <3>5, <3>6
  <2>4. CASE ~MessageAt(n, j, k) /\ MessageAt(n, m, k)
    <3>1. PICK v \in Workers : Counted(k, v) /\ queue'[n][m].src = {Meta(k, v)}
      BY <1>12, <1>13, <2>4
    <3>2. v # w
      BY <1>8, <3>1
    <3>3. n = tid /\ (j = L + 1 \/ (added = 2 /\ j = L + 2))
      BY <1>13, <2>4
    <3>4. /\ queue'[n][j].src \in {{Meta(k, w)}, {}}
          /\ queue'[n][j].ops # "COPY_FIRST"
      BY <1>13, <1>14, <3>1, <3>3
    <3>5. queue'[n][j].src # queue'[n][m].src
      BY <1>15, <3>1, <3>2, <3>4
    <3>6. QED
      BY <3>4, <3>5
  <2>5. CASE ~MessageAt(n, j, k) /\ ~MessageAt(n, m, k)
    <3>1. /\ n = tid /\ (j = L + 1 \/ (added = 2 /\ j = L + 2))
          /\ m = L + 1 \/ (added = 2 /\ m = L + 2)
      BY <1>13, <2>5
    <3>2. CASE j = L + 1
      <4>1. j <= m
        BY <1>13, <3>1, <3>2
      <4>2. queue'[n][j].src = queue'[n][m].src => m = j
        BY <1>13, <3>1, <3>2
      <4>3. QED
        BY <4>1, <4>2
    <3>3. CASE added = 2 /\ j = L + 2
      BY <1>13, <3>1, <3>3
    <3>4. QED
      BY <3>1, <3>2, <3>3
  <2>6. QED
    BY <2>2, <2>3, <2>4, <2>5
<1>17. SumPending(k, w)'
  BY <1>8, <1>13, <1>15 DEF SumPending, MessageAt
<1>18. ASSUME NEW v \in Workers, v # w
       PROVE  SumPending(k, v)' <=> SumPending(k, v)
  <2>1. ASSUME NEW n \in Threads, NEW j, MessageAt(n, j, k)',
               queue'[n][j].ops # "ALL_RECV", queue'[n][j].src = {Meta(k, v)}
        PROVE  MessageAt(n, j, k)
    <3>1. Meta(k, v) # Meta(k, w)
      BY <1>15, <1>18
    <3>2. QED
      BY <1>13, <2>1, <3>1
  <2>2. QED
    BY <1>8, <1>13, <2>1 DEF SumPending, MessageAt
<1>19. ContentInv(k)'
  <2>1. ContentInv(k)
    BY DEF Contents, ContentsOf
  <2>2. CASE ~\E v \in Workers : Counted(k, v)
    <3>1. CopyPending(k)'
      BY <1>13, <1>14, <2>2 DEF CopyPending, MessageAt
    <3>2. \A v \in Workers : Counted(k, v)' => SumPending(k, v)'
      BY <1>8, <1>17, <2>2
    <3>3. QED
      BY <1>6, <2>1, <2>2, <3>1, <3>2 DEF ContentInv
  <2>3. CASE \E v \in Workers : Counted(k, v)
    <3>1. CopyPending(k)' <=> CopyPending(k)
      <4>1. \A n \in Threads : \A j :
               MessageAt(n, j, k)' /\ queue'[n][j].ops = "COPY_FIRST" => MessageAt(n, j, k)
        BY <1>13, <1>14, <2>3
      <4>2. QED
        BY <1>13, <4>1 DEF CopyPending, MessageAt
    <3>2. CASE CopyPending(k)
      <4>1. \A v \in Workers : Counted(k, v)' => SumPending(k, v)'
        BY <1>8, <1>17, <1>18, <2>1, <3>2 DEF ContentInv
      <4>2. QED
        BY <1>6, <2>1, <3>1, <3>2, <4>1 DEF ContentInv
    <3>3. CASE ~CopyPending(k)
      <4>1. \A v \in Workers : Counted(k, v)' /\ ~SumPending(k, v)' <=>
                               Counted(k, v) /\ ~SumPending(k, v)
        BY <1>8, <1>17, <1>18
      <4>2. {Meta(k, v)' : v \in {u \in Workers : Counted(k, u)' /\ ~SumPending(k, u)'}}
              = {Meta(k, v) : v \in {u \in Workers : Counted(k, u) /\ ~SumPending(k, u)}}
        BY <1>8, <4>1
      <4>3. Summed(k)' = Summed(k)
        BY <4>2 DEF Summed
      <4>4. \E v \in Workers : Counted(k, v)'
        BY <1>8
      <4>5. QED
        BY <1>6, <2>1, <2>3, <3>1, <3>3, <4>3, <4>4 DEF ContentInv
    <3>4. QED
      BY <3>2, <3>3
  <2>4. QED
    BY <2>2, <2>3
<1>20. ClosedInv(k)' /\ AnswerInv(k)'
  <2>1. ClosedInv(k) /\ AnswerInv(k)
    BY DEF Contents, ContentsOf
  <2>2. MergedTensor(k)' = MergedTensor(k)
    BY <1>6 DEF MergedTensor
  <2>3. QED
    BY <1>6, <1>8, <2>1, <2>2 DEF ClosedInv, AnswerInv
<1>21. ContentsOf(k)'
  BY <1>10, <1>16, <1>19, <1>20 DEF ContentsOf
<1>22. QED
  BY <1>11, <1>21 DEF Contents

-----------------------------------------------------------------------------
(* The engine threads.                                                     *)

\* The push at the front of a queue is of a counted worker, its key is not being
\* closed, and it is the only message that carries that contribution.
LEMMA FrontPush ==
  ASSUME TypeOK, Accounting, NEW i \in Threads, NEW k \in Keys,
         MessageAt(i, 1, k), queue[i][1].ops # "ALL_RECV", OrderInv(k)
  PROVE  /\ \A n \in Threads : \A j : MessageAt(n, j, k) => n = i /\ j \in Nat \ {0}
         /\ \A n \in Threads : k \notin engine[n]
         /\ \E w \in Workers :
               /\ Counted(k, w) /\ queue[i][1].src = {Meta(k, w)}
               /\ \A j : MessageAt(i, j, k) /\ queue[i][j].src = {Meta(k, w)} => j = 1
         /\ \A j : MessageAt(i, j, k) /\ queue[i][j].ops = "COPY_FIRST" => j = 1
<1>1. ASSUME NEW n \in Threads, NEW j, MessageAt(n, j, k)
      PROVE  n = i /\ j \in Nat \ {0}
  <2>1. hash_cache[k] = n /\ hash_cache[k] = i
    BY <1>1 DEF Accounting, QueueInv, MessageInv, MessageAt
  <2>2. queue[n] \in Seq(EngineMessage) /\ j \in DOMAIN queue[n]
    BY <1>1 DEF TypeOK, MessageAt
  <2>3. QED
    BY <2>1, <2>2
<1>2. \A n \in Threads : k \notin engine[n]
  BY DEF Accounting, QueueInv, EngineInv, MessageInv, MessageAt
<1>3. MessageInv(i, 1, k)
  BY DEF Accounting, QueueInv, MessageAt
<1>4. PICK w \in Workers : Counted(k, w) /\ queue[i][1].src = {Meta(k, w)}
  BY <1>3 DEF MessageInv
<1>5. \A j : MessageAt(i, j, k) /\ queue[i][j].src = {Meta(k, w)} => j = 1
  BY <1>4 DEF OrderInv, MessageAt
<1>6. ASSUME NEW j, MessageAt(i, j, k), queue[i][j].ops = "COPY_FIRST"
      PROVE  j = 1
  <2>1. j <= 1
    BY <1>6 DEF OrderInv, MessageAt
  <2>2. QED
    BY <1>1, <1>6, <2>1
<1>7. QED
  BY <1>1, <1>2, <1>4, <1>5, <1>6

\* Copying the first contribution of a round, or adding another, keeps the contents.
LEMMA SumContents ==
  ASSUME ServerAssumption, TypeOK, Accounting, Contents, NEW i \in Threads,
         EngineCopyFirst(i) \/ EngineSumRecv(i)
  PROVE  Contents'
<1>1. PICK op \in {"COPY_FIRST", "SUM_RECV"} :
         /\ Takes(i, op)
         /\ op = "COPY_FIRST" => EngineCopyFirst(i)
         /\ op = "SUM_RECV" => EngineSumRecv(i)
  BY DEF EngineCopyFirst, EngineSumRecv
<1>2. /\ 1 \in DOMAIN queue[i] /\ queue[i][1] = Head(queue[i])
      /\ queue[i][1].ops = op /\ queue[i][1].key \in Keys
  BY <1>1, TakeAt
<1>3. PICK k \in Keys : k = queue[i][1].key
  BY <1>2
<1>4. MessageAt(i, 1, k) /\ queue[i][1].ops # "ALL_RECV"
  BY <1>2, <1>3 DEF MessageAt
<1>5. \A c \in Keys : ContentsOf(c) /\ OrderInv(c)
  BY DEF Contents, ContentsOf
<1>6. /\ \A n \in Threads : \A j : MessageAt(n, j, k) => n = i /\ j \in Nat \ {0}
      /\ \A n \in Threads : k \notin engine[n]
      /\ \E w \in Workers :
            /\ Counted(k, w) /\ queue[i][1].src = {Meta(k, w)}
            /\ \A j : MessageAt(i, j, k) /\ queue[i][j].src = {Meta(k, w)} => j = 1
      /\ \A j : MessageAt(i, j, k) /\ queue[i][j].ops = "COPY_FIRST" => j = 1
  BY <1>4, <1>5, FrontPush
<1>7. PICK w \in Workers :
         /\ Counted(k, w) /\ queue[i][1].src = {Meta(k, w)}
         /\ \A j : MessageAt(i, j, k) /\ queue[i][j].src = {Meta(k, w)} => j = 1
  BY <1>6
<1>8. /\ UNCHANGED <<stage, round, engine, merged, epoch>>
      /\ \A c \in Keys : c # k => stored'[c] = stored[c] /\ cbuf'[c] = cbuf[c]
      /\ stored'[k] = IF op = "COPY_FIRST" THEN {Meta(k, w)} ELSE stored[k] \union {Meta(k, w)}
      /\ cbuf'[k] \in {cbuf[k], {Meta(k, w)}}
  <2>1. stored \in [Keys -> Element] /\ cbuf \in [Keys -> Element]
    BY DEF TypeOK
  <2>2. CASE op = "COPY_FIRST"
    BY <1>1, <1>2, <1>3, <1>7, <2>1, <2>2 DEF EngineCopyFirst, Decompress, workerVars
  <2>3. CASE op = "SUM_RECV"
    BY <1>1, <1>2, <1>3, <1>7, <2>1, <2>3 DEF EngineSumRecv, Decompress, workerVars
  <2>4. QED
    BY <2>2, <2>3
<1>9. \A c \in Keys : /\ \A v \in Workers : /\ Counted(c, v)' <=> Counted(c, v)
                                            /\ Meta(c, v)' = Meta(c, v)
                      /\ StartedInv(c)'
  BY <1>5, <1>8 DEF Counted, Waits, Meta, StartedInv, ContentsOf
<1>10. ASSUME NEW c \in Keys, c # k
       PROVE  ContentsOf(c)'
  <2>1. ~MessageAt(i, 1, c)
    BY <1>3, <1>10 DEF MessageAt
  <2>2. /\ OrderInv(c)'
        /\ CopyPending(c)' <=> CopyPending(c)
        /\ \A v \in Workers : Meta(c, v)' = Meta(c, v) =>
              (SumPending(c, v)' <=> SumPending(c, v))
    BY <1>1, <1>5, <2>1, TakeOther
  <2>3. MergedTensor(c)' = MergedTensor(c)
    BY <1>8, <1>10 DEF MergedTensor
  <2>4. QED
    BY <1>5, <1>8, <1>9, <1>10, <2>2, <2>3, ContentFrame
<1>11. /\ OrderInv(k)'
       /\ CopyPending(k)' =>
             \E j : MessageAt(i, j, k) /\ j # 1 /\ queue[i][j].ops = "COPY_FIRST"
       /\ \A v \in Workers :
             SumPending(k, v)' <=> \E j : /\ MessageAt(i, j, k) /\ j # 1
                                         /\ queue[i][j].ops # "ALL_RECV"
                                         /\ queue[i][j].src = {Meta(k, v)}
  <2>1. /\ OrderInv(k)'
        /\ CopyPending(k)' <=>
              \E n \in Threads : \E j : /\ MessageAt(n, j, k) /\ ~(n = i /\ j = 1)
                                        /\ queue[n][j].ops = "COPY_FIRST"
        /\ \A v \in Workers : Meta(k, v)' = Meta(k, v) =>
              (SumPending(k, v)' <=>
                 \E n \in Threads : \E j : /\ MessageAt(n, j, k) /\ ~(n = i /\ j = 1)
                                           /\ queue[n][j].ops # "ALL_RECV"
                                           /\ queue[n][j].src = {Meta(k, v)})
    BY <1>1, <1>5, TakePending
  <2>2. QED
    BY <1>6, <1>9, <2>1
<1>12. ~CopyPending(k)'
  BY <1>6, <1>11
<1>13. ASSUME NEW v \in Workers
       PROVE  SumPending(k, v)' <=> SumPending(k, v) /\ v # w
  <2>1. CASE v = w
    BY <1>7, <1>11, <2>1
  <2>2. CASE v # w
    <3>1. Meta(k, v) # Meta(k, w)
      BY <2>2 DEF Meta
    <3>2. SumPending(k, v) <=> \E j : /\ MessageAt(i, j, k) /\ queue[i][j].ops # "ALL_RECV"
                                     /\ queue[i][j].src = {Meta(k, v)}
      <4>1. \A n \in Threads : \A j : MessageAt(n, j, k) => j \in DOMAIN queue[n]
        BY DEF MessageAt
      <4>2. QED
        BY <1>6, <4>1 DEF SumPending
    <3>3. queue[i][1].src # {Meta(k, v)}
      BY <1>7, <3>1
    <3>4. QED
      BY <1>11, <2>2, <3>2, <3>3
  <2>3. QED
    BY <2>1, <2>2
<1>14. ContentInv(k)
  BY <1>5 DEF ContentsOf
<1>15. stored'[k] = Summed(k)'
  <2>1. Summed(k)' = {Meta(k, v) : v \in {u \in Workers : Counted(k, u) /\ ~(SumPending(k, u) /\ u # w)}}
    <3>1. {u \in Workers : Counted(k, u)' /\ ~SumPending(k, u)'}
            = {u \in Workers : Counted(k, u) /\ ~(SumPending(k, u) /\ u # w)}
      BY <1>9, <1>13
    <3>2. QED
      BY <1>9, <3>1 DEF Summed
  <2>2. CASE op = "COPY_FIRST"
    <3>1. CopyPending(k)
      BY <1>2, <1>4, <2>2 DEF CopyPending, MessageAt
    <3>2. \A v \in Workers : Counted(k, v) => SumPending(k, v)
      BY <1>14, <3>1 DEF ContentInv
    <3>3. {u \in Workers : Counted(k, u) /\ ~(SumPending(k, u) /\ u # w)} = {w}
      BY <1>7, <3>2
    <3>4. QED
      BY <1>8, <2>1, <2>2, <3>3
  <2>3. CASE op = "SUM_RECV"
    <3>1. ~CopyPending(k)
      <4>1. ~\E n \in Threads : \E j : MessageAt(n, j, k) /\ queue[n][j].ops = "COPY_FIRST"
        BY <1>2, <1>6, <2>3
      <4>2. QED
        BY <4>1 DEF CopyPending
    <3>2. stored[k] = {Meta(k, v) : v \in {u \in Workers : Counted(k, u) /\ ~SumPending(k, u)}}
      BY <1>7, <1>14, <3>1 DEF ContentInv, Summed
    <3>3. {u \in Workers : Counted(k, u) /\ ~(SumPending(k, u) /\ u # w)}
            = {u \in Workers : Counted(k, u) /\ ~SumPending(k, u)} \union {w}
      BY <1>7
    <3>4. QED
      BY <1>8, <2>1, <2>3, <3>2, <3>3
  <2>4. QED
    BY <2>2, <2>3
<1>16. stored'[k] # {} /\ \A m \in stored'[k] : \E v \in Workers : Counted(k, v)' /\ m = Meta(k, v)'
  <2>1. stored'[k] # {}
    BY <1>8
  <2>2. \A m \in Summed(k)' : \E v \in Workers : Counted(k, v)' /\ m = Meta(k, v)'
    BY DEF Summed
  <2>3. QED
    BY <1>15, <2>1, <2>2
<1>17. ContentInv(k)'
  BY <1>12, <1>15, <1>16, <1>7, <1>9 DEF ContentInv
<1>18. ClosedInv(k)'
  BY <1>6, <1>8 DEF ClosedInv
<1>19. AnswerInv(k)'
  <2>1. AnswerInv(k)
    BY <1>5 DEF ContentsOf
  <2>2. CASE merged[k] = "cbuf" /\ cbuf'[k] = {Meta(k, w)}
    <3>1. MergedTensor(k)' = {Meta(k, w)}
      BY <1>8, <2>2 DEF MergedTensor
    <3>2. QED
      BY <1>7, <1>9, <3>1 DEF AnswerInv
  <2>3. CASE merged[k] = "cbuf" /\ cbuf'[k] = cbuf[k]
    <3>1. MergedTensor(k)' = MergedTensor(k)
      BY <1>8, <2>3 DEF MergedTensor
    <3>2. QED
      BY <1>8, <1>9, <2>1, <3>1 DEF AnswerInv
  <2>4. CASE merged[k] # "cbuf"
    <3>1. MergedTensor(k)' = stored'[k]
      BY <1>8, <2>4 DEF MergedTensor
    <3>2. QED
      BY <1>16, <3>1 DEF AnswerInv
  <2>5. QED
    BY <1>8, <2>2, <2>3, <2>4
<1>20. ContentsOf(k)'
  BY <1>9, <1>11, <1>17, <1>18, <1>19 DEF ContentsOf
<1>21. QED
  BY <1>10, <1>20 DEF Contents

\* A buffer whose round all workers are counted in, and that has no push
\* pending, holds the complete sum.
LEMMA CompleteBuffer ==
  ASSUME ServerAssumption, NEW k \in Keys, ContentInv(k), ~CopyPending(k),
         \A v \in Workers : Counted(k, v) /\ ~SumPending(k, v)
  PROVE  stored[k] = Sum(epoch[k] + 1)
<1>1. stored[k] = Summed(k)
  BY DEF ContentInv, ServerAssumption
<1>2. {v \in Workers : Counted(k, v) /\ ~SumPending(k, v)} = Workers
  OBVIOUS
<1>3. Summed(k) = {Meta(k, w) : w \in Workers}
  BY <1>2 DEF Summed
<1>4. \A w \in Workers : Meta(k, w) = <<w, epoch[k] + 1>>
  BY DEF Counted, Waits, Meta
<1>5. {Meta(k, w) : w \in Workers} = Workers \X {epoch[k] + 1}
  BY <1>4
<1>6. QED
  BY <1>1, <1>3, <1>5 DEF Sum

\* A key that a thread is closing holds the complete sum of the round.
LEMMA ClosedBuffer ==
  ASSUME ServerAssumption, TypeOK, Accounting, Contents, NEW i \in Threads, NEW k \in engine[i]
  PROVE  stored[k] = Sum(epoch[k] + 1)
<1>1. /\ k \in Keys
      /\ \A n \in Threads : \A j : ~MessageAt(n, j, k)
      /\ \A v \in Workers : Counted(k, v)
  BY EndOfRound
<1>2. ~CopyPending(k) /\ \A v \in Workers : ~SumPending(k, v)
  BY <1>1 DEF CopyPending, SumPending
<1>3. ContentInv(k)
  BY <1>1 DEF Contents, ContentsOf
<1>4. QED
  BY <1>1, <1>2, <1>3, CompleteBuffer

\* Setting merged at the end of a round keeps the contents.
LEMMA AllRecvContents ==
  ASSUME ServerAssumption, TypeOK, Accounting, Contents, Registered, NEW i \in Threads, EngineAllRecv(i)
  PROVE  Contents'
<1>1. Takes(i, "ALL_RECV") /\ engine[i] = {}
  BY DEF EngineAllRecv, Takes, AtFront
<1>2. /\ 1 \in DOMAIN queue[i] /\ queue[i][1] = Head(queue[i])
      /\ queue[i][1].ops = "ALL_RECV" /\ queue[i][1].key \in Keys
  BY <1>1, TakeAt
<1>3. PICK k \in Keys : k = queue[i][1].key
  BY <1>2
<1>4. /\ UNCHANGED <<stage, round, stored, epoch>>
      /\ engine' = [engine EXCEPT ![i] = {k}]
      /\ engine \in [Threads -> SUBSET Keys]
      /\ \A c \in Keys : c # k => merged'[c] = merged[c] /\ cbuf'[c] = cbuf[c]
      /\ MergedTensor(k)' = IF k \in compressor_map THEN Encode(stored[k]) ELSE stored[k]
  BY <1>2, <1>3 DEF EngineAllRecv, TypeOK, workerVars, storeVars, MergedTensor
<1>5. \A c \in Keys : /\ ContentsOf(c) /\ OrderInv(c)
                      /\ \A v \in Workers : /\ Counted(c, v)' <=> Counted(c, v)
                                            /\ Meta(c, v)' = Meta(c, v)
                      /\ StartedInv(c)'
  BY <1>4 DEF Contents, Counted, Waits, Meta, StartedInv, ContentsOf
<1>6. ASSUME NEW c \in Keys, c # k
      PROVE  ContentsOf(c)'
  <2>1. ~MessageAt(i, 1, c)
    BY <1>3, <1>6 DEF MessageAt
  <2>2. /\ OrderInv(c)'
        /\ CopyPending(c)' <=> CopyPending(c)
        /\ \A v \in Workers : Meta(c, v)' = Meta(c, v) =>
              (SumPending(c, v)' <=> SumPending(c, v))
    BY <1>1, <1>5, <2>1, TakeOther
  <2>3. MergedTensor(c)' = MergedTensor(c)
    BY <1>4, <1>6 DEF MergedTensor
  <2>4. \A n \in Threads : c \in engine'[n] <=> c \in engine[n]
    BY <1>1, <1>4, <1>6
  <2>5. QED
    BY <1>4, <1>5, <1>6, <2>2, <2>3, <2>4, ContentFrame
<1>7. MessageAt(i, 1, k) /\ Closing(k)
  BY <1>2, <1>3 DEF MessageAt, Closing
<1>8. \A v \in Workers : Counted(k, v)
  BY <1>7 DEF Accounting, KeyInv, CloseInv
<1>9. ASSUME NEW n \in Threads, NEW j, MessageAt(n, j, k)
      PROVE  n = i /\ j = 1
  <2>1. MessageInv(i, 1, k) /\ MessageInv(n, j, k)
    BY <1>7, <1>9 DEF Accounting, QueueInv, MessageAt
  <2>2. n = i
    BY <1>7, <1>9, <2>1 DEF MessageInv
  <2>3. j <= 1
    BY <1>2, <1>7, <1>9, <2>1, <2>2 DEF MessageInv, MessageAt
  <2>4. queue[n] \in Seq(EngineMessage) /\ j \in DOMAIN queue[n]
    BY <1>9 DEF TypeOK, MessageAt
  <2>5. QED
    BY <2>2, <2>3, <2>4
<1>10. ~CopyPending(k) /\ \A v \in Workers : ~SumPending(k, v)
  BY <1>2, <1>9 DEF CopyPending, SumPending
<1>11. OrderInv(k)' /\ ~CopyPending(k)' /\ \A v \in Workers : ~SumPending(k, v)'
  <2>1. \A n \in Threads : \A j : MessageAt(n, j, k) => (n = i /\ j = 1)
    BY <1>9
  <2>2. OrderInv(k)' /\ ~CopyPending(k)'
    BY <1>1, <1>5, <2>1, TakePending
  <2>3. ASSUME NEW v \in Workers
        PROVE  ~SumPending(k, v)'
    <3>1. SumPending(k, v)' <=>
             \E n \in Threads : \E j : /\ MessageAt(n, j, k) /\ ~(n = i /\ j = 1)
                                       /\ queue[n][j].ops # "ALL_RECV"
                                       /\ queue[n][j].src = {Meta(k, v)}
      <4>1. OrderInv(k) /\ Meta(k, v)' = Meta(k, v)
        BY <1>5
      <4>2. QED
        BY <1>1, <4>1, TakePending
    <3>2. QED
      <4> SUFFICES ASSUME SumPending(k, v)'
                   PROVE  FALSE
        OBVIOUS
      <4>1. PICK n \in Threads :
               \E j : MessageAt(n, j, k) /\ ~(n = i /\ j = 1)
        BY <3>1
      <4>2. QED
        BY <2>1, <4>1
  <2>4. QED
    BY <2>2, <2>3
<1>12. ContentInv(k)'
  <2>1. ContentInv(k)
    BY <1>5 DEF ContentsOf
  <2>2. {u \in Workers : Counted(k, u)' /\ ~SumPending(k, u)'}
          = {u \in Workers : Counted(k, u) /\ ~SumPending(k, u)}
    BY <1>5, <1>10, <1>11
  <2>3. Summed(k)' = Summed(k)
    BY <1>5, <2>2 DEF Summed
  <2>4. stored[k] = Summed(k) /\ stored[k] # {}
    BY <1>8, <1>10, <2>1 DEF ContentInv, ServerAssumption
  <2>5. QED
    BY <1>4, <1>5, <1>8, <1>11, <2>3, <2>4 DEF ContentInv, ServerAssumption
<1>13. ClosedInv(k)' /\ AnswerInv(k)'
  <2>1. PICK w \in Workers : Counted(k, w)
    BY <1>8 DEF ServerAssumption
  <2>2. stage[k][w] \notin Setup
    BY <2>1 DEF Counted, Waits, Setup, Registering
  <2>3. k \in compressor_map <=> k \in Compressed
    BY <2>2 DEF Registered, RegisteredInv
  <2>4. MergedTensor(k)' = AsSent(k, stored'[k])
    BY <1>4, <2>3 DEF AsSent
  <2>5. k \in engine'[i]
    BY <1>4
  <2>6. QED
    BY <2>4, <2>5 DEF ClosedInv, AnswerInv
<1>14. ContentsOf(k)'
  BY <1>5, <1>11, <1>12, <1>13 DEF ContentsOf
<1>15. QED
  BY <1>6, <1>14 DEF Contents

\* The end of a round keeps the contents: the buffer and the merged tensor are
\* the complete sum of the round that is now the last finished one.
LEMMA FinishContents ==
  ASSUME ServerAssumption, TypeOK, Accounting, Contents, NEW i \in Threads, EngineFinishRound(i)
  PROVE  Contents'
<1>1. PICK k \in engine[i] :
         /\ Respond(k, Served(k), "answered")
         /\ epoch' = [epoch EXCEPT ![k] = @ + 1]
  BY DEF EngineFinishRound
<1>2. /\ k \in Keys /\ engine[i] = {k}
      /\ \A n \in Threads : n # i => k \notin engine[n]
      /\ \A n \in Threads : \A j : ~MessageAt(n, j, k)
      /\ \A v \in Workers : Counted(k, v)
  BY EndOfRound
<1>3. /\ stage \in [Keys -> [Workers -> Stage]]
      /\ epoch \in [Keys -> Nat]
      /\ engine \in [Threads -> SUBSET Keys]
      /\ stored[k] = Sum(epoch[k] + 1)
  BY ClosedBuffer DEF TypeOK
<1>4. /\ UNCHANGED <<round, stored, queue, merged, cbuf>>
      /\ engine' = [engine EXCEPT ![i] = {}]
  BY DEF EngineFinishRound, storeVars
<1>5. /\ \A c \in Keys : c # k => stage'[c] = stage[c] /\ epoch'[c] = epoch[c]
      /\ epoch'[k] = epoch[k] + 1
      /\ \A v \in Workers : stage'[k][v] \in {stage[k][v], "answered"}
  BY <1>1, <1>2, <1>3 DEF Respond
<1>6. \A v \in Workers : round[k][v] = epoch[k] + 1
                        /\ stage[k][v] \in {"pushed", "pull", "pullHeld"}
  BY <1>2 DEF Counted, Waits
<1>7. \A v \in Workers : ~Counted(k, v)'
  <2>1. epoch'[k] + 1 # epoch[k] + 1
    BY <1>2, <1>3, <1>5
  <2>2. QED
    BY <1>4, <1>6, <2>1 DEF Counted, Waits
<1>8. \A c \in Keys : StartedInv(c)'
  <2>1. \A c \in Keys : StartedInv(c)
    BY DEF Contents, ContentsOf
  <2>2. QED
    BY <1>4, <1>5, <1>6, <2>1 DEF StartedInv
<1>9. ASSUME NEW c \in Keys
      PROVE  \A n \in Threads : \A j : /\ MessageAt(n, j, c)' <=> MessageAt(n, j, c)
                                       /\ MessageAt(n, j, c) => queue'[n][j] = queue[n][j]
  BY <1>4 DEF MessageAt
<1>10. ASSUME NEW c \in Keys, c # k
       PROVE  ContentsOf(c)'
  <2>1. ContentsOf(c)
    BY DEF Contents
  <2>2. \A v \in Workers : /\ Counted(c, v)' <=> Counted(c, v)
                           /\ Counted(c, v) => Meta(c, v)' = Meta(c, v)
    BY <1>4, <1>5, <1>10 DEF Counted, Waits, Meta
  <2>3. \A n \in Threads : c \in engine'[n] <=> c \in engine[n]
    BY <1>2, <1>3, <1>4, <1>10
  <2>4. QED
    BY <1>4, <1>5, <1>8, <1>9, <1>10, <2>1, <2>2, <2>3, QuietKey
<1>11. \A n \in Threads : k \notin engine'[n]
  BY <1>2, <1>3, <1>4
<1>12. MergedTensor(k)' = AsSent(k, stored[k])
  <2>1. MergedTensor(k) = AsSent(k, stored[k])
    BY <1>2 DEF Contents, ContentsOf, ClosedInv
  <2>2. QED
    BY <1>4, <2>1 DEF MergedTensor
<1>13. stored'[k] = Sum(epoch'[k])
  BY <1>3, <1>4, <1>5
<1>14. OrderInv(k)'
  BY <1>2, <1>9, SameMessages DEF Contents, ContentsOf
<1>15. ContentInv(k)'
  BY <1>7, <1>13 DEF ContentInv, Sum
<1>16. ClosedInv(k)' /\ AnswerInv(k)'
  BY <1>4, <1>11, <1>12, <1>13 DEF ClosedInv, AnswerInv, Sum
<1>17. ContentsOf(k)'
  BY <1>2, <1>8, <1>14, <1>15, <1>16 DEF ContentsOf
<1>18. QED
  BY <1>10, <1>17 DEF Contents

-----------------------------------------------------------------------------
(* The registration of the compressors.                                    *)

\* A worker leaves the setup of a key with the answer to its init push, if the
\* key has no compressor, or to its registration.
LEMMA RegisteredStep ==
  ASSUME TypeOK, Accounting, Registered, [Next]_vars
  PROVE  Registered'
<1>1. stage \in [Keys -> [Workers -> Stage]] /\ compressor_map \subseteq Keys
  BY DEF TypeOK
<1>2. ASSUME compressor_map' = compressor_map,
             \A c \in Keys, v \in Workers :
                \/ stage'[c][v] = stage[c][v]
                \/ stage[c][v] \in Registering /\ stage'[c][v] \in Registering
                \/ stage[c][v] \notin Setup /\ stage'[c][v] \notin Setup
                \/ stage'[c][v] \in {"init", "initHeld"}
      PROVE  Registered'
  BY <1>2 DEF Registered, RegisteredInv, Setup, Registering
<1>3. ASSUME NEW k \in Keys, NEW w \in Workers, Worker(k, w)
      PROVE  Registered'
  <2>1. /\ compressor_map' = compressor_map
        /\ \A c \in Keys, v \in Workers :
              \/ stage'[c][v] = stage[c][v]
              \/ stage'[c][v] = "init"
              \/ stage[c][v] = "inited" /\ stage'[c][v] = "register"
              \/ stage[c][v] = "ready" /\ stage'[c][v] = "push"
              \/ stage[c][v] = "pushed" /\ stage'[c][v] = "pull"
              \/ stage[c][v] = "answered" /\ stage'[c][v] = "ready"
    BY <1>1, <1>3 DEF Worker, IssueInit, IssueRegister, IssuePush, IssuePull, Receive,
       Goes, storeVars
  <2>2. QED
    BY <1>2, <2>1 DEF Setup, Registering
<1>4. ASSUME NEW k \in Keys, NEW w \in Workers, HandleInitPush(k, w)
      PROVE  Registered'
  <2>1. /\ compressor_map' = compressor_map
        /\ \A c \in Keys, v \in Workers :
              \/ stage'[c][v] = stage[c][v]
              \/ stage'[c][v] = "initHeld"
              \/ c = k /\ stage'[c][v] = AfterInit(k)
    BY <1>1, <1>4 DEF HandleInitPush, Goes, Respond
  <2>2. AfterInit(k) = IF k \in Compressed THEN "inited" ELSE "ready"
    BY DEF AfterInit
  <2>3. QED
    BY <2>1, <2>2 DEF Registered, RegisteredInv, Setup, Registering
<1>5. ASSUME NEW k \in Keys, NEW w \in Workers, HandleRegister(k, w)
      PROVE  Registered'
  <2>1. /\ compressor_map' = compressor_map \union {k} /\ stage[k][w] = "register"
        /\ \A c \in Keys, v \in Workers :
              \/ stage'[c][v] = stage[c][v]
              \/ c = k /\ stage'[c][v] \in {"registerHeld", "ready"}
    BY <1>1, <1>5 DEF HandleRegister, Goes, Respond
  <2>2. k \in Compressed
    BY <2>1 DEF Registered, RegisteredInv, Registering
  <2>3. QED
    BY <2>1, <2>2 DEF Registered, RegisteredInv
<1>6. ASSUME NEW k \in Keys, NEW w \in Workers, Handle(k, w)
      PROVE  Registered'
  <2>1. CASE \/ HandlePush(k, w) \/ HandlePushAsync(k, w) \/ PullAborts(k, w)
             \/ HandlePull(k, w) \/ HoldPull(k, w)
    <3>1. /\ compressor_map' = compressor_map
          /\ \A c \in Keys, v \in Workers :
                \/ stage'[c][v] = stage[c][v]
                \/ /\ stage[c][v] \in {"push", "pull"}
                   /\ stage'[c][v] \in {"pushed", "answered", "pullHeld"}
      BY <1>1, <2>1 DEF HandlePush, HandlePushAsync, PullAborts, HandlePull, HoldPull,
         Goes, workerVars, storeVars
    <3>2. QED
      BY <1>2, <3>1 DEF Setup, Registering
  <2>2. QED
    BY <1>4, <1>5, <1>6, <2>1 DEF Handle
<1>7. ASSUME NEW i \in Threads, Engine(i)
      PROVE  Registered'
  <2>1. CASE EngineFinishRound(i)
    <3>1. PICK k \in engine[i] : Respond(k, Served(k), "answered")
      BY <2>1 DEF EngineFinishRound
    <3>2. k \in Keys /\ compressor_map' = compressor_map
      BY <2>1 DEF TypeOK, EngineFinishRound, storeVars
    <3>3. \A v \in Workers : Meta(k, v) \in Served(k) => stage[k][v] = "pullHeld"
      BY <3>2 DEF Accounting, KeyInv, HeldInv, Served, Meta
    <3>4. QED
      BY <1>1, <1>2, <3>1, <3>2, <3>3 DEF Respond, Setup, Registering
  <2>2. CASE UNCHANGED <<stage, compressor_map>>
    BY <1>2, <2>2
  <2>3. QED
    BY <1>7, <2>1, <2>2 DEF Engine, EngineCopyFirst, EngineSumRecv, EngineAllRecv,
       EngineAborts, EngineTerminate, workerVars, storeVars
<1>8. CASE Finalize \/ Quit \/ UNCHANGED vars
  BY <1>2, <1>8 DEF Finalize, Quit, vars, workerVars, storeVars
<1>9. QED
  BY <1>3, <1>6, <1>7, <1>8 DEF Next

\* Which keys have a compressor is settled before their rounds begin.
THEOREM RegisteredCorrect == SyncMode => (Spec => []Registered)
<1>1. Init => Registered
  BY DEF Init, Registered, RegisteredInv, Setup, Registering
<1>2. TypeOK /\ Accounting /\ Registered /\ [Next]_vars => Registered'
  BY RegisteredStep
<1>3. ASSUME SyncMode
      PROVE  Spec => []Registered
  BY <1>1, <1>2, <1>3, TypeCorrect, AccountingCorrect, PTL DEF Spec
<1>4. QED
  BY <1>3

-----------------------------------------------------------------------------
(* All steps, and the theorems.                                            *)

\* Every step of a server in sync mode keeps the contents.
LEMMA ContentsStep ==
  ASSUME ServerAssumption, SyncMode, TypeOK, Accounting, Contents, Registered, [Next]_vars
  PROVE  Contents'
<1>1. ASSUME UNCHANGED <<stage, round, stored, merged, cbuf, engine, epoch>>,
             \A c \in Keys : \A n \in Threads : \A j :
                /\ MessageAt(n, j, c)' <=> MessageAt(n, j, c)
                /\ MessageAt(n, j, c) => queue'[n][j] = queue[n][j]
      PROVE  Contents'
  <2>1. \A c \in Keys : \A v \in Workers :
           /\ Counted(c, v)' <=> Counted(c, v)
           /\ Counted(c, v) => Meta(c, v)' = Meta(c, v)
    BY <1>1 DEF Counted, Waits, Meta
  <2>2. \A c \in Keys : StartedInv(c)'
    BY <1>1 DEF Contents, ContentsOf, StartedInv
  <2>3. QED
    BY <1>1, <2>1, <2>2, QuietContents
<1>2. ASSUME UNCHANGED <<stage, round, stored, merged, cbuf, engine, epoch, queue>>
      PROVE  Contents'
  BY <1>1, <1>2 DEF MessageAt
<1>3. ASSUME NEW k \in Keys, NEW w \in Workers, Worker(k, w)
      PROVE  Contents'
  BY <1>3, WorkerContents
<1>4. ASSUME NEW k \in Keys, NEW w \in Workers, Handle(k, w)
      PROVE  Contents'
  <2>1. CASE HandleInitPush(k, w) \/ HandleRegister(k, w)
    BY <2>1, InitContents
  <2>2. CASE HandlePush(k, w)
    BY <2>2, PushContents
  <2>3. CASE HandlePushAsync(k, w)
    BY <2>3 DEF HandlePushAsync
  <2>4. CASE PullAborts(k, w)
    BY <1>2, <2>4 DEF PullAborts, workerVars, storeVars, engineVars
  <2>5. CASE HandlePull(k, w) \/ HoldPull(k, w)
    BY <2>5, PullContents
  <2>6. QED
    BY <1>4, <2>1, <2>2, <2>3, <2>4, <2>5 DEF Handle
<1>5. ASSUME NEW i \in Threads, Takes(i, "TERMINATE"),
             UNCHANGED <<stage, round, stored, merged, cbuf, engine, epoch>>
      PROVE  Contents'
  <2>1. ASSUME NEW c \in Keys
        PROVE  ContentsOf(c)'
    <3>1. ContentsOf(c) /\ OrderInv(c)
      BY DEF Contents, ContentsOf
    <3>2. ~MessageAt(i, 1, c)
      BY <1>5, TakeAt DEF MessageAt
    <3>3. /\ OrderInv(c)'
          /\ CopyPending(c)' <=> CopyPending(c)
          /\ \A v \in Workers : Meta(c, v)' = Meta(c, v) =>
                (SumPending(c, v)' <=> SumPending(c, v))
      BY <1>5, <3>1, <3>2, TakeOther
    <3>4. /\ \A v \in Workers : (Counted(c, v)' <=> Counted(c, v)) /\ Meta(c, v)' = Meta(c, v)
          /\ StartedInv(c)' /\ MergedTensor(c)' = MergedTensor(c)
      BY <1>5, <3>1 DEF Counted, Waits, Meta, ContentsOf, StartedInv, MergedTensor
    <3>5. QED
      BY <1>5, <3>1, <3>3, <3>4, ContentFrame
  <2>2. QED
    BY <2>1 DEF Contents
<1>6. ASSUME NEW i \in Threads, Engine(i)
      PROVE  Contents'
  <2>1. CASE EngineCopyFirst(i) \/ EngineSumRecv(i)
    BY <2>1, SumContents
  <2>2. CASE EngineAllRecv(i)
    BY <2>2, AllRecvContents
  <2>3. CASE EngineFinishRound(i)
    BY <2>3, FinishContents
  <2>4. CASE EngineAborts(i)
    BY <1>2, <2>4 DEF EngineAborts, workerVars, storeVars, engineVars
  <2>5. CASE EngineTerminate(i)
    BY <1>5, <2>5 DEF EngineTerminate, workerVars, storeVars
  <2>6. QED
    BY <1>6, <2>1, <2>2, <2>3, <2>4, <2>5 DEF Engine
<1>7. CASE Finalize
  BY <1>1, <1>7, FinalizeMessages DEF Finalize, workerVars, storeVars
<1>8. CASE Quit \/ UNCHANGED vars
  BY <1>2, <1>8 DEF Quit, vars, workerVars, storeVars, engineVars
<1>9. QED
  BY <1>3, <1>4, <1>6, <1>7, <1>8 DEF Next

\* The contents are right when the server starts.
LEMMA ContentsInit ==
  ASSUME Init
  PROVE  Contents
<1>1. /\ \A k \in Keys, w \in Workers : stage[k][w] = "start"
      /\ \A k \in Keys : epoch[k] = 0
      /\ \A i \in Threads : queue[i] = << >> /\ engine[i] = {}
  BY DEF Init
<1>2. \A i \in Threads : DOMAIN queue[i] = {}
  BY <1>1
<1>3. \A k \in Keys, w \in Workers : ~Counted(k, w)
  BY <1>1 DEF Counted, Waits
<1>4. ASSUME NEW k \in Keys
      PROVE  ContentsOf(k)
  <2>1. OrderInv(k)
    BY <1>2 DEF OrderInv
  <2>2. ContentInv(k) /\ ClosedInv(k) /\ AnswerInv(k)
    BY <1>1, <1>3 DEF ContentInv, ClosedInv, AnswerInv
  <2>3. StartedInv(k)
    BY <1>1 DEF StartedInv
  <2>4. QED
    BY <2>1, <2>2, <2>3 DEF ContentsOf
<1>5. QED
  BY <1>4 DEF Contents

\* The buffers, the compressors' outputs and the queued pushes of a server in
\* sync mode hold what the rounds of the workers call for, in every reachable
\* state (server.cc:100-170, 360-400).
THEOREM ContentsCorrect == SyncMode => (Spec => []Contents)
<1>1. Init => Contents
  BY ContentsInit
<1>2. ASSUME SyncMode
      PROVE  TypeOK /\ Accounting /\ Contents /\ Registered /\ [Next]_vars => Contents'
  BY <1>2, ContentsStep, ServerAssumption
<1>3. ASSUME SyncMode
      PROVE  Spec => []Contents
  BY <1>1, <1>2, <1>3, TypeCorrect, AccountingCorrect, RegisteredCorrect, PTL DEF Spec
<1>4. QED
  BY <1>3

\* A round is declared finished over the complete sum (server.cc:147-176).
THEOREM SumCompleteCorrect == SyncMode => (Spec => []SumComplete)
<1>1. TypeOK /\ Accounting /\ Contents => SumComplete
  BY ClosedBuffer, ServerAssumption DEF SumComplete
<1>2. QED
  BY <1>1, TypeCorrect, AccountingCorrect, ContentsCorrect, PTL

-----------------------------------------------------------------------------
(* The answers.                                                            *)

\* What a worker receives: the sum of its round, or contributions of other
\* workers to the round that is being collected.
LEMMA Received ==
  ASSUME ServerAssumption, TypeOK, Accounting, Contents,
         NEW k \in Keys, NEW w \in Workers, stage[k][w] = "answered"
  PROVE  /\ round[k][w] = epoch[k] /\ round[k][w] \in Nat \ {0}
         /\ \A v \in Workers : round[k][v] = epoch[k] \/ round[k][v] = epoch[k] + 1
         /\ \/ MergedTensor(k) = AsSent(k, Sum(round[k][w]))
            \/ /\ MergedTensor(k) # {}
               /\ \A m \in MergedTensor(k) :
                     \E v \in Workers \ {w} : Counted(k, v) /\ m = <<v, round[k][w] + 1>>
<1>1. TrainPhase(k)
  BY DEF Accounting, KeyInv, PhaseInv, InitPhase, RegisterPhase
<1>2. ~Counted(k, w) /\ round[k][w] = epoch[k]
  BY <1>1 DEF TrainPhase, Counted, Waits, Late, Between
<1>3. \A v \in Workers : round[k][v] = epoch[k] \/ round[k][v] = epoch[k] + 1
  BY <1>1 DEF TrainPhase, Counted, Waits, Late, Between
<1>4. round[k][w] \in Nat \ {0}
  <2>1. round[k][w] \in Nat
    BY DEF TypeOK, Rounds, ServerAssumption
  <2>2. StartedInv(k)
    BY DEF Contents, ContentsOf
  <2>3. QED
    BY <2>1, <2>2 DEF StartedInv
<1>5. \A n \in Threads : k \notin engine[n]
  BY <1>2, EndOfRound
<1>6. AnswerInv(k) /\ epoch[k] > 0
  BY <1>2, <1>4 DEF Contents, ContentsOf
<1>7. \A v \in Workers : Counted(k, v) => v # w /\ Meta(k, v) = <<v, round[k][w] + 1>>
  BY <1>2 DEF Counted, Waits, Meta
<1>8. QED
  BY <1>2, <1>3, <1>4, <1>5, <1>6, <1>7 DEF AnswerInv

\* A worker is ready by a pull it receives, or before its first round.
LEMMA ReadyStep ==
  ASSUME ServerAssumption, SyncMode, TypeOK, Accounting, [Next]_vars,
         ~\E c \in Keys, v \in Workers : Receive(c, v)
  PROVE  /\ got' = got
         /\ \A c \in Keys, v \in Workers : stage'[c][v] = "ready" =>
               \/ stage[c][v] = "ready" /\ round'[c][v] = round[c][v]
               \/ round'[c][v] = 0
<1>1. /\ stage \in [Keys -> [Workers -> Stage]]
      /\ round \in [Keys -> [Workers -> Nat]]
  BY DEF TypeOK, Rounds, ServerAssumption
<1>2. ASSUME NEW k \in Keys, NEW w \in Workers, Worker(k, w)
      PROVE  /\ got' = got
             /\ \A c \in Keys, v \in Workers : stage'[c][v] = "ready" =>
                   stage[c][v] = "ready" /\ round'[c][v] = round[c][v]
  BY <1>1, <1>2 DEF Worker, IssueInit, IssueRegister, IssuePush, IssuePull, Goes
<1>3. ASSUME NEW k \in Keys, NEW w \in Workers, HandleInitPush(k, w) \/ HandleRegister(k, w)
      PROVE  /\ got' = got
             /\ \A c \in Keys, v \in Workers : stage'[c][v] = "ready" =>
                   \/ stage[c][v] = "ready" /\ round'[c][v] = round[c][v]
                   \/ round'[c][v] = 0
  <2>1. PhaseInv(k) /\ stage[k][w] \in {"init", "register"}
    BY <1>3 DEF Accounting, KeyInv, HandleInitPush, HandleRegister
  <2>2. \A v \in Workers : round[k][v] = 0
    BY <2>1 DEF PhaseInv, InitPhase, RegisterPhase, TrainPhase, Counted, Waits, Late, Between
  <2>3. /\ UNCHANGED <<round, got>>
        /\ \A c \in Keys : c # k => stage'[c] = stage[c]
    BY <1>1, <1>3 DEF HandleInitPush, HandleRegister, Goes, Respond
  <2>4. QED
    BY <2>2, <2>3
<1>4. ASSUME NEW k \in Keys, NEW w \in Workers, Handle(k, w)
      PROVE  /\ got' = got
             /\ \A c \in Keys, v \in Workers : stage'[c][v] = "ready" =>
                   \/ stage[c][v] = "ready" /\ round'[c][v] = round[c][v]
                   \/ round'[c][v] = 0
  <2>1. CASE HandlePush(k, w) \/ HandlePull(k, w) \/ HoldPull(k, w) \/ PullAborts(k, w)
    BY <1>1, <2>1 DEF HandlePush, HandlePull, HoldPull, PullAborts, Goes, workerVars
  <2>2. CASE HandlePushAsync(k, w)
    BY <2>2 DEF HandlePushAsync
  <2>3. QED
    BY <1>3, <1>4, <2>1, <2>2 DEF Handle
<1>5. ASSUME NEW i \in Threads, Engine(i)
      PROVE  /\ UNCHANGED <<round, got>>
             /\ \A c \in Keys, v \in Workers : stage'[c][v] = "ready" => stage[c][v] = "ready"
  <2>1. CASE EngineFinishRound(i)
    <3>1. PICK k \in engine[i] : Respond(k, Served(k), "answered")
      BY <2>1 DEF EngineFinishRound
    <3>2. k \in Keys /\ UNCHANGED <<round, got>>
      BY <2>1 DEF TypeOK, EngineFinishRound
    <3>3. QED
      BY <1>1, <3>1, <3>2 DEF Respond
  <2>2. CASE UNCHANGED <<stage, round, got>>
    BY <2>2
  <2>3. QED
    BY <1>5, <2>1, <2>2 DEF Engine, EngineCopyFirst, EngineSumRecv, EngineAllRecv,
       EngineAborts, EngineTerminate, workerVars
<1>6. CASE Finalize \/ Quit \/ UNCHANGED vars
  BY <1>6 DEF Finalize, Quit, vars, workerVars
<1>7. QED
  BY <1>2, <1>4, <1>5, <1>6 DEF Next

\* Every step of a server in sync mode keeps the answers within one round.
LEMMA AnswerStep ==
  ASSUME ServerAssumption, SyncMode, TypeOK, Accounting, Contents, ElementOfOneRound,
         [Next]_vars
  PROVE  ElementOfOneRound'
<1>1. ASSUME NEW k \in Keys, NEW w \in Workers, Receive(k, w)
      PROVE  ElementOfOneRound'
  <2>1. /\ stage[k][w] = "answered" /\ round' = round
        /\ got' = [got EXCEPT ![k][w] = MergedTensor(k)]
        /\ stage' = [stage EXCEPT ![k][w] = "ready"]
    BY <1>1 DEF Receive, Goes
  <2>2. stage \in [Keys -> [Workers -> Stage]] /\ got \in [Keys -> [Workers -> Element]]
    BY DEF TypeOK
  <2>3. \/ MergedTensor(k) = AsSent(k, Sum(round[k][w]))
        \/ /\ MergedTensor(k) # {}
           /\ MergedTensor(k) \subseteq (Workers \ {w}) \X {round[k][w] + 1}
    BY <2>1, Received
  <2>4. \A c \in Keys, v \in Workers :
           IF c = k /\ v = w THEN got'[c][v] = MergedTensor(k)
           ELSE got'[c][v] = got[c][v] /\ stage'[c][v] = stage[c][v]
    BY <2>1, <2>2
  <2>5. ASSUME NEW c \in Keys, NEW v \in Workers, stage'[c][v] = "ready", round'[c][v] > 0
        PROVE  \/ got'[c][v] = AsSent(c, Sum(round'[c][v]))
               \/ /\ got'[c][v] # {}
                  /\ got'[c][v] \subseteq (Workers \ {v}) \X {round'[c][v] + 1}
    BY <2>1, <2>3, <2>4, <2>5 DEF ElementOfOneRound
  <2>6. QED
    BY <2>5 DEF ElementOfOneRound, AsSent, Encode, Sum
<1>2. CASE ~\E c \in Keys, v \in Workers : Receive(c, v)
  <2>1. /\ got' = got
        /\ \A c \in Keys, v \in Workers : stage'[c][v] = "ready" =>
              \/ stage[c][v] = "ready" /\ round'[c][v] = round[c][v]
              \/ round'[c][v] = 0
    BY <1>2, ReadyStep
  <2>2. ASSUME NEW c \in Keys, NEW v \in Workers, stage'[c][v] = "ready", round'[c][v] > 0
        PROVE  \/ got'[c][v] = AsSent(c, Sum(round'[c][v]))
               \/ /\ got'[c][v] # {}
                  /\ got'[c][v] \subseteq (Workers \ {v}) \X {round'[c][v] + 1}
    BY <2>1, <2>2 DEF ElementOfOneRound
  <2>3. QED
    BY <2>2 DEF ElementOfOneRound, AsSent, Encode, Sum
<1>3. QED
  BY <1>1, <1>2

\* In no element of the tensor does a pull return an older round, a part of its
\* own round, or the worker's own contribution to a round it has not had; an
\* element holds the sum asked for, in the form expected, or contributions of
\* the next round (server.cc:44-60, 143, 161, 205, 446-469).
THEOREM AnswerCorrect == SyncMode => (Spec => []ElementOfOneRound)
<1>1. Init => ElementOfOneRound
  BY DEF Init, ElementOfOneRound
<1>2. ASSUME SyncMode
      PROVE  TypeOK /\ Accounting /\ Contents /\ ElementOfOneRound /\ [Next]_vars
               => ElementOfOneRound'
  BY <1>2, AnswerStep, ServerAssumption
<1>3. ASSUME SyncMode
      PROVE  Spec => []ElementOfOneRound
  BY <1>1, <1>2, <1>3, TypeCorrect, AccountingCorrect, ContentsCorrect, PTL DEF Spec
<1>4. QED
  BY <1>3

-----------------------------------------------------------------------------
(* The server implements the all-reduce.                                   *)

\* Two tables of rounds that agree everywhere are equal, and one that differs
\* in one place is an update.
LEMMA TableUpdate ==
  ASSUME NEW f \in [Keys -> [Workers -> Int]], NEW g \in [Keys -> [Workers -> Int]]
  PROVE  /\ (\A c \in Keys, v \in Workers : g[c][v] = f[c][v]) => g = f
         /\ \A k \in Keys, w \in Workers : \A x \in Int :
               (\A c \in Keys, v \in Workers :
                   g[c][v] = IF c = k /\ v = w THEN x ELSE f[c][v])
               => g = [f EXCEPT ![k][w] = x]
<1>1. ASSUME NEW h \in [Keys -> [Workers -> Int]],
             \A c \in Keys, v \in Workers : g[c][v] = h[c][v]
      PROVE  g = h
  <2>1. \A c \in Keys : g[c] = h[c]
    BY <1>1
  <2>2. QED
    BY <1>1, <2>1
<1>2. ASSUME NEW k \in Keys, NEW w \in Workers, NEW x \in Int,
             \A c \in Keys, v \in Workers :
                g[c][v] = IF c = k /\ v = w THEN x ELSE f[c][v]
      PROVE  g = [f EXCEPT ![k][w] = x]
  <2>1. [f EXCEPT ![k][w] = x] \in [Keys -> [Workers -> Int]]
    OBVIOUS
  <2>2. \A c \in Keys, v \in Workers : g[c][v] = [f EXCEPT ![k][w] = x][c][v]
    BY <1>2
  <2>3. QED
    BY <2>1, <2>2, <1>1
<1>3. QED
  BY <1>1, <1>2

\* The rounds that the abstract worker has contributed to and has the answer of,
\* before and after a step.
LEMMA MappedRounds ==
  ASSUME ServerAssumption, TypeOK, TypeOK'
  PROVE  /\ Contributed \in [Keys -> [Workers -> Int]]
         /\ Contributed' \in [Keys -> [Workers -> Int]]
         /\ Answered \in [Keys -> [Workers -> Int]]
         /\ Answered' \in [Keys -> [Workers -> Int]]
         /\ \A c \in Keys, v \in Workers :
               /\ Contributed[c][v] =
                     IF stage[c][v] = "push" THEN round[c][v] - 1 ELSE round[c][v]
               /\ Contributed'[c][v] =
                     IF stage'[c][v] = "push" THEN round'[c][v] - 1 ELSE round'[c][v]
               /\ Answered[c][v] =
                     IF stage[c][v] \in {"push", "pushed", "pull", "pullHeld", "answered"}
                     THEN round[c][v] - 1 ELSE round[c][v]
               /\ Answered'[c][v] =
                     IF stage'[c][v] \in {"push", "pushed", "pull", "pullHeld", "answered"}
                     THEN round'[c][v] - 1 ELSE round'[c][v]
<1>1. /\ round \in [Keys -> [Workers -> Int]]
      /\ round' \in [Keys -> [Workers -> Int]]
  BY DEF TypeOK, Rounds, ServerAssumption
<1>2. QED
  BY <1>1 DEF Contributed, Answered

\* A step in which no worker contributes or is answered.
LEMMA StutterStep ==
  ASSUME ServerAssumption, TypeOK, TypeOK', got' = got,
         \A c \in Keys, v \in Workers :
            \/ stage'[c][v] = stage[c][v] /\ round'[c][v] = round[c][v]
            \/ /\ round'[c][v] = round[c][v]
               /\ stage'[c][v] \in {"pushed", "pull", "pullHeld", "answered"}
               /\ stage[c][v] \in {"pushed", "pull", "pullHeld", "answered"}
            \/ /\ round'[c][v] = round[c][v]
               /\ \A s \in {stage[c][v], stage'[c][v]} :
                     s \notin {"push", "pushed", "pull", "pullHeld", "answered"}
            \/ /\ stage[c][v] = "ready" /\ stage'[c][v] = "push"
               /\ round'[c][v] = round[c][v] + 1
  PROVE  UNCHANGED Abstract!vars
<1>1. \A c \in Keys, v \in Workers : /\ Contributed'[c][v] = Contributed[c][v]
                                     /\ Answered'[c][v] = Answered[c][v]
  <2>1. ASSUME NEW c \in Keys, NEW v \in Workers
        PROVE  /\ Contributed'[c][v] = Contributed[c][v]
               /\ Answered'[c][v] = Answered[c][v]
    <3>1. round[c][v] \in Int
      BY DEF TypeOK, Rounds, ServerAssumption
    <3>2. /\ Contributed[c][v] =
                IF stage[c][v] = "push" THEN round[c][v] - 1 ELSE round[c][v]
          /\ Contributed'[c][v] =
                IF stage'[c][v] = "push" THEN round'[c][v] - 1 ELSE round'[c][v]
          /\ Answered[c][v] =
                IF stage[c][v] \in {"push", "pushed", "pull", "pullHeld", "answered"}
                THEN round[c][v] - 1 ELSE round[c][v]
          /\ Answered'[c][v] =
                IF stage'[c][v] \in {"push", "pushed", "pull", "pullHeld", "answered"}
                THEN round'[c][v] - 1 ELSE round'[c][v]
      BY MappedRounds
    <3>3. QED
      BY <3>1, <3>2
  <2>2. QED
    BY <2>1
<1>2. Contributed' = Contributed /\ Answered' = Answered
  BY <1>1, MappedRounds, TableUpdate
<1>3. Gotten' = Gotten
  BY DEF Gotten
<1>4. QED
  BY <1>2, <1>3 DEF Abstract!vars

\* The handler's acknowledgement of a push is the worker's contribution.
LEMMA ContributeStep ==
  ASSUME ServerAssumption, TypeOK, TypeOK',
         NEW k \in Keys, NEW w \in Workers, HandlePush(k, w)
  PROVE  Abstract!Contribute(k, w)
<1>1. /\ stage[k][w] = "push" /\ stage' = [stage EXCEPT ![k][w] = "pushed"]
      /\ round' = round /\ got' = got
  BY DEF HandlePush, Goes
<1>2. /\ stage \in [Keys -> [Workers -> Stage]]
      /\ round[k][w] \in 0 .. MaxRound /\ MaxRound \in Nat
  BY DEF TypeOK, Rounds, ServerAssumption
<1>3. \A c \in Keys, v \in Workers :
         stage'[c][v] = IF c = k /\ v = w THEN "pushed" ELSE stage[c][v]
  BY <1>1, <1>2
<1>4. /\ Contributed[k][w] = round[k][w] - 1
      /\ Answered[k][w] = round[k][w] - 1
  BY <1>1, MappedRounds
<1>5. /\ Answered[k][w] = Contributed[k][w]
      /\ Contributed[k][w] < MaxRound
      /\ Contributed[k][w] + 1 \in Int
  BY <1>2, <1>4
<1>6. \A c \in Keys, v \in Workers :
         Contributed'[c][v] = IF c = k /\ v = w THEN Contributed[k][w] + 1
                              ELSE Contributed[c][v]
  <2>1. Contributed'[k][w] = round[k][w]
    BY <1>1, <1>3, MappedRounds
  <2>2. Contributed'[k][w] = Contributed[k][w] + 1
    BY <1>2, <1>4, <2>1
  <2>3. ASSUME NEW c \in Keys, NEW v \in Workers, c # k \/ v # w
        PROVE  Contributed'[c][v] = Contributed[c][v]
    <3>1. /\ round'[c][v] = round[c][v]
          /\ stage'[c][v] = "push" <=> stage[c][v] = "push"
      BY <1>1, <1>3, <2>3
    <3>2. QED
      BY <3>1, MappedRounds
  <2>4. QED
    BY <2>2, <2>3
<1>7. \A c \in Keys, v \in Workers : Answered'[c][v] = Answered[c][v]
  <2>1. ASSUME NEW c \in Keys, NEW v \in Workers
        PROVE  Answered'[c][v] = Answered[c][v]
    BY <1>1, <1>3, MappedRounds
  <2>2. QED
    BY <2>1
<1>8. /\ Contributed' = [Contributed EXCEPT ![k][w] = Contributed[k][w] + 1]
      /\ Answered' = Answered
  BY <1>5, <1>6, <1>7, MappedRounds, TableUpdate
<1>9. Gotten' = Gotten
  BY <1>1 DEF Gotten
<1>10. QED
  BY <1>5, <1>8, <1>9 DEF Abstract!Contribute

\* What a worker gets, with the form taken off.
LEMMA PlainSum ==
  ASSUME NEW k \in Keys, NEW r
  PROVE  Plain(AsSent(k, Sum(r))) = Sum(r)
<1>1. \A m \in Sum(r) : m = <<m[1], m[2]>>
  BY DEF Sum
<1>2. \A m \in Encode(Sum(r)) : <<m[1], m[2]>> \in Sum(r)
  BY <1>1 DEF Encode
<1>3. ASSUME NEW c \in Sum(r)
      PROVE  \E m \in Encode(Sum(r)) : c = <<m[1], m[2]>>
  <2>1. <<c[1], c[2], "encoded">> \in Encode(Sum(r))
    BY DEF Encode
  <2>2. QED
    BY <1>1, <2>1
<1>4. Plain(Encode(Sum(r))) = Sum(r)
  BY <1>2, <1>3 DEF Plain
<1>5. Plain(Sum(r)) = Sum(r)
  BY <1>1 DEF Plain
<1>6. QED
  BY <1>4, <1>5 DEF AsSent

\* What a worker receives replaces what it had got.
LEMMA GottenUpdate ==
  ASSUME TypeOK, NEW k \in Keys, NEW w \in Workers, NEW S,
         got' = [got EXCEPT ![k][w] = S]
  PROVE  Gotten' = [Gotten EXCEPT ![k][w] = Plain(S)]
<1>1. got \in [Keys -> [Workers -> Element]]
  BY DEF TypeOK
<1>2. \A c \in Keys, v \in Workers : got'[c][v] = IF c = k /\ v = w THEN S ELSE got[c][v]
  BY <1>1
<1>3. Gotten' = [c \in Keys |-> [v \in Workers |->
                   IF c = k /\ v = w THEN Plain(S) ELSE Plain(got[c][v])]]
  BY <1>2 DEF Gotten
<1>4. QED
  BY <1>3 DEF Gotten

\* What a worker receives is an answer of the all-reduce.
LEMMA AnsweredStep ==
  ASSUME ServerAssumption, TypeOK, TypeOK', Accounting, Contents,
         NEW k \in Keys, NEW w \in Workers, Receive(k, w)
  PROVE  Abstract!Answer(k, w)
<1> DEFINE r == round[k][w]
           M == Plain(MergedTensor(k))
           S == {v \in Workers : Meta(k, v) \in M /\ M # Sum(r)}
<1>1. /\ stage[k][w] = "answered" /\ stage' = [stage EXCEPT ![k][w] = "ready"]
      /\ round' = round /\ got' = [got EXCEPT ![k][w] = MergedTensor(k)]
  BY DEF Receive, Goes
<1>2. /\ stage \in [Keys -> [Workers -> Stage]]
      /\ round[k][w] \in Int /\ epoch[k] \in Nat
  BY DEF TypeOK, Rounds, ServerAssumption
<1>3. \A c \in Keys, v \in Workers :
         stage'[c][v] = IF c = k /\ v = w THEN "ready" ELSE stage[c][v]
  BY <1>1, <1>2
<1>4. Contributed[k][w] = r /\ Answered[k][w] = r - 1 /\ r \in Int
  BY <1>1, <1>2, MappedRounds
<1>5. TrainPhase(k) /\ r = epoch[k]
  BY <1>1, Received DEF Accounting, KeyInv, PhaseInv, InitPhase, RegisterPhase
<1>6. \A v \in Workers : Contributed[k][v] >= r
  <2>1. ASSUME NEW v \in Workers
        PROVE  Contributed[k][v] >= r
    <3>1. \/ stage[k][v] = "push" /\ round[k][v] = r + 1
          \/ stage[k][v] # "push" /\ (round[k][v] = r \/ round[k][v] = r + 1)
      BY <1>5 DEF TrainPhase, Counted, Waits, Late, Between
    <3>2. QED
      BY <1>4, <3>1, MappedRounds
  <2>2. QED
    BY <2>1
<1>7. Abstract!In(k, r) = Workers
  BY <1>6 DEF Abstract!In
<1>8. \A v \in Workers : Counted(k, v) => Contributed[k][v] >= r + 1
  <2>1. ASSUME NEW v \in Workers, Counted(k, v)
        PROVE  Contributed[k][v] >= r + 1
    <3>1. stage[k][v] # "push" /\ round[k][v] = r + 1
      BY <1>5, <2>1 DEF Counted, Waits
    <3>2. QED
      BY <1>4, <3>1, MappedRounds
  <2>2. QED
    BY <2>1
<1>9. /\ S \in SUBSET Abstract!In(k, r + 1)
      /\ M = IF S = {} THEN Sum(r) ELSE S \X {r + 1}
  <2>1. CASE MergedTensor(k) = AsSent(k, Sum(r))
    <3>1. M = Sum(r)
      BY <2>1, PlainSum
    <3>2. QED
      BY <3>1
  <2>2. CASE /\ MergedTensor(k) # {}
             /\ \A m \in MergedTensor(k) :
                   \E v \in Workers \ {w} : Counted(k, v) /\ m = <<v, r + 1>>
    <3>1. M = MergedTensor(k)
      BY <2>2 DEF Plain
    <3>2. \A m \in M : m \notin Sum(r)
      BY <1>4, <2>2, <3>1 DEF Sum
    <3>3. M # Sum(r)
      BY <2>2, <3>1, <3>2
    <3>4. ASSUME NEW v \in Workers, Meta(k, v) \in M
          PROVE  Counted(k, v)
      BY <2>2, <3>1, <3>4 DEF Meta
    <3>5. \A v \in Workers : Counted(k, v) => Meta(k, v) = <<v, r + 1>>
      BY <1>5 DEF Counted, Waits, Meta
    <3>6. S \in SUBSET Abstract!In(k, r + 1)
      BY <1>8, <3>4 DEF Abstract!In
    <3>7. \A v \in Workers : v \in S <=> <<v, r + 1>> \in M
      <4>1. \A v \in Workers : <<v, r + 1>> \in M => Counted(k, v)
        BY <2>2, <3>1
      <4>2. \A v \in Workers : v \in S <=> Meta(k, v) \in M
        BY <3>3
      <4>3. QED
        BY <3>4, <3>5, <4>1, <4>2
    <3>8. /\ S \subseteq Workers /\ M # {}
          /\ \A m \in M : \E v \in Workers : m = <<v, r + 1>>
      BY <2>2, <3>1
    <3> HIDE DEF S, M, r
    <3>9. M = S \X {r + 1} /\ S # {}
      BY <3>7, <3>8
    <3>10. QED
      BY <3>6, <3>9
  <2>3. QED
    BY <1>1, <2>1, <2>2, Received
<1>10. /\ Contributed' = Contributed
       /\ Answered' = [Answered EXCEPT ![k][w] = r]
  <2>1. \A c \in Keys, v \in Workers : Contributed'[c][v] = Contributed[c][v]
    <3>1. ASSUME NEW c \in Keys, NEW v \in Workers
          PROVE  Contributed'[c][v] = Contributed[c][v]
      <4>1. /\ round'[c][v] = round[c][v]
            /\ stage'[c][v] = "push" <=> stage[c][v] = "push"
        BY <1>1, <1>3
      <4>2. QED
        BY <4>1, MappedRounds
    <3>2. QED
      BY <3>1
  <2>2. \A c \in Keys, v \in Workers :
           Answered'[c][v] = IF c = k /\ v = w THEN r ELSE Answered[c][v]
    <3>1. ASSUME NEW c \in Keys, NEW v \in Workers
          PROVE  Answered'[c][v] = IF c = k /\ v = w THEN r ELSE Answered[c][v]
      <4>1. CASE c = k /\ v = w
        BY <1>1, <1>3, <4>1, MappedRounds
      <4>2. CASE c # k \/ v # w
        <5>1. round'[c][v] = round[c][v] /\ stage'[c][v] = stage[c][v]
          BY <1>1, <1>3, <4>2
        <5>2. QED
          BY <4>2, <5>1, MappedRounds
      <4>3. QED
        BY <4>1, <4>2
    <3>2. QED
      BY <3>1
  <2>3. QED
    BY <1>4, <2>1, <2>2, MappedRounds, TableUpdate
<1>11. Answered[k][w] < r
  BY <1>4
<1>14. Gotten' = [Gotten EXCEPT ![k][w] = M]
  BY <1>1, GottenUpdate
<1> HIDE DEF S, r, M
<1>12. /\ Answered[k][w] < Contributed[k][w]
       /\ Abstract!In(k, Contributed[k][w]) = Workers
       /\ \E X \in SUBSET Abstract!In(k, Contributed[k][w] + 1) :
             Gotten' = [Gotten EXCEPT ![k][w] =
                          IF X = {} THEN Abstract!Sum(Contributed[k][w])
                          ELSE X \X {Contributed[k][w] + 1}]
       /\ Answered' = [Answered EXCEPT ![k][w] = Contributed[k][w]]
  BY <1>4, <1>7, <1>9, <1>10, <1>11, <1>14 DEF Abstract!Sum, Sum
<1>13. QED
  BY <1>10, <1>12 DEF Abstract!Answer

\* Every step of a server in sync mode is a step of the all-reduce, or one that
\* the workers do not see.
LEMMA RefinementStep ==
  ASSUME ServerAssumption, SyncMode, TypeOK, TypeOK', Accounting, Contents, [Next]_vars
  PROVE  [Abstract!Next]_(Abstract!vars)
<1>1. /\ stage \in [Keys -> [Workers -> Stage]]
      /\ round \in [Keys -> [Workers -> Nat]]
  BY DEF TypeOK, Rounds, ServerAssumption
<1>2. CASE UNCHANGED <<stage, round, got>>
  BY <1>2, StutterStep
<1>3. ASSUME NEW k \in Keys, NEW w \in Workers, Worker(k, w)
      PROVE  [Abstract!Next]_(Abstract!vars)
  <2>1. CASE IssueInit(k, w) \/ IssueRegister(k, w) \/ IssuePull(k, w)
    <3>1. /\ UNCHANGED <<round, got>>
          /\ \A c \in Keys, v \in Workers :
                \/ stage'[c][v] = stage[c][v]
                \/ stage[c][v] = "start" /\ stage'[c][v] = "init"
                \/ stage[c][v] = "inited" /\ stage'[c][v] = "register"
                \/ stage[c][v] = "pushed" /\ stage'[c][v] = "pull"
      BY <1>1, <2>1 DEF IssueInit, IssueRegister, IssuePull, Goes
    <3>2. QED
      BY <3>1, StutterStep
  <2>2. CASE IssuePush(k, w)
    <3>1. /\ got' = got
          /\ \A c \in Keys, v \in Workers :
                \/ stage'[c][v] = stage[c][v] /\ round'[c][v] = round[c][v]
                \/ /\ stage[c][v] = "ready" /\ stage'[c][v] = "push"
                   /\ round'[c][v] = round[c][v] + 1
      BY <1>1, <2>2 DEF IssuePush, Goes
    <3>2. QED
      BY <3>1, StutterStep
  <2>3. CASE Receive(k, w)
    BY <2>3, AnsweredStep DEF Abstract!Next
  <2>4. QED
    BY <1>3, <2>1, <2>2, <2>3 DEF Worker
<1>4. ASSUME NEW k \in Keys, NEW w \in Workers, Handle(k, w)
      PROVE  [Abstract!Next]_(Abstract!vars)
  <2>1. CASE HandleInitPush(k, w) \/ HandleRegister(k, w)
    <3>1. PhaseInv(k) /\ stage[k][w] \in {"init", "register"}
      BY <2>1 DEF Accounting, KeyInv, HandleInitPush, HandleRegister
    <3>2. \A v \in Workers :
             stage[k][v] \notin {"push", "pushed", "pull", "pullHeld", "answered"}
      BY <3>1 DEF PhaseInv, InitPhase, RegisterPhase, TrainPhase, Counted, Waits, Late, Between
    <3>3. /\ UNCHANGED <<round, got>>
          /\ \A c \in Keys, v \in Workers :
                \/ stage'[c][v] = stage[c][v]
                \/ c = k /\ stage'[c][v] \in {"initHeld", "registerHeld", "inited", "ready"}
      BY <1>1, <2>1 DEF HandleInitPush, HandleRegister, Goes, Respond, AfterInit
    <3>4. QED
      BY <3>2, <3>3, StutterStep
  <2>2. CASE HandlePush(k, w)
    BY <2>2, ContributeStep DEF Abstract!Next
  <2>3. CASE HandlePushAsync(k, w)
    BY <2>3 DEF HandlePushAsync
  <2>4. CASE PullAborts(k, w)
    BY <1>2, <2>4 DEF PullAborts, workerVars
  <2>5. CASE HandlePull(k, w) \/ HoldPull(k, w)
    <3>1. /\ UNCHANGED <<round, got>>
          /\ \A c \in Keys, v \in Workers :
                \/ stage'[c][v] = stage[c][v]
                \/ stage[c][v] = "pull" /\ stage'[c][v] \in {"pullHeld", "answered"}
      BY <1>1, <2>5 DEF HandlePull, HoldPull, Goes
    <3>2. QED
      BY <3>1, StutterStep
  <2>6. QED
    BY <1>4, <2>1, <2>2, <2>3, <2>4, <2>5 DEF Handle
<1>5. ASSUME NEW i \in Threads, Engine(i)
      PROVE  [Abstract!Next]_(Abstract!vars)
  <2>1. CASE EngineFinishRound(i)
    <3>1. PICK k \in engine[i] : Respond(k, Served(k), "answered")
      BY <2>1 DEF EngineFinishRound
    <3>2. k \in Keys /\ UNCHANGED <<round, got>>
      BY <2>1 DEF TypeOK, EngineFinishRound
    <3>3. \A v \in Workers : Meta(k, v) \in Served(k) => stage[k][v] = "pullHeld"
      BY <3>2 DEF Accounting, KeyInv, HeldInv, Served, Meta
    <3>4. \A c \in Keys, v \in Workers :
             \/ stage'[c][v] = stage[c][v]
             \/ stage[c][v] = "pullHeld" /\ stage'[c][v] = "answered"
      BY <1>1, <3>1, <3>2, <3>3 DEF Respond
    <3>5. QED
      BY <3>2, <3>4, StutterStep
  <2>2. QED
    BY <1>2, <1>5, <2>1 DEF Engine, EngineCopyFirst, EngineSumRecv, EngineAllRecv,
       EngineAborts, EngineTerminate, workerVars
<1>6. CASE Finalize \/ Quit \/ UNCHANGED vars
  BY <1>2, <1>6 DEF Finalize, Quit, vars, workerVars
<1>7. QED
  BY <1>3, <1>4, <1>5, <1>6 DEF Next

\* The handler and the engine threads of a server in sync mode implement the
\* all-reduce of each element of a tensor: a push is a contribution, the receipt of a pull is an answer, and
\* every other step is invisible to the workers (server.cc:100-197, 340-470).
THEOREM AllReduceImplemented == SyncMode => (Spec => ImplementsAllReduce)
<1>1. Init => Abstract!Init
  <2> SUFFICES ASSUME Init
               PROVE  Abstract!Init
    OBVIOUS
  <2>1. \A c \in Keys, v \in Workers : stage[c][v] = "start" /\ round[c][v] = 0
    BY DEF Init
  <2>2. /\ Contributed = [c \in Keys |-> [v \in Workers |-> 0]]
        /\ Answered = [c \in Keys |-> [v \in Workers |-> 0]]
    BY <2>1 DEF Contributed, Answered
  <2>3. QED
    BY <2>2 DEF Init, Abstract!Init, Gotten, Plain
<1>2. ASSUME SyncMode
      PROVE  TypeOK /\ TypeOK' /\ Accounting /\ Contents /\ [Next]_vars
               => [Abstract!Next]_(Abstract!vars)
  BY <1>2, RefinementStep, ServerAssumption
<1>3. ASSUME SyncMode
      PROVE  Spec => ImplementsAllReduce
  BY <1>1, <1>2, <1>3, TypeCorrect, AccountingCorrect, ContentsCorrect, PTL
     DEF Spec, ImplementsAllReduce, Abstract!Spec
<1>4. QED
  BY <1>3

=============================================================================
