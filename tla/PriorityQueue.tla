---------------------------- MODULE PriorityQueue ----------------------------
(***************************************************************************)
(* The queue of an engine thread (server/queue.h).  Without scheduling it  *)
(* is a FIFO queue.  With SERVER_ENABLE_SCHEDULE it is a binary heap in    *)
(* which messages of the key with the fewest pushes come first, and, at    *)
(* equal counts, the oldest message.  The counts are kept outside the heap *)
(* and change while messages are in it.                                    *)
(*                                                                         *)
(* The threads that use it are the handler of the server, which queues the *)
(* messages of a round, ALL_RECV after the push of the last worker, and    *)
(* clears the counter of the key in a second critical section; and the     *)
(* engine thread.  A worker pushes the next round of a key only after the  *)
(* engine has taken the ALL_RECV of the round before.                      *)
(***************************************************************************)
EXTENDS Integers, Sequences

CONSTANTS
    Keys,          \* the keys of this engine thread
    NumWorkers,    \* ps::NumWorkers()
    MaxRound       \* bound: the rounds of pushes of a key

ASSUME QueueAssumption ==
    Keys # {} /\ NumWorkers \in Nat \ {0} /\ MaxRound \in Nat

VARIABLES
    enable_schedule_,
    queue_,       \* the messages [key, id, ops], in the order of the vector
    push_cnt_,    \* the pushes of a key since its counter was cleared
    timestamp_,   \* the id of the next message
    received,     \* the pushes of a key that the handler has queued
    pending,      \* <<"close", key>> or <<"clear", key>>: what the handler has
                  \* still to do for a key; or <<"idle">>
    finished      \* the ALL_RECV messages of a key that the engine has taken

vars == <<enable_schedule_, queue_, push_cnt_, timestamp_, received, pending, finished>>

-----------------------------------------------------------------------------
(* The heap, as std::push_heap and std::pop_heap keep it: position 1 is the *)
(* top and the parent of position h is h \div 2.                            *)

\* ComparePriority: a comes after b.
AfterNewest(a, b, cnt) ==
    IF cnt[a.key] = cnt[b.key] THEN a.id < b.id ELSE cnt[a.key] > cnt[b.key]
After(a, b, cnt) ==
    IF cnt[a.key] = cnt[b.key] THEN a.id > b.id ELSE cnt[a.key] > cnt[b.key]

\* The positions from the top down to h.
PathTo(h) == {p \in 1 .. h : \E d \in 0 .. h : p = h \div (2 ^ d)}

\* x rises from the hole at h, past the messages it comes before, which sink.
Rise(s, h, x, cnt) ==
    LET stop[p \in 1 .. h] ==
            IF p > 1 /\ After(s[p \div 2], x, cnt) THEN stop[p \div 2] ELSE p
    IN  [p \in DOMAIN s |->
            IF p = stop[h] THEN x
            ELSE IF p > stop[h] /\ p \in PathTo(h) THEN s[p \div 2]
            ELSE s[p]]

push_heap(s, cnt) == Rise(s, Len(s), s[Len(s)], cnt)

\* The top is taken, the hole sinks to a leaf along the first child at every
\* step, and the last message rises from there.
pop_heap(s, cnt) ==
    LET m == Len(s) - 1
        t == SubSeq(s, 1, m)
        child(p) == IF 2 * p + 1 <= m /\ ~After(t[2 * p + 1], t[2 * p], cnt)
                    THEN 2 * p + 1 ELSE 2 * p
        leaf[p \in 1 .. m] == IF 2 * p > m THEN p ELSE leaf[child(p)]
        sunk == [p \in 1 .. m |->
                    IF p # leaf[1] /\ p \in PathTo(leaf[1]) THEN t[child(p)] ELSE t[p]]
    IN  IF m = 0 THEN t ELSE Rise(sunk, leaf[1], s[Len(s)], cnt)

-----------------------------------------------------------------------------
(* The operations of the queue, each under its lock.                       *)

Push(m) ==
    IF enable_schedule_
    THEN LET cnt == [push_cnt_ EXCEPT ![m.key] = @ + 1]
         IN  /\ push_cnt_' = cnt
             /\ queue_' = push_heap(Append(queue_, m), cnt)
    ELSE /\ queue_' = Append(queue_, m)
         /\ UNCHANGED push_cnt_

\* The message taken, and the queue after it.
Popped == queue_[1]
AfterPop == IF enable_schedule_ THEN pop_heap(queue_, push_cnt_) ELSE Tail(queue_)

ClearCounter(k) == push_cnt_' = IF enable_schedule_ THEN [push_cnt_ EXCEPT ![k] = 0] ELSE push_cnt_

-----------------------------------------------------------------------------
(* The handler and the engine thread.                                      *)

Init ==
    /\ enable_schedule_ \in BOOLEAN
    /\ queue_ = << >>
    /\ push_cnt_ = [k \in Keys |-> 0]
    /\ timestamp_ = 0
    /\ received = [k \in Keys |-> 0]
    /\ pending = <<"idle">>
    /\ finished = [k \in Keys |-> 0]

NextTimestamp == timestamp_ + 1

\* A worker may push: the round that it would push to has begun.
MayPush(k) ==
    /\ received[k] < NumWorkers * MaxRound
    /\ finished[k] >= received[k] \div NumWorkers

\* The push of a worker.
HandlePush(k) ==
    /\ pending = <<"idle">> /\ MayPush(k)
    /\ Push([key |-> k, id |-> timestamp_,
             ops |-> IF received[k] % NumWorkers = 0 THEN "COPY_FIRST" ELSE "SUM_RECV"])
    /\ timestamp_' = NextTimestamp
    /\ received' = [received EXCEPT ![k] = @ + 1]
    /\ pending' = IF received'[k] % NumWorkers = 0 THEN <<"close", k>> ELSE <<"idle">>
    /\ UNCHANGED <<enable_schedule_, finished>>

\* The end of a round: ALL_RECV.
HandleClose(k) ==
    /\ pending = <<"close", k>>
    /\ Push([key |-> k, id |-> timestamp_, ops |-> "ALL_RECV"])
    /\ timestamp_' = NextTimestamp
    /\ pending' = <<"clear", k>>
    /\ UNCHANGED <<enable_schedule_, received, finished>>

\* The end of a round: the counter of the key.
HandleClear(k) ==
    /\ pending = <<"clear", k>>
    /\ ClearCounter(k)
    /\ pending' = <<"idle">>
    /\ UNCHANGED <<enable_schedule_, queue_, timestamp_, received, finished>>

WaitAndPop ==
    /\ queue_ # << >>
    /\ queue_' = AfterPop
    /\ finished' = IF Popped.ops = "ALL_RECV"
                   THEN [finished EXCEPT ![Popped.key] = @ + 1] ELSE finished
    /\ UNCHANGED <<enable_schedule_, push_cnt_, timestamp_, received, pending>>

\* Every round is pushed, closed and taken.
Done == pending = <<"idle">> /\ queue_ = << >>
        /\ \A k \in Keys : received[k] = NumWorkers * MaxRound

Finish == Done /\ UNCHANGED vars

Next == \/ \E k \in Keys : HandlePush(k) \/ HandleClose(k) \/ HandleClear(k)
        \/ WaitAndPop
        \/ Finish

Spec == Init /\ [][Next]_vars

-----------------------------------------------------------------------------
(* What the queue promises.                                                *)

\* The message taken is the oldest of its key.
TakesOldest ==
    \A p \in DOMAIN queue_ : queue_[p].key = Popped.key => Popped.id <= queue_[p].id

\* The messages of a key are taken in the order in which they were queued, as
\* the engine thread needs them: the copy, the sums, the end of the round.
\* Compared with each other, messages of one key are sorted by id (queue.h:109).
KeyOrder == [][Len(queue_') < Len(queue_) => TakesOldest]_vars

\* The same where the code does keep the order: without scheduling, and with it
\* as long as the thread has pushes of a single key, whose changing counter
\* (queue.h:62, 104) then compares equal with itself.
SingleKeyOrder ==
    [][Len(queue_') < Len(queue_)
         /\ (~enable_schedule_ \/ \A k \in Keys \ {Popped.key} : received[k] = 0)
         => TakesOldest]_vars

=============================================================================
