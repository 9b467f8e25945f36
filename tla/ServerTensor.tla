----------------------------- MODULE ServerTensor -----------------------------
(***************************************************************************)
(* The server of module Server over whole tensors, in sync mode.  A tensor *)
(* has several parts.  An engine thread copies or sums it part by part     *)
(* without a lock, the compressor writes its output part by part, and      *)
(* ps-lite sends an answer part by part from the same memory (the answer   *)
(* is built without a copy), so a thread may write a tensor that is being  *)
(* sent.  The locks and lists of the server are those of module Server.    *)
(***************************************************************************)
EXTENDS Integers, FiniteSets, Sequences

CONSTANTS
    Workers, Keys, Compressed, NumThreads, NumFlagSlots, LenOf, SyncMode,
    LeaveEarly, MaxRound,    \* as in Server
    Parts,                   \* the parts of a tensor
    Followed                 \* one of them, any

ASSUME PartsAssumption == IsFiniteSet(Parts) /\ Followed \in Parts /\ SyncMode

Threads == 0 .. (NumThreads - 1)

VARIABLES
    stage, round, request, merged, compressor_map, hash_cache, acc_load, queue,
    engine, stopped, is_push_finished, pull_cnt, seen_sender, q_pull_reqmeta,
    phase, aborted, epoch,   \* as in Server
    tensor,    \* store_[key].tensor, part by part
    code,      \* the buffer of a key's compressor, part by part
    answer,    \* what a worker's last pull of a key returned, part by part
    written,   \* the parts that a thread has written for the message it executes
    read       \* the parts of an answer that ps-lite has sent

partVars == <<tensor, code, answer, written, read>>
controlVars == <<stage, round, request, merged, compressor_map, hash_cache, acc_load,
                 queue, engine, stopped, is_push_finished, pull_cnt, seen_sender,
                 q_pull_reqmeta, phase, aborted, epoch>>
vars == <<controlVars, partVars>>

\* The server as its workers, its handler and its locks see it: of the tensors
\* it knows the first part, which says whether a buffer is allocated.
First == CHOOSE p \in Parts : TRUE
Control == INSTANCE Server WITH
             stored <- [k \in Keys |-> tensor[k][First]],
             cbuf <- [k \in Keys |-> code[k][First]],
             got <- [k \in Keys |-> [w \in Workers |-> answer[k][w][First]]]

Everywhere(S) == [p \in Parts |-> S]

Init ==
    /\ tensor = [k \in Keys |-> Everywhere({})]
    /\ code = [k \in Keys |-> Everywhere({})]
    /\ answer = [k \in Keys |-> [w \in Workers |-> Everywhere({})]]
    /\ written = [i \in Threads |-> {}]
    /\ read = [k \in Keys |-> [w \in Workers |-> {}]]
    /\ stage = [k \in Keys |-> [w \in Workers |-> "start"]]
    /\ round = [k \in Keys |-> [w \in Workers |-> 0]]
    /\ request = [k \in Keys |-> {}]
    /\ merged = [k \in Keys |-> "null"]
    /\ compressor_map = {}
    /\ hash_cache = [k \in Keys |-> Control!NoThread]
    /\ acc_load = [i \in Threads |-> 0]
    /\ queue = [i \in Threads |-> << >>]
    /\ engine = [i \in Threads |-> {}]
    /\ stopped = {}
    /\ is_push_finished = [k \in Keys |-> FALSE]
    /\ pull_cnt = [k \in Keys |-> 0]
    /\ seen_sender = [k \in Keys |-> {}]
    /\ q_pull_reqmeta = [k \in Keys |-> {}]
    /\ phase = "running"
    /\ aborted = "no"
    /\ epoch = [k \in Keys |-> 0]

-----------------------------------------------------------------------------
(* The workers and the handler.                                            *)

\* A worker issues a request.
Issue(k, w) ==
    /\ UNCHANGED partVars
    /\ \/ Control!IssueInit(k, w) \/ Control!IssueRegister(k, w)
       \/ Control!IssuePush(k, w) \/ Control!IssuePull(k, w)

\* The buffer that merged points to, at one part.
MergedPart(k, p) == IF merged[k] = "cbuf" THEN code[k][p] ELSE tensor[k][p]

\* ps-lite sends one part of an answer; with the last one the worker has it.
SendPart(k, w, p) ==
    /\ Control!Up /\ stage[k][w] = "answered" /\ p \notin read[k][w]
    /\ answer' = [answer EXCEPT ![k][w][p] = MergedPart(k, p)]
    /\ IF read[k][w] \union {p} = Parts
       THEN /\ read' = [read EXCEPT ![k][w] = {}]
            /\ stage' = [stage EXCEPT ![k][w] = "ready"]
       ELSE /\ read' = [read EXCEPT ![k][w] = @ \union {p}]
            /\ UNCHANGED stage
    /\ UNCHANGED <<tensor, code, written, round, request, merged, compressor_map,
                   hash_cache, acc_load, queue, engine, stopped, is_push_finished,
                   pull_cnt, seen_sender, q_pull_reqmeta, phase, aborted, epoch>>

\* The last worker's init push allocates and fills the whole buffer: nobody can
\* read it before the answers to the init pushes.
Allocates(k, w) ==
    /\ stage[k][w] = "init"
    /\ ~Control!StillCollecting(request[k] \union {Control!Meta(k, w)})

Handle(k, w) ==
    /\ tensor' = IF Allocates(k, w)
                 THEN [tensor EXCEPT ![k] = Everywhere({Control!Meta(k, w)})]
                 ELSE tensor
    /\ UNCHANGED <<code, answer, written, read>>
    /\ Control!Handle(k, w)

-----------------------------------------------------------------------------
(* The engine threads.                                                     *)

\* Thread i executes the message at the head of its queue, of operation op.
Executes(i, op) == Control!AtFront(i, op)

\* All parts are written when p is.
CompletesAtOnce(i, p) == TRUE
Completes(i, p) == written[i] \union {p} = Parts

\* COPY_FIRST and SUM_RECV of a part.  Decompress has written the part of the
\* compressor's buffer before; in between only the thread reads either of them
\* that this changes.
WritePart(i, p) ==
    /\ Executes(i, "COPY_FIRST") \/ Executes(i, "SUM_RECV")
    /\ p \notin written[i]
    /\ LET msg == Head(queue[i])
       IN  /\ tensor' = [tensor EXCEPT ![msg.key][p] =
                            IF msg.ops = "COPY_FIRST" THEN msg.src ELSE @ \union msg.src]
           /\ code' = IF msg.key \in compressor_map
                      THEN [code EXCEPT ![msg.key][p] = msg.src]
                      ELSE code
    /\ IF Completes(i, p)
       THEN /\ written' = [written EXCEPT ![i] = {}]
            /\ queue' = [queue EXCEPT ![i] = Tail(@)]
       ELSE /\ written' = [written EXCEPT ![i] = @ \union {p}]
            /\ UNCHANGED queue
    /\ UNCHANGED <<answer, read, stage, round, request, merged, compressor_map,
                   hash_cache, acc_load, engine, stopped, is_push_finished,
                   pull_cnt, seen_sender, q_pull_reqmeta, phase, aborted, epoch>>

\* ALL_RECV of a compressed key: the compressor writes a part of its output.
CompressPart(i, p) ==
    /\ Executes(i, "ALL_RECV") /\ Head(queue[i]).key \in compressor_map
    /\ p \notin written[i]
    /\ LET k == Head(queue[i]).key
       IN  code' = [code EXCEPT ![k][p] = Control!Encode(tensor[k][p])]
    /\ written' = [written EXCEPT ![i] = @ \union {p}]
    /\ UNCHANGED <<tensor, answer, read, controlVars>>

\* Compress has returned, or there is nothing to compress.
CodedInPart(i) == Head(queue[i]).key \in compressor_map => written[i] # {}
Coded(i) == Head(queue[i]).key \in compressor_map => written[i] = Parts

\* ALL_RECV: merged is set to the compressor's output or to the tensor.
AllRecv(i) ==
    /\ Executes(i, "ALL_RECV") /\ Coded(i)
    /\ LET k == Head(queue[i]).key
       IN  /\ merged' = [merged EXCEPT ![k] =
                            IF k \in compressor_map THEN "cbuf" ELSE "stored"]
           /\ engine' = [engine EXCEPT ![i] = {k}]
    /\ written' = [written EXCEPT ![i] = {}]
    /\ queue' = [queue EXCEPT ![i] = Tail(@)]
    /\ UNCHANGED <<tensor, code, answer, read, stage, round, request, compressor_map,
                   hash_cache, acc_load, stopped, is_push_finished, pull_cnt,
                   seen_sender, q_pull_reqmeta, phase, aborted, epoch>>

\* The rest of an engine thread.  The reducer is looked up before the first part.
Proceed(i) ==
    /\ UNCHANGED partVars
    /\ written[i] = {}
    /\ Control!EngineFinishRound(i) \/ Control!EngineAborts(i) \/ Control!EngineTerminate(i)

-----------------------------------------------------------------------------

Finalize == UNCHANGED partVars /\ Control!Finalize

Quit == UNCHANGED partVars /\ Control!Quit

Next == \/ \E k \in Keys, w \in Workers :
              \/ Issue(k, w) \/ Handle(k, w)
              \/ \E p \in Parts : SendPart(k, w, p)
        \/ \E i \in Threads :
              \/ AllRecv(i) \/ Proceed(i)
              \/ \E p \in Parts : WritePart(i, p) \/ CompressPart(i, p)
        \/ Finalize
        \/ Quit

Spec == Init /\ [][Next]_vars

-----------------------------------------------------------------------------
(* The followed part of each tensor.                                       *)

\* Thread i has written the part for the message that it executes.
Done(i) == Followed \in written[i]

\* Thread i has compressed the part of the key.
HasCompressed(i, k) ==
    Done(i) /\ Head(queue[i]).ops = "ALL_RECV" /\ Head(queue[i]).key = k

\* What a worker that has received the part sees of its request.
SeenStage(k, w) == IF Followed \in read[k][w] THEN "ready" ELSE stage[k][w]

\* The server that handles this part only: it has done with the message, and the
\* worker has its answer, as soon as the part is written, or sent.
Element == INSTANCE Server WITH
    stage <- [k \in Keys |-> [w \in Workers |-> SeenStage(k, w)]],
    got <- [k \in Keys |-> [w \in Workers |-> answer[k][w][Followed]]],
    stored <- [k \in Keys |-> tensor[k][Followed]],
    cbuf <- [k \in Keys |-> code[k][Followed]],
    queue <- [i \in Threads |-> IF Done(i) THEN Tail(queue[i]) ELSE queue[i]],
    engine <- [i \in Threads |-> engine[i] \union {k \in Keys : HasCompressed(i, k)}],
    merged <- [k \in Keys |-> IF \E i \in Threads : HasCompressed(i, k)
                              THEN "cbuf" ELSE merged[k]]

=============================================================================
