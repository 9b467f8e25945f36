----------------------------- MODULE Compression -----------------------------
(***************************************************************************)
(* One partition that is pushed and pulled compressed: the compressor of   *)
(* each worker, with momentum and error feedback around it, and that of    *)
(* the server; the length that travels with a message; and the buffer that *)
(* the server decompresses into and answers from.  InitTensor is over: the *)
(* registration of the compressor was the last push.                       *)
(*                                                                         *)
(* The server's threads and flags are those of Server.tla.  Here a push    *)
(* goes from the handler through its engine thread in one step, and a pull *)
(* is held, outside its stage, until the round is finished.                *)
(***************************************************************************)
EXTENDS Compressors

CONSTANTS
    Workers,      \* the workers
    Settings,     \* the hyper-parameters a tensor may be declared with
    Gradients,    \* Gradients[w]: the gradients a step of training may have at w
    Rates,        \* Rates[r]: what lr.s of the workers holds in round r
    ServerRates,  \* ServerRates[r]: what lr.s of the server holds
    Mu,           \* momentum_mu
    ContentLen,   \* the size of the serialized hyper-parameters, in words
    MaxRound      \* bound: the steps of training

ASSUME CompressionAssumption ==
    /\ IsFiniteSet(Workers) /\ Workers # {}
    /\ \A c \in Settings :
          /\ c.kind \in {"topk", "randomk", "onebit", "dithering"}
          /\ {c.len, c.num, c.den} \subseteq Nat \ {0}
          /\ {c.ef, c.momentum} \subseteq BOOLEAN
          /\ \A w \in Workers : \A g \in Gradients[w] : Len(g) >= c.len
    /\ {Mu, ContentLen} \subseteq Nat /\ MaxRound \in Nat \ {0}
    /\ \A r \in 0..MaxRound : Rates[r] \in Nat \ {0} /\ ServerRates[r] \in Nat \ {0}

VARIABLES
    setting,  \* the hyper-parameters, the same at all workers and the server
    stage,    \* stage[w]: what comes next for the task
    round,    \* round[w]: the step of training
    mom,      \* mom[w]: _mom
    error,    \* error[w]: _error
    pskv,     \* pskv[w]: size and lens[0] of the key's entry in ps_kv_
    message,  \* message[w]: task->compressed, or the answer to the pull
    request,  \* the workers whose push of the round the server has
    stored,   \* the sum of the pushes
    server_error, \* _error of the server
    buf,      \* _buf of the server's compressor: a message, or a gradient
    merged,   \* the size of the answer
    finished, \* is_push_finished_
    seen,     \* seen_sender_, and with its size pull_cnt_
    output,   \* output[w]: what the last round gave the framework
    aborted,  \* the check that ended a process
    gradients, decoded, answers
              \* history: the gradients of each worker, what the server read of
              \* them, and its answer to each round

workerVars == <<mom, error, gradients>>
serverVars == <<request, stored, server_error, buf, merged, decoded, answers>>
flagVars == <<finished, seen>>
vars == <<setting, stage, round, workerVars, pskv, message, serverVars, flagVars,
          output, aborted>>

\* What _buf of the server holds while a push is in it, and what a message of
\* another length than its own is read as.
Decompressed == [gradient |-> TRUE]
Garbage == <<>>

Ends(check) ==
    /\ aborted' = check
    /\ UNCHANGED <<setting, stage, round, workerVars, pskv, message, serverVars,
                   flagVars, output>>
Runs(w, s) == aborted = "no" /\ stage[w] = s
Goes(w, s) == stage' = [stage EXCEPT ![w] = s]

-----------------------------------------------------------------------------
(* The decorators.                                                         *)

\* The gradient with momentum: UpdateMom, then UpdateGradient.
UpdateMom(m, g) == IF setting.momentum THEN Plus(g, m, Mu, 1) ELSE m
WithMomentum(m, g) ==
    IF setting.momentum THEN Plus(g, UpdateMom(m, g), Mu, 1) ELSE g

\* The gradient with the error of the last round, rescaled by the rates.
WithErrorOfNewRate(e, g, pre, cur) == IF setting.ef THEN Plus(g, e, cur, pre) ELSE g
UpdateGradient(e, g, pre, cur) == IF setting.ef THEN Plus(g, e, pre, cur) ELSE g
UpdateError(msg, corrected) ==
    IF setting.ef THEN FastUpdateError(setting, msg, corrected) ELSE Zeros(setting.len)

-----------------------------------------------------------------------------
(* A worker.                                                               *)

\* EncodeDefaultKey of a key that is in the cache: the length changes only if
\* it differs from the last one that was asked for.
EncodeDefaultKeyKeepingLens(kv, len) ==
    IF len > 0 /\ kv.size # len THEN [kv EXCEPT !.size = len] ELSE kv
EncodeDefaultKey(kv, len) ==
    IF len > 0 /\ kv.size # len THEN [size |-> len, lens |-> len] ELSE kv

\* COMPRESS.  A code of dithering may be longer than the buffer that it is written
\* to, and is checked only afterwards: what it overwrites is left out, and the
\* worker ends at the check.
Compress(w) ==
    /\ Runs(w, "compress")
    /\ \E g \in {SubSeq(v, 1, setting.len) : v \in Gradients[w]} :
          LET r == round[w]
              p == WithMomentum(mom[w], g)
              corrected == UpdateGradient(error[w], p, Rates[r - 1], Rates[r])
          IN  IF ~KFits(setting) THEN Ends("k")
              ELSE \E msg \in CompressImpl(setting, corrected) :
                     IF SizeOf(setting, msg) > setting.len THEN Ends("len")
                     ELSE /\ message' = [message EXCEPT ![w] = msg]
                          /\ mom' = [mom EXCEPT ![w] = UpdateMom(@, g)]
                          /\ error' = [error EXCEPT ![w] = UpdateError(msg, corrected)]
                          /\ gradients' = [gradients EXCEPT ![w] = Append(@, g)]
                          /\ Goes(w, "push")
                          /\ UNCHANGED <<setting, round, pskv, serverVars, flagVars,
                                         output, aborted>>

\* PUSH, as far as the worker.
Push(w) ==
    /\ Runs(w, "push")
    /\ pskv' = [pskv EXCEPT ![w] = EncodeDefaultKey(@, SizeOf(setting, message[w]))]
    /\ Goes(w, "pushed")
    /\ UNCHANGED <<setting, round, workerVars, message, serverVars, flagVars, output,
                   aborted>>

\* PULL and its answer, whose length replaces the one asked for.  An answer
\* longer than the buffer of the pull fails in ps-lite.
MayAnswer(w) == finished /\ w \notin seen
CountPulls(w) == IF seen \cup {w} = Workers
                 THEN finished' = FALSE /\ seen' = {}
                 ELSE seen' = seen \cup {w} /\ UNCHANGED finished
Pull(w) ==
    /\ Runs(w, "pull") /\ MayAnswer(w)
    /\ IF merged > setting.len THEN Ends("vals")
       ELSE /\ CountPulls(w)
            /\ pskv' = [pskv EXCEPT
                          ![w] = [EncodeDefaultKey(@, setting.len) EXCEPT !.lens = merged]]
            /\ message' = [message EXCEPT ![w] = buf]
            /\ Goes(w, "decompress")
            /\ UNCHANGED <<setting, round, workerVars, serverVars, output, aborted>>

\* What Decompress reads of len words.
Read(msg, len) == IF msg = Decompressed \/ SizeOf(setting, msg) # len THEN Garbage
                  ELSE DecompressImpl(setting, msg)

\* DECOMPRESS.
LengthAsked(kv) == kv.size
LengthRead(kv) == EncodeDefaultKey(kv, 0).lens
Decompress(w) ==
    /\ Runs(w, "decompress")
    /\ output' = [output EXCEPT ![w] = [round |-> round[w],
                                        value |-> Read(message[w], LengthRead(pskv[w]))]]
    /\ IF round[w] = MaxRound
       THEN Goes(w, "done") /\ UNCHANGED round
       ELSE Goes(w, "compress") /\ round' = [round EXCEPT ![w] = @ + 1]
    /\ UNCHANGED <<setting, workerVars, pskv, message, serverVars, flagVars, aborted>>

-----------------------------------------------------------------------------
(* The server.                                                             *)

\* The sum of the pushes so far with the gradient g: COPY_FIRST or SUM_RECV.
Sum(g) == IF request = {} THEN g ELSE Plus(stored, g, 1, 1)

\* The push of w: decompressed in the buffer of the compressor, and summed.
Receive(w) ==
    /\ Runs(w, "pushed")
    /\ IF pskv[w].lens # SizeOf(setting, message[w]) THEN Ends("lens")
       ELSE LET g == DecompressImpl(setting, message[w])
            IN  /\ request' = request \cup {w}
                /\ stored' = Sum(g)
                /\ buf' = Decompressed
                /\ decoded' = [decoded EXCEPT ![w] = Append(@, g)]
                /\ Goes(w, "pull")
                /\ UNCHANGED <<setting, round, workerVars, pskv, message, server_error,
                               merged, answers, flagVars, output, aborted>>

\* ALL_RECV: the server compresses the sum in its turn, in place of what it
\* decompressed.  Create gives it no momentum, and no check bounds the size.
AllReceived ==
    /\ request = Workers /\ aborted = "no"
    /\ LET r == Len(answers) + 1
           corrected == UpdateGradient(server_error, stored,
                                       ServerRates[r - 1], ServerRates[r])
       IN  \E msg \in CompressImpl(setting, corrected) :
             IF SizeOf(setting, msg) > Align(setting.len) THEN Ends("_buf")
             ELSE /\ request' = {}
                  /\ stored' = corrected
                  /\ server_error' = UpdateError(msg, corrected)
                  /\ buf' = msg /\ merged' = SizeOf(setting, msg)
                  /\ finished' = TRUE
                  /\ answers' = Append(answers, msg)
                  /\ UNCHANGED <<setting, stage, round, workerVars, pskv, message, seen,
                                 decoded, output, aborted>>

-----------------------------------------------------------------------------

Init ==
    /\ setting \in Settings
    /\ stage = [w \in Workers |-> "compress"]
    /\ round = [w \in Workers |-> 1]
    /\ mom = [w \in Workers |-> Zeros(setting.len)]
    /\ error = [w \in Workers |-> Zeros(setting.len)]
    /\ pskv = [w \in Workers |-> [size |-> ContentLen, lens |-> ContentLen]]
    /\ message = [w \in Workers |-> Decompressed]
    /\ request = {} /\ finished = FALSE /\ seen = {}
    /\ stored = Zeros(setting.len) /\ server_error = Zeros(setting.len)
    /\ buf = Decompressed /\ merged = 0
    /\ output = [w \in Workers |-> [round |-> 0, value |-> Garbage]]
    /\ aborted = "no"
    /\ gradients = [w \in Workers |-> <<>>] /\ decoded = [w \in Workers |-> <<>>]
    /\ answers = <<>>

Step(w) == Compress(w) \/ Push(w) \/ Receive(w) \/ Pull(w) \/ Decompress(w)

\* The training is over, or a check has ended a process.
Over == aborted # "no" \/ \A w \in Workers : stage[w] = "done"
Quit == Over /\ UNCHANGED vars

Next == AllReceived \/ (\E w \in Workers : Step(w)) \/ Quit

Spec == Init /\ [][Next]_vars

=============================================================================
