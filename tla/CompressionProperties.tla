------------------------ MODULE CompressionProperties ------------------------
(* What the workers rely on when a partition travels compressed.           *)
EXTENDS Compression

Vector == [1..setting.len -> Int]

\* Every variable has its type: in particular each side counts as many rounds
\* as the other has seen.
TypeOK ==
    /\ setting \in Settings
    /\ stage \in [Workers -> {"compress", "push", "pushed", "pull", "decompress", "done"}]
    /\ round \in [Workers -> 1..MaxRound]
    /\ {stored, server_error} \subseteq Vector
    /\ \A w \in Workers :
          /\ {mom[w], error[w]} \subseteq Vector
          /\ {pskv[w].size, pskv[w].lens} \subseteq Nat
          /\ Len(gradients[w]) \in {round[w] - 1, round[w]}
          /\ Len(decoded[w]) \in {Len(answers), Len(answers) + 1}
    /\ request \subseteq Workers /\ seen \subseteq Workers
    /\ finished \in BOOLEAN

-----------------------------------------------------------------------------

\* rate[1] * v[1] + ... + rate[n] * v[n], of vectors.
Weighted(rate, v, n) ==
    LET sum[i \in 0..n] == IF i = 0 THEN Zeros(setting.len)
                           ELSE Plus(sum[i - 1], v[i], rate[i], 1)
    IN  sum[n]

\* Momentum in closed form: g[t] + Mu * (g[t] + Mu * g[t - 1] + ...).
Accelerated(g) ==
    IF ~setting.momentum THEN g
    ELSE [t \in DOMAIN g |->
            [i \in 1..setting.len |->
               g[t][i] + SumOf([j \in 1..t |-> Mu ^ (t - j + 1) * g[j][i]])]]

\* With error feedback nothing of a gradient is lost (error_feedback.cc:21-43,
\* vanilla_error_feedback.cc:53): weighted with the learning rates, what the
\* server has read of the gradients of a worker and the error that the worker
\* keeps are together the gradients that the framework gave, whatever the
\* compressor left out and whenever the rate changed.
WorkersLoseNothing ==
    setting.ef => \A w \in Workers :
       LET n == Len(decoded[w])
       IN  n = Len(gradients[w]) /\ n > 0 =>
              Plus(Weighted(Rates, decoded[w], n), error[w], Rates[n], 1)
                = Weighted(Rates, Accelerated(gradients[w]), n)

\* The same of the server: its answers and its error are together the sums of
\* what it has read of all workers.
Total(r) ==
    [i \in 1..setting.len |->
       LET of[W \in SUBSET Workers] ==
             IF W = {} THEN 0
             ELSE LET w == CHOOSE w \in W : TRUE IN decoded[w][r][i] + of[W \ {w}]
       IN  of[Workers]]
ServerLosesNothing ==
    setting.ef =>
       LET n == Len(answers)
           read == [r \in 1..n |-> DecompressImpl(setting, answers[r])]
       IN  n > 0 => Plus(Weighted(ServerRates, read, n), server_error, ServerRates[n], 1)
                      = Weighted(ServerRates, [r \in 1..n |-> Total(r)], n)

\* With error feedback no part of a gradient is lost, by a worker or by the
\* server (error_feedback.cc:21, server.cc:130-147).
NothingLost == TypeOK /\ WorkersLoseNothing /\ ServerLosesNothing

\* Without error feedback, what the server reads is near what was compressed:
\* the K largest values for top-k (compressor.h:104-107), some values for
\* random-k, one size with the signs for onebit, and for dithering each value
\* within the distance of its levels and on its side of zero.
Near(x, y) ==
    CASE setting.kind = "topk" ->
           LET kept == {i \in DOMAIN x : y[i] # 0}
           IN  /\ \A i \in kept : y[i] = x[i]
               /\ \A i \in kept, j \in DOMAIN x \ kept : Abs(x[i]) >= Abs(x[j])
               /\ \A j \in DOMAIN x \ kept : x[j] = 0 \/ Cardinality(kept) = K(setting)
      [] setting.kind = "randomk" -> \A i \in DOMAIN x : y[i] \in {0, x[i]}
      [] setting.kind = "onebit" ->
           /\ \A i, j \in DOMAIN x : Abs(y[i]) = Abs(y[j]) /\ (x[i] < 0 => y[i] <= 0)
           /\ \A i \in DOMAIN x : x[i] >= 0 => y[i] >= 0
           /\ setting.scaled => Abs(SumOf([i \in DOMAIN x |-> Abs(y[i]) - Abs(x[i])])) < Len(x)
      [] setting.kind = "dithering" ->
           \A i \in DOMAIN x :
              /\ x[i] * y[i] >= 0
              /\ (IF setting.natural THEN 1 ELSE Levels(setting)) * (Abs(y[i] - x[i]) - 1)
                    < (IF setting.natural /\ Levels(setting) * Abs(x[i]) > Norm(setting, x)
                       THEN Abs(x[i]) ELSE Norm(setting, x))
ReadNear ==
    ~setting.ef => \A w \in Workers : \A r \in DOMAIN decoded[w] :
       Near(Accelerated(gradients[w])[r], decoded[w][r])

\* What a worker reads of an answer is what the server compressed in that round,
\* so that all workers go on with one value; only a worker whose pull came after
\* the next push of another (see ElementOfOneRound of ServerProperties) reads the
\* gradient that the server has decompressed into the same buffer (server.cc:147).
AnswersRead ==
    \A w \in Workers : LET r == output[w].round IN
       r > 0 => \/ output[w].value = DecompressImpl(setting, answers[r])
                \/ /\ output[w].value = Garbage
                   /\ \E v \in Workers \ {w} : Len(decoded[v]) > r

\* The length sent with a push is that of the message (global.cc:718-726),
\* except if dithering comes out at exactly the length of the partition, which
\* the cache holds from the pull, while lens holds that of the answer.
LengthsAgree ==
    \A w \in Workers :
       stage[w] = "pushed" /\ pskv[w].lens # SizeOf(setting, message[w]) =>
          /\ setting.kind = "dithering"
          /\ SizeOf(setting, message[w]) = setting.len

\* On partitions of whole words, and shares up to one half, the compressors of
\* a fixed size fit wherever the partition has at least two words to spare: the
\* aligned size that k is computed from is the size that it is checked against.
FixedSizesFit ==
    /\ setting.len % Packing = 0 /\ setting.len > 2
    /\ setting.kind \in {"topk", "randomk"} => 2 * setting.num <= setting.den
    /\ setting.kind # "dithering"
    => aborted = "no"

\* The server reads the request type and the data type that the worker put in
\* the command (server.h:45, common.cc:113), for all of either.
CommandsDecoded ==
    \A requestType \in 0..2, d \in 0..6 :
       DepairDataHandleType(GetCommandType(requestType, d))
         = [requestType |-> requestType, dtype |-> d]

=============================================================================
