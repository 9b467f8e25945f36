----------------------- MODULE ServerTensorProperties -----------------------
(***************************************************************************)
(* What a worker may rely on of the whole tensor that a pull returns.      *)
(***************************************************************************)
EXTENDS ServerTensor

\* For any one part of the tensors, the server behaves as module Server says of
\* an element: writing and sending part by part (server.cc:61, 73, 161, 205)
\* adds nothing to what can happen to one part.
ImplementsServer == Element!Spec

\* The sum of a round, in the form in which a pull of the key returns it.
AsSent(k, r) ==
    IF k \in Compressed THEN Control!Encode(Control!Sum(r)) ELSE Control!Sum(r)

\* A pull returns the complete sum of its round in every part of the tensor, if
\* no worker's push of the next round has been handled when the worker has it.
WholeUnlessOvertaken ==
    \A k \in Keys, w \in Workers :
       stage[k][w] = "ready" /\ round[k][w] > 0 =>
          \/ \A p \in Parts : answer[k][w][p] = AsSent(k, round[k][w])
          \/ \E v \in Workers :
                \/ round[k][v] > round[k][w] + 1
                \/ round[k][v] = round[k][w] + 1 /\ stage[k][v] # "push"

\* A pull returns in every part the complete sum of its round: what the comment
\* "push already finished && not received the associated pull response yet"
\* (server.cc:457) takes for granted when the handler answers a pull itself.
ExactAnswer ==
    \A k \in Keys, w \in Workers : \A p \in Parts :
       stage[k][w] = "ready" /\ round[k][w] > 0 => answer[k][w][p] = AsSent(k, round[k][w])

=============================================================================
