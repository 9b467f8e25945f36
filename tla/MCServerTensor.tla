--------------------------- MODULE MCServerTensor ---------------------------
(* Values of the constants of ServerTensor for model checking.             *)
EXTENDS ServerTensorProperties, TLC

CONSTANTS w1, w2, k1, p1, p2

TwoWorkers == {w1, w2}
OneKey == {k1}
NoKeys == {}
TwoParts == {p1, p2}
OneLength == (k1 :> 2)

WorkerSymmetry == Permutations(TwoWorkers)

=============================================================================
