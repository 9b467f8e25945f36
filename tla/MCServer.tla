------------------------------- MODULE MCServer -------------------------------
(* Values of the constants of Server for model checking.                   *)
EXTENDS ServerInvariant, TLC

CONSTANTS w1, w2, w3, k1, k2

TwoWorkers == {w1, w2}
ThreeWorkers == {w1, w2, w3}
OneKey == {k1}
TwoKeys == {k1, k2}
NoKeys == {}

\* The first key is the longer one, so the second goes to another thread.
Lengths == (k1 :> 2 @@ k2 :> 1)
OneLength == (k1 :> 2)

WorkerSymmetry == Permutations(TwoWorkers)

=============================================================================
