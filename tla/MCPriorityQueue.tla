--------------------------- MODULE MCPriorityQueue ---------------------------
(* Values of the constants of PriorityQueue for model checking.             *)
EXTENDS PriorityQueue, TLC

CONSTANTS k1, k2

TwoKeys == {k1, k2}
=============================================================================
