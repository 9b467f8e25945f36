--------------------------- MODULE MCKeyAssignment ---------------------------
(* Values of the constants of KeyAssignment for model checking.            *)
EXTENDS KeyAssignmentProperties, TLC

CONSTANTS w1, w2, t1, t2

TwoWorkers == {w1, w2}
TwoNames == {t1, t2}
\* The first tensor has two partitions; the second is too small to compress.
Sizes == (t1 :> 14 @@ t2 :> 3)
OneProgram == {<<t1, t2>>}
Devices == (w1 :> 1 @@ w2 :> 2)
Roots == <<0, 2, 1>>

Cluster(s, h, kept) == [servers |-> s, knob |-> h, kept |-> kept]
\* Two workers cannot have three servers that are alone on their machines.
AllClusters == {Cluster(2, "naive", FALSE), Cluster(3, "djb2", TRUE),
                Cluster(2, "sdbm", TRUE), Cluster(3, "mixed", TRUE),
                Cluster(4, "mixed", TRUE), Cluster(5, "mixed", TRUE)}

=============================================================================
