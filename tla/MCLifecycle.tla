----------------------------- MODULE MCLifecycle -----------------------------
(* Values of the constants of Lifecycle for model checking.                *)
EXTENDS LifecycleProperties

\* A framework that waits has several steps in several lives; one that is hasty
\* has many more behaviours, and gets one step in one life.
Steps == [m \in Manner |-> IF m = "hasty" THEN 1 ELSE 2]
Lives == [m \in Manner |-> IF m = "hasty" THEN 1 ELSE 3]

=============================================================================
