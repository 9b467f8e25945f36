------------------------------- MODULE AllReduce -------------------------------
(***************************************************************************)
(* What a server promises to the workers that push and pull a key in       *)
(* rounds, of each element of the tensor: an all-reduce with a barrier.  A *)
(* worker contributes to a round, and is answered when all workers have    *)
(* contributed to it.                                                      *)
(*                                                                         *)
(* The answer is the sum of the round or, because the server keeps one     *)
(* buffer for a key and builds an answer over it without a copy, what the  *)
(* faster workers have already contributed to the next round.  The promise *)
(* is that it is nothing else: no older round, no part of the sum asked    *)
(* for, and never a contribution of the asking worker itself to a round it *)
(* has not yet pushed.  It does not say that all elements of an answer are *)
(* of one round.                                                           *)
(***************************************************************************)
EXTENDS Integers

CONSTANTS Workers, Keys, MaxRound

VARIABLES
    contributed,   \* [Keys -> [Workers -> the rounds contributed to]]
    answered,      \* [Keys -> [Workers -> the rounds answered]]
    got            \* [Keys -> [Workers -> the last answer]]

vars == <<contributed, answered, got>>

Sum(r) == Workers \X {r}

Init ==
    /\ contributed = [k \in Keys |-> [w \in Workers |-> 0]]
    /\ answered = [k \in Keys |-> [w \in Workers |-> 0]]
    /\ got = [k \in Keys |-> [w \in Workers |-> {}]]

Contribute(k, w) ==
    /\ answered[k][w] = contributed[k][w]
    /\ contributed[k][w] < MaxRound
    /\ contributed' = [contributed EXCEPT ![k][w] = @ + 1]
    /\ UNCHANGED <<answered, got>>

\* The workers that have contributed to round r of key k.
In(k, r) == {w \in Workers : contributed[k][w] >= r}

Answer(k, w) ==
    LET r == contributed[k][w]
    IN  /\ answered[k][w] < r
        /\ In(k, r) = Workers
        /\ \E S \in SUBSET In(k, r + 1) :
              got' = [got EXCEPT ![k][w] = IF S = {} THEN Sum(r) ELSE S \X {r + 1}]
        /\ answered' = [answered EXCEPT ![k][w] = r]
        /\ UNCHANGED contributed

Next == \E k \in Keys, w \in Workers : Contribute(k, w) \/ Answer(k, w)

Spec == Init /\ [][Next]_vars

=============================================================================
