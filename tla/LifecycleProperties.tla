------------------------- MODULE LifecycleProperties -------------------------
(* What the processes of a machine may rely on when they are suspended and  *)
(* resumed.                                                                *)
EXTENDS Lifecycle

Stages == {"down", "bound", "rank", "ranked", "up", "joining", "finalizing", "closing"}

\* Every variable has its type; a ready count never exceeds its bound, and no
\* loop thread runs but between Start and the end of Shutdown's joins.
TypeOK ==
    /\ manner \in Manners
    /\ \A d \in Devices :
          /\ stage[d] \in Stages /\ life[d] \in 0..MaxLife[manner] /\ step[d] \in 0..MaxStep[manner]
          /\ last_handle[d] \in Nat /\ held[d] \in {0, last_handle[d]}
          /\ DOMAIN results[d] \subseteq 1..last_handle[d]
          /\ task[d].how \in {"none", "queued", "held", "ps", "pool", "group", "sync"}
          /\ loop[d] \subseteq Loops(d) /\ (loop[d] # {} => HasQueues(d))
          /\ sending[d].to \subseteq Devices \ {d}
          /\ \A t \in Tables(d) : ready[d][t] \in 0..ReadyCount(d)
          /\ id[d] \in 0..MaxLife[manner]
    /\ listen \in [Comms -> {"none", "recv", "ended"} \cup Tables(Root)]

\* However the framework suspends, no loop thread uses a queue that Shutdown has
\* deleted: the joins come before the deletions (global.cc:363-386), and a loop
\* ends only between two iterations.
LoopsUseLiveQueues == aborted # "loop"

\* A framework that waits for its handles before it suspends is safe: nothing
\* deleted is used by a call that is still outstanding (core_loops.cc:37, 643,
\* 694; global.cc:383), and no signal of an earlier life reaches a ready table
\* (ready_table.cc:35).  Only a process that resumes while another one of the
\* machine has not left yet may end that one, by the NCCL id it sends.
WaitingSuffices ==
    /\ manner = "together" => aborted \in {"no", "early"}
    /\ manner = "alone" => aborted \in {"no", "early", "id"}

\* The root has begun to compress or push the sum of a step, and not yet to copy
\* the result to its memory.
PushBegun ==
    \/ task[Root].at \in {"COMPRESS", "PUSH"} /\ task[Root].how # "queued"
    \/ task[Root].at \in {"PULL", "DECOMPRESS"}

\* A device has copied its part of a step to the host, and waits for the result.
AwaitsResult(d) == d # Root => task[d].at = "COPYH2D"

\* The root compresses and pushes the sum of a step only when every device of the
\* machine is in that step of the same life, has copied its part to the host and
\* waits (core_loops.cc:184, scheduled_queue.cc:71, core_loops.cc:597): no signal
\* counts twice, too early or in another life, and no count exceeds its bound.
PushOfAllDevices ==
    /\ TypeOK
    /\ manner # "hasty" /\ PushBegun =>
          \A d \in Devices :
             life[d] = life[Root] /\ step[d] = step[Root] /\ AwaitsResult(d)

\* A handle that was released stays released: MarkDone (handle_manager.cc:31)
\* would insert it again, for good.  Only a framework that releases a handle
\* before it is done meets that.
ReleasedForGood ==
    manner # "hasty" => \A d \in Devices : DOMAIN results[d] \subseteq {held[d]}

-----------------------------------------------------------------------------

\* Shutdown returns: the loops and listeners see the flag within the time-out
\* of a receive, and nothing waits for a process that has left.
SuspendReturns ==
    \A d \in Devices :
       manner # "hasty" /\ stage[d] = "joining" ~> stage[d] = "down" \/ aborted # "no"

\* Init returns in all processes when they resume together.
ResumeReturns ==
    \A d \in Devices : manner = "together" /\ stage[d] = "bound" ~> stage[d] = "up" \/ aborted # "no"

\* The callback of every task comes: the handle that the framework waits for is
\* done.
HandleDone ==
    \A d \in Devices :
       manner # "hasty" /\ held[d] # 0 ~> held[d] = 0 \/ aborted # "no"

\* What the framework calls, and waits for, returns: byteps_suspend, byteps_resume
\* and synchronize (operations.cc:107-140, handle_manager.cc).
CallsReturn == SuspendReturns /\ ResumeReturns /\ HandleDone

=============================================================================
