---------------------------- MODULE LifecycleProof ----------------------------
(***************************************************************************)
(* For any number of devices, lives and steps.                             *)
(*                                                                         *)
(* Live: no loop thread of a process uses a queue that Shutdown has        *)
(* deleted, however the framework suspends.  Handles: a handle that a      *)
(* waiting framework released is never inserted again.  Typed: every       *)
(* variable has its type.                                                  *)
(*                                                                         *)
(* Coherence: of a framework that waits, each process counts the steps of  *)
(* its life as signalled, launched, asked to push, copied, signalled for   *)
(* the broadcast, and begun to broadcast; the root counts those that it    *)
(* has taken.  They differ by at most one, a message in transit or a ready *)
(* count accounts for each difference, and all are equal when a process    *)
(* goes from one life to the next.                                         *)
(***************************************************************************)
EXTENDS LifecycleProperties, TLAPS, FiniteSetTheorems, WellFoundedInduction

StagesOf(d) == {QueueList(d)[i] : i \in DOMAIN QueueList(d)}
Hows == {"none", "queued", "held", "ps", "pool", "group", "sync"}
Names == {"COORDINATE_REDUCE", "REDUCE", "COORDINATE_PUSH", "COPYH2D", "COORDINATE_BROADCAST",
          "BROADCAST", "COMPRESS", "PUSH", "PULL", "DECOMPRESS"}
LoopNames == Names \cup {"NCCL", "SYNC", "LISTEN"}
Tasks == [at : Names \cup {"none"}, how : Hows, handle : Nat]

\* The types that the proof needs.
Shapes ==
    /\ stage \in [Devices -> Stages] /\ loop \in [Devices -> SUBSET LoopNames]
    /\ task \in [Devices -> Tasks] /\ last_handle \in [Devices -> Nat]

\* A thread that has a task, or synchronizes a group, has not ended; no thread
\* outlives the joins.
StageKnown(d) ==
    IF task[d].how = "none" THEN task[d] = NoTask ELSE task[d].at \in StagesOf(d)
HolderRuns(d) ==
    task[d].how = "held" => /\ LoopOf(task[d].at) \in loop[d]
                            /\ task[d].at \in Grouped => d = Root
SynchronizerRuns(d) == task[d].how = "sync" => "SYNC" \in loop[d]
QueuesLive(d) == loop[d] # {} => HasQueues(d)
Runs(d) == StageKnown(d) /\ HolderRuns(d) /\ SynchronizerRuns(d) /\ QueuesLive(d)
Live == Shapes /\ (\A d \in Devices : Runs(d)) /\ aborted # "loop"

\* The stages of a list are strings, and none is that of the listener.
LEMMA ListIsKnown ==
    ASSUME NEW d
    PROVE  /\ QueueList(d) \in Seq(Names) /\ QueueList(d) # << >>
           /\ StagesOf(d) \subseteq Names
<1> DEFINE Known(q) == /\ q \in Seq(Names) /\ q # << >>
                       /\ {q[i] : i \in DOMAIN q} \subseteq Names
<1>1. Known(<<"COORDINATE_REDUCE", "REDUCE", "COORDINATE_PUSH", "COPYH2D",
              "COORDINATE_BROADCAST", "BROADCAST">>)
  BY DEF Names
<1>2. Known(<<"REDUCE", "COMPRESS", "PUSH", "PULL", "DECOMPRESS", "COPYH2D", "BROADCAST">>)
  BY DEF Names
<1>3. Known(<<"REDUCE", "PUSH", "PULL", "COPYH2D", "BROADCAST">>)
  BY DEF Names
<1>4. Known(QueueList(d))
  <2> HIDE DEF Known
  <2> QED BY <1>1, <1>2, <1>3 DEF QueueList
<1> QED BY <1>4 DEF StagesOf

\* What follows a stage of the list is a stage of the list, or nothing.
LEMMA AfterIsKnown ==
    ASSUME NEW d, NEW s \in StagesOf(d)
    PROVE  After(d, s) \in StagesOf(d) \cup {"none"}
<1> DEFINE i == CHOOSE i \in DOMAIN QueueList(d) : QueueList(d)[i] = s
<1>1. i \in DOMAIN QueueList(d)
  BY DEF StagesOf
<1>2. CASE i = Len(QueueList(d))
  BY <1>2 DEF After
<1>3. CASE i # Len(QueueList(d))
  <2>1. i + 1 \in DOMAIN QueueList(d)
    <3>1. QueueList(d) \in Seq(Names)
      BY ListIsKnown
    <3> HIDE DEF i
    <3> QED BY <1>1, <1>3, <3>1
  <2>2. After(d, s) = QueueList(d)[i + 1]
    BY <1>3 DEF After
  <2> HIDE DEF i
  <2> QED BY <2>1, <2>2 DEF StagesOf
<1> QED BY <1>2, <1>3

\* A step that leaves the threads, the tasks and the stages alone.
LEMMA Untouched ==
    ASSUME Live, UNCHANGED <<stage, loop, task, last_handle>>, aborted' # "loop"
    PROVE  Live'
BY DEF Live, Shapes, Runs, StageKnown, HolderRuns, SynchronizerRuns, QueuesLive, HasQueues

\* A step of one process: the facts about the others stay.
LEMMA OfOne ==
    ASSUME Live, NEW d \in Devices, Shapes', Runs(d)', aborted' # "loop",
           \A e \in Devices \ {d} : /\ stage'[e] = stage[e] /\ loop'[e] = loop[e]
                                    /\ task'[e] = task[e]
    PROVE  Live'
BY DEF Live, Runs, StageKnown, HolderRuns, SynchronizerRuns, QueuesLive, HasQueues

-----------------------------------------------------------------------------

\* FinishOrProceed puts the task in its next queue, or ends it.
LEMMA FinishOrProceedKeeps ==
    ASSUME Live, NEW d \in Devices, task[d].how \in {"held", "sync", "ps", "pool"},
           FinishOrProceed(d)
    PROVE  /\ task' \in [Devices -> Tasks]
           /\ \A e \in Devices \ {d} : task'[e] = task[e]
           /\ task'[d].how \in {"none", "queued"}
           /\ IF task'[d].how = "none" THEN task'[d] = NoTask ELSE task'[d].at \in StagesOf(d)
<1>1. task \in [Devices -> Tasks] /\ task[d].at \in StagesOf(d)
  BY DEF Live, Shapes, Runs, StageKnown
<1>2. After(d, task[d].at) \in StagesOf(d) \cup {"none"} /\ StagesOf(d) \subseteq Names
  BY <1>1, AfterIsKnown, ListIsKnown
<1>3. CASE After(d, task[d].at) = "none"
  BY <1>1, <1>3 DEF FinishOrProceed, NoTask, Tasks, Hows
<1>4. CASE After(d, task[d].at) # "none"
  <2> DEFINE next == After(d, task[d].at)
  <2>1. task' = [task EXCEPT ![d].at = next, ![d].how = "queued"]
    BY <1>4 DEF FinishOrProceed
  <2>2. next \in StagesOf(d) /\ next \in Names
    BY <1>2, <1>4
  <2> HIDE DEF next
  <2>3. task'[d] = [at |-> next, how |-> "queued", handle |-> task[d].handle]
    BY <1>1, <2>1 DEF Tasks
  <2>4. task'[d] \in Tasks /\ task'[d].how = "queued" /\ task'[d].at \in StagesOf(d)
    BY <1>1, <2>2, <2>3 DEF Tasks, Hows
  <2> QED BY <1>1, <2>1, <2>4
<1> QED BY <1>3, <1>4

\* The main thread of a process.
LEMMA MainKeeps ==
    ASSUME Live, aborted = "no", NEW d \in Devices, Main(d)
    PROVE  Live'
<1>0. Shapes /\ Runs(d)
  BY DEF Live
<1>1. CASE Bind(d)
  <2>1. loop[d] = {}
    BY <1>0, <1>1 DEF Bind, Runs, QueuesLive, HasQueues
  <2> QED BY <1>0, <1>1, <2>1, OfOne DEF Bind, frameVars, Shapes, Stages, Runs, StageKnown,
                HolderRuns, SynchronizerRuns, QueuesLive
<1>2. CASE HaveId(d)
  <2>1. loop[d] = {}
    BY <1>0, <1>2 DEF HaveId, Runs, QueuesLive, HasQueues
  <2> QED BY <1>0, <1>2, <2>1, OfOne DEF HaveId, frameVars, Shapes, Stages, Runs, StageKnown,
                HolderRuns, SynchronizerRuns, QueuesLive
<1>3. CASE Start(d)
  <2>1. loop[d] = {}
    BY <1>0, <1>3 DEF Start, Runs, QueuesLive, HasQueues
  <2>2. Loops(d) \subseteq LoopNames
    BY DEF Loops, LoopNames, Names, Coordinated
  <2> QED BY <1>0, <1>3, <2>1, <2>2, OfOne DEF Start, frameVars, Shapes, Stages, Runs,
                StageKnown, HolderRuns, SynchronizerRuns, QueuesLive, HasQueues
<1>4. CASE Join(d)
  BY <1>0, <1>4, OfOne DEF Join, Joined, frameVars, Shapes, Stages, Runs, StageKnown,
                HolderRuns, SynchronizerRuns, QueuesLive
<1>5. CASE Finalize(d)
  <2>1. loop[d] = {}
    BY <1>0, <1>5 DEF Finalize, Runs, QueuesLive, HasQueues
  <2> QED BY <1>0, <1>5, <2>1, OfOne DEF Finalize, frameVars, Shapes, Stages, Runs, StageKnown,
                HolderRuns, SynchronizerRuns, QueuesLive
<1>6. CASE Close(d)
  <2>1. loop[d] = {}
    BY <1>0, <1>6 DEF Close, Runs, QueuesLive, HasQueues
  <2> QED BY <1>0, <1>6, <2>1, OfOne DEF Close, NoTask, Tasks, Hows, Shapes, Stages, Runs,
                StageKnown, HolderRuns, SynchronizerRuns, QueuesLive
<1> QED BY <1>1, <1>2, <1>3, <1>4, <1>5, <1>6 DEF Main

\* The framework.
LEMMA FrameworkKeeps ==
    ASSUME Live, aborted = "no", NEW d \in Devices, Framework(d)
    PROVE  Live'
<1>0. Shapes /\ Runs(d)
  BY DEF Live
<1>1. CASE Enqueue(d)
  <2>1. last_handle' \in [Devices -> Nat] /\ aborted' # "loop" /\ UNCHANGED <<stage, loop>>
    BY <1>0, <1>1 DEF Enqueue, Shapes, mainVars
  <2>2. CASE ShouldShutdown(d)
    BY <1>0, <1>1, <2>1, <2>2, OfOne DEF Enqueue, Shapes, Runs, StageKnown, HolderRuns,
                SynchronizerRuns, QueuesLive, HasQueues
  <2>3. CASE ~ShouldShutdown(d)
    <3> DEFINE t == [at |-> Head(QueueList(d)), how |-> "queued", handle |-> last_handle'[d]]
    <3>1. task' = [task EXCEPT ![d] = t]
      BY <1>1, <2>3 DEF Enqueue
    <3>2. Head(QueueList(d)) \in StagesOf(d) /\ StagesOf(d) \subseteq Names
      BY ListIsKnown DEF StagesOf
    <3>3. t \in Tasks /\ t.at \in StagesOf(d) /\ t.how = "queued"
      BY <2>1, <3>2 DEF Tasks, Hows
    <3> HIDE DEF t
    <3>4. Shapes'
      BY <1>0, <2>1, <3>1, <3>3 DEF Shapes
    <3>5. Runs(d)'
      BY <1>0, <2>1, <3>1, <3>3 DEF Shapes, Runs, StageKnown, HolderRuns, SynchronizerRuns,
                QueuesLive, HasQueues
    <3> QED BY <1>0, <2>1, <3>1, <3>4, <3>5, OfOne DEF Shapes
  <2> QED BY <2>2, <2>3
<1>2. CASE Release(d)
  BY <1>2, Untouched DEF Release, mainVars
<1>3. CASE Suspend(d)
  BY <1>0, <1>3, OfOne DEF Suspend, frameVars, Shapes, Stages, Runs, StageKnown, HolderRuns,
                SynchronizerRuns, QueuesLive, HasQueues
<1> QED BY <1>1, <1>2, <1>3 DEF Framework

\* A step that ends in Finish, while the queues are there.
LEMMA FinishKeeps ==
    ASSUME Live, aborted = "no", NEW d \in Devices, NEW user, user # "loop" \/ loop[d] # {},
           task[d].how \in {"held", "sync", "ps", "pool"}, Finish(d, user),
           UNCHANGED <<stage, loop, last_handle>>
    PROVE  Live'
<1>0. Shapes /\ Runs(d)
  BY DEF Live
<1>1. CASE HasQueues(d)
  <2>1. FinishOrProceed(d) /\ UNCHANGED aborted
    BY <1>1 DEF Finish
  <2>2. /\ task' \in [Devices -> Tasks]
        /\ \A e \in Devices \ {d} : task'[e] = task[e]
        /\ task'[d].how \in {"none", "queued"}
        /\ IF task'[d].how = "none" THEN task'[d] = NoTask ELSE task'[d].at \in StagesOf(d)
    BY <2>1, FinishOrProceedKeeps
  <2>3. Shapes'
    BY <1>0, <2>2 DEF Shapes
  <2>4. Runs(d)'
    BY <1>0, <1>1, <2>2 DEF Runs, StageKnown, HolderRuns, SynchronizerRuns, QueuesLive, HasQueues
  <2> QED BY <2>1, <2>2, <2>3, <2>4, OfOne
<1>2. CASE ~HasQueues(d)
  <2>1. user # "loop"
    BY <1>0, <1>2 DEF Runs, QueuesLive
  <2> QED BY <1>2, <2>1, Untouched DEF Finish
<1> QED BY <1>1, <1>2

\* The loop threads.
LEMMA ThreadsKeep ==
    ASSUME Live, aborted = "no", NEW d \in Devices, Threads(d)
    PROVE  Live'
<1>0. Shapes /\ Runs(d)
  BY DEF Live
<1>1. CASE Take(d)
  <2>1. task' = [task EXCEPT ![d].how = "held"] /\ UNCHANGED <<stage, loop, last_handle, aborted>>
    BY <1>1 DEF Take, mainVars, frameVars
  <2>2. /\ LoopOf(task[d].at) \in loop[d] /\ task[d].how = "queued"
        /\ task[d].at \in Grouped => d = Root
    BY <1>1 DEF Take, Between
  <2>3. Shapes'
    BY <1>0, <2>1 DEF Shapes, Tasks, Hows
  <2>4. Runs(d)'
    BY <1>0, <2>1, <2>2 DEF Tasks, Shapes, Runs, StageKnown, HolderRuns,
                SynchronizerRuns, QueuesLive, HasQueues
  <2> QED BY <1>0, <2>1, <2>3, <2>4, OfOne DEF Shapes
<1>2. CASE Issue(d)
  <2> DEFINE how == Call(task[d].at)
  <2>1. task' = [task EXCEPT ![d].how = how] /\ UNCHANGED <<stage, loop, last_handle, aborted>>
    BY <1>2 DEF Issue, mainVars, frameVars
  <2>2. task[d].at \in {"REDUCE", "PUSH", "PULL", "COMPRESS", "DECOMPRESS", "BROADCAST"}
    <3>1. d = Root /\ task[d].at \in StagesOf(d) /\ task[d].at # "COPYH2D"
      BY <1>0, <1>2 DEF Issue, Runs, StageKnown
    <3>2. StagesOf(Root) \subseteq {"REDUCE", "PUSH", "PULL", "COMPRESS", "DECOMPRESS", "COPYH2D",
                                    "BROADCAST"}
      BY DEF StagesOf, QueueList
    <3> QED BY <3>1, <3>2
  <2>3. how \in {"ps", "pool", "group"}
    BY <2>2 DEF Call, Grouped
  <2>4. task[d].how = "held"
    BY <1>2 DEF Issue
  <2> HIDE DEF how
  <2>5. Shapes'
    BY <1>0, <2>1, <2>3 DEF Shapes, Tasks, Hows
  <2>6. Runs(d)'
    BY <1>0, <2>1, <2>3, <2>4 DEF Tasks, Shapes, Runs, StageKnown, HolderRuns,
                SynchronizerRuns, QueuesLive, HasQueues
  <2> QED BY <1>0, <2>1, <2>5, <2>6, OfOne DEF Shapes
<1>3. CASE DequeueGroup(d)
  <2>1. task' = [task EXCEPT ![d].how = "sync"] /\ UNCHANGED <<stage, loop, last_handle, aborted>>
    BY <1>3 DEF DequeueGroup, mainVars, frameVars
  <2>2. "SYNC" \in loop[d] /\ task[d].how = "group"
    BY <1>3 DEF DequeueGroup, Between
  <2>3. Shapes'
    BY <1>0, <2>1 DEF Shapes, Tasks, Hows
  <2>4. Runs(d)'
    BY <1>0, <2>1, <2>2 DEF Tasks, Shapes, Runs, StageKnown, HolderRuns,
                SynchronizerRuns, QueuesLive, HasQueues
  <2> QED BY <1>0, <2>1, <2>3, <2>4, OfOne DEF Shapes
<1>4. CASE Sync(d)
  <2>1. "SYNC" \in loop[d] /\ task[d].how = "sync"
    BY <1>0, <1>4 DEF Sync, Runs, SynchronizerRuns
  <2> QED BY <1>4, <2>1, FinishKeeps DEF Sync, mainVars
<1>5. CASE Copy(d)
  <2>1. loop[d] # {} /\ task[d].how = "held"
    BY <1>0, <1>5 DEF Copy, Holds, Runs, HolderRuns
  <2> QED BY <1>5, <2>1, FinishKeeps DEF Copy, mainVars
<1>6. CASE Coordinate(d)
  <2>1. loop[d] # {} /\ task[d].how = "held"
    BY <1>0, <1>6 DEF Coordinate, Coordinated, Holds, Runs, HolderRuns
  <2> QED BY <1>6, <2>1, FinishKeeps DEF Coordinate, mainVars
<1> QED BY <1>1, <1>2, <1>3, <1>4, <1>5, <1>6 DEF Threads

\* The callbacks of ps-lite and the jobs of the pool.
LEMMA CompleteKeeps ==
    ASSUME Live, aborted = "no", NEW d \in Devices, Complete(d)
    PROVE  Live'
BY FinishKeeps DEF Complete, mainVars

\* The loops that receive.
LEMMA ReceiversKeep ==
    ASSUME Live, aborted = "no", NEW d \in Devices, Receivers(d)
    PROVE  Live'
<1>0. Shapes /\ Runs(d) /\ StagesOf(d) \subseteq Names
  BY ListIsKnown DEF Live
<1>1. CASE ReceiveCopy(d)
  <2>1. UNCHANGED <<stage, task, last_handle>> /\ aborted' # "loop"
    BY <1>1 DEF ReceiveCopy, AddReadyCount, mainVars, frameVars
  <2>2. CASE ShouldShutdown(d)
    <3>1. loop' = [loop EXCEPT ![d] = @ \ {"LISTEN"}]
      BY <1>1, <2>2 DEF ReceiveCopy
    <3>2. Shapes' /\ Runs(d)'
      BY <1>0, <2>1, <3>1 DEF Names, LoopOf, NoTask, Shapes, Runs, StageKnown, HolderRuns,
                SynchronizerRuns, QueuesLive, HasQueues
    <3> QED BY <1>0, <2>1, <3>1, <3>2, OfOne DEF Shapes
  <2>3. CASE ~ShouldShutdown(d)
    BY <1>1, <2>1, <2>3, Untouched DEF ReceiveCopy
  <2> QED BY <2>2, <2>3
<1>2. CASE ReceiveNccl(d)
  <2>1. UNCHANGED <<stage, last_handle>> /\ aborted' # "loop" /\ d # Root
    BY <1>2 DEF ReceiveNccl, mainVars, frameVars
  <2>2. CASE loop' = [loop EXCEPT ![d] = @ \ {"NCCL"}] /\ UNCHANGED task
    <3>1. Shapes' /\ Runs(d)'
      BY <1>0, <2>1, <2>2 DEF Names, LoopOf, NoTask, Shapes, Runs, StageKnown, HolderRuns,
                SynchronizerRuns, QueuesLive, HasQueues
    <3> QED BY <1>0, <2>1, <2>2, <3>1, OfOne DEF Shapes
  <2>3. CASE /\ task[d].how = "queued" /\ task' = [task EXCEPT ![d].how = "group"]
             /\ UNCHANGED loop
    <3>1. Shapes' /\ Runs(d)'
      BY <1>0, <2>1, <2>3 DEF NoTask, Tasks, Hows, Shapes, Runs, StageKnown, HolderRuns,
                SynchronizerRuns, QueuesLive, HasQueues
    <3> QED BY <1>0, <2>1, <2>3, <3>1, OfOne DEF Shapes
  <2>4. CASE UNCHANGED <<loop, task>>
    BY <2>1, <2>4, Untouched
  <2> QED BY <1>2, <2>2, <2>3, <2>4 DEF ReceiveNccl
<1> QED BY <1>1, <1>2 DEF Receivers

\* The loops that end.
LEMMA EndingKeeps ==
    ASSUME Live, aborted = "no", NEW d \in Devices, Ending(d)
    PROVE  Live'
<1>0. Shapes /\ Runs(d)
  BY DEF Live
<1>1. UNCHANGED <<stage, task, last_handle, aborted>>
  BY DEF Ending, EndIdle, EndBusy, mainVars, frameVars
<1>2. PICK S \in SUBSET loop[d] : /\ loop' = [loop EXCEPT ![d] = @ \ S]
                                  /\ \A s \in S : Between(d, s)
  <2>1. CASE EndIdle(d)
    <3> DEFINE idle == {s \in loop[d] : Between(d, s) /\ ~HasWork(d, s)}
    <3>1. loop' = [loop EXCEPT ![d] = @ \ idle]
      BY <2>1 DEF EndIdle
    <3>2. idle \in SUBSET loop[d] /\ \A s \in idle : Between(d, s)
      OBVIOUS
    <3> HIDE DEF idle
    <3> QED BY <3>1, <3>2
  <2>2. CASE EndBusy(d)
    <3> DEFINE s == IF task[d].how = "group" THEN "SYNC" ELSE LoopOf(task[d].at)
    <3>1. {s} \in SUBSET loop[d] /\ loop' = [loop EXCEPT ![d] = @ \ {s}] /\ Between(d, s)
      BY <2>2 DEF EndBusy
    <3> QED BY <3>1
  <2> QED BY <2>1, <2>2 DEF Ending
<1>3. Shapes' /\ Runs(d)'
  BY <1>0, <1>1, <1>2 DEF Between, Holds, NoTask, Shapes, Runs, StageKnown, HolderRuns,
                SynchronizerRuns, QueuesLive, HasQueues
<1> QED BY <1>0, <1>1, <1>2, <1>3, OfOne DEF Shapes

-----------------------------------------------------------------------------

\* Initially no thread runs.
LEMMA InitLive == ASSUME Init PROVE Live
BY DEF Init, Live, Shapes, Stages, Tasks, Hows, NoTask, Runs, StageKnown, HolderRuns,
       SynchronizerRuns, QueuesLive, HasQueues

\* Every step keeps it.
LEMMA NextKeeps == ASSUME Live, [Next]_vars PROVE Live'
<1>1. CASE UNCHANGED vars
  BY <1>1, Untouched DEF vars, mainVars, frameVars, Live
<1>2. CASE Next /\ InitRank
  <2>1. \A d \in Devices : stage[d] = "rank" /\ loop[d] = {}
    BY <1>2 DEF InitRank, Live, Runs, QueuesLive, HasQueues
  <2> QED BY <1>2, <2>1 DEF Next, InitRank, frameVars, Live, Shapes, Stages, Runs, StageKnown,
                HolderRuns, SynchronizerRuns, QueuesLive
<1>3. CASE Next /\ \E c \in Comms : Listen(c)
  BY <1>3, Untouched DEF Next, Listen, AddReadyCount, mainVars, frameVars
<1>4. CASE Next /\ \E d \in Devices : Send(d)
  BY <1>4, Untouched DEF Next, Send, mainVars, frameVars
<1>5. ASSUME Next, NEW d \in Devices,
             Framework(d) \/ Main(d) \/ Threads(d) \/ Complete(d) \/ Receivers(d) \/ Ending(d)
      PROVE  Live'
  BY <1>5, FrameworkKeeps, MainKeeps, ThreadsKeep, CompleteKeeps, ReceiversKeep, EndingKeeps
     DEF Next
<1> QED BY <1>1, <1>2, <1>3, <1>4, <1>5 DEF Next

\* However the framework suspends, no loop thread uses a queue that Shutdown
\* has deleted (global.cc:363-386): a thread that has a task is in a loop that
\* has not ended, so its process has not joined.
THEOREM LoopsLive == Spec => []LoopsUseLiveQueues
<1>1. Live => LoopsUseLiveQueues
  BY DEF Live, LoopsUseLiveQueues
<1> QED BY <1>1, InitLive, NextKeeps, PTL DEF Spec

-----------------------------------------------------------------------------
(* Handles.                                                                *)

\* A task that is under way is that of the handle the framework waits for,
\* which is not done yet.
HandleOfTask(d) ==
    manner # "hasty" =>
       /\ DOMAIN results[d] \subseteq {held[d]} \ {0}
       /\ task[d].how # "none" => /\ task[d].handle = held[d] /\ held[d] \in DOMAIN results[d]
                                  /\ results[d][held[d]] = FALSE
Handles ==
    /\ DOMAIN results = Devices /\ held \in [Devices -> Nat]
    /\ \A d \in Devices : HandleOfTask(d)

\* Initially there is no handle.
LEMMA InitHandles == ASSUME Init PROVE Handles
BY DEF Init, Handles, HandleOfTask, NoTask, NoResult

\* A step that leaves handles alone, and at most moves the task on or drops it.
LEMMA HandlesUntouched ==
    ASSUME Live, Handles, UNCHANGED <<manner, held, results>>,
           \A d \in Devices : \/ task'[d].how = "none"
                              \/ task[d].how # "none" /\ task'[d].handle = task[d].handle
    PROVE  Handles'
BY DEF Handles, HandleOfTask

\* MarkDone marks the handle that the framework waits for.
LEMMA FinishKeepsHandles ==
    ASSUME Live, Handles, NEW d \in Devices, NEW user, task[d].how # "none", Finish(d, user),
           UNCHANGED <<manner, held>>
    PROVE  Handles'
<1>1. task \in [Devices -> Tasks] /\ DOMAIN results = Devices /\ HandleOfTask(d)
  BY DEF Live, Shapes, Handles
<1>2. CASE UNCHANGED <<task, results>>
  BY <1>2 DEF Handles, HandleOfTask
<1>3. CASE FinishOrProceed(d) /\ After(d, task[d].at) = "none"
  <2> DEFINE h == task[d].handle
             r == SetResult(results[d], h, TRUE)
  <2>1. results' = [results EXCEPT ![d] = r] /\ task' = [task EXCEPT ![d] = NoTask]
    BY <1>3 DEF FinishOrProceed
  <2>2. DOMAIN r = {h} \cup DOMAIN results[d]
    BY DEF SetResult
  <2>3. manner # "hasty" => DOMAIN r \subseteq {held[d]} \ {0}
    BY <1>1, <2>2 DEF HandleOfTask
  <2> HIDE DEF r
  <2>4. HandleOfTask(d)'
    BY <1>1, <2>1, <2>3 DEF HandleOfTask, NoTask
  <2> QED BY <1>1, <2>1, <2>4 DEF Handles, HandleOfTask
<1>4. CASE FinishOrProceed(d) /\ After(d, task[d].at) # "none"
  <2> DEFINE next == After(d, task[d].at)
  <2>1. task' = [task EXCEPT ![d].at = next, ![d].how = "queued"] /\ UNCHANGED results
    BY <1>4 DEF FinishOrProceed
  <2> HIDE DEF next
  <2>2. /\ task'[d].handle = task[d].handle
        /\ \A e \in Devices \ {d} : task'[e] = task[e]
    BY <1>1, <2>1 DEF Tasks
  <2> QED BY <2>1, <2>2 DEF Handles, HandleOfTask
<1> QED BY <1>2, <1>3, <1>4 DEF Finish

\* The framework has at most one handle, and no task when it has none.
LEMMA FrameworkKeepsHandles ==
    ASSUME Live, Handles, NEW d \in Devices, Framework(d)
    PROVE  Handles'
<1>1. /\ task \in [Devices -> Tasks] /\ last_handle \in [Devices -> Nat]
      /\ DOMAIN results = Devices /\ held \in [Devices -> Nat] /\ HandleOfTask(d)
  BY DEF Live, Shapes, Handles
<1>2. CASE Enqueue(d)
  <2> DEFINE h == last_handle[d] + 1
             r == SetResult(results[d], h, FALSE)
             t == [at |-> Head(QueueList(d)), how |-> "queued", handle |-> h]
  <2>1. /\ last_handle' = [last_handle EXCEPT ![d] = h] /\ held[d] = 0
        /\ held' = [held EXCEPT ![d] = h] /\ results' = [results EXCEPT ![d] = r]
        /\ UNCHANGED manner
        /\ task' = task \/ task' = [task EXCEPT ![d] = t]
    BY <1>1, <1>2 DEF Enqueue
  <2>2. h \in Nat \ {0}
    BY <1>1
  <2>3. CASE manner = "hasty"
    BY <1>1, <2>1, <2>2, <2>3 DEF Handles, HandleOfTask
  <2>4. CASE manner # "hasty"
    <3>1. DOMAIN results[d] = {} /\ task[d].how = "none"
      BY <1>1, <2>1, <2>4 DEF HandleOfTask
    <3>2. DOMAIN r = {h} /\ r[h] = FALSE
      BY <3>1 DEF SetResult
    <3> HIDE DEF r
    <3>3. held'[d] = h /\ results'[d] = r /\ (task'[d] = task[d] \/ task'[d] = t)
      BY <1>1, <2>1
    <3>4. HandleOfTask(d)'
      BY <2>2, <3>1, <3>2, <3>3 DEF HandleOfTask
    <3> HIDE DEF h, t
    <3> QED BY <1>1, <2>1, <2>2, <3>4 DEF Handles, HandleOfTask
  <2> QED BY <2>3, <2>4
<1>3. CASE Release(d)
  <2> DEFINE r == Forget(results[d], held[d])
  <2>1. /\ held[d] # 0 /\ held' = [held EXCEPT ![d] = 0] /\ results' = [results EXCEPT ![d] = r]
        /\ manner = "hasty" \/ results[d][held[d]]
        /\ UNCHANGED <<manner, task>>
    BY <1>3 DEF Release
  <2>2. DOMAIN r = DOMAIN results[d] \ {held[d]}
    BY DEF Forget
  <2> HIDE DEF r
  <2>3. HandleOfTask(d)'
    BY <1>1, <2>1, <2>2 DEF HandleOfTask
  <2> QED BY <1>1, <2>1, <2>3 DEF Handles, HandleOfTask
<1>4. CASE Suspend(d)
  BY <1>4, HandlesUntouched DEF Suspend, frameVars, Handles, HandleOfTask
<1> QED BY <1>2, <1>3, <1>4 DEF Framework

\* The callback of a task marks the handle that is held.
LEMMA NextKeepsHandles == ASSUME Live, Handles, [Next]_vars PROVE Handles'
<1>0. Shapes /\ \A d \in Devices : Runs(d)
  BY DEF Live
<1>1. CASE UNCHANGED <<manner, held, results, task>>
  BY <1>1 DEF Handles, HandleOfTask
<1>2. CASE InitRank
  BY <1>1, <1>2 DEF InitRank, frameVars
<1>3. CASE \E c \in Comms : Listen(c)
  BY <1>1, <1>3 DEF Listen, frameVars
<1>4. ASSUME NEW d \in Devices, Main(d) PROVE Handles'
  <2>1. CASE Close(d)
    <3>1. UNCHANGED <<manner, held, results>> /\ (task' = task \/ task' = [task EXCEPT ![d] = NoTask])
      BY <2>1 DEF Close
    <3> QED BY <1>0, <3>1 DEF Handles, HandleOfTask, Shapes, NoTask
  <2> QED BY <1>1, <1>4, <2>1 DEF Main, Bind, HaveId, Start, Join, Finalize, frameVars
<1>5. ASSUME NEW d \in Devices, Threads(d) PROVE Handles'
  <2>1. ASSUME NEW how, task' = [task EXCEPT ![d].how = how], task[d].how # "none",
               UNCHANGED <<manner, held, results>>
        PROVE  Handles'
    <3>1. /\ task'[d].handle = task[d].handle
          /\ \A e \in Devices \ {d} : task'[e] = task[e]
      BY <1>0, <2>1 DEF Shapes, Tasks
    <3> QED BY <2>1, <3>1 DEF Handles, HandleOfTask
  <2>2. CASE Take(d) \/ Issue(d) \/ DequeueGroup(d)
    <3>1. CASE Take(d)
      BY <2>1, <3>1 DEF Take, frameVars
    <3>2. CASE Issue(d)
      <4> DEFINE how == Call(task[d].at)
      <4>1. /\ task' = [task EXCEPT ![d].how = how] /\ task[d].how # "none"
            /\ UNCHANGED <<manner, held, results>>
        BY <3>2 DEF Issue, frameVars
      <4> HIDE DEF how
      <4> QED BY <2>1, <4>1
    <3>3. CASE DequeueGroup(d)
      BY <2>1, <3>3 DEF DequeueGroup, frameVars
    <3> QED BY <2>2, <3>1, <3>2, <3>3
  <2>3. CASE Sync(d)
    BY <2>3, FinishKeepsHandles DEF Sync
  <2>4. CASE Copy(d)
    BY <2>4, FinishKeepsHandles DEF Copy, Holds
  <2>5. CASE Coordinate(d)
    BY <2>5, FinishKeepsHandles DEF Coordinate, Holds
  <2> QED BY <1>5, <2>2, <2>3, <2>4, <2>5 DEF Threads
<1>6. ASSUME NEW d \in Devices, Complete(d) PROVE Handles'
  BY <1>6, FinishKeepsHandles DEF Complete
<1>7. ASSUME NEW d \in Devices, Receivers(d) PROVE Handles'
  <2>1. CASE task' = [task EXCEPT ![d].how = "group"] /\ task[d].how = "queued"
    <3>1. /\ task'[d].handle = task[d].handle
          /\ \A e \in Devices \ {d} : task'[e] = task[e]
      BY <1>0, <2>1 DEF Shapes, Tasks
    <3> QED BY <1>7, <2>1, <3>1 DEF Receivers, ReceiveCopy, ReceiveNccl, frameVars, Handles,
                HandleOfTask
  <2> QED BY <1>1, <1>7, <2>1 DEF Receivers, ReceiveCopy, ReceiveNccl, frameVars
<1>8. ASSUME NEW d \in Devices, Send(d) \/ Ending(d) PROVE Handles'
  BY <1>1, <1>8 DEF Send, Ending, EndIdle, EndBusy, frameVars
<1>9. CASE UNCHANGED vars
  BY <1>1, <1>9 DEF vars, frameVars
<1> QED BY <1>2, <1>3, <1>4, <1>5, <1>6, <1>7, <1>8, <1>9, FrameworkKeepsHandles DEF Next

\* A handle that was released stays released: MarkDone (handle_manager.cc:31)
\* finds the handle of a task still held, if the framework waits for a handle
\* before it releases it.
THEOREM ReleasedStay == Spec => []ReleasedForGood
<1>1. Handles => ReleasedForGood
  BY DEF Handles, HandleOfTask, ReleasedForGood
<1> QED BY <1>1, InitLive, NextKeeps, InitHandles, NextKeepsHandles, PTL DEF Spec

-----------------------------------------------------------------------------
(* All variables.                                                          *)

Signals == {"REDUCE_READY", "PUSH_READY", "BCAST_READY"}
Orders == {"DO_REDUCE", "DO_COPYH2D", "DO_BROADCAST"}
Kinds == {"none", "ID"} \cup Signals \cup Orders
Listening == {"none", "recv", "ended", "REDUCE", "PUSH", "BROADCAST"}
Limit == MaxStep[manner]
LastLife == MaxLife[manner]

\* The types of all variables.
TypedOne(d) ==
    /\ held[d] \in {0, last_handle[d]} /\ DOMAIN results[d] \subseteq 1..last_handle[d]
    /\ task[d].how # "none" => task[d].handle \in 1..last_handle[d]
    /\ loop[d] \subseteq Loops(d)
    /\ sending[d].to \subseteq Devices \ {d}
    /\ ready[d] \in [Tables(d) -> 0..ReadyCount(d)]
Typed ==
    /\ manner \in Manners
    /\ life \in [Devices -> 0..LastLife] /\ step \in [Devices -> 0..Limit]
    /\ held \in [Devices -> Nat] /\ DOMAIN results = Devices
    /\ sending \in [Devices -> [kind : Kinds, to : SUBSET Devices]] /\ DOMAIN ready = Devices
    /\ inbox \in [Devices -> SUBSET [kind : Kinds, from : Devices, life : 0..LastLife]]
    /\ id \in [Devices -> 0..LastLife]
    /\ listen \in [Comms -> Listening]
    /\ \A d \in Devices : TypedOne(d)

-----------------------------------------------------------------------------
(* Steps.                                                                  *)

\* A process whose life is over, or that waits for the others to begin one, has
\* done all the steps of the life before.
Away(d) == stage[d] \in {"down", "bound", "rank"}
Steps(d) == IF Away(d) THEN Limit ELSE step[d]
OneIf(p) == IF p THEN 1 ELSE 0

\* How many steps of the life a device has signalled, has launched, has asked to
\* push, has had copied, has signalled for the broadcast, and has begun to
\* broadcast; and how many the root has taken for each.
At(d, S) == task[d].at \in S
Queued(d, s) == task[d].at = s /\ task[d].how = "queued"
Signalled(d) == Steps(d) - OneIf(At(d, {"COORDINATE_REDUCE"}))
Launched(d) == Steps(d) - OneIf(At(d, {"COORDINATE_REDUCE"}) \/ Queued(d, "REDUCE"))
Asked(d) == Steps(d) - OneIf(At(d, {"COORDINATE_REDUCE", "REDUCE", "COORDINATE_PUSH"}))
Copying(d) == task[d].at = "COPYH2D" /\ task[d].how = "held"
CopyBegun(d) == Copying(d) \/ At(d, {"COORDINATE_BROADCAST", "BROADCAST"})
Begun(d) == Steps(d) - OneIf(task[d].how # "none" /\ ~CopyBegun(d))
Copied(d) == Begun(d) + ready[d]["COPYH2D"]
BcastSignalled(d) == Steps(d) - OneIf(task[d].how # "none" /\ task[d].at # "BROADCAST")
BcastBegun(d) ==
    Steps(d) - OneIf(task[d].how # "none" /\ (task[d].at # "BROADCAST" \/ task[d].how = "queued"))

FirstPush == IF Compressed THEN "COMPRESS" ELSE "PUSH"
Taken == Steps(Root) - OneIf(Queued(Root, "REDUCE"))
TakenPush == Steps(Root) - OneIf(At(Root, {"REDUCE"}) \/ Queued(Root, FirstPush))
TakenCopy == Begun(Root)
TakenBcast == BcastBegun(Root)

\* A message is with its sender, or in the socket.
AtSender(kind, d, e) == sending[d].kind = kind /\ e \in sending[d].to
InSocket(kind, d, e) == \E m \in inbox[e] : m.kind = kind /\ m.from = d
InTransit(kind, d, e) == AtSender(kind, d, e) \/ InSocket(kind, d, e)
NotTwice(kind, d, e) == ~(AtSender(kind, d, e) /\ InSocket(kind, d, e))

\* What a task is doing.
HowKnown(d) ==
    /\ task[d].how \in {"group", "sync"} => task[d].at \in Grouped
    /\ task[d].how = "ps" => task[d].at \in {"PUSH", "PULL"}
    /\ task[d].how = "pool" => task[d].at \in {"COMPRESS", "DECOMPRESS"}

\* A framework that waits has no task when it suspends.
Orderly(d) ==
    /\ task[d].how # "none" => stage[d] = "up" /\ step[d] >= 1
    /\ ShouldShutdown(d) => step[d] = Limit
    /\ stage[d] \in {"down", "bound", "rank", "ranked"} => step[d] = 0
    /\ ~HasTables(d) => ready[d] = NoneReady(d)

\* What the root sends, and what it has sent.
RootSends ==
    sending[Root].to # {} =>
       \/ sending[Root].kind = "ID" /\ stage[Root] = "bound"
       \/ sending[Root].kind = "DO_REDUCE" /\ task[Root].at = "REDUCE" /\ task[Root].how = "held"
       \/ sending[Root].kind = "DO_COPYH2D" /\ Copying(Root)
       \/ sending[Root].kind = "DO_BROADCAST" /\ task[Root].at = "BROADCAST" /\ task[Root].how = "held"
RootSent(d) ==
    \A m \in inbox[d] :
       /\ m.from = Root /\ m.kind \in {"ID"} \cup Orders
       /\ m.kind # "ID" => m.life = life[d]
OtherSends(d) ==
    sending[d].to # {} => sending[d].to = {Root} /\ sending[d].kind \in Signals
RootReceives ==
    \A m \in inbox[Root] :
       m.from \in Others /\ m.kind \in Signals /\ m.life = life[m.from]

\* Another device and the root are at most one step apart, and what is in
\* transit between them accounts for it.
Apart(d) ==
    /\ Taken <= Signalled(d) /\ Signalled(d) <= Taken + 1
    /\ Launched(d) <= Taken
    /\ TakenPush <= Asked(d) /\ Asked(d) <= TakenPush + 1
    /\ Copied(d) <= TakenCopy
    /\ TakenBcast <= BcastSignalled(d) /\ BcastSignalled(d) <= TakenBcast + 1
    /\ BcastBegun(d) <= TakenBcast
    /\ InTransit("REDUCE_READY", d, Root) => Signalled(d) = Taken + 1
    /\ InTransit("DO_REDUCE", Root, d) => Launched(d) + 1 = Taken
    /\ InTransit("PUSH_READY", d, Root) => Asked(d) = TakenPush + 1
    /\ InTransit("DO_COPYH2D", Root, d) => Copied(d) + 1 = TakenCopy
    /\ InTransit("BCAST_READY", d, Root) => BcastSignalled(d) = TakenBcast + 1
    /\ InTransit("DO_BROADCAST", Root, d) => BcastBegun(d) + 1 = TakenBcast
    /\ \A k \in Signals : NotTwice(k, d, Root)
    /\ \A k \in Orders : NotTwice(k, Root, d)

\* A count of the root, with the signal that a listener has, is that of the
\* devices whose signal has arrived and is not used; but a compression gives the
\* count back to the push that follows.
ReduceArrived == {d \in Others : Signalled(d) = Taken + 1 /\ ~InTransit("REDUCE_READY", d, Root)}
PushArrived == {d \in Others : Asked(d) = TakenPush + 1 /\ ~InTransit("PUSH_READY", d, Root)}
BcastArrived == {d \in Others : BcastSignalled(d) = TakenBcast + 1 /\ ~InTransit("BCAST_READY", d, Root)}
GivenBack == Compressed /\ Queued(Root, "PUSH")
RootTables == {"REDUCE", "PUSH", "BROADCAST"}
CommOf(t) == IF t = "PUSH" THEN "basic" ELSE "nccl"
Got(t) == OneIf(listen[CommOf(t)] = t)
NoneGot == \A t \in RootTables : listen[CommOf(t)] # t
ReduceCounted == ready[Root]["REDUCE"] + Got("REDUCE") = Cardinality(ReduceArrived)
PushCounted ==
    IF GivenBack THEN ready[Root]["PUSH"] = LocalSize - 1 /\ listen["basic"] # "PUSH"
    ELSE ready[Root]["PUSH"] + Got("PUSH") = Cardinality(PushArrived)
BcastCounted == ready[Root]["BROADCAST"] + Got("BROADCAST") = Cardinality(BcastArrived)

\* All processes have begun as many lives, and are in the same one.
Begins(d) == life[d] - OneIf(stage[d] \in {"bound", "rank"})
SameLife == \A d, e \in Devices : Begins(d) = Begins(e)

\* When all resume together, an id finds its process before Init goes on.
IdsMeet ==
    \A d \in Others :
       /\ stage[d] = "rank" => stage[Root] \in {"bound", "rank"}
       /\ InTransit("ID", Root, d) => stage[d] \in {"down", "bound"} /\ stage[Root] \in {"bound", "rank"}
       /\ NotTwice("ID", Root, d)
       /\ \A m \in inbox[d] : m.kind = "ID" => m.life = life[Root]

\* A process is orderly, and the framework waits for its handles.
OrderlyAll == \A d \in Devices : HowKnown(d) /\ Orderly(d)
Waits == manner # "hasty"

\* A process and the root, as long as neither has ended.
Coherent ==
    /\ RootSends /\ RootReceives /\ ReduceCounted /\ PushCounted /\ BcastCounted
    /\ \A d \in Others : RootSent(d) /\ OtherSends(d) /\ Apart(d)
\* What the root pushes.
AllInStep ==
    PushBegun =>
       \A d \in Devices :
          life[d] = life[Root] /\ step[d] = step[Root] /\ AwaitsResult(d)

-----------------------------------------------------------------------------
(* Types.                                                                  *)

\* The bounds of a manner.
LEMMA BoundsAreNumbers == ASSUME manner \in Manners PROVE Limit \in Nat \ {0} /\ LastLife \in Nat \ {0}
BY LifecycleAssumption DEF Limit, LastLife

\* The root is the last device.
LEMMA RootIsDevice == Root \in Devices /\ Devices \subseteq Nat /\ LocalSize \in Nat \ {0}
BY LifecycleAssumption DEF Root, Devices

\* Initially every variable has its type.
LEMMA InitTyped == ASSUME Init PROVE Typed
<1>1. Limit \in Nat \ {0} /\ LastLife \in Nat \ {0}
  BY BoundsAreNumbers DEF Init
<1>2. \A d \in Devices : ReadyCount(d) \in Nat
  BY RootIsDevice DEF ReadyCount
<1>3. \A d \in Devices : ready[d] \in [Tables(d) -> 0..ReadyCount(d)]
  BY <1>2 DEF Init, NoneReady
<1> QED BY <1>1, <1>3, RootIsDevice DEF Init, Typed, TypedOne, NoTask, NoResult, Nothing, Kinds,
       Listening

\* The smallest device of a set is in it.
LEMMA FirstIsThere ==
    ASSUME NEW S \in SUBSET Devices, S # {}
    PROVE  First(S) \in S
<1> DEFINE less == {ss \in Nat \X Nat : ss[1] < ss[2]}
<1>1. IsWellFoundedOn(less, Nat)
  BY NatLessThanWellFounded DEF OpToRel
<1>2. PICK x \in S : \A y \in S : <<y, x>> \notin less
  <2> HIDE DEF less
  <2>1. S \subseteq Nat
    BY RootIsDevice
  <2> QED BY <1>1, <2>1, WFMin, Zenon
<1>3. \A y \in S : x <= y
  <2> SUFFICES ASSUME NEW y \in S, y < x PROVE FALSE
    BY RootIsDevice
  <2>1. x \in Nat /\ y \in Nat
    BY RootIsDevice
  <2>2. <<y, x>> \in Nat \X Nat /\ <<y, x>>[1] < <<y, x>>[2]
    BY <2>1
  <2> QED BY <1>2, <2>2
<1> QED BY <1>3 DEF First

\* A message that is sent has the type of a message.
LEMMA MessageTyped ==
    ASSUME Typed, NEW d \in Devices
    PROVE  Message(sending[d].kind, d) \in [kind : Kinds, from : Devices, life : 0..LastLife]
BY DEF Typed, Message

\* A step of one process: the types of the others stay.
GlobalTypes ==
    /\ manner \in Manners
    /\ life \in [Devices -> 0..LastLife] /\ step \in [Devices -> 0..Limit]
    /\ held \in [Devices -> Nat] /\ DOMAIN results = Devices
    /\ sending \in [Devices -> [kind : Kinds, to : SUBSET Devices]] /\ DOMAIN ready = Devices
    /\ inbox \in [Devices -> SUBSET [kind : Kinds, from : Devices, life : 0..LastLife]]
    /\ id \in [Devices -> 0..LastLife]
    /\ listen \in [Comms -> Listening]

\* A step of one process: the types of the others stay.
LEMMA TypesOfOne ==
    ASSUME Typed, NEW d \in Devices, GlobalTypes', TypedOne(d)',
           \A e \in Devices \ {d} :
              /\ held'[e] = held[e] /\ last_handle'[e] = last_handle[e]
              /\ results'[e] = results[e] /\ task'[e] = task[e] /\ loop'[e] = loop[e]
              /\ sending'[e] = sending[e] /\ ready'[e] = ready[e]
    PROVE  Typed'
BY DEF Typed, GlobalTypes, TypedOne

\* A step that leaves these variables alone, and at most drops a task or changes
\* its stage.
LEMMA TypesUntouched ==
    ASSUME Typed, UNCHANGED <<manner, life, step, held, last_handle, results, loop, sending,
                              ready, inbox, id>>,
           listen' \in [Comms -> Listening],
           \A d \in Devices : task'[d].how = "none" \/
                              (task[d].how # "none" /\ task'[d].handle = task[d].handle)
    PROVE  Typed'
BY DEF Typed, TypedOne, Limit, LastLife

\* The main thread keeps the types.
LEMMA MainTyped ==
    ASSUME Live, Typed, NEW d \in Devices, Main(d)
    PROVE  Typed'
<1>0. /\ task \in [Devices -> Tasks] /\ loop \in [Devices -> SUBSET LoopNames]
      /\ Limit \in Nat \ {0} /\ LastLife \in Nat \ {0}
      /\ GlobalTypes /\ TypedOne(d)
  BY BoundsAreNumbers DEF Live, Shapes, Typed, GlobalTypes
<1>1. CASE Bind(d)
  <2>1. life' \in [Devices -> 0..LastLife]
    BY <1>0, <1>1 DEF Bind, GlobalTypes, LastLife
  <2>2. UNCHANGED <<manner, step, held, last_handle, results, task, loop, ready, inbox, Limit, LastLife>>
    BY <1>1 DEF Bind, frameVars, Limit, LastLife
  <2>3. CASE d = Root
    <3> DEFINE s == [kind |-> "ID", to |-> Others]
    <3>1. /\ listen' = [c \in Comms |-> "recv"] /\ sending' = [sending EXCEPT ![d] = s]
          /\ id' = [id EXCEPT ![d] = life'[d]]
      BY <1>1, <2>3 DEF Bind
    <3>2. s \in [kind : Kinds, to : SUBSET Devices] /\ s.to \subseteq Devices \ {d}
      BY <2>3 DEF Kinds, Others
    <3> HIDE DEF s
    <3>3. GlobalTypes'
      BY <1>0, <2>1, <2>2, <3>1, <3>2 DEF GlobalTypes, Listening
    <3>4. TypedOne(d)'
      BY <1>0, <2>2, <3>1, <3>2 DEF GlobalTypes, TypedOne
    <3> QED BY <1>0, <2>2, <3>1, <3>3, <3>4, TypesOfOne DEF GlobalTypes
  <2>4. CASE d # Root
    BY <1>0, <1>1, <2>1, <2>2, <2>4, TypesOfOne DEF Bind, GlobalTypes, TypedOne
  <2> QED BY <2>3, <2>4
<1>2. CASE HaveId(d)
  <2>1. UNCHANGED <<manner, life, step, held, last_handle, results, task, loop, sending, ready, listen,
                    Limit, LastLife>>
    BY <1>2 DEF HaveId, frameVars, Limit, LastLife
  <2>2. /\ id' \in [Devices -> 0..LastLife]
        /\ inbox' \in [Devices -> SUBSET [kind : Kinds, from : Devices, life : 0..LastLife]]
    BY <1>0, <1>2 DEF HaveId, GlobalTypes, Received
  <2> QED BY <1>0, <2>1, <2>2, TypesOfOne DEF GlobalTypes, TypedOne
<1>3. CASE Start(d)
  BY <1>0, <1>3, TypesOfOne DEF Start, frameVars, commVars, GlobalTypes, TypedOne, Limit, LastLife
<1>4. CASE Join(d)
  BY <1>0, <1>4, TypesUntouched DEF Join, frameVars, commVars, GlobalTypes
<1>5. CASE Finalize(d)
  <2>1. ReadyCount(d) \in Nat
    BY RootIsDevice DEF ReadyCount
  <2>2. NoneReady(d) \in [Tables(d) -> 0..ReadyCount(d)]
    BY <2>1 DEF NoneReady
  <2> QED BY <1>0, <1>5, <2>2, TypesOfOne DEF Finalize, frameVars, GlobalTypes, TypedOne, Limit,
                LastLife
<1>6. CASE Close(d)
  <2>1. UNCHANGED <<manner, life, held, last_handle, results, loop, sending, ready, Limit, LastLife>>
    BY <1>6 DEF Close, Limit, LastLife
  <2>2. /\ step' \in [Devices -> 0..Limit] /\ id' \in [Devices -> 0..LastLife]
        /\ inbox' \in [Devices -> SUBSET [kind : Kinds, from : Devices, life : 0..LastLife]]
        /\ listen' \in [Comms -> Listening]
    BY <1>0, <1>6 DEF Close, GlobalTypes, Listening
  <2>3. task' = task \/ task' = [task EXCEPT ![d] = NoTask]
    BY <1>6 DEF Close
  <2>4. \A e \in Devices \ {d} : task'[e] = task[e]
    BY <1>0, <2>3
  <2>5. TypedOne(d)'
    BY <1>0, <2>1, <2>3 DEF TypedOne, NoTask
  <2> QED BY <1>0, <2>1, <2>2, <2>4, <2>5, TypesOfOne DEF GlobalTypes
<1> QED BY <1>1, <1>2, <1>3, <1>4, <1>5, <1>6 DEF Main

\* The framework keeps the types.
LEMMA FrameworkTyped ==
    ASSUME Live, Typed, NEW d \in Devices, Framework(d)
    PROVE  Typed'
<1>0. /\ task \in [Devices -> Tasks] /\ last_handle \in [Devices -> Nat]
      /\ Limit \in Nat \ {0} /\ LastLife \in Nat \ {0}
      /\ GlobalTypes /\ TypedOne(d)
  BY BoundsAreNumbers DEF Live, Shapes, Typed, GlobalTypes
<1>1. CASE Enqueue(d)
  <2> DEFINE h == last_handle[d] + 1
             r == SetResult(results[d], h, FALSE)
             t == [at |-> Head(QueueList(d)), how |-> "queued", handle |-> h]
  <2>1. /\ last_handle' = [last_handle EXCEPT ![d] = h]
        /\ held' = [held EXCEPT ![d] = h] /\ results' = [results EXCEPT ![d] = r]
        /\ task' = task \/ task' = [task EXCEPT ![d] = t]
        /\ UNCHANGED <<manner, life, loop, sending, ready, inbox, id, listen, Limit, LastLife>>
    BY <1>0, <1>1 DEF Enqueue, mainVars, commVars, Limit, LastLife
  <2>2. h \in Nat \ {0}
    BY <1>0
  <2>3. DOMAIN r = {h} \cup DOMAIN results[d]
    BY DEF SetResult
  <2>4. step' \in [Devices -> 0..Limit]
    BY <1>0, <1>1 DEF Enqueue, GlobalTypes, Limit
  <2> HIDE DEF r
  <2>5. task'[d] = t \/ task'[d] = task[d]
    BY <1>0, <2>1
  <2>6. TypedOne(d)'
    <3>1. t.handle = h
      OBVIOUS
    <3>2. DOMAIN results[d] \subseteq 1..h
      BY <1>0 DEF TypedOne
    <3>3. last_handle'[d] = h /\ held'[d] = h /\ results'[d] = r
      BY <1>0, <2>1 DEF GlobalTypes
    <3>4. task'[d].how # "none" => task'[d].handle \in 1..h
      <4> HIDE DEF t
      <4> QED BY <1>0, <2>2, <2>5, <3>1 DEF TypedOne
    <3> HIDE DEF h, t
    <3>5. DOMAIN results'[d] \subseteq 1..last_handle'[d]
      BY <2>2, <2>3, <3>2, <3>3
    <3> QED BY <1>0, <2>1, <3>3, <3>4, <3>5 DEF TypedOne
  <2> HIDE DEF h, t
  <2> QED BY <1>0, <2>1, <2>2, <2>4, <2>6, TypesOfOne DEF GlobalTypes
<1>2. CASE Release(d)
  <2> DEFINE r == Forget(results[d], held[d])
  <2>1. /\ held' = [held EXCEPT ![d] = 0] /\ results' = [results EXCEPT ![d] = r]
        /\ UNCHANGED <<manner, life, step, last_handle, task, loop, sending, ready, inbox, id, listen,
                       Limit, LastLife>>
    BY <1>2 DEF Release, mainVars, commVars, Limit, LastLife
  <2>2. DOMAIN r = DOMAIN results[d] \ {held[d]}
    BY DEF Forget
  <2> HIDE DEF r
  <2>3. TypedOne(d)'
    BY <1>0, <2>1, <2>2 DEF TypedOne, GlobalTypes
  <2> QED BY <1>0, <2>1, <2>3, TypesOfOne DEF GlobalTypes
<1>3. CASE Suspend(d)
  BY <1>0, <1>3, TypesUntouched DEF Suspend, frameVars, commVars, GlobalTypes
<1> QED BY <1>1, <1>2, <1>3 DEF Framework

\* A step that ends in Finish.
LEMMA FinishTyped ==
    ASSUME Live, Typed, NEW d \in Devices, NEW user, task[d].how # "none", Finish(d, user)
    PROVE  /\ DOMAIN results' = Devices
           /\ DOMAIN results'[d] \subseteq 1..last_handle[d]
           /\ task'[d].how # "none" => task'[d].handle \in 1..last_handle[d]
           /\ \A e \in Devices \ {d} : results'[e] = results[e] /\ task'[e] = task[e]
<1>0. task \in [Devices -> Tasks] /\ DOMAIN results = Devices /\ TypedOne(d)
  BY DEF Live, Shapes, Typed
<1>1. CASE UNCHANGED <<task, results>>
  BY <1>0, <1>1 DEF TypedOne
<1>2. CASE FinishOrProceed(d) /\ After(d, task[d].at) = "none"
  <2> DEFINE r == SetResult(results[d], task[d].handle, TRUE)
  <2>1. results' = [results EXCEPT ![d] = r] /\ task' = [task EXCEPT ![d] = NoTask]
    BY <1>2 DEF FinishOrProceed
  <2>2. DOMAIN r = {task[d].handle} \cup DOMAIN results[d]
    BY DEF SetResult
  <2> HIDE DEF r
  <2> QED BY <1>0, <2>1, <2>2 DEF TypedOne, NoTask
<1>3. CASE FinishOrProceed(d) /\ After(d, task[d].at) # "none"
  <2> DEFINE next == After(d, task[d].at)
  <2>1. task' = [task EXCEPT ![d].at = next, ![d].how = "queued"] /\ UNCHANGED results
    BY <1>3 DEF FinishOrProceed
  <2> HIDE DEF next
  <2>2. task'[d].handle = task[d].handle /\ \A e \in Devices \ {d} : task'[e] = task[e]
    BY <1>0, <2>1 DEF Tasks
  <2> QED BY <1>0, <2>1, <2>2 DEF TypedOne
<1> QED BY <1>1, <1>2, <1>3 DEF Finish

\* A step that changes how a thread has the task.
LEMMA HowTyped ==
    ASSUME Live, NEW d \in Devices, NEW how, task' = [task EXCEPT ![d].how = how]
    PROVE  /\ task'[d].handle = task[d].handle /\ task'[d].at = task[d].at /\ task'[d].how = how
           /\ \A e \in Devices \ {d} : task'[e] = task[e]
BY DEF Live, Shapes, Tasks

\* A coordinator holds the task at a stage of its own.
LEMMA CoordinatorHolds ==
    ASSUME NEW d \in Devices, Coordinate(d)
    PROVE  task[d].at \in Coordinated /\ task[d].how = "held"
BY DEF Coordinate, Coordinated, Holds, LoopOf

\* The loop threads keep the types.
LEMMA ThreadsTyped ==
    ASSUME Live, Typed, NEW d \in Devices, Threads(d)
    PROVE  Typed'
<1>0. /\ task \in [Devices -> Tasks] /\ last_handle \in [Devices -> Nat]
      /\ Limit \in Nat \ {0} /\ LastLife \in Nat \ {0} /\ ReadyCount(d) \in Nat
      /\ GlobalTypes /\ TypedOne(d) /\ Runs(d)
  BY BoundsAreNumbers, RootIsDevice DEF Live, Shapes, Typed, GlobalTypes, ReadyCount
<1>1. CASE Take(d)
  <2> DEFINE s == task[d].at
             t == TableOf(d, s)
             new == [kind |-> Told(s), to |-> Others]
  <2>1. /\ UNCHANGED <<manner, life, step, held, last_handle, results, loop, inbox, id, listen,
                       Limit, LastLife>>
        /\ task' = [task EXCEPT ![d].how = "held"] /\ task[d].how = "queued"
    BY <1>1 DEF Take, mainVars, frameVars, Limit, LastLife
  <2>2. task'[d].handle = task[d].handle /\ \A e \in Devices \ {d} : task'[e] = task[e]
    BY <2>1, HowTyped
  <2>3. ready' = ready \/ ready' = [ready EXCEPT ![d][t] = 0]
    BY <1>1 DEF Take, ClearReadyCount
  <2>4. /\ DOMAIN ready' = Devices /\ ready'[d] \in [Tables(d) -> 0..ReadyCount(d)]
        /\ \A e \in Devices \ {d} : ready'[e] = ready[e]
    <3>1. CASE ready' = ready
      BY <1>0, <3>1 DEF GlobalTypes, TypedOne
    <3>2. CASE ready' = [ready EXCEPT ![d][t] = 0]
      <4> DEFINE r == [ready[d] EXCEPT ![t] = 0]
      <4>1. ready' = [ready EXCEPT ![d] = r]
        BY <3>2
      <4>2. r \in [Tables(d) -> 0..ReadyCount(d)]
        <5>1. 0 \in 0..ReadyCount(d) /\ ready[d] \in [Tables(d) -> 0..ReadyCount(d)]
          BY <1>0 DEF TypedOne
        <5> HIDE DEF t
        <5> QED BY <5>1
      <4> HIDE DEF r
      <4> QED BY <1>0, <4>1, <4>2 DEF GlobalTypes
    <3> QED BY <2>3, <3>1, <3>2
  <2>5. sending' = sending \/ (d = Root /\ s \in Grouped \cup {"COPYH2D"} /\ sending' = [sending EXCEPT ![d] = new])
    BY <1>1 DEF Take
  <2>6. /\ sending' \in [Devices -> [kind : Kinds, to : SUBSET Devices]]
        /\ sending'[d].to \subseteq Devices \ {d}
        /\ \A e \in Devices \ {d} : sending'[e] = sending[e]
    <3>1. CASE sending' = sending
      BY <1>0, <3>1 DEF GlobalTypes, TypedOne
    <3>2. CASE sending' # sending
      <4>1. new \in [kind : Kinds, to : SUBSET Devices] /\ new.to \subseteq Devices \ {d}
        BY <2>5, <3>2 DEF Told, Grouped, Kinds, Orders, Others
      <4> HIDE DEF new
      <4> QED BY <1>0, <2>5, <3>2, <4>1 DEF GlobalTypes
    <3> QED BY <3>1, <3>2
  <2>7. TypedOne(d)'
    BY <1>0, <2>1, <2>2, <2>4, <2>6 DEF TypedOne, ReadyCount
  <2> HIDE DEF s, t, new
  <2> QED BY <1>0, <2>1, <2>2, <2>4, <2>6, <2>7, TypesOfOne DEF GlobalTypes
<1>2. ASSUME NEW how, task' = [task EXCEPT ![d].how = how], task[d].how # "none",
             UNCHANGED <<manner, life, step, held, last_handle, results, loop, sending, ready,
                         inbox, id, listen>>
      PROVE  Typed'
  <2>1. task'[d].handle = task[d].handle /\ \A e \in Devices \ {d} : task'[e] = task[e]
    BY <1>2, HowTyped
  <2> QED BY <1>0, <1>2, <2>1, TypesUntouched DEF GlobalTypes
<1>3. CASE Issue(d)
  <2> DEFINE how == Call(task[d].at)
  <2>1. /\ task' = [task EXCEPT ![d].how = how] /\ task[d].how # "none"
        /\ UNCHANGED <<manner, life, step, held, last_handle, results, loop, sending, ready,
                       inbox, id, listen>>
    BY <1>3 DEF Issue, mainVars, frameVars, commVars
  <2> HIDE DEF how
  <2> QED BY <1>2, <2>1
<1>4. CASE DequeueGroup(d)
  BY <1>2, <1>4 DEF DequeueGroup, mainVars, frameVars, commVars
<1>5. ASSUME NEW user, Finish(d, user), task[d].how # "none", GlobalTypes',
             sending'[d].to \subseteq Devices \ {d},
             \A e \in Devices \ {d} : sending'[e] = sending[e],
             UNCHANGED <<held, last_handle, loop, ready>>
      PROVE  Typed'
  <2>1. /\ DOMAIN results'[d] \subseteq 1..last_handle[d]
        /\ task'[d].how # "none" => task'[d].handle \in 1..last_handle[d]
        /\ \A e \in Devices \ {d} : results'[e] = results[e] /\ task'[e] = task[e]
    BY <1>5, FinishTyped
  <2>2. TypedOne(d)'
    BY <1>0, <1>5, <2>1 DEF TypedOne
  <2> QED BY <1>0, <1>5, <2>1, <2>2, TypesOfOne
<1>6. CASE Sync(d)
  <2>1. Finish(d, "loop") /\ task[d].how # "none"
    BY <1>6 DEF Sync
  <2>2. DOMAIN results' = Devices
    BY <2>1, FinishTyped
  <2> QED BY <1>0, <1>5, <1>6, <2>1, <2>2 DEF Sync, mainVars, commVars, GlobalTypes, TypedOne,
             Limit, LastLife
<1>7. CASE Copy(d)
  <2>1. Finish(d, "loop") /\ task[d].how # "none"
    BY <1>7 DEF Copy, Holds
  <2>2. DOMAIN results' = Devices
    BY <2>1, FinishTyped
  <2> QED BY <1>0, <1>5, <1>7, <2>1, <2>2 DEF Copy, mainVars, commVars, GlobalTypes, TypedOne,
             Limit, LastLife
<1>8. CASE Coordinate(d)
  <2> DEFINE s == [kind |-> SignalOf(task[d].at), to |-> {Root}]
  <2>1. /\ Finish(d, "loop") /\ task[d].how # "none" /\ sending' = [sending EXCEPT ![d] = s]
        /\ UNCHANGED <<manner, life, step, held, last_handle, loop, ready, inbox, id, listen,
                       Limit, LastLife>>
    BY <1>8 DEF Coordinate, Holds, mainVars, commVars, Limit, LastLife
  <2>2. DOMAIN results' = Devices
    BY <2>1, FinishTyped
  <2>3. s \in [kind : Kinds, to : SUBSET Devices]
    <3>1. task[d].at \in Coordinated
      BY <1>8, CoordinatorHolds
    <3> QED BY <3>1, RootIsDevice DEF SignalOf, Coordinated, Kinds, Signals
  <2>4. d # Root
    <3>1. task[d].at \in Coordinated /\ task[d].at \in StagesOf(d)
      BY <1>0, <1>8, CoordinatorHolds DEF Coordinate, Holds, Runs, StageKnown
    <3>2. StagesOf(Root) \subseteq {"REDUCE", "PUSH", "PULL", "COMPRESS", "DECOMPRESS", "COPYH2D",
                                    "BROADCAST"}
      BY DEF StagesOf, QueueList
    <3> QED BY <3>1, <3>2 DEF Coordinated
  <2>5. s.to \subseteq Devices \ {d}
    BY <2>4, RootIsDevice
  <2> HIDE DEF s
  <2>6. GlobalTypes' /\ sending'[d] = s /\ \A e \in Devices \ {d} : sending'[e] = sending[e]
    BY <1>0, <2>1, <2>2, <2>3 DEF GlobalTypes
  <2> QED BY <1>5, <2>1, <2>5, <2>6
<1> QED BY <1>1, <1>3, <1>4, <1>6, <1>7, <1>8 DEF Threads

\* The callbacks and the pool jobs keep the types.
LEMMA CompleteTyped ==
    ASSUME Live, Typed, NEW d \in Devices, Complete(d)
    PROVE  Typed'
<1>0. GlobalTypes /\ TypedOne(d) /\ ReadyCount(d) \in Nat /\ task[d].how # "none"
  BY RootIsDevice DEF Typed, GlobalTypes, ReadyCount, Complete
<1>1. /\ DOMAIN results' = Devices
      /\ DOMAIN results'[d] \subseteq 1..last_handle[d]
      /\ task'[d].how # "none" => task'[d].handle \in 1..last_handle[d]
      /\ \A e \in Devices \ {d} : results'[e] = results[e] /\ task'[e] = task[e]
  BY <1>0, FinishTyped DEF Complete
<1>2. ready' = ready \/ ready' = [ready EXCEPT ![d]["PUSH"] = ReadyCount(d)]
  BY DEF Complete, RestoredCount
<1>3. /\ DOMAIN ready' = Devices /\ ready'[d] \in [Tables(d) -> 0..ReadyCount(d)]
      /\ \A e \in Devices \ {d} : ready'[e] = ready[e]
  BY <1>0, <1>2 DEF GlobalTypes, TypedOne
<1>4. UNCHANGED <<manner, life, step, held, last_handle, loop, sending, inbox, id, listen, Limit, LastLife>>
  BY DEF Complete, mainVars, Limit, LastLife
<1>5. TypedOne(d)'
  BY <1>0, <1>1, <1>3, <1>4 DEF TypedOne, ReadyCount
<1> QED BY <1>0, <1>1, <1>3, <1>4, <1>5, TypesOfOne DEF GlobalTypes

\* A message that is sent keeps the types.
LEMMA SendTyped ==
    ASSUME Live, Typed, NEW d \in Devices, Send(d)
    PROVE  Typed'
<1>0. GlobalTypes /\ TypedOne(d) /\ Message(sending[d].kind, d) \in [kind : Kinds, from : Devices, life : 0..LastLife]
  BY MessageTyped DEF Typed, GlobalTypes
<1> DEFINE e == First(sending[d].to)
           m == Message(sending[d].kind, d)
<1>1. /\ inbox' = [inbox EXCEPT ![e] = @ \cup {m}]
      /\ sending' = [sending EXCEPT ![d].to = @ \ {e}]
      /\ UNCHANGED <<manner, life, step, held, last_handle, results, task, loop, ready, id, listen, Limit, LastLife>>
  BY DEF Send, mainVars, frameVars, Limit, LastLife
<1> HIDE DEF e, m
<1>2. inbox' \in [Devices -> SUBSET [kind : Kinds, from : Devices, life : 0..LastLife]]
  BY <1>0, <1>1 DEF GlobalTypes, m
<1>3. /\ sending' \in [Devices -> [kind : Kinds, to : SUBSET Devices]]
      /\ sending'[d].to \subseteq sending[d].to
      /\ \A c \in Devices \ {d} : sending'[c] = sending[c]
  BY <1>0, <1>1 DEF GlobalTypes
<1> QED BY <1>0, <1>1, <1>2, <1>3, TypesOfOne DEF GlobalTypes, TypedOne

\* AddReadyCount counts up to the bound.
LEMMA AddReadyTyped ==
    ASSUME Typed, NEW d \in Devices, NEW t, AddReadyCount(d, t)
    PROVE  /\ DOMAIN ready' = Devices /\ ready'[d] \in [Tables(d) -> 0..ReadyCount(d)]
           /\ \A e \in Devices \ {d} : ready'[e] = ready[e]
<1>1. DOMAIN ready = Devices /\ ready[d] \in [Tables(d) -> 0..ReadyCount(d)] /\ ReadyCount(d) \in Nat
  BY RootIsDevice DEF Typed, TypedOne, ReadyCount
<1>2. CASE UNCHANGED ready
  BY <1>1, <1>2 DEF Typed, TypedOne
<1>3. CASE ready' = [ready EXCEPT ![d][t] = @ + 1] /\ ready[d][t] < ReadyCount(d)
  <2> DEFINE r == [ready[d] EXCEPT ![t] = @ + 1]
  <2>1. r \in [Tables(d) -> 0..ReadyCount(d)]
    <3>1. CASE t \in Tables(d)
      <4>1. ready[d][t] + 1 \in 0..ReadyCount(d)
        BY <1>1, <1>3, <3>1
      <4> QED BY <1>1, <3>1, <4>1
    <3>2. CASE t \notin Tables(d)
      BY <1>1, <3>2
    <3> QED BY <3>1, <3>2
  <2>2. ready' = [ready EXCEPT ![d] = r]
    BY <1>3
  <2> HIDE DEF r
  <2> QED BY <1>1, <2>1, <2>2
<1> QED BY <1>2, <1>3 DEF AddReadyCount

\* The listeners of the root keep the types.
LEMMA ListenTyped ==
    ASSUME Live, Typed, NEW c \in Comms, Listen(c)
    PROVE  Typed'
<1>0. GlobalTypes /\ TypedOne(Root) /\ Root \in Devices
  BY RootIsDevice DEF Typed, GlobalTypes
<1>1. UNCHANGED <<manner, life, step, held, last_handle, results, task, loop, sending, id, Limit, LastLife>>
  BY DEF Listen, mainVars, frameVars, Limit, LastLife
<1>2. listen' \in [Comms -> Listening]
  <2>1. TablesOf(c) \subseteq Listening
    BY DEF TablesOf, Grouped, Listening
  <2>2. \E t \in Listening : listen' = [listen EXCEPT ![c] = t]
    BY <2>1 DEF Listen, Listening
  <2> QED BY <1>0, <2>2 DEF GlobalTypes
<1>3. inbox' \in [Devices -> SUBSET [kind : Kinds, from : Devices, life : 0..LastLife]]
  <2>1. inbox' = inbox \/ \E m : inbox' = [inbox EXCEPT ![Root] = @ \ {m}]
    BY DEF Listen
  <2> QED BY <1>0, <2>1 DEF GlobalTypes
<1>4. /\ DOMAIN ready' = Devices /\ ready'[Root] \in [Tables(Root) -> 0..ReadyCount(Root)]
      /\ \A e \in Devices \ {Root} : ready'[e] = ready[e]
  <2>1. CASE UNCHANGED ready
    BY <1>0, <2>1 DEF GlobalTypes, TypedOne
  <2>2. CASE AddReadyCount(Root, listen[c])
    BY <1>0, <2>2, AddReadyTyped
  <2> QED BY <2>1, <2>2 DEF Listen
<1>5. TypedOne(Root)'
  BY <1>0, <1>1, <1>4 DEF TypedOne, ReadyCount
<1> QED BY <1>0, <1>1, <1>2, <1>3, <1>4, <1>5, TypesOfOne DEF GlobalTypes

\* The receiving loops keep the types.
LEMMA ReceiversTyped ==
    ASSUME Live, Typed, NEW d \in Devices, Receivers(d)
    PROVE  Typed'
<1>0. GlobalTypes /\ TypedOne(d) /\ task \in [Devices -> Tasks]
      /\ loop \in [Devices -> SUBSET LoopNames]
  BY DEF Typed, GlobalTypes, Live, Shapes
<1>1. CASE ReceiveCopy(d)
  <2>1. UNCHANGED <<manner, life, step, held, last_handle, results, task, sending, id, listen, Limit, LastLife>>
    BY <1>1 DEF ReceiveCopy, mainVars, frameVars, Limit, LastLife
  <2>2. inbox' \in [Devices -> SUBSET [kind : Kinds, from : Devices, life : 0..LastLife]]
    BY <1>0, <1>1 DEF ReceiveCopy, GlobalTypes, Received
  <2>3. /\ DOMAIN ready' = Devices /\ ready'[d] \in [Tables(d) -> 0..ReadyCount(d)]
        /\ \A e \in Devices \ {d} : ready'[e] = ready[e]
    <3>1. CASE UNCHANGED ready
      BY <1>0, <3>1 DEF GlobalTypes, TypedOne
    <3>2. CASE AddReadyCount(d, "COPYH2D")
      BY <1>0, <3>2, AddReadyTyped
    <3> QED BY <1>1, <3>1, <3>2 DEF ReceiveCopy
  <2>4. /\ loop'[d] \subseteq loop[d]
        /\ \A e \in Devices \ {d} : loop'[e] = loop[e]
    BY <1>0, <1>1 DEF ReceiveCopy
  <2>5. TypedOne(d)'
    BY <1>0, <2>1, <2>3, <2>4 DEF TypedOne, ReadyCount
  <2> QED BY <1>0, <2>1, <2>2, <2>3, <2>4, <2>5, TypesOfOne DEF GlobalTypes
<1>2. CASE ReceiveNccl(d)
  <2>1. UNCHANGED <<manner, life, step, held, last_handle, results, sending, ready, id, listen, Limit, LastLife>>
    BY <1>2 DEF ReceiveNccl, mainVars, frameVars, Limit, LastLife
  <2>2. inbox' \in [Devices -> SUBSET [kind : Kinds, from : Devices, life : 0..LastLife]]
    BY <1>0, <1>2 DEF ReceiveNccl, GlobalTypes, Received
  <2>3. /\ loop'[d] \subseteq loop[d]
        /\ \A e \in Devices \ {d} : loop'[e] = loop[e]
    BY <1>0, <1>2 DEF ReceiveNccl
  <2>4. /\ task'[d].how # "none" => task'[d].handle \in 1..last_handle[d]
        /\ \A e \in Devices \ {d} : task'[e] = task[e]
    <3>1. CASE UNCHANGED task
      BY <1>0, <3>1 DEF TypedOne
    <3>2. CASE task' = [task EXCEPT ![d].how = "group"] /\ task[d].how = "queued"
      BY <1>0, <3>2, HowTyped DEF TypedOne
    <3> QED BY <1>2, <3>1, <3>2 DEF ReceiveNccl
  <2>5. TypedOne(d)'
    BY <1>0, <2>1, <2>3, <2>4 DEF TypedOne
  <2> QED BY <1>0, <2>1, <2>2, <2>3, <2>4, <2>5, TypesOfOne DEF GlobalTypes
<1> QED BY <1>1, <1>2 DEF Receivers

\* Loops that end leave all but the loops alone.
LEMMA EndingLeaves ==
    ASSUME Live, NEW d \in Devices, Ending(d)
    PROVE  /\ UNCHANGED <<manner, mainVars, frameVars, task, sending, launched, commVars, aborted>>
           /\ loop'[d] \subseteq loop[d]
           /\ \A e \in Devices \ {d} : loop'[e] = loop[e]
<1>1. CASE EndIdle(d)
  <2> DEFINE idle == {s \in loop[d] : Between(d, s) /\ ~HasWork(d, s)}
  <2>1. loop' = [loop EXCEPT ![d] = @ \ idle]
    BY <1>1 DEF EndIdle
  <2> HIDE DEF idle
  <2> QED BY <1>1, <2>1 DEF EndIdle, Live, Shapes
<1>2. CASE EndBusy(d)
  BY <1>2 DEF EndBusy, Live, Shapes
<1> QED BY <1>1, <1>2 DEF Ending

\* A loop that ends keeps the types.
LEMMA EndingTyped ==
    ASSUME Live, Typed, NEW d \in Devices, Ending(d)
    PROVE  Typed'
<1>1. UNCHANGED <<manner, mainVars, frameVars, task, sending, commVars, Limit, LastLife>>
  BY EndingLeaves DEF Limit, LastLife
<1>2. GlobalTypes /\ TypedOne(d)
  BY DEF Typed, GlobalTypes
<1> QED BY <1>1, <1>2, EndingLeaves, TypesOfOne DEF mainVars, frameVars, commVars, GlobalTypes, TypedOne

\* Every step keeps the types.
LEMMA NextTyped == ASSUME Live, Typed, [Next]_vars PROVE Typed'
<1>1. CASE UNCHANGED vars
  BY <1>1, TypesUntouched DEF vars, mainVars, frameVars, commVars, Typed
<1>2. CASE InitRank
  BY <1>2, TypesUntouched DEF InitRank, frameVars, commVars, Typed
<1>3. ASSUME NEW c \in Comms, Listen(c) PROVE Typed'
  BY <1>3, ListenTyped
<1>4. ASSUME NEW d \in Devices,
             \/ Framework(d) \/ Main(d) \/ Threads(d) \/ Send(d) \/ Complete(d)
             \/ Receivers(d) \/ Ending(d)
      PROVE  Typed'
  BY <1>4, FrameworkTyped, MainTyped, ThreadsTyped, SendTyped, CompleteTyped, ReceiversTyped,
     EndingTyped
<1> QED BY <1>1, <1>2, <1>3, <1>4 DEF Next

\* Types, for any number of devices, steps and lives, and in every manner: a
\* ready count stays within its bound (ready_table.cc:35), no loop thread runs
\* before Start or after the joins, and a handle is one that was allocated.
THEOREM TypeCorrect == Spec => []TypeOK
<1>1. Live /\ Typed => TypeOK
  BY DEF Live, Shapes, Runs, QueuesLive, Tasks, Hows, Typed, TypedOne, TypeOK, Limit, LastLife,
         Listening, Tables
<1> QED BY <1>1, InitLive, NextKeeps, InitTyped, NextTyped, PTL DEF Spec

-----------------------------------------------------------------------------
(* Lives.                                                                  *)

\* The lives stay the same if no process enters or leaves the start of a life.
LEMMA LivesOfStages ==
    ASSUME SameLife, UNCHANGED life,
           \A d \in Devices : stage[d] \in {"bound", "rank"} <=> stage'[d] \in {"bound", "rank"}
    PROVE  SameLife'
BY DEF SameLife, Begins, OneIf

\* InitRank returns in all processes at once; between that and the next time, a
\* process goes through one whole life.
LEMMA NextSameLife == ASSUME Live, Typed, SameLife, [Next]_vars PROVE SameLife'
<1>0. stage \in [Devices -> Stages] /\ life \in [Devices -> Int]
  BY BoundsAreNumbers DEF Live, Shapes, Typed
<1>1. CASE UNCHANGED <<life, stage>>
  BY <1>1, LivesOfStages
<1>2. CASE InitRank
  <2>1. /\ \A d \in Devices : stage[d] = "rank" /\ stage'[d] = "ranked"
        /\ UNCHANGED life
    BY <1>2 DEF InitRank
  <2> QED BY <1>0, <2>1 DEF SameLife, Begins, OneIf
<1>3. ASSUME NEW d \in Devices, Main(d) PROVE SameLife'
  <2>1. CASE Bind(d)
    <3>1. /\ stage[d] = "down" /\ stage' = [stage EXCEPT ![d] = "bound"]
          /\ life' = [life EXCEPT ![d] = @ + 1]
      BY <2>1 DEF Bind
    <3>2. \A e \in Devices : Begins(e)' = Begins(e)
      BY <1>0, <3>1 DEF Begins, OneIf
    <3> QED BY <3>2 DEF SameLife
  <2>2. CASE HaveId(d)
    BY <1>0, <2>2, LivesOfStages DEF HaveId
  <2>3. CASE Start(d)
    BY <1>0, <2>3, LivesOfStages DEF Start
  <2>4. CASE Join(d)
    BY <1>0, <2>4, LivesOfStages DEF Join
  <2>5. CASE Finalize(d)
    BY <1>0, <2>5, LivesOfStages DEF Finalize
  <2>6. CASE Close(d)
    BY <1>0, <2>6, LivesOfStages DEF Close
  <2> QED BY <1>3, <2>1, <2>2, <2>3, <2>4, <2>5, <2>6 DEF Main
<1>4. ASSUME NEW d \in Devices, Framework(d) PROVE SameLife'
  <2>1. CASE Suspend(d)
    BY <1>0, <2>1, LivesOfStages DEF Suspend
  <2> QED BY <1>1, <1>4, <2>1 DEF Framework, Enqueue, Release, mainVars
<1>5. ASSUME NEW d \in Devices, Threads(d) \/ Send(d) \/ Complete(d) \/ Receivers(d) PROVE SameLife'
  BY <1>1, <1>5 DEF Threads, Take, Issue, DequeueGroup, Sync, Copy, Coordinate, Send, Complete,
                Receivers, ReceiveCopy, ReceiveNccl, mainVars
<1>6. ASSUME NEW d \in Devices, Ending(d) PROVE SameLife'
  BY <1>1, <1>6, EndingLeaves DEF mainVars
<1>7. ASSUME NEW c \in Comms, Listen(c) PROVE SameLife'
  BY <1>1, <1>7 DEF Listen, mainVars
<1> QED BY <1>1, <1>2, <1>3, <1>4, <1>5, <1>6, <1>7 DEF Next, vars, mainVars

\* Initially no process has begun a life.
LEMMA InitSameLife == ASSUME Init PROVE SameLife
BY DEF Init, SameLife, Begins, OneIf

-----------------------------------------------------------------------------
(* The stages of a task, and of a process whose framework waits.           *)

\* The stages of a task of the root,
LEMMA StagesOfRoot ==
    /\ Compressed => StagesOf(Root) = {"REDUCE", "COMPRESS", "PUSH", "PULL", "DECOMPRESS", "COPYH2D",
                                       "BROADCAST"}
    /\ ~Compressed => StagesOf(Root) = {"REDUCE", "PUSH", "PULL", "COPYH2D", "BROADCAST"}
BY DEF StagesOf, QueueList

\* and of another device.
LEMMA StagesOfOthers ==
    ASSUME NEW d, d # Root
    PROVE  StagesOf(d) = {"COORDINATE_REDUCE", "REDUCE", "COORDINATE_PUSH", "COPYH2D",
                          "COORDINATE_BROADCAST", "BROADCAST"}
BY DEF StagesOf, QueueList

\* After one stage comes the next of the list.
LEMMA AfterOfOthers ==
    ASSUME NEW d, d # Root
    PROVE  /\ After(d, "COORDINATE_REDUCE") = "REDUCE" /\ After(d, "REDUCE") = "COORDINATE_PUSH"
           /\ After(d, "COORDINATE_PUSH") = "COPYH2D" /\ After(d, "COPYH2D") = "COORDINATE_BROADCAST"
           /\ After(d, "COORDINATE_BROADCAST") = "BROADCAST" /\ After(d, "BROADCAST") = "none"
<1> DEFINE q == <<"COORDINATE_REDUCE", "REDUCE", "COORDINATE_PUSH", "COPYH2D",
                  "COORDINATE_BROADCAST", "BROADCAST">>
<1>1. QueueList(d) = q
  BY DEF QueueList
<1>2. /\ DOMAIN q = 1..6 /\ Len(q) = 6
      /\ q[1] = "COORDINATE_REDUCE" /\ q[2] = "REDUCE" /\ q[3] = "COORDINATE_PUSH" /\ q[4] = "COPYH2D"
      /\ q[5] = "COORDINATE_BROADCAST" /\ q[6] = "BROADCAST"
  OBVIOUS
<1> HIDE DEF q
<1>3. \A i, j \in 1..6 : q[j] = q[i] => j = i
  BY <1>2
<1>4. ASSUME NEW i \in 1..6 PROVE After(d, q[i]) = IF i = 6 THEN "none" ELSE q[i + 1]
  <2>1. (CHOOSE j \in DOMAIN q : q[j] = q[i]) = i
    BY <1>2, <1>3
  <2> QED BY <1>1, <1>2, <2>1 DEF After
<1> QED BY <1>2, <1>4

\* The stages of the root follow each other in the order of its list.
LEMMA AfterOfRoot ==
    /\ After(Root, "REDUCE") = FirstPush /\ After(Root, "PUSH") = "PULL"
    /\ After(Root, "COPYH2D") = "BROADCAST" /\ After(Root, "BROADCAST") = "none"
    /\ Compressed => /\ After(Root, "COMPRESS") = "PUSH" /\ After(Root, "PULL") = "DECOMPRESS"
                     /\ After(Root, "DECOMPRESS") = "COPYH2D"
    /\ ~Compressed => After(Root, "PULL") = "COPYH2D"
<1>1. CASE Compressed
  <2> DEFINE q == <<"REDUCE", "COMPRESS", "PUSH", "PULL", "DECOMPRESS", "COPYH2D", "BROADCAST">>
  <2>1. QueueList(Root) = q
    BY <1>1 DEF QueueList
  <2>2. /\ DOMAIN q = 1..7 /\ Len(q) = 7
        /\ q[1] = "REDUCE" /\ q[2] = "COMPRESS" /\ q[3] = "PUSH" /\ q[4] = "PULL"
        /\ q[5] = "DECOMPRESS" /\ q[6] = "COPYH2D" /\ q[7] = "BROADCAST"
    OBVIOUS
  <2> HIDE DEF q
  <2>3. \A i, j \in 1..7 : q[j] = q[i] => j = i
    BY <2>2
  <2>4. ASSUME NEW i \in 1..7 PROVE After(Root, q[i]) = IF i = 7 THEN "none" ELSE q[i + 1]
    <3>1. (CHOOSE j \in DOMAIN q : q[j] = q[i]) = i
      BY <2>2, <2>3
    <3> QED BY <2>1, <2>2, <3>1 DEF After
  <2> QED BY <1>1, <2>2, <2>4 DEF FirstPush
<1>2. CASE ~Compressed
  <2> DEFINE q == <<"REDUCE", "PUSH", "PULL", "COPYH2D", "BROADCAST">>
  <2>1. QueueList(Root) = q
    BY <1>2 DEF QueueList
  <2>2. /\ DOMAIN q = 1..5 /\ Len(q) = 5
        /\ q[1] = "REDUCE" /\ q[2] = "PUSH" /\ q[3] = "PULL" /\ q[4] = "COPYH2D"
        /\ q[5] = "BROADCAST"
    OBVIOUS
  <2> HIDE DEF q
  <2>3. \A i, j \in 1..5 : q[j] = q[i] => j = i
    BY <2>2
  <2>4. ASSUME NEW i \in 1..5 PROVE After(Root, q[i]) = IF i = 5 THEN "none" ELSE q[i + 1]
    <3>1. (CHOOSE j \in DOMAIN q : q[j] = q[i]) = i
      BY <2>2, <2>3
    <3> QED BY <2>1, <2>2, <3>1 DEF After
  <2> QED BY <1>2, <2>2, <2>4 DEF FirstPush
<1> QED BY <1>1, <1>2

\* The first stage of a task.
LEMMA HeadOfList ==
    /\ Head(QueueList(Root)) = "REDUCE"
    /\ \A d : d # Root => Head(QueueList(d)) = "COORDINATE_REDUCE"
BY DEF QueueList

\* What Finish does to the task of a process that is up.
LEMMA FinishMoves ==
    ASSUME Live, NEW d \in Devices, task[d].how # "none", stage[d] = "up", NEW user, Finish(d, user)
    PROVE  /\ UNCHANGED aborted
           /\ After(d, task[d].at) = "none" => task'[d] = NoTask
           /\ After(d, task[d].at) # "none" =>
                 task'[d] = [at |-> After(d, task[d].at), how |-> "queued", handle |-> task[d].handle]
           /\ \A e \in Devices \ {d} : task'[e] = task[e]
<1>0. task \in [Devices -> Tasks] /\ FinishOrProceed(d) /\ UNCHANGED aborted
  BY DEF Live, Shapes, Finish, HasQueues
<1>1. CASE After(d, task[d].at) = "none"
  BY <1>0, <1>1 DEF FinishOrProceed
<1>2. CASE After(d, task[d].at) # "none"
  <2> DEFINE next == After(d, task[d].at)
  <2>1. task' = [task EXCEPT ![d].at = next, ![d].how = "queued"]
    BY <1>0, <1>2 DEF FinishOrProceed
  <2>2. next # "none"
    BY <1>2
  <2> HIDE DEF next
  <2>3. /\ task'[d] = [at |-> next, how |-> "queued", handle |-> task[d].handle]
        /\ \A e \in Devices \ {d} : task'[e] = task[e]
    BY <1>0, <2>1 DEF Tasks
  <2> QED BY <1>0, <2>2, <2>3 DEF next
<1> QED BY <1>1, <1>2

\* A step of one process: the facts about the others stay.
LEMMA OrderlyOfOne ==
    ASSUME OrderlyAll, NEW d \in Devices, HowKnown(d)', Orderly(d)', UNCHANGED manner,
           \A e \in Devices \ {d} :
              /\ task'[e] = task[e] /\ stage'[e] = stage[e] /\ step'[e] = step[e]
              /\ ready'[e] = ready[e]
    PROVE  OrderlyAll'
BY DEF OrderlyAll, HowKnown, Orderly, HasTables, ShouldShutdown, Limit, NoneReady, Tables

\* A step that leaves the tasks, the stages and the counts alone.
LEMMA OrderlyUntouched ==
    ASSUME OrderlyAll, UNCHANGED <<manner, task, stage, step, ready>>
    PROVE  OrderlyAll'
BY DEF OrderlyAll, HowKnown, Orderly, HasTables, ShouldShutdown, Limit, NoneReady, Tables

\* In a process that is not up there is no task.
LEMMA NoTaskUnlessUp ==
    ASSUME Live, OrderlyAll, NEW d \in Devices
    PROVE  /\ stage[d] # "up" => task[d] = NoTask
           /\ task[d].how = "none" <=> task[d] = NoTask
           /\ task[d].how = "none" <=> task[d].at = "none"
<1>1. Runs(d) /\ Orderly(d) /\ StagesOf(d) \subseteq Names /\ "none" \notin Names
  BY ListIsKnown DEF Live, OrderlyAll, Names
<1> QED BY <1>1 DEF Runs, StageKnown, Orderly, NoTask

\* A task that goes on to its next stage.
LEMMA FinishOrderly ==
    ASSUME Live, OrderlyAll, NEW d \in Devices, NEW user, task[d].how # "none", Finish(d, user),
           UNCHANGED <<manner, stage, step>>,
           \A e \in Devices : ready'[e] = ready[e] \/ HasTables(e)
    PROVE  OrderlyAll'
<1>1. stage[d] = "up" /\ HowKnown(d) /\ Orderly(d)
  BY DEF OrderlyAll, Orderly
<1>2. /\ task'[d] = NoTask \/ task'[d].how = "queued"
      /\ \A e \in Devices \ {d} : task'[e] = task[e]
  <2> DEFINE next == After(d, task[d].at)
  <2>1. /\ next = "none" => task'[d] = NoTask
        /\ next # "none" => task'[d] = [at |-> next, how |-> "queued", handle |-> task[d].handle]
        /\ \A e \in Devices \ {d} : task'[e] = task[e]
    BY <1>1, FinishMoves
  <2> HIDE DEF next
  <2> QED BY <2>1
<1>3. ASSUME NEW e \in Devices PROVE HowKnown(e)' /\ Orderly(e)'
  <2>1. HowKnown(e) /\ Orderly(e)
    BY DEF OrderlyAll
  <2>2. CASE e = d
    BY <1>1, <1>2, <2>1, <2>2 DEF HowKnown, Orderly, HasTables, ShouldShutdown, Limit, NoTask
  <2>3. CASE e # d
    BY <1>2, <2>1, <2>3 DEF HowKnown, Orderly, HasTables, ShouldShutdown, Limit, NoneReady, Tables
  <2> QED BY <2>2, <2>3
<1> QED BY <1>3 DEF OrderlyAll

\* A task that is handed on within its stage.
LEMMA HowOrderly ==
    ASSUME Live, OrderlyAll, NEW d \in Devices, task[d].how # "none",
           NEW how \in {"held", "ps", "pool", "group", "sync"}, task' = [task EXCEPT ![d].how = how],
           how \in {"group", "sync"} => task[d].at \in Grouped,
           how = "ps" => task[d].at \in {"PUSH", "PULL"},
           how = "pool" => task[d].at \in {"COMPRESS", "DECOMPRESS"},
           UNCHANGED <<manner, stage, step>>,
           \A e \in Devices : ready'[e] = ready[e] \/ HasTables(e)
    PROVE  OrderlyAll'
<1>1. /\ task'[d].at = task[d].at /\ task'[d].how = how
      /\ \A e \in Devices \ {d} : task'[e] = task[e]
  BY HowTyped
<1>2. ASSUME NEW e \in Devices PROVE HowKnown(e)' /\ Orderly(e)'
  <2>1. HowKnown(e) /\ Orderly(e)
    BY DEF OrderlyAll
  <2>2. CASE e = d
    BY <1>1, <2>1, <2>2 DEF HowKnown, Orderly, HasTables, ShouldShutdown, Limit, NoneReady, Tables
  <2>3. CASE e # d
    BY <1>1, <2>1, <2>3 DEF HowKnown, Orderly, HasTables, ShouldShutdown, Limit, NoneReady, Tables
  <2> QED BY <2>2, <2>3
<1> QED BY <1>2 DEF OrderlyAll

\* The main thread suspends and resumes with no task.
LEMMA MainOrderly ==
    ASSUME Live, Typed, OrderlyAll, NEW d \in Devices, Main(d)
    PROVE  OrderlyAll'
<1>0. /\ task \in [Devices -> Tasks] /\ stage \in [Devices -> Stages] /\ DOMAIN ready = Devices
      /\ step \in [Devices -> 0..Limit]
      /\ HowKnown(d) /\ Orderly(d) /\ (stage[d] # "up" => task[d] = NoTask)
  BY NoTaskUnlessUp DEF Live, Shapes, OrderlyAll, Typed
<1>1. CASE Bind(d)
  BY <1>0, <1>1, OrderlyOfOne DEF Bind, frameVars, HowKnown, Orderly, HasTables, ShouldShutdown, Limit,
     NoneReady, Tables, NoTask
<1>2. CASE HaveId(d)
  BY <1>0, <1>2, OrderlyOfOne DEF HaveId, frameVars, HowKnown, Orderly, HasTables, ShouldShutdown, Limit,
     NoneReady, Tables, NoTask
<1>3. CASE Start(d)
  BY <1>0, <1>3, OrderlyOfOne DEF Start, frameVars, commVars, HowKnown, Orderly, HasTables,
     ShouldShutdown, Limit, NoneReady, Tables, NoTask
<1>4. CASE Join(d)
  BY <1>0, <1>4, OrderlyOfOne DEF Join, frameVars, commVars, HowKnown, Orderly, HasTables,
     ShouldShutdown, Limit, NoneReady, Tables, NoTask
<1>5. CASE Finalize(d)
  BY <1>0, <1>5, OrderlyOfOne DEF Finalize, frameVars, HowKnown, Orderly, HasTables,
     ShouldShutdown, Limit, NoneReady, Tables, NoTask
<1>6. CASE Close(d)
  BY <1>0, <1>6, OrderlyOfOne DEF Close, HowKnown, Orderly, HasTables,
     ShouldShutdown, Limit, NoneReady, Tables, NoTask
<1> QED BY <1>1, <1>2, <1>3, <1>4, <1>5, <1>6 DEF Main

\* A framework that waits suspends when its last handle is done.
LEMMA FrameworkOrderly ==
    ASSUME Live, Typed, Handles, Waits, OrderlyAll, NEW d \in Devices, Framework(d)
    PROVE  OrderlyAll'
<1>0. /\ task \in [Devices -> Tasks] /\ stage \in [Devices -> Stages]
      /\ Limit \in Nat \ {0} /\ step \in [Devices -> 0..Limit] /\ held \in [Devices -> Nat]
      /\ HowKnown(d) /\ Orderly(d) /\ HandleOfTask(d) /\ manner # "hasty"
  BY BoundsAreNumbers DEF Live, Shapes, OrderlyAll, Typed, Handles, Waits
<1>1. CASE Enqueue(d)
  <2> DEFINE t == [at |-> Head(QueueList(d)), how |-> "queued", handle |-> last_handle'[d]]
  <2>1. /\ ~ShouldShutdown(d) /\ step' = [step EXCEPT ![d] = @ + 1]
        /\ UNCHANGED <<manner, stage, ready>>
    BY <1>0, <1>1 DEF Enqueue, Orderly, mainVars, commVars, Limit
  <2>2. stage[d] = "up" /\ task' = [task EXCEPT ![d] = t]
    BY <1>1, <2>1 DEF Enqueue
  <2>3. t.how = "queued"
    OBVIOUS
  <2> HIDE DEF t
  <2> QED BY <1>0, <2>1, <2>2, <2>3, OrderlyOfOne DEF HowKnown, Orderly, HasTables, ShouldShutdown
<1>2. CASE Release(d)
  BY <1>2, OrderlyUntouched DEF Release, mainVars, commVars
<1>3. CASE Suspend(d)
  <2>1. task[d].how = "none" /\ step[d] = Limit
    BY <1>0, <1>3 DEF Suspend, HandleOfTask, Limit
  <2> QED BY <1>0, <1>3, <2>1, OrderlyOfOne DEF Suspend, frameVars, commVars, HowKnown, Orderly,
             HasTables, ShouldShutdown, Limit
<1> QED BY <1>1, <1>2, <1>3 DEF Framework

\* The loop threads and the callbacks.
LEMMA ThreadsOrderly ==
    ASSUME Live, Typed, OrderlyAll, NEW d \in Devices, Threads(d) \/ Complete(d)
    PROVE  OrderlyAll'
<1>0. /\ task \in [Devices -> Tasks] /\ DOMAIN ready = Devices
      /\ HowKnown(d) /\ Orderly(d) /\ Runs(d)
  BY DEF Live, Shapes, OrderlyAll, Typed
<1>1. CASE Take(d)
  <2>1. /\ task' = [task EXCEPT ![d].how = "held"] /\ task[d].how = "queued"
        /\ UNCHANGED <<manner, stage, step>>
    BY <1>1 DEF Take, mainVars, frameVars
  <2>2. ready' = ready \/ \E t : ready' = [ready EXCEPT ![d][t] = 0]
    BY <1>1 DEF Take, ClearReadyCount
  <2>3. \A e \in Devices : ready'[e] = ready[e] \/ HasTables(e)
    BY <1>0, <2>1, <2>2 DEF Orderly, HasTables
  <2> QED BY <2>1, <2>3, HowOrderly
<1>2. CASE Issue(d)
  <2> DEFINE how == Call(task[d].at)
  <2>1. task' = [task EXCEPT ![d].how = how] /\ UNCHANGED <<manner, stage, step, ready>>
        /\ task[d].how = "held" /\ d = Root /\ task[d].at # "COPYH2D"
    BY <1>2 DEF Issue, mainVars, frameVars, commVars
  <2>2. task[d].at \in {"REDUCE", "PUSH", "PULL", "COMPRESS", "DECOMPRESS", "BROADCAST"}
    BY <1>0, <2>1, StagesOfRoot DEF Runs, StageKnown
  <2>3. /\ how \in {"held", "ps", "pool", "group", "sync"}
        /\ how \in {"group", "sync"} => task[d].at \in Grouped
        /\ how = "ps" => task[d].at \in {"PUSH", "PULL"}
        /\ how = "pool" => task[d].at \in {"COMPRESS", "DECOMPRESS"}
    BY <2>2 DEF Call, Grouped
  <2> HIDE DEF how
  <2> QED BY <2>1, <2>3, HowOrderly
<1>3. CASE DequeueGroup(d)
  BY <1>0, <1>3, HowOrderly DEF DequeueGroup, mainVars, frameVars, commVars, HowKnown
<1>4. CASE Sync(d)
  BY <1>4, FinishOrderly DEF Sync, mainVars, commVars
<1>5. CASE Copy(d)
  BY <1>5, FinishOrderly DEF Copy, Holds, mainVars, commVars
<1>6. CASE Coordinate(d)
  BY <1>6, FinishOrderly DEF Coordinate, Holds, mainVars, commVars
<1>7. CASE Complete(d)
  <2>1. ready' = ready \/ (HasQueues(d) /\ ready' = [ready EXCEPT ![d]["PUSH"] = RestoredCount(d)])
    BY <1>7 DEF Complete
  <2>2. \A e \in Devices : ready'[e] = ready[e] \/ HasTables(e)
    <3> DEFINE n == RestoredCount(d)
    <3> HIDE DEF n
    <3> QED BY <1>0, <2>1 DEF HasTables, HasQueues, n
  <2>3. Finish(d, "call") /\ task[d].how # "none" /\ UNCHANGED <<manner, stage, step>>
    BY <1>7 DEF Complete, mainVars
  <2> QED BY <2>2, <2>3, FinishOrderly
<1> QED BY <1>1, <1>2, <1>3, <1>4, <1>5, <1>6, <1>7 DEF Threads

\* A step that changes a count only while the tables are there.
LEMMA ReadyOrderly ==
    ASSUME OrderlyAll, Typed, UNCHANGED <<manner, task, stage, step>>,
           \A e \in Devices : ready'[e] = ready[e] \/ HasTables(e)
    PROVE  OrderlyAll'
BY DEF OrderlyAll, HowKnown, Orderly, HasTables, ShouldShutdown, Limit, NoneReady, Tables

\* AddReadyCount is such a step.
LEMMA AddReadyHasTables ==
    ASSUME Typed, NEW d \in Devices, NEW t, AddReadyCount(d, t)
    PROVE  \A e \in Devices : ready'[e] = ready[e] \/ HasTables(e)
<1>1. CASE HasTables(d)
  BY <1>1, AddReadyTyped
<1>2. CASE ~HasTables(d)
  BY <1>2 DEF AddReadyCount
<1> QED BY <1>1, <1>2

\* Every step of a framework that waits.
LEMMA NextOrderly ==
    ASSUME Live, Typed, Handles, Waits, OrderlyAll, [Next]_vars
    PROVE  OrderlyAll'
<1>0. task \in [Devices -> Tasks] /\ DOMAIN ready = Devices /\ Root \in Devices
  BY RootIsDevice DEF Live, Shapes, Typed
<1>1. CASE UNCHANGED vars
  BY <1>1, OrderlyUntouched DEF vars, mainVars, frameVars, commVars
<1>2. CASE InitRank
  <2>1. /\ UNCHANGED <<manner, task, step, ready>>
        /\ \A d \in Devices : stage[d] = "rank" /\ stage'[d] = "ranked"
    BY <1>2 DEF InitRank, frameVars, commVars
  <2> QED BY <2>1 DEF OrderlyAll, HowKnown, Orderly, HasTables, ShouldShutdown, Limit, NoneReady,
             Tables
<1>3. ASSUME NEW c \in Comms, Listen(c) PROVE OrderlyAll'
  <2>1. \A e \in Devices : ready'[e] = ready[e] \/ HasTables(e)
    <3>1. CASE UNCHANGED ready
      BY <3>1
    <3>2. CASE AddReadyCount(Root, listen[c])
      BY <1>0, <3>2, AddReadyHasTables
    <3> QED BY <1>3, <3>1, <3>2 DEF Listen
  <2> QED BY <1>3, <2>1, ReadyOrderly DEF Listen, mainVars, frameVars
<1>4. ASSUME NEW d \in Devices, ReceiveCopy(d) PROVE OrderlyAll'
  <2>1. \A e \in Devices : ready'[e] = ready[e] \/ HasTables(e)
    <3>1. CASE UNCHANGED ready
      BY <3>1
    <3>2. CASE AddReadyCount(d, "COPYH2D")
      BY <3>2, AddReadyHasTables
    <3> QED BY <1>4, <3>1, <3>2 DEF ReceiveCopy
  <2> QED BY <1>4, <2>1, ReadyOrderly DEF ReceiveCopy, mainVars, frameVars
<1>5. ASSUME NEW d \in Devices, ReceiveNccl(d) PROVE OrderlyAll'
  <2>1. UNCHANGED <<manner, stage, step, ready>>
    BY <1>5 DEF ReceiveNccl, mainVars, frameVars
  <2>2. CASE UNCHANGED task
    BY <2>1, <2>2, OrderlyUntouched
  <2>3. CASE task[d].at \in Grouped /\ task[d].how = "queued" /\ task' = [task EXCEPT ![d].how = "group"]
    BY <2>1, <2>3, HowOrderly
  <2> QED BY <1>5, <2>2, <2>3 DEF ReceiveNccl
<1>6. ASSUME NEW d \in Devices, Send(d) PROVE OrderlyAll'
  BY <1>6, OrderlyUntouched DEF Send, mainVars, frameVars
<1>7. ASSUME NEW d \in Devices, Ending(d) PROVE OrderlyAll'
  BY <1>7, EndingLeaves, OrderlyUntouched DEF mainVars, frameVars, commVars
<1> QED BY <1>1, <1>2, <1>3, <1>4, <1>5, <1>6, <1>7, MainOrderly, FrameworkOrderly, ThreadsOrderly
     DEF Next, Receivers

\* Initially there is no task.
LEMMA InitOrderly == ASSUME Init PROVE OrderlyAll
BY DEF Init, OrderlyAll, HowKnown, Orderly, NoTask, HasTables, ShouldShutdown

-----------------------------------------------------------------------------
(* What the invariant says of a process.                                   *)

Base == Live /\ Typed /\ OrderlyAll
Done(d) == task[d] = NoTask /\ Steps(d) = Limit

\* The numbers of a device differ by at most one.
LEMMA NumbersOf ==
    ASSUME Base, NEW d \in Devices
    PROVE  /\ Limit \in Nat \ {0} /\ Steps(d) \in 0..Limit
           /\ Signalled(d) \in {Steps(d) - 1, Steps(d)} /\ Launched(d) \in {Steps(d) - 1, Steps(d)}
           /\ Asked(d) \in {Steps(d) - 1, Steps(d)} /\ Begun(d) \in {Steps(d) - 1, Steps(d)}
           /\ BcastSignalled(d) \in {Steps(d) - 1, Steps(d)} /\ BcastBegun(d) \in {Steps(d) - 1, Steps(d)}
           /\ BcastBegun(d) <= BcastSignalled(d) /\ BcastSignalled(d) <= Begun(d)
           /\ Begun(d) <= Asked(d) /\ Asked(d) <= Launched(d) /\ Launched(d) <= Signalled(d)
           /\ task[d] = NoTask => /\ Signalled(d) = Steps(d) /\ Launched(d) = Steps(d)
                                  /\ Asked(d) = Steps(d) /\ Begun(d) = Steps(d)
                                  /\ BcastSignalled(d) = Steps(d) /\ BcastBegun(d) = Steps(d)
<1>1. Limit \in Nat \ {0} /\ Steps(d) \in 0..Limit
  BY BoundsAreNumbers DEF Base, Typed, Steps
<1>2. task[d].how = "none" <=> task[d].at = "none"
  BY NoTaskUnlessUp DEF Base
<1> QED BY <1>1, <1>2 DEF Signalled, Launched, Asked, Begun, BcastSignalled, BcastBegun, OneIf, At, Queued,
              CopyBegun, Copying, NoTask

\* So do those of the root.
LEMMA NumbersOfRoot ==
    ASSUME Base
    PROVE  /\ Limit \in Nat \ {0} /\ Steps(Root) \in 0..Limit
           /\ Taken \in {Steps(Root) - 1, Steps(Root)} /\ TakenPush \in {Steps(Root) - 1, Steps(Root)}
           /\ TakenCopy \in {Steps(Root) - 1, Steps(Root)}
           /\ TakenBcast \in {Steps(Root) - 1, Steps(Root)}
           /\ TakenBcast <= TakenCopy /\ TakenCopy <= TakenPush /\ TakenPush <= Taken
           /\ task[Root] = NoTask => /\ Taken = Steps(Root) /\ TakenPush = Steps(Root)
                                     /\ TakenCopy = Steps(Root) /\ TakenBcast = Steps(Root)
<1>1. Limit \in Nat \ {0} /\ Steps(Root) \in 0..Limit
  BY BoundsAreNumbers, RootIsDevice DEF Base, Typed, Steps
<1>2. task[Root].how = "none" <=> task[Root].at = "none"
  BY NoTaskUnlessUp, RootIsDevice DEF Base
<1> QED BY <1>1, <1>2 DEF Taken, TakenPush, TakenCopy, TakenBcast, Begun, BcastBegun, OneIf, At, Queued,
              CopyBegun, Copying, NoTask, FirstPush

\* The ready counts and what the listeners have.
LEMMA CountsOf ==
    ASSUME Base
    PROVE  /\ \A d \in Others : /\ d \in Devices /\ d # Root /\ ready[d]["COPYH2D"] \in 0..1
                                /\ Tables(d) = {"COPYH2D"} /\ DOMAIN ready[d] = {"COPYH2D"}
           /\ Root \in Devices /\ LocalSize - 1 \in Nat /\ Tables(Root) = RootTables
           /\ DOMAIN ready[Root] = RootTables
           /\ \A t \in RootTables : ready[Root][t] \in 0..LocalSize - 1 /\ Got(t) \in 0..1
           /\ ready[Root]["REDUCE"] \in 0..LocalSize - 1 /\ ready[Root]["PUSH"] \in 0..LocalSize - 1
           /\ ready[Root]["BROADCAST"] \in 0..LocalSize - 1
           /\ Got("REDUCE") \in 0..1 /\ Got("PUSH") \in 0..1 /\ Got("BROADCAST") \in 0..1
<1>1. LocalSize - 1 \in Nat /\ Root \in Devices
  BY RootIsDevice
<1>2. \A d \in Others : d \in Devices /\ d # Root
  BY DEF Others
<1>3. \A d \in Devices : ready[d] \in [Tables(d) -> 0..ReadyCount(d)]
  BY DEF Base, Typed, TypedOne
<1>4. \A d \in Others : ready[d] \in [{"COPYH2D"} -> 0..1]
  BY <1>2, <1>3 DEF Tables, ReadyCount
<1>5. ready[Root] \in [RootTables -> 0..LocalSize - 1]
  BY <1>1, <1>3 DEF Tables, ReadyCount, RootTables
<1> QED BY <1>1, <1>2, <1>4, <1>5 DEF Tables, Got, OneIf, RootTables

\* The other devices are finite, and one fewer than all.
LEMMA OthersAreCounted ==
    /\ IsFiniteSet(Others) /\ Cardinality(Others) = LocalSize - 1
    /\ \A S \in SUBSET Others : /\ IsFiniteSet(S) /\ Cardinality(S) \in Nat
                                /\ Cardinality(S) <= LocalSize - 1
                                /\ Cardinality(S) = LocalSize - 1 => S = Others
<1>1. Others = 0..LocalSize - 2
  BY RootIsDevice DEF Others, Devices, Root
<1>2. IsFiniteSet(Others) /\ Cardinality(Others) = LocalSize - 1
  BY <1>1, RootIsDevice, FS_Interval
<1>3. ASSUME NEW S \in SUBSET Others
      PROVE  /\ IsFiniteSet(S) /\ Cardinality(S) \in Nat
             /\ Cardinality(S) <= LocalSize - 1
             /\ Cardinality(S) = LocalSize - 1 => S = Others
  BY <1>2, FS_Subset, FS_CardinalityType
<1> QED BY <1>2, <1>3

\* A process that is not up has done its steps, or has not begun them.
LEMMA DoneUnlessUp ==
    ASSUME Base, NEW d \in Devices, stage[d] \notin {"up", "ranked"}
    PROVE  Done(d)
<1>1. task[d] = NoTask /\ Orderly(d) /\ stage[d] \in Stages
  BY NoTaskUnlessUp DEF Base, OrderlyAll, Live, Shapes
<1> QED BY <1>1 DEF Done, Steps, Away, Orderly, ShouldShutdown, Stages

\* When the root has done its steps no signal is left.
LEMMA DoneRoot ==
    ASSUME Base, Coherent, Done(Root)
    PROVE  /\ Taken = Limit /\ TakenPush = Limit /\ TakenCopy = Limit /\ TakenBcast = Limit
           /\ \A d \in Others : /\ Steps(d) = Limit /\ Signalled(d) = Limit /\ Asked(d) = Limit
                                /\ Launched(d) = Limit
                                /\ BcastSignalled(d) = Limit /\ Copied(d) = Limit
                                /\ ~InTransit("REDUCE_READY", d, Root)
                                /\ ~InTransit("DO_REDUCE", Root, d)
                                /\ ~InTransit("PUSH_READY", d, Root)
                                /\ ~InTransit("BCAST_READY", d, Root)
                                /\ ~InTransit("DO_COPYH2D", Root, d)
           /\ inbox[Root] = {}
           /\ \A t \in RootTables : ready[Root][t] = 0
           /\ NoneGot
<1>1. Taken = Limit /\ TakenPush = Limit /\ TakenCopy = Limit /\ TakenBcast = Limit /\ Limit \in Nat
  BY NumbersOfRoot DEF Done
<1>2. ASSUME NEW d \in Others
      PROVE  /\ Steps(d) = Limit /\ Signalled(d) = Limit /\ Asked(d) = Limit
             /\ Launched(d) = Limit
             /\ BcastSignalled(d) = Limit /\ Copied(d) = Limit
             /\ ~InTransit("REDUCE_READY", d, Root)
             /\ ~InTransit("DO_REDUCE", Root, d)
             /\ ~InTransit("PUSH_READY", d, Root)
             /\ ~InTransit("BCAST_READY", d, Root)
             /\ ~InTransit("DO_COPYH2D", Root, d)
  <2>1. Apart(d) /\ d \in Devices
    BY DEF Coherent, Others
  <2>2. Steps(d) \in 0..Limit /\ Signalled(d) \in {Steps(d) - 1, Steps(d)} /\ Launched(d) \in {Steps(d) - 1, Steps(d)}
        /\ Asked(d) \in {Steps(d) - 1, Steps(d)}
        /\ Asked(d) <= Launched(d) /\ Launched(d) <= Signalled(d)
        /\ BcastSignalled(d) \in {Steps(d) - 1, Steps(d)} /\ Begun(d) \in {Steps(d) - 1, Steps(d)}
        /\ BcastSignalled(d) <= Begun(d) /\ Copied(d) = Begun(d) + ready[d]["COPYH2D"]
    BY <2>1, NumbersOf DEF Copied
  <2>3. ready[d]["COPYH2D"] \in 0..1
    BY CountsOf
  <2> QED BY <1>1, <2>1, <2>2, <2>3 DEF Apart
<1>3. inbox[Root] = {}
  <2>1. \A m \in inbox[Root] : m.from \in Others /\ m.kind \in Signals
    BY DEF Coherent, RootReceives
  <2> QED BY <1>2, <2>1 DEF InTransit, InSocket, Signals
<1>4. ReduceArrived = {} /\ PushArrived = {} /\ BcastArrived = {}
  BY <1>1, <1>2 DEF ReduceArrived, PushArrived, BcastArrived
<1>5. Cardinality({}) = 0
  BY FS_EmptySet
<1>6. ~GivenBack
  BY DEF GivenBack, Queued, Done, NoTask
<1>7. ReduceCounted /\ PushCounted /\ BcastCounted
  BY DEF Coherent
<1>8. \A t \in RootTables : ready[Root][t] = 0 /\ Got(t) = 0
  BY <1>4, <1>5, <1>6, <1>7, CountsOf DEF ReduceCounted, PushCounted, BcastCounted, RootTables
<1>9. NoneGot
  BY <1>8 DEF NoneGot, Got, OneIf
<1> QED BY <1>1, <1>2, <1>3, <1>8, <1>9

\* When another device has done its steps, so has the root, but for the end of
\* the last broadcast, and nothing is in transit between the two.
LEMMA DoneOther ==
    ASSUME Base, Coherent, NEW d \in Others, Done(d)
    PROVE  /\ Taken = Limit /\ TakenPush = Limit /\ TakenCopy = Limit /\ TakenBcast = Limit
           /\ ready[d]["COPYH2D"] = 0 /\ Copied(d) = Limit
           /\ ~InTransit("REDUCE_READY", d, Root) /\ ~InTransit("DO_REDUCE", Root, d)
           /\ ~InTransit("PUSH_READY", d, Root) /\ ~InTransit("DO_COPYH2D", Root, d)
           /\ ~InTransit("BCAST_READY", d, Root) /\ ~InTransit("DO_BROADCAST", Root, d)
           /\ sending[d].to = {}
           /\ \A m \in inbox[d] : m.kind = "ID"
           /\ \A m \in inbox[Root] : m.from # d
<1>1. Apart(d) /\ d \in Devices /\ d # Root /\ RootSent(d) /\ RootReceives /\ OtherSends(d)
  BY DEF Coherent, Others
<1>2. /\ Steps(d) = Limit /\ Limit \in Nat /\ Signalled(d) = Limit /\ Launched(d) = Limit /\ Asked(d) = Limit
      /\ Begun(d) = Limit /\ BcastSignalled(d) = Limit /\ BcastBegun(d) = Limit
  BY <1>1, NumbersOf DEF Done
<1>3. /\ Taken \in Int /\ TakenPush \in Int /\ TakenCopy \in Int /\ TakenBcast \in Int
      /\ TakenBcast <= TakenCopy /\ TakenCopy <= TakenPush /\ TakenPush <= Taken /\ Taken <= Limit
  BY NumbersOfRoot
<1>4. ready[d]["COPYH2D"] \in 0..1
  BY CountsOf
<1>5. /\ Taken = Limit /\ TakenPush = Limit /\ TakenCopy = Limit /\ TakenBcast = Limit
      /\ ready[d]["COPYH2D"] = 0 /\ Copied(d) = Limit
  BY <1>1, <1>2, <1>3, <1>4 DEF Apart, Copied
<1>6. /\ ~InTransit("REDUCE_READY", d, Root) /\ ~InTransit("DO_REDUCE", Root, d)
      /\ ~InTransit("PUSH_READY", d, Root) /\ ~InTransit("DO_COPYH2D", Root, d)
      /\ ~InTransit("BCAST_READY", d, Root) /\ ~InTransit("DO_BROADCAST", Root, d)
  BY <1>1, <1>2, <1>5 DEF Apart
<1>7. sending[d].to = {}
  BY <1>1, <1>6 DEF OtherSends, InTransit, AtSender, Signals
<1>8. \A m \in inbox[d] : m.kind = "ID"
  BY <1>1, <1>6 DEF RootSent, InTransit, InSocket, Orders
<1>9. \A m \in inbox[Root] : m.from # d
  BY <1>1, <1>6 DEF RootReceives, InTransit, InSocket, Signals
<1> QED BY <1>5, <1>6, <1>7, <1>8, <1>9

-----------------------------------------------------------------------------
(* Steps that leave the numbers alone.                                     *)

SameNumbers(d) ==
    /\ Signalled(d)' = Signalled(d) /\ Launched(d)' = Launched(d) /\ Asked(d)' = Asked(d)
    /\ Copied(d)' = Copied(d) /\ BcastSignalled(d)' = BcastSignalled(d) /\ BcastBegun(d)' = BcastBegun(d)
SameTaken ==
    /\ Taken' = Taken /\ TakenPush' = TakenPush /\ TakenCopy' = TakenCopy /\ TakenBcast' = TakenBcast
SameCounts ==
    /\ \A t \in RootTables : /\ ready'[Root][t] = ready[Root][t]
                             /\ listen'[CommOf(t)] = t <=> listen[CommOf(t)] = t
    /\ GivenBack' <=> GivenBack
SameMessages(d) ==
    /\ \A k \in Signals :
          (InTransit(k, d, Root)' <=> InTransit(k, d, Root)) /\ NotTwice(k, d, Root)'
    /\ \A k \in Orders :
          (InTransit(k, Root, d)' => InTransit(k, Root, d)) /\ NotTwice(k, Root, d)'
RightMessages ==
    /\ RootSends /\ RootReceives
    /\ \A d \in Others : RootSent(d) /\ OtherSends(d)

\* A step that keeps the numbers and the messages.
LEMMA NumbersKeep ==
    ASSUME Coherent, SameTaken, SameCounts, RightMessages',
           \A d \in Others : SameNumbers(d) /\ SameMessages(d)
    PROVE  Coherent'
<1>1. \A d \in Others : Apart(d)'
  BY DEF Coherent, Apart, SameTaken, SameNumbers, SameMessages, Signals, Orders
<1>2. ReduceArrived' = ReduceArrived /\ PushArrived' = PushArrived /\ BcastArrived' = BcastArrived
  BY DEF ReduceArrived, PushArrived, BcastArrived, SameTaken, SameNumbers, SameMessages, Signals
<1>3. ReduceCounted' /\ PushCounted' /\ BcastCounted'
  <2>1. \A t \in RootTables : ready'[Root][t] = ready[Root][t] /\ Got(t)' = Got(t)
    BY DEF SameCounts, Got, OneIf
  <2>2. listen'["basic"] = "PUSH" <=> listen["basic"] = "PUSH"
    BY DEF SameCounts, RootTables, CommOf
  <2> QED BY <1>2, <2>1, <2>2 DEF Coherent, SameCounts, ReduceCounted, PushCounted, BcastCounted, RootTables
<1> QED BY <1>1, <1>3 DEF Coherent, RightMessages

\* A process that keeps its task and its steps keeps its numbers.
LEMMA SameTask ==
    ASSUME NEW d \in Devices, task'[d] = task[d], Steps(d)' = Steps(d)
    PROVE  /\ ready'[d]["COPYH2D"] = ready[d]["COPYH2D"] => SameNumbers(d)
           /\ d = Root => SameTaken /\ GivenBack' = GivenBack
BY DEF SameNumbers, Signalled, Launched, Asked, Copied, Begun, BcastSignalled, BcastBegun, SameTaken, Taken,
       TakenPush, TakenCopy, TakenBcast, At, Queued, CopyBegun, Copying, GivenBack

\* The messages stay where they are.
LEMMA MessagesStay ==
    ASSUME Coherent, UNCHANGED <<inbox, sending>>, RootSends',
           \A m \in inbox[Root] : life'[m.from] = life[m.from],
           \A d \in Others : \A m \in inbox[d] : m.kind # "ID" => life'[d] = life[d]
    PROVE  RightMessages' /\ \A d \in Others : SameMessages(d)
BY DEF Coherent, RightMessages, SameMessages, RootReceives, RootSent, OtherSends, Apart, InTransit,
       AtSender, InSocket, NotTwice

\* What the root sends stays right if its task and its stage do.
LEMMA RootSendsStays ==
    ASSUME Coherent, sending'[Root] = sending[Root],
           task'[Root] = task[Root] \/ task[Root].how # "held",
           stage'[Root] = stage[Root] \/ stage[Root] # "bound" \/ sending[Root].to = {}
    PROVE  RootSends'
BY DEF Coherent, RootSends, Copying

\* The main thread suspends a process whose steps are done, which keeps all numbers.
LEMMA MainCoherent ==
    ASSUME Base, Coherent, NEW d \in Devices, Main(d)
    PROVE  Coherent'
<1>0. /\ task \in [Devices -> Tasks] /\ stage \in [Devices -> Stages] /\ DOMAIN ready = Devices
      /\ life \in [Devices -> 0..LastLife] /\ step \in [Devices -> 0..Limit]
      /\ DOMAIN inbox = Devices /\ DOMAIN sending = Devices /\ DOMAIN listen = Comms
      /\ Root \in Devices /\ Others \subseteq Devices /\ Root \notin Others
      /\ Orderly(d) /\ (stage[d] # "up" => task[d] = NoTask)
  BY RootIsDevice, NoTaskUnlessUp DEF Base, Live, Shapes, Typed, OrderlyAll, Others
<1>1. ASSUME UNCHANGED manner, task' = task, NEW s, stage' = [stage EXCEPT ![d] = s],
             Away(d) <=> s \in {"down", "bound", "rank"},
             UNCHANGED step
      PROVE  \A e \in Devices : Steps(e)' = Steps(e)
  BY <1>0, <1>1 DEF Steps, Away, Limit
<1>2. ASSUME task' = task, \A e \in Devices : Steps(e)' = Steps(e)
      PROVE  /\ \A e \in Devices : ready'[e]["COPYH2D"] = ready[e]["COPYH2D"] => SameNumbers(e)
             /\ SameTaken /\ GivenBack' = GivenBack
  BY <1>0, <1>2, SameTask
<1>3. CASE Bind(d) /\ d # Root
  <2>1. /\ stage[d] = "down" /\ stage' = [stage EXCEPT ![d] = "bound"] /\ life' = [life EXCEPT ![d] = @ + 1]
        /\ UNCHANGED <<manner, step, task, ready, inbox, sending, listen>>
    BY <1>3 DEF Bind, frameVars
  <2>2. Done(d) /\ d \in Others
    BY <1>0, <1>3, <2>1, DoneUnlessUp DEF Others
  <2>3. \A e \in Devices : Steps(e)' = Steps(e)
    BY <1>1, <2>1 DEF Away
  <2>4. RootSends'
    BY <1>0, <1>3, <2>1, RootSendsStays
  <2>5. RightMessages' /\ \A e \in Others : SameMessages(e)
    <3>1. (\A m \in inbox[d] : m.kind = "ID") /\ \A m \in inbox[Root] : m.from # d
      BY <2>2, DoneOther
    <3> QED BY <1>0, <2>1, <2>4, <3>1, MessagesStay
  <2> QED BY <1>0, <1>2, <2>1, <2>3, <2>5, NumbersKeep DEF SameCounts
<1>4. CASE Bind(d) /\ d = Root
  <2>1. /\ stage[d] = "down" /\ stage' = [stage EXCEPT ![d] = "bound"] /\ life' = [life EXCEPT ![d] = @ + 1]
        /\ UNCHANGED <<manner, step, task, ready, inbox>>
        /\ listen' = [c \in Comms |-> "recv"]
        /\ sending' = [sending EXCEPT ![Root] = [kind |-> "ID", to |-> Others]]
    BY <1>4 DEF Bind, frameVars
  <2>2. Done(Root) /\ sending[Root].to = {}
    BY <1>0, <1>4, <2>1, DoneUnlessUp DEF Coherent, RootSends, Copying, NoTask
  <2>3. \A e \in Devices : Steps(e)' = Steps(e)
    BY <1>1, <2>1 DEF Away
  <2>4. inbox[Root] = {} /\ NoneGot
    BY <2>2, DoneRoot
  <2>5. sending'[Root] = [kind |-> "ID", to |-> Others] /\ stage'[Root] = "bound"
        /\ \A e \in Others : sending'[e] = sending[e] /\ life'[e] = life[e]
    BY <1>0, <1>4, <2>1
  <2>6. RightMessages'
    BY <2>1, <2>4, <2>5 DEF Coherent, RightMessages, RootSends, RootReceives, RootSent, OtherSends
  <2>7. \A e \in Others : SameMessages(e)
    BY <2>1, <2>2, <2>5 DEF Coherent, SameMessages, Apart, InTransit, AtSender, InSocket, NotTwice, Signals,
       Orders
  <2>8. SameCounts
    <3>1. \A t \in RootTables : listen'[CommOf(t)] = "recv" /\ t # "recv"
      BY <2>1 DEF Comms, RootTables, CommOf
    <3> QED BY <1>2, <2>1, <2>3, <2>4, <3>1 DEF SameCounts, NoneGot
  <2> QED BY <1>0, <1>2, <2>1, <2>3, <2>6, <2>7, <2>8, NumbersKeep
<1>5. CASE HaveId(d)
  <2>1. /\ stage[d] = "bound" /\ stage' = [stage EXCEPT ![d] = "rank"]
        /\ UNCHANGED <<manner, life, step, task, ready, sending, listen>>
    BY <1>5 DEF HaveId, frameVars
  <2>2. \A e \in Devices : Steps(e)' = Steps(e)
    BY <1>1, <2>1 DEF Away
  <2>3. /\ d = Root => inbox' = inbox /\ sending[Root].to = {}
        /\ d # Root => \E m \in inbox[d] : m.kind = "ID" /\ inbox' = [inbox EXCEPT ![d] = @ \ {m}]
    BY <1>5 DEF HaveId, Received
  <2>4. RootSends'
    BY <1>0, <2>1, <2>3, RootSendsStays
  <2>5. /\ \A e \in Devices : inbox'[e] \subseteq inbox[e]
        /\ inbox'[Root] = inbox[Root]
    BY <1>0, <2>3
  <2>6. RightMessages' /\ \A e \in Others : SameMessages(e)
    BY <1>0, <2>1, <2>4, <2>5 DEF Coherent, RightMessages, SameMessages, RootReceives, RootSent,
       OtherSends, Apart, InTransit, AtSender, InSocket, NotTwice
  <2> QED BY <1>0, <1>2, <2>1, <2>2, <2>6, NumbersKeep DEF SameCounts
<1>6. CASE Start(d) \/ Join(d)
  <2>1. /\ UNCHANGED <<manner, life, step, task, ready, inbox, sending, listen>>
        /\ \/ stage[d] = "ranked" /\ stage' = [stage EXCEPT ![d] = "up"]
           \/ stage[d] = "joining" /\ stage' = [stage EXCEPT ![d] = "finalizing"]
    BY <1>6 DEF Start, Join, frameVars, commVars
  <2>2. \A e \in Devices : Steps(e)' = Steps(e)
    BY <1>1, <2>1 DEF Away
  <2>3. RootSends'
    BY <1>0, <2>1, RootSendsStays
  <2>4. RightMessages' /\ \A e \in Others : SameMessages(e)
    BY <2>1, <2>3, MessagesStay
  <2> QED BY <1>0, <1>2, <2>1, <2>2, <2>4, NumbersKeep DEF SameCounts
<1>7. CASE Finalize(d)
  <2>1. /\ UNCHANGED <<manner, life, step, task, inbox, sending, listen>>
        /\ stage[d] = "finalizing" /\ stage' = [stage EXCEPT ![d] = "closing"]
        /\ ready' = [ready EXCEPT ![d] = NoneReady(d)]
    BY <1>7 DEF Finalize, frameVars
  <2>2. \A e \in Devices : Steps(e)' = Steps(e)
    BY <1>1, <2>1 DEF Away
  <2>3. RootSends'
    BY <1>0, <2>1, RootSendsStays
  <2>4. RightMessages' /\ \A e \in Others : SameMessages(e)
    BY <2>1, <2>3, MessagesStay
  <2>5. Done(d)
    BY <2>1, DoneUnlessUp
  <2>6. /\ \A t \in RootTables : ready'[Root][t] = ready[Root][t]
        /\ \A e \in Others : ready'[e]["COPYH2D"] = ready[e]["COPYH2D"]
    <3>1. CASE d = Root
      <4>1. \A t \in RootTables : ready[Root][t] = 0
        BY <2>5, <3>1, DoneRoot
      <4>2. \A t \in RootTables : NoneReady(Root)[t] = 0
        BY DEF NoneReady, Tables, RootTables
      <4> QED BY <1>0, <2>1, <3>1, <4>1, <4>2
    <3>2. CASE d # Root
      <4>1. ready[d]["COPYH2D"] = 0
        BY <2>5, <3>2, DoneOther DEF Others
      <4>2. NoneReady(d)["COPYH2D"] = 0
        BY <3>2 DEF NoneReady, Tables
      <4> QED BY <1>0, <2>1, <3>2, <4>1, <4>2
    <3> QED BY <3>1, <3>2
  <2> QED BY <1>0, <1>2, <2>1, <2>2, <2>4, <2>6, NumbersKeep DEF SameCounts
<1>8. CASE Close(d)
  <2>1. /\ stage[d] = "closing" /\ stage' = [stage EXCEPT ![d] = "down"] /\ UNCHANGED <<manner, life, sending, ready>>
        /\ inbox' = [inbox EXCEPT ![d] = {}] /\ step' = [step EXCEPT ![d] = 0]
        /\ task' = task \/ task' = [task EXCEPT ![d] = NoTask]
    BY <1>8 DEF Close
  <2>2. Done(d) /\ task' = task
    BY <1>0, <2>1, DoneUnlessUp DEF Done
  <2>3. \A e \in Devices : Steps(e)' = Steps(e)
    BY <1>0, <2>1, <2>2 DEF Steps, Away, Limit, Done
  <2>4. RootSends'
    BY <1>0, <2>1, <2>2, RootSendsStays
  <2>5. inbox'[Root] = inbox[Root]
    BY <1>0, <2>1, <2>2, DoneRoot
  <2>6. \A e \in Devices : inbox'[e] \subseteq inbox[e]
    BY <1>0, <2>1
  <2>7. RightMessages' /\ \A e \in Others : SameMessages(e)
    BY <1>0, <2>1, <2>4, <2>5, <2>6 DEF Coherent, RightMessages, SameMessages, RootReceives, RootSent,
       OtherSends, Apart, InTransit, AtSender, InSocket, NotTwice
  <2>8. \A t \in RootTables : listen'[CommOf(t)] = t <=> listen[CommOf(t)] = t
    BY <1>8 DEF Close, Comms, RootTables, CommOf
  <2> QED BY <1>0, <1>2, <2>1, <2>2, <2>3, <2>7, <2>8, NumbersKeep DEF SameCounts
<1> QED BY <1>3, <1>4, <1>5, <1>6, <1>7, <1>8 DEF Main

\* All processes leave ncclCommInitRank with nothing done and nothing in transit.
LEMMA InitRankCoherent ==
    ASSUME Base, Coherent, InitRank
    PROVE  Coherent'
<1>1. /\ \A d \in Devices : stage[d] = "rank" /\ stage'[d] = "ranked"
      /\ UNCHANGED <<manner, life, step, task, ready, inbox, sending, listen>>
  BY DEF InitRank, frameVars, commVars
<1>2. \A d \in Devices : Done(d) /\ step[d] = 0
  BY <1>1, DoneUnlessUp DEF Base, OrderlyAll, Orderly
<1>3. \A d \in Others : d \in Devices /\ d # Root
  BY DEF Others
<1>4. Root \in Devices
  BY RootIsDevice
<1>5. \A d \in Devices : Steps(d)' = 0 /\ task'[d] = NoTask
  BY <1>1, <1>2 DEF Done, Steps, Away
<1>6. Taken' = 0 /\ TakenPush' = 0 /\ TakenCopy' = 0 /\ TakenBcast' = 0 /\ ~GivenBack'
  BY <1>4, <1>5 DEF Taken, TakenPush, TakenCopy, TakenBcast, Begun, BcastBegun, OneIf, At, Queued, CopyBegun,
     Copying, NoTask, GivenBack
<1>7. \A d \in Others : ready[d]["COPYH2D"] = 0
  BY <1>2, <1>3, DoneOther
<1>8. \A d \in Others : Signalled(d)' = 0 /\ Launched(d)' = 0 /\ Asked(d)' = 0 /\ Copied(d)' = 0
                        /\ BcastSignalled(d)' = 0 /\ BcastBegun(d)' = 0
  BY <1>1, <1>3, <1>5, <1>7 DEF Signalled, Launched, Asked, Copied, Begun, BcastSignalled, BcastBegun, OneIf,
     At, Queued, CopyBegun, Copying, NoTask
<1>9. \A d \in Others : /\ ~InTransit("REDUCE_READY", d, Root)' /\ ~InTransit("DO_REDUCE", Root, d)'
                        /\ ~InTransit("PUSH_READY", d, Root)' /\ ~InTransit("DO_COPYH2D", Root, d)'
                        /\ ~InTransit("BCAST_READY", d, Root)' /\ ~InTransit("DO_BROADCAST", Root, d)'
  BY <1>1, <1>2, <1>3, DoneOther DEF InTransit, AtSender, InSocket
<1>10. \A d \in Others : Apart(d)'
  BY <1>6, <1>8, <1>9 DEF Apart, NotTwice, InTransit, Signals, Orders
<1>11. RootSends'
  BY <1>1, <1>2, <1>4 DEF Coherent, RootSends, Copying, Done, NoTask
<1>12. RightMessages'
  BY <1>1, <1>11, MessagesStay
<1>13. ReduceArrived' = {} /\ PushArrived' = {} /\ BcastArrived' = {}
  BY <1>6, <1>8 DEF ReduceArrived, PushArrived, BcastArrived
<1>14. \A t \in RootTables : ready'[Root][t] = 0 /\ Got(t)' = 0
  BY <1>1, <1>2, <1>4, DoneRoot DEF NoneGot, Got, OneIf
<1>15. ReduceCounted' /\ PushCounted' /\ BcastCounted'
  BY <1>6, <1>13, <1>14, FS_EmptySet DEF ReduceCounted, PushCounted, BcastCounted, RootTables
<1> QED BY <1>10, <1>12, <1>15 DEF Coherent, RightMessages

\* A step of one process on its task that changes none of the numbers.
LEMMA TaskMoves ==
    ASSUME Base, Coherent, NEW d \in Devices, UNCHANGED <<manner, life, inbox, sending, listen, ready>>,
           \A e \in Devices \ {d} : task'[e] = task[e] /\ Steps(e)' = Steps(e),
           d # Root => SameNumbers(d),
           d = Root => SameTaken /\ GivenBack' = GivenBack,
           RootSends'
    PROVE  Coherent'
<1>1. Root \in Devices /\ \A e \in Others : e \in Devices /\ e # Root
  BY RootIsDevice DEF Others
<1>2. SameTaken /\ GivenBack' = GivenBack
  BY <1>1, SameTask
<1>3. \A e \in Others : SameNumbers(e)
  BY <1>1, SameTask
<1>4. RightMessages' /\ \A e \in Others : SameMessages(e)
  BY MessagesStay
<1> QED BY <1>2, <1>3, <1>4, NumbersKeep DEF SameCounts

\* A step that the framework enqueues is one that nobody has signalled.
LEMMA FrameworkCoherent ==
    ASSUME Base, Handles, Waits, Coherent, NEW d \in Devices, Framework(d)
    PROVE  Coherent'
<1>0. /\ task \in [Devices -> Tasks] /\ stage \in [Devices -> Stages]
      /\ Limit \in Nat \ {0} /\ step \in [Devices -> 0..Limit] /\ DOMAIN sending = Devices
      /\ Orderly(d) /\ HandleOfTask(d) /\ manner # "hasty" /\ (task[d].how = "none" <=> task[d] = NoTask)
      /\ Root \in Devices
  BY BoundsAreNumbers, RootIsDevice, NoTaskUnlessUp DEF Base, Live, Shapes, OrderlyAll, Typed, Handles, Waits
<1>1. CASE Enqueue(d)
  <2> DEFINE t == [at |-> Head(QueueList(d)), how |-> "queued", handle |-> last_handle'[d]]
  <2>1. /\ ~ShouldShutdown(d) /\ step' = [step EXCEPT ![d] = @ + 1]
        /\ UNCHANGED <<manner, life, stage, inbox, sending, listen, ready>>
    BY <1>0, <1>1 DEF Enqueue, Orderly, mainVars, commVars, Limit
  <2>2. stage[d] = "up" /\ task' = [task EXCEPT ![d] = t] /\ task[d] = NoTask
    BY <1>1, <2>1 DEF Enqueue
  <2>3. t.how = "queued" /\ (d = Root => t.at = "REDUCE") /\ (d # Root => t.at = "COORDINATE_REDUCE")
    BY HeadOfList
  <2> HIDE DEF t
  <2>4. /\ task'[d] = t /\ \A e \in Devices \ {d} : task'[e] = task[e]
        /\ Steps(d)' = Steps(d) + 1 /\ \A e \in Devices \ {d} : Steps(e)' = Steps(e)
        /\ Steps(d) \in Int
    BY <1>0, <2>1, <2>2 DEF Steps, Away, Limit
  <2>5. d # Root => SameNumbers(d)
    BY <2>1, <2>2, <2>3, <2>4 DEF SameNumbers, Signalled, Launched, Asked, Copied, Begun, BcastSignalled,
       BcastBegun, OneIf, At, Queued, CopyBegun, Copying, NoTask
  <2>6. d = Root => SameTaken /\ GivenBack' = GivenBack
    BY <2>1, <2>2, <2>3, <2>4 DEF SameTaken, Taken, TakenPush, TakenCopy, TakenBcast, Begun,
       BcastBegun, OneIf, At, Queued, CopyBegun, Copying, NoTask, GivenBack, FirstPush
  <2>7. RootSends'
    BY <1>0, <2>1, <2>2, <2>4, RootSendsStays DEF NoTask
  <2> QED BY <2>1, <2>4, <2>5, <2>6, <2>7, TaskMoves
<1>2. CASE Release(d)
  <2>1. UNCHANGED <<manner, life, stage, step, task, inbox, sending, listen, ready>>
    BY <1>2 DEF Release, mainVars, commVars
  <2>2. \A e \in Devices : Steps(e)' = Steps(e)
    BY <2>1 DEF Steps, Away, Limit
  <2>3. RootSends'
    BY <2>1, RootSendsStays
  <2>4. (ready'[d]["COPYH2D"] = ready[d]["COPYH2D"] => SameNumbers(d))
        /\ (d = Root => SameTaken /\ GivenBack' = GivenBack)
    BY <2>1, <2>2, SameTask
  <2> QED BY <2>1, <2>2, <2>3, <2>4, TaskMoves
<1>3. CASE Suspend(d)
  <2>1. /\ UNCHANGED <<manner, life, step, task, inbox, sending, listen, ready>>
        /\ stage[d] = "up" /\ stage' = [stage EXCEPT ![d] = "joining"]
    BY <1>3 DEF Suspend, frameVars, commVars
  <2>2. \A e \in Devices : Steps(e)' = Steps(e)
    BY <1>0, <2>1 DEF Steps, Away, Limit
  <2>3. RootSends'
    BY <1>0, <2>1, RootSendsStays
  <2>4. (ready'[d]["COPYH2D"] = ready[d]["COPYH2D"] => SameNumbers(d))
        /\ (d = Root => SameTaken /\ GivenBack' = GivenBack)
    BY <2>1, <2>2, SameTask
  <2> QED BY <2>1, <2>2, <2>3, <2>4, TaskMoves
<1> QED BY <1>1, <1>2, <1>3 DEF Framework

\* What Finish does to the numbers, unless a coordinator or a compression ends.
LEMMA FinishCoherent ==
    ASSUME Base, Coherent, NEW d \in Devices, NEW user, Finish(d, user),
           \/ task[d].how \in {"sync", "ps", "pool"} /\ task[d].at # "COMPRESS"
           \/ Copying(d) /\ ~Sends(d, "COPYH2D"),
           UNCHANGED <<manner, life, stage, step, inbox, sending, listen, ready>>
    PROVE  Coherent' /\ UNCHANGED aborted
<1>0. /\ HowKnown(d) /\ Orderly(d) /\ Runs(d) /\ stage[d] = "up" /\ task[d].how # "none"
      /\ Root \in Devices
  BY RootIsDevice DEF Base, OrderlyAll, Orderly, Live, Copying
<1>1. \A e \in Devices : Steps(e)' = Steps(e)
  BY DEF Steps, Away, Limit
<1>2. /\ UNCHANGED aborted
      /\ After(d, task[d].at) = "none" => task'[d] = NoTask
      /\ After(d, task[d].at) # "none" => task'[d].at = After(d, task[d].at) /\ task'[d].how = "queued"
      /\ \A e \in Devices \ {d} : task'[e] = task[e]
  <2> DEFINE next == After(d, task[d].at)
  <2>1. /\ UNCHANGED aborted
        /\ next = "none" => task'[d] = NoTask
        /\ next # "none" => task'[d] = [at |-> next, how |-> "queued", handle |-> task[d].handle]
        /\ \A e \in Devices \ {d} : task'[e] = task[e]
    BY <1>0, FinishMoves DEF Base
  <2> HIDE DEF next
  <2>2. next # "none" => task'[d].at = next /\ task'[d].how = "queued"
    BY <2>1
  <2> QED BY <2>1, <2>2 DEF next
<1>3. d # Root => SameNumbers(d)
  <2> SUFFICES ASSUME d # Root PROVE SameNumbers(d)
    OBVIOUS
  <2>1. task[d].at \in {"COORDINATE_REDUCE", "REDUCE", "COORDINATE_PUSH", "COPYH2D", "COORDINATE_BROADCAST",
                        "BROADCAST"}
    BY <1>0, StagesOfOthers DEF Runs, StageKnown
  <2>2. \/ task[d].how = "sync" /\ task[d].at = "REDUCE" /\ task'[d].at = "COORDINATE_PUSH" /\ task'[d].how = "queued"
        \/ Copying(d) /\ task'[d].at = "COORDINATE_BROADCAST" /\ task'[d].how = "queued"
        \/ task[d].how = "sync" /\ task[d].at = "BROADCAST" /\ task'[d] = NoTask
    BY <1>0, <1>2, <2>1, AfterOfOthers DEF HowKnown, Copying, Grouped
  <2> QED BY <1>1, <2>2 DEF SameNumbers, Signalled, Launched, Asked, Copied, Begun, BcastSignalled,
       BcastBegun, OneIf, At, Queued, CopyBegun, Copying, NoTask
<1>4. d = Root => SameTaken /\ GivenBack' = GivenBack
  <2> SUFFICES ASSUME d = Root PROVE SameTaken /\ GivenBack' = GivenBack
    OBVIOUS
  <2>1. \/ /\ task[Root].how = "sync" /\ task[Root].at = "REDUCE"
           /\ task'[Root].at = FirstPush /\ task'[Root].how = "queued"
        \/ /\ task[Root].how = "ps" /\ task[Root].at = "PUSH"
           /\ task'[Root].at = "PULL" /\ task'[Root].how = "queued"
        \/ /\ task[Root].how \in {"ps", "pool"} /\ task[Root].at \in {"PULL", "DECOMPRESS"}
           /\ task'[Root].at \in {"DECOMPRESS", "COPYH2D"} /\ task'[Root].how = "queued"
        \/ Copying(Root) /\ task'[Root].at = "BROADCAST" /\ task'[Root].how = "queued"
        \/ task[Root].how = "sync" /\ task[Root].at = "BROADCAST" /\ task'[Root] = NoTask
    <3>1. CASE Compressed
      BY <1>0, <1>2, <3>1, AfterOfRoot DEF HowKnown, Copying, FirstPush, Grouped
    <3>2. CASE ~Compressed
      <4>1. task[Root].at \in {"REDUCE", "PUSH", "PULL", "COPYH2D", "BROADCAST"}
        BY <1>0, <3>2, StagesOfRoot DEF Runs, StageKnown
      <4> QED BY <1>0, <1>2, <3>2, <4>1, AfterOfRoot DEF HowKnown, Copying, FirstPush, Grouped
    <3> QED BY <3>1, <3>2
  <2> QED BY <1>0, <1>1, <2>1 DEF SameTaken, Taken, TakenPush, TakenCopy, TakenBcast, Begun,
       BcastBegun, OneIf, At, Queued, CopyBegun, Copying, NoTask, GivenBack, FirstPush
<1>5. RootSends'
  <2>1. CASE d # Root \/ task[d].how # "held"
    BY <1>0, <1>2, <2>1, RootSendsStays
  <2>2. CASE d = Root /\ Copying(d) /\ ~Sends(d, "COPYH2D")
    <3>1. sending[Root].to = {}
      BY <1>0, <2>2 DEF Coherent, RootSends, Copying, Sends, SenderOf
    <3> QED BY <3>1 DEF RootSends
  <2> QED BY <2>1, <2>2
<1> QED BY <1>1, <1>2, <1>3, <1>4, <1>5, TaskMoves

\* A thread hands its task on; what it waits for is not a number.
LEMMA HandOnCoherent ==
    ASSUME Base, Coherent, NEW d \in Devices, Issue(d) \/ DequeueGroup(d)
    PROVE  Coherent'
<1>0. /\ HowKnown(d) /\ Runs(d) /\ Root \in Devices
  BY RootIsDevice DEF Base, OrderlyAll, Live
<1>1. PICK how \in {"ps", "pool", "group", "sync"} :
         /\ task' = [task EXCEPT ![d].how = how]
         /\ task[d].how # "queued" /\ task[d].how # "none" /\ task[d].at # "COPYH2D"
         /\ UNCHANGED <<manner, life, stage, step, inbox, sending, listen, ready>>
         /\ (d = Root /\ task[d].how = "held") => sending[Root].to = {}
  <2>1. CASE Issue(d)
    <3> DEFINE how == Call(task[d].at)
    <3>1. /\ task' = [task EXCEPT ![d].how = how] /\ d = Root /\ sending[d].to = {}
          /\ UNCHANGED <<manner, life, stage, step, inbox, sending, listen, ready>>
          /\ task[d].how = "held" /\ task[d].at # "COPYH2D"
      BY <2>1 DEF Issue, mainVars, frameVars, commVars
    <3>2. task[d].at \in {"REDUCE", "PUSH", "PULL", "COMPRESS", "DECOMPRESS", "BROADCAST"}
      BY <1>0, <3>1, StagesOfRoot DEF Runs, StageKnown
    <3>3. how \in {"ps", "pool", "group", "sync"}
      BY <3>2 DEF Call, Grouped
    <3> HIDE DEF how
    <3> QED BY <3>1, <3>3
  <2>2. CASE DequeueGroup(d)
    BY <1>0, <2>2 DEF DequeueGroup, mainVars, frameVars, commVars, HowKnown, Grouped
  <2> QED BY <2>1, <2>2
<1>2. /\ task'[d].at = task[d].at /\ task'[d].how = how
      /\ \A e \in Devices \ {d} : task'[e] = task[e]
  BY <1>1, HowTyped DEF Base
<1>3. \A e \in Devices : Steps(e)' = Steps(e)
  BY <1>1 DEF Steps, Away, Limit
<1>4. d # Root => SameNumbers(d)
  BY <1>1, <1>2, <1>3 DEF SameNumbers, Signalled, Launched, Asked, Copied, Begun, BcastSignalled, BcastBegun, OneIf,
     At, Queued, CopyBegun, Copying
<1>5. d = Root => SameTaken /\ GivenBack' = GivenBack
  BY <1>1, <1>2, <1>3 DEF SameTaken, Taken, TakenPush, TakenCopy, TakenBcast, Begun, BcastBegun, OneIf, At, Queued,
     CopyBegun, Copying, GivenBack
<1>6. RootSends'
  <2>1. CASE d = Root /\ task[d].how = "held"
    BY <1>1, <2>1 DEF RootSends
  <2>2. CASE d # Root \/ task[d].how # "held"
    BY <1>0, <1>1, <1>2, <2>2, RootSendsStays
  <2> QED BY <2>1, <2>2
<1> QED BY <1>1, <1>2, <1>3, <1>4, <1>5, <1>6, TaskMoves

\* When the root has taken the push of its step, no signal for a push is left.
LEMMA NoPushLeft ==
    ASSUME Base, Coherent, TakenPush = Steps(Root)
    PROVE  /\ \A d \in Others : Asked(d) = TakenPush /\ ~InTransit("PUSH_READY", d, Root)
           /\ PushArrived = {} /\ Cardinality(PushArrived) = 0
<1>1. ASSUME NEW d \in Others PROVE Asked(d) = TakenPush /\ ~InTransit("PUSH_READY", d, Root)
  <2>1. Apart(d) /\ d \in Devices
    BY DEF Coherent, Others
  <2>2. Launched(d) \in Int /\ Asked(d) \in Int /\ Asked(d) <= Launched(d)
    BY <2>1, NumbersOf
  <2>3. Taken \in Int /\ Taken <= Steps(Root) /\ Steps(Root) \in Int
    BY NumbersOfRoot
  <2> QED BY <2>1, <2>2, <2>3 DEF Apart
<1>2. PushArrived = {}
  BY <1>1, NumbersOfRoot DEF PushArrived
<1> QED BY <1>1, <1>2, FS_EmptySet

\* The end of a compression gives the count back to the push.
LEMMA CompleteCoherent ==
    ASSUME Base, Coherent, NEW d \in Devices, Complete(d)
    PROVE  Coherent' /\ UNCHANGED aborted
<1>0. /\ task[d].how \in {"ps", "pool"} /\ Finish(d, "call")
      /\ UNCHANGED <<manner, life, stage, step, inbox, sending, listen>>
      /\ HowKnown(d) /\ Orderly(d) /\ Runs(d) /\ Root \in Devices /\ \A e \in Others : e \in Devices /\ e # Root
  BY RootIsDevice DEF Complete, mainVars, Base, OrderlyAll, Live, Others
<1>1. CASE task[d].at # "COMPRESS"
  <2>1. UNCHANGED ready
    BY <1>1 DEF Complete
  <2> QED BY <1>0, <1>1, <2>1, FinishCoherent
<1>2. CASE task[d].at = "COMPRESS"
  <2>1. stage[d] = "up" /\ d = Root /\ Compressed
    <3>1. stage[d] = "up" /\ task[d].at \in StagesOf(d)
      BY <1>0 DEF Orderly, Runs, StageKnown
    <3>2. d = Root
      BY <1>2, <3>1, StagesOfOthers
    <3> QED BY <1>2, <3>1, <3>2, StagesOfRoot
  <2>2. After(Root, "COMPRESS") = "PUSH"
    BY <2>1, AfterOfRoot
  <2>3. /\ UNCHANGED aborted
        /\ task'[Root] = [at |-> "PUSH", how |-> "queued", handle |-> task[Root].handle]
        /\ \A e \in Devices \ {Root} : task'[e] = task[e]
    BY <1>0, <1>2, <2>1, <2>2, FinishMoves DEF Base
  <2>4. \A e \in Devices : Steps(e)' = Steps(e)
    BY <1>0 DEF Steps, Away, Limit
  <2>5. ready' = [ready EXCEPT ![Root]["PUSH"] = LocalSize - 1]
    BY <1>2, <2>1 DEF Complete, HasQueues, RestoredCount, ReadyCount
  <2>6. /\ ready'[Root]["PUSH"] = LocalSize - 1 /\ ready'[Root]["REDUCE"] = ready[Root]["REDUCE"]
        /\ ready'[Root]["BROADCAST"] = ready[Root]["BROADCAST"]
        /\ \A e \in Others : ready'[e] = ready[e]
    <3>1. DOMAIN ready = Devices
      BY DEF Base, Typed
    <3> QED BY <1>0, <2>5, <3>1, CountsOf DEF RootTables
  <2>7. SameTaken /\ GivenBack' /\ ~GivenBack /\ TakenPush = Steps(Root)
    <3>1. Steps(Root) \in Int
      BY NumbersOfRoot
    <3> QED BY <1>0, <1>2, <2>1, <2>3, <2>4, <3>1 DEF SameTaken, Taken, TakenPush, TakenCopy, TakenBcast,
               Begun, BcastBegun, OneIf, At, Queued, CopyBegun, Copying, GivenBack, FirstPush
  <2>8. \A e \in Others : SameNumbers(e)
    BY <1>0, <2>3, <2>4, <2>6, SameTask
  <2>9. RootSends'
    BY <1>0, <2>1, RootSendsStays
  <2>10. RightMessages' /\ \A e \in Others : SameMessages(e)
    BY <1>0, <2>9, MessagesStay
  <2>11. \A e \in Others : Apart(e)'
    BY <2>7, <2>8, <2>10 DEF Coherent, Apart, SameTaken, SameNumbers, SameMessages, Signals, Orders
  <2>12. ReduceArrived' = ReduceArrived /\ BcastArrived' = BcastArrived
    BY <2>7, <2>8, <2>10 DEF ReduceArrived, BcastArrived, SameTaken, SameNumbers, SameMessages, Signals
  <2>13. ReduceCounted' /\ BcastCounted'
    BY <1>0, <2>6, <2>12 DEF Coherent, ReduceCounted, BcastCounted, Got
  <2>14. listen["basic"] # "PUSH"
    <3>1. ready[Root]["PUSH"] + Got("PUSH") = 0
      BY <2>7, NoPushLeft DEF Coherent, PushCounted
    <3> QED BY <3>1, CountsOf DEF Got, OneIf, CommOf
  <2>15. PushCounted'
    BY <1>0, <2>6, <2>7, <2>14 DEF PushCounted
  <2> QED BY <2>3, <2>10, <2>11, <2>13, <2>15 DEF Coherent, RightMessages
<1> QED BY <1>1, <1>2

\* A coordinator has nothing else to send, and its signal is the first of its
\* step.
LEMMA CoordinateCoherent ==
    ASSUME Base, Coherent, NEW d \in Devices, Coordinate(d)
    PROVE  Coherent' /\ UNCHANGED aborted
<1>0. /\ task[d].at \in {"COORDINATE_REDUCE", "COORDINATE_PUSH", "COORDINATE_BROADCAST"}
      /\ task[d].how = "held" /\ Finish(d, "loop")
      /\ sending' = [sending EXCEPT ![d] = [kind |-> SignalOf(task[d].at), to |-> {Root}]]
      /\ UNCHANGED <<manner, life, stage, step, inbox, listen, ready>>
  BY CoordinatorHolds DEF Coordinate, Coordinated, mainVars, commVars
<1>1. /\ HowKnown(d) /\ Orderly(d) /\ Runs(d) /\ Root \in Devices /\ DOMAIN sending = Devices
      /\ \A e \in Others : e \in Devices /\ e # Root
  BY RootIsDevice DEF Base, OrderlyAll, Live, Others, Typed
<1>2. stage[d] = "up" /\ d # Root /\ d \in Others
  <2>1. stage[d] = "up" /\ task[d].at \in StagesOf(d)
    BY <1>0, <1>1 DEF Orderly, Runs, StageKnown
  <2>2. d # Root
    BY <1>0, <2>1, StagesOfRoot
  <2> QED BY <2>1, <2>2 DEF Others
<1>3. /\ UNCHANGED aborted
      /\ task'[d].how = "queued"
      /\ task[d].at = "COORDINATE_REDUCE" => task'[d].at = "REDUCE"
      /\ task[d].at = "COORDINATE_PUSH" => task'[d].at = "COPYH2D"
      /\ task[d].at = "COORDINATE_BROADCAST" => task'[d].at = "BROADCAST"
      /\ \A e \in Devices \ {d} : task'[e] = task[e]
  <2> DEFINE next == After(d, task[d].at)
  <2>1. /\ UNCHANGED aborted
        /\ next # "none" => task'[d] = [at |-> next, how |-> "queued", handle |-> task[d].handle]
        /\ \A e \in Devices \ {d} : task'[e] = task[e]
    BY <1>0, <1>2, FinishMoves DEF Base
  <2>2. /\ task[d].at = "COORDINATE_REDUCE" => next = "REDUCE"
        /\ task[d].at = "COORDINATE_PUSH" => next = "COPYH2D"
        /\ task[d].at = "COORDINATE_BROADCAST" => next = "BROADCAST"
    BY <1>2, AfterOfOthers
  <2> HIDE DEF next
  <2> QED BY <1>0, <2>1, <2>2
<1>4. \A e \in Devices : Steps(e)' = Steps(e)
  BY <1>0 DEF Steps, Away, Limit
<1>5. SameTaken /\ GivenBack' = GivenBack /\ \A e \in Others \ {d} : SameNumbers(e)
  BY <1>0, <1>1, <1>2, <1>3, <1>4, SameTask
<1>6. /\ Launched(d)' = Launched(d) /\ Copied(d)' = Copied(d) /\ BcastBegun(d)' = BcastBegun(d)
      /\ task[d].at = "COORDINATE_REDUCE" => /\ Signalled(d) = Steps(d) - 1 /\ Signalled(d)' = Steps(d)
                                            /\ Launched(d) = Steps(d) - 1 /\ Begun(d) = Steps(d) - 1
                                            /\ Asked(d) = Steps(d) - 1 /\ Asked(d)' = Steps(d) - 1
                                            /\ BcastSignalled(d)' = Steps(d) - 1
      /\ task[d].at = "COORDINATE_PUSH" => /\ Signalled(d) = Steps(d) /\ Signalled(d)' = Steps(d)
                                          /\ Launched(d) = Steps(d) /\ Begun(d) = Steps(d) - 1
                                          /\ Asked(d) = Steps(d) - 1 /\ Asked(d)' = Steps(d)
                                          /\ BcastSignalled(d)' = Steps(d) - 1
      /\ task[d].at = "COORDINATE_BROADCAST" => /\ Signalled(d) = Steps(d) /\ Signalled(d)' = Steps(d)
                                               /\ Launched(d) = Steps(d) /\ Begun(d) = Steps(d)
                                               /\ Asked(d) = Steps(d) /\ Asked(d)' = Steps(d)
                                               /\ BcastSignalled(d)' = Steps(d)
      /\ BcastSignalled(d) = Steps(d) - 1 /\ BcastBegun(d) = Steps(d) - 1 /\ Steps(d) \in Nat
  <2>1. Steps(d) \in Nat
    BY NumbersOf
  <2>2. ready'[d] = ready[d]
    BY <1>0
  <2> QED BY <1>0, <1>3, <1>4, <2>1, <2>2 DEF Signalled, Launched, Asked, Copied, Begun, BcastSignalled,
             BcastBegun, OneIf, At, Queued, CopyBegun, Copying
<1>7. Apart(d) /\ OtherSends(d)
  BY <1>2 DEF Coherent
<1>8. /\ Taken \in Int /\ TakenPush \in Int /\ TakenCopy \in Int /\ TakenBcast \in Int
      /\ TakenCopy <= TakenPush /\ TakenPush <= Taken /\ Taken <= TakenPush + 1
  BY NumbersOfRoot
<1>9. Asked(d) = TakenPush
  <2>1. ready[d]["COPYH2D"] \in 0..1
    BY <1>2, CountsOf
  <2>2. Begun(d) <= TakenPush
    BY <1>0, <1>6, <1>7, <1>8, <2>1 DEF Apart, Copied
  <2> QED BY <1>0, <1>6, <1>7, <1>8, <2>2 DEF Apart
<1>10. Signalled(d) = Taken
  BY <1>0, <1>6, <1>7, <1>8, <1>9 DEF Apart
<1>11. BcastSignalled(d) = TakenBcast
  BY <1>6, <1>7, <1>8 DEF Apart
<1>12. /\ ~InTransit("REDUCE_READY", d, Root) /\ ~InTransit("PUSH_READY", d, Root)
       /\ ~InTransit("BCAST_READY", d, Root)
  BY <1>0, <1>7, <1>8, <1>9, <1>10, <1>11 DEF Apart
<1>13. /\ sending'[d] = [kind |-> SignalOf(task[d].at), to |-> {Root}]
       /\ \A e \in Devices \ {d} : sending'[e] = sending[e]
       /\ SignalOf(task[d].at) \in Signals
       /\ task[d].at = "COORDINATE_REDUCE" <=> SignalOf(task[d].at) = "REDUCE_READY"
       /\ task[d].at = "COORDINATE_PUSH" <=> SignalOf(task[d].at) = "PUSH_READY"
       /\ task[d].at = "COORDINATE_BROADCAST" <=> SignalOf(task[d].at) = "BCAST_READY"
  BY <1>0, <1>1 DEF SignalOf, Signals
<1>14. RootSends'
  BY <1>0, <1>1, <1>2, <1>3, <1>13, RootSendsStays
<1>15. RightMessages'
  BY <1>0, <1>1, <1>2, <1>13, <1>14 DEF Coherent, RightMessages, RootReceives, RootSent, OtherSends
<1>16. \A e \in Others \ {d} : SameMessages(e)
  BY <1>0, <1>1, <1>2, <1>13 DEF Coherent, SameMessages, Apart, InTransit, AtSender, InSocket, NotTwice
<1>17. Apart(d)'
  <2>1. /\ \A k \in Orders : (InTransit(k, Root, d)' => InTransit(k, Root, d)) /\ NotTwice(k, Root, d)'
        /\ \A k \in Signals : NotTwice(k, d, Root)'
        /\ InTransit("REDUCE_READY", d, Root)' => task[d].at = "COORDINATE_REDUCE"
        /\ InTransit("PUSH_READY", d, Root)' => task[d].at = "COORDINATE_PUSH"
        /\ InTransit("BCAST_READY", d, Root)' => task[d].at = "COORDINATE_BROADCAST"
    BY <1>0, <1>1, <1>2, <1>7, <1>12, <1>13 DEF Apart, InTransit, AtSender, InSocket, NotTwice, Signals
  <2>2. /\ InTransit("DO_REDUCE", Root, d)' => InTransit("DO_REDUCE", Root, d)
        /\ InTransit("DO_COPYH2D", Root, d)' => InTransit("DO_COPYH2D", Root, d)
        /\ InTransit("DO_BROADCAST", Root, d)' => InTransit("DO_BROADCAST", Root, d)
    BY <2>1 DEF Orders
  <2> QED BY <1>0, <1>5, <1>6, <1>7, <1>8, <1>9, <1>10, <1>11, <2>1, <2>2 DEF Apart, SameTaken
<1>18. \A e \in Others \ {d} : Apart(e)'
  BY <1>5, <1>16 DEF Coherent, Apart, SameTaken, SameNumbers, SameMessages, Signals, Orders
<1>19. ReduceArrived' = ReduceArrived /\ PushArrived' = PushArrived /\ BcastArrived' = BcastArrived
  <2>2. d \notin ReduceArrived /\ d \notin PushArrived /\ d \notin BcastArrived
    BY <1>8, <1>9, <1>10, <1>11 DEF ReduceArrived, PushArrived, BcastArrived
  <2>1. /\ Signalled(d)' = Taken' + 1 => InTransit("REDUCE_READY", d, Root)'
        /\ Asked(d)' = TakenPush' + 1 => InTransit("PUSH_READY", d, Root)'
        /\ BcastSignalled(d)' = TakenBcast' + 1 => InTransit("BCAST_READY", d, Root)'
    <3>1. /\ task[d].at = "COORDINATE_REDUCE" => InTransit("REDUCE_READY", d, Root)'
          /\ task[d].at = "COORDINATE_PUSH" => InTransit("PUSH_READY", d, Root)'
          /\ task[d].at = "COORDINATE_BROADCAST" => InTransit("BCAST_READY", d, Root)'
      BY <1>13 DEF InTransit, AtSender
    <3> QED BY <1>0, <1>5, <1>6, <1>8, <1>9, <1>10, <1>11, <3>1 DEF SameTaken
  <2>3. d \notin ReduceArrived' /\ d \notin PushArrived' /\ d \notin BcastArrived'
    <3>1. /\ d \in ReduceArrived' => Signalled(d)' = Taken' + 1 /\ ~InTransit("REDUCE_READY", d, Root)'
          /\ d \in PushArrived' => Asked(d)' = TakenPush' + 1 /\ ~InTransit("PUSH_READY", d, Root)'
          /\ d \in BcastArrived' => BcastSignalled(d)' = TakenBcast' + 1 /\ ~InTransit("BCAST_READY", d, Root)'
      BY DEF ReduceArrived, PushArrived, BcastArrived
    <3> QED BY <2>1, <3>1, Zenon
  <2>4. \A e \in Others \ {d} : /\ e \in ReduceArrived' <=> e \in ReduceArrived
                                /\ e \in PushArrived' <=> e \in PushArrived
                                /\ e \in BcastArrived' <=> e \in BcastArrived
    BY <1>5, <1>16 DEF ReduceArrived, PushArrived, BcastArrived, SameTaken, SameNumbers, SameMessages, Signals
  <2>5. /\ ReduceArrived' \subseteq Others /\ PushArrived' \subseteq Others /\ BcastArrived' \subseteq Others
        /\ ReduceArrived \subseteq Others /\ PushArrived \subseteq Others /\ BcastArrived \subseteq Others
    BY DEF ReduceArrived, PushArrived, BcastArrived
  <2> QED BY <2>2, <2>3, <2>4, <2>5
<1>20. ReduceCounted' /\ PushCounted' /\ BcastCounted'
  BY <1>0, <1>5, <1>19 DEF Coherent, ReduceCounted, PushCounted, BcastCounted, Got
<1> QED BY <1>3, <1>15, <1>17, <1>18, <1>20 DEF Coherent, RightMessages

\* Take, of a device that is not the root.
LEMMA TakeCoherentOther ==
    ASSUME Base, Coherent, NEW d \in Others, Take(d)
    PROVE  Coherent'
<1>0. /\ d \in Devices /\ d # Root /\ Root \in Devices /\ Runs(d) /\ DOMAIN ready = Devices
      /\ Tables(d) = {"COPYH2D"} /\ DOMAIN ready[d] = {"COPYH2D"} /\ ready[d]["COPYH2D"] \in 0..1
      /\ \A e \in Others : e \in Devices /\ e # Root
  BY RootIsDevice, CountsOf DEF Base, Live, Typed, Others
<1>1. /\ task[d].how = "queued" /\ task' = [task EXCEPT ![d].how = "held"] /\ sending' = sending
      /\ UNCHANGED <<manner, life, stage, step, inbox, listen>>
      /\ task[d].at \notin Grouped
  BY <1>0 DEF Take, mainVars, frameVars
<1>2. /\ task'[d].at = task[d].at /\ task'[d].how = "held"
      /\ \A e \in Devices \ {d} : task'[e] = task[e]
  BY <1>0, <1>1, HowTyped DEF Base
<1>3. \A e \in Devices : Steps(e)' = Steps(e)
  BY <1>1 DEF Steps, Away, Limit
<1>4. TableOf(d, task[d].at) = task[d].at
  BY <1>0 DEF TableOf
<1>5. CASE task[d].at = "COPYH2D"
  <2>1. ready[d]["COPYH2D"] = 1 /\ ready' = [ready EXCEPT ![d]["COPYH2D"] = 0]
    BY <1>0, <1>4, <1>5 DEF Take, ReadyCount, ClearReadyCount
  <2>2. /\ ready'[d]["COPYH2D"] = 0 /\ \A e \in Devices \ {d} : ready'[e] = ready[e]
    BY <1>0, <2>1
  <2>3. SameNumbers(d)
    <3>1. Steps(d) \in Int
      BY <1>0, NumbersOf
    <3>2. Steps(d)' = Steps(d) /\ d \in Others
      BY <1>0, <1>3
    <3> QED BY <1>1, <1>2, <1>5, <2>1, <2>2, <3>1, <3>2 DEF SameNumbers, Signalled, Launched, Asked, Copied,
               Begun, BcastSignalled, BcastBegun, OneIf, At, Queued, CopyBegun, Copying
  <2>4. SameTaken /\ GivenBack' = GivenBack /\ \A e \in Others \ {d} : SameNumbers(e)
    BY <1>0, <1>2, <1>3, <2>2, SameTask
  <2>5. RootSends'
    BY <1>0, <1>1, <1>2, RootSendsStays
  <2>6. RightMessages' /\ \A e \in Others : SameMessages(e)
    BY <1>1, <2>5, MessagesStay
  <2> QED BY <1>0, <1>1, <2>2, <2>3, <2>4, <2>6, NumbersKeep DEF SameCounts
<1>6. CASE task[d].at # "COPYH2D"
  <2>1. ready' = ready
    BY <1>0, <1>4, <1>6 DEF Take
  <2>2. SameNumbers(d)
    <3>1. Steps(d)' = Steps(d)
      BY <1>0, <1>3
    <3> QED BY <1>1, <1>2, <1>6, <2>1, <3>1 DEF SameNumbers, Signalled, Launched, Asked, Copied, Begun,
               BcastSignalled, BcastBegun, OneIf, At, Queued, CopyBegun, Copying, Grouped
  <2>3. RootSends'
    BY <1>0, <1>1, <1>2, RootSendsStays
  <2> QED BY <1>0, <1>1, <1>2, <1>3, <2>1, <2>2, <2>3, TaskMoves
<1> QED BY <1>5, <1>6

\* The root has counted the signals of all others.
LEMMA AllArrived ==
    ASSUME Base, Coherent
    PROVE  /\ ready[Root]["REDUCE"] = LocalSize - 1 => ReduceArrived = Others /\ listen["nccl"] # "REDUCE"
           /\ ~GivenBack /\ ready[Root]["PUSH"] = LocalSize - 1 => PushArrived = Others /\ listen["basic"] # "PUSH"
           /\ ready[Root]["BROADCAST"] = LocalSize - 1 => BcastArrived = Others /\ listen["nccl"] # "BROADCAST"
<1>1. /\ ReduceArrived \in SUBSET Others /\ PushArrived \in SUBSET Others /\ BcastArrived \in SUBSET Others
      /\ LocalSize - 1 \in Nat /\ \A t \in RootTables : Got(t) \in 0..1
  BY CountsOf DEF ReduceArrived, PushArrived, BcastArrived
<1>2. ASSUME NEW t \in RootTables, NEW S \in SUBSET Others, LocalSize - 1 + Got(t) = Cardinality(S)
      PROVE  S = Others /\ listen[CommOf(t)] # t
  <2>1. Cardinality(S) \in Nat /\ Cardinality(S) <= LocalSize - 1
    BY OthersAreCounted
  <2>2. Cardinality(S) = LocalSize - 1 /\ Got(t) = 0
    BY <1>1, <1>2, <2>1
  <2> QED BY <2>2, OthersAreCounted DEF Got, OneIf
<1>3. ASSUME ready[Root]["REDUCE"] = LocalSize - 1 PROVE ReduceArrived = Others /\ listen["nccl"] # "REDUCE"
  BY <1>1, <1>2, <1>3 DEF Coherent, ReduceCounted, RootTables, CommOf
<1>4. ASSUME ~GivenBack, ready[Root]["PUSH"] = LocalSize - 1 PROVE PushArrived = Others /\ listen["basic"] # "PUSH"
  BY <1>1, <1>2, <1>4 DEF Coherent, PushCounted, RootTables, CommOf
<1>5. ASSUME ready[Root]["BROADCAST"] = LocalSize - 1 PROVE BcastArrived = Others /\ listen["nccl"] # "BROADCAST"
  BY <1>1, <1>2, <1>5 DEF Coherent, BcastCounted, RootTables, CommOf
<1> QED BY <1>3, <1>4, <1>5

\* Take, of the root: the facts of all its stages.
RootTakes ==
    /\ task[Root].how = "queued" /\ task'[Root].at = task[Root].at /\ task'[Root].how = "held"
    /\ \A e \in Others : task'[e] = task[e] /\ ready'[e] = ready[e] /\ sending'[e] = sending[e]
    /\ \A e \in Devices : Steps(e)' = Steps(e)
    /\ UNCHANGED <<manner, life, stage, step, inbox, listen>>
    /\ sending[Root].to = {}
    /\ ~GivenBack'

\* What the root changes when it takes its task.
LEMMA TakeOfRoot ==
    ASSUME Base, Coherent, Take(Root)
    PROVE  /\ RootTakes /\ \A e \in Others : SameNumbers(e)
           /\ task[Root].at \in StagesOf(Root)
<1>0. /\ Root \in Devices /\ Runs(Root) /\ Orderly(Root) /\ DOMAIN ready = Devices /\ DOMAIN sending = Devices
      /\ \A e \in Others : e \in Devices /\ e # Root
  BY RootIsDevice DEF Base, Live, OrderlyAll, Typed, Others
<1>1. /\ task[Root].how = "queued" /\ task' = [task EXCEPT ![Root].how = "held"]
      /\ UNCHANGED <<manner, life, stage, step, inbox, listen>>
  BY DEF Take, mainVars, frameVars
<1>2. /\ task'[Root].at = task[Root].at /\ task'[Root].how = "held"
      /\ \A e \in Devices \ {Root} : task'[e] = task[e]
  BY <1>0, <1>1, HowTyped DEF Base
<1>3. \A e \in Devices : Steps(e)' = Steps(e)
  BY <1>1 DEF Steps, Away, Limit
<1>4. \A e \in Others : ready'[e] = ready[e]
  <2>1. ready' = ready \/ \E t : ready' = [ready EXCEPT ![Root][t] = 0]
    BY DEF Take, ClearReadyCount
  <2> QED BY <1>0, <2>1
<1>5. \A e \in Others : sending'[e] = sending[e]
  <2>1. sending' = sending \/ \E s : sending' = [sending EXCEPT ![Root] = s]
    BY DEF Take
  <2> QED BY <1>0, <2>1
<1>6. sending[Root].to = {}
  BY <1>0, <1>1 DEF Coherent, RootSends, Copying, Orderly
<1>7. \A e \in Others : SameNumbers(e)
  BY <1>0, <1>2, <1>3, <1>4, SameTask
<1>8. task[Root].at \in StagesOf(Root)
  BY <1>0, <1>1 DEF Runs, StageKnown
<1> QED BY <1>0, <1>1, <1>2, <1>3, <1>4, <1>5, <1>6, <1>7, <1>8 DEF RootTakes, GivenBack, Queued

\* The root tells the others of what it has taken, with a message none of them has.
LEMMA RootTells ==
    ASSUME Base, Coherent, RootTakes, NEW k \in Orders, sending'[Root] = [kind |-> k, to |-> Others],
           NEW e \in Others, ~InTransit(k, Root, e)
    PROVE  /\ \A q \in Signals : /\ InTransit(q, e, Root)' <=> InTransit(q, e, Root)
                                 /\ NotTwice(q, e, Root)'
           /\ \A o \in Orders : /\ InTransit(o, Root, e)' => o = k \/ InTransit(o, Root, e)
                                /\ NotTwice(o, Root, e)'
BY DEF Coherent, Apart, RootTakes, InTransit, AtSender, InSocket, NotTwice

\* It starts the reduction of a step that all devices have signalled.
LEMMA TakeReduce ==
    ASSUME Base, Coherent, Take(Root), task[Root].at = "REDUCE"
    PROVE  Coherent'
<1>0. /\ RootTakes /\ \A e \in Others : SameNumbers(e) /\ e \in Devices /\ e # Root /\ Apart(e)
      /\ Root \in Devices /\ DOMAIN ready = Devices /\ DOMAIN sending = Devices
  BY RootIsDevice, TakeOfRoot DEF Others, Base, Typed, Coherent
<1>1. /\ ready[Root]["REDUCE"] = LocalSize - 1 /\ ready' = [ready EXCEPT ![Root]["REDUCE"] = 0]
      /\ sending' = [sending EXCEPT ![Root] = [kind |-> "DO_REDUCE", to |-> Others]]
  BY CountsOf DEF Take, TableOf, ReadyCount, ClearReadyCount, Told, RootTables, Grouped
<1>2. /\ ready'[Root]["REDUCE"] = 0 /\ ready'[Root]["PUSH"] = ready[Root]["PUSH"]
      /\ ready'[Root]["BROADCAST"] = ready[Root]["BROADCAST"]
      /\ sending'[Root] = [kind |-> "DO_REDUCE", to |-> Others]
  BY <1>0, <1>1, CountsOf DEF RootTables
<1>3. ReduceArrived = Others /\ listen["nccl"] # "REDUCE"
  BY <1>1, AllArrived
<1>4. \A e \in Others : Signalled(e) = Taken + 1 /\ ~InTransit("REDUCE_READY", e, Root)
  BY <1>3 DEF ReduceArrived
<1>5. /\ Taken' = Taken + 1 /\ TakenPush' = TakenPush /\ TakenCopy' = TakenCopy /\ ~GivenBack
      /\ TakenBcast' = TakenBcast
      /\ Taken \in Int /\ TakenPush \in Int /\ TakenCopy \in Int
  <2>1. Steps(Root) \in Int
    BY NumbersOfRoot
  <2> QED BY <1>0, <2>1 DEF RootTakes, Taken, TakenPush, TakenCopy, TakenBcast, Begun, BcastBegun, OneIf, At,
             Queued, CopyBegun, Copying, GivenBack, FirstPush
<1>6. RootSends'
  BY <1>0, <1>2 DEF RootSends, RootTakes
<1>7. RightMessages'
  BY <1>0, <1>6 DEF Coherent, RightMessages, RootTakes, RootReceives, RootSent, OtherSends
<1>8. ASSUME NEW e \in Others PROVE Apart(e)'
  <2>1. Launched(e) = Taken /\ Launched(e) \in Int
    <3>1. /\ Launched(e) \in {Steps(e) - 1, Steps(e)} /\ Signalled(e) \in {Steps(e) - 1, Steps(e)}
          /\ Steps(e) \in Int
      BY <1>0, NumbersOf
    <3> QED BY <1>0, <1>4, <1>5, <3>1 DEF Apart
  <2>2. ~InTransit("DO_REDUCE", Root, e)
    BY <1>0, <1>5, <2>1 DEF Apart
  <2>3. /\ InTransit("REDUCE_READY", e, Root)' <=> InTransit("REDUCE_READY", e, Root)
        /\ InTransit("PUSH_READY", e, Root)' <=> InTransit("PUSH_READY", e, Root)
        /\ InTransit("BCAST_READY", e, Root)' <=> InTransit("BCAST_READY", e, Root)
        /\ InTransit("DO_COPYH2D", Root, e)' => InTransit("DO_COPYH2D", Root, e)
        /\ InTransit("DO_BROADCAST", Root, e)' => InTransit("DO_BROADCAST", Root, e)
        /\ \A q \in Signals : NotTwice(q, e, Root)'
        /\ \A o \in Orders : NotTwice(o, Root, e)'
    <3>1. "DO_REDUCE" \in Orders
      BY DEF Orders
    <3>2. /\ \A q \in Signals : (InTransit(q, e, Root)' <=> InTransit(q, e, Root)) /\ NotTwice(q, e, Root)'
          /\ \A o \in Orders : /\ InTransit(o, Root, e)' => o = "DO_REDUCE" \/ InTransit(o, Root, e)
                               /\ NotTwice(o, Root, e)'
      BY <1>0, <1>2, <2>2, <3>1, RootTells
    <3> QED BY <3>2 DEF Signals, Orders
  <2>4. /\ Signalled(e)' = Taken + 1 /\ Launched(e)' = Taken /\ Asked(e)' = Asked(e) /\ Copied(e)' = Copied(e)
        /\ BcastSignalled(e)' = BcastSignalled(e) /\ BcastBegun(e)' = BcastBegun(e)
    BY <1>0, <1>4, <2>1 DEF SameNumbers
  <2> QED BY <1>0, <1>4, <1>5, <2>1, <2>3, <2>4 DEF Apart
<1>9. ReduceArrived' = {}
  <2> SUFFICES ASSUME NEW e \in Others, Signalled(e)' = Taken' + 1 PROVE FALSE
    BY DEF ReduceArrived
  <2>1. Signalled(e)' = Taken + 1
    BY <1>0, <1>4 DEF SameNumbers
  <2> QED BY <1>5, <2>1
<1>10. PushArrived' = PushArrived /\ BcastArrived' = BcastArrived
  <2>1. \A e \in Others : /\ InTransit("PUSH_READY", e, Root)' <=> InTransit("PUSH_READY", e, Root)
                          /\ InTransit("BCAST_READY", e, Root)' <=> InTransit("BCAST_READY", e, Root)
    BY <1>0 DEF RootTakes, InTransit, AtSender, InSocket
  <2> QED BY <1>0, <1>5, <2>1 DEF PushArrived, BcastArrived, SameNumbers
<1>11. ReduceCounted' /\ PushCounted' /\ BcastCounted'
  BY <1>0, <1>2, <1>3, <1>5, <1>9, <1>10, FS_EmptySet DEF Coherent, RootTakes, ReduceCounted, PushCounted, BcastCounted,
     Got, OneIf, CommOf
<1> QED BY <1>7, <1>8, <1>11 DEF Coherent, RightMessages

\* It takes what is pushed when all devices have asked for it; after a
\* compression the count is given back.
LEMMA TakePush ==
    ASSUME Base, Coherent, Take(Root), task[Root].at \in {"COMPRESS", "PUSH"}
    PROVE  Coherent'
<1>0. /\ RootTakes /\ \A e \in Others : SameNumbers(e) /\ e \in Devices /\ e # Root /\ Apart(e)
      /\ Root \in Devices /\ DOMAIN ready = Devices /\ task[Root].at \in StagesOf(Root)
  BY RootIsDevice, TakeOfRoot DEF Others, Base, Typed, Coherent
<1>1. /\ ready[Root]["PUSH"] = LocalSize - 1 /\ ready' = [ready EXCEPT ![Root]["PUSH"] = 0] /\ sending' = sending
  BY CountsOf DEF Take, TableOf, ReadyCount, ClearReadyCount, RootTables, Grouped
<1>2. /\ ready'[Root]["PUSH"] = 0 /\ ready'[Root]["REDUCE"] = ready[Root]["REDUCE"]
      /\ ready'[Root]["BROADCAST"] = ready[Root]["BROADCAST"]
  BY <1>0, <1>1, CountsOf DEF RootTables
<1>3. /\ Taken' = Taken /\ TakenCopy' = TakenCopy /\ TakenBcast' = TakenBcast
      /\ GivenBack => TakenPush' = TakenPush /\ TakenPush = Steps(Root)
      /\ ~GivenBack => TakenPush' = TakenPush + 1
      /\ Taken \in Int /\ TakenPush \in Int /\ TakenCopy \in Int
  <2>1. Steps(Root) \in Int
    BY NumbersOfRoot
  <2>2. ~Compressed => task[Root].at = "PUSH"
    BY <1>0, StagesOfRoot
  <2> QED BY <1>0, <2>1, <2>2 DEF RootTakes, Taken, TakenPush, TakenCopy, TakenBcast, Begun, BcastBegun, OneIf, At,
             Queued, CopyBegun, Copying, GivenBack, FirstPush
<1>4. RootSends'
  BY <1>0, <1>1 DEF RootSends, RootTakes
<1>5. RightMessages' /\ \A e \in Others : SameMessages(e)
  BY <1>0, <1>1, <1>4, MessagesStay DEF RootTakes
<1>6. \A e \in Others : Asked(e) = TakenPush' /\ ~InTransit("PUSH_READY", e, Root)
  <2>1. CASE GivenBack
    BY <1>3, <2>1, NoPushLeft
  <2>2. CASE ~GivenBack
    BY <1>1, <1>3, <2>2, AllArrived DEF PushArrived
  <2> QED BY <2>1, <2>2
<1>7. listen["basic"] # "PUSH"
  <2>1. CASE GivenBack
    BY <2>1 DEF Coherent, PushCounted
  <2>2. CASE ~GivenBack
    BY <1>1, <2>2, AllArrived
  <2> QED BY <2>1, <2>2
<1>8. TakenPush' \in Int /\ TakenPush <= TakenPush' /\ TakenPush' <= TakenPush + 1
  BY <1>3
<1>9. ASSUME NEW e \in Others PROVE Apart(e)'
  BY <1>0, <1>3, <1>5, <1>6, <1>8 DEF Apart, SameNumbers, SameMessages, Signals, Orders
<1>10. ReduceArrived' = ReduceArrived /\ BcastArrived' = BcastArrived
  BY <1>0, <1>3, <1>5 DEF ReduceArrived, BcastArrived, SameNumbers, SameMessages, Signals
<1>11. PushArrived' = {}
  <2> SUFFICES ASSUME NEW e \in Others, Asked(e)' = TakenPush' + 1 PROVE FALSE
    BY DEF PushArrived
  <2>1. Asked(e)' = Asked(e) /\ Asked(e) = TakenPush'
    BY <1>0, <1>6 DEF SameNumbers
  <2>2. CASE GivenBack
    BY <1>3, <2>1, <2>2
  <2>3. CASE ~GivenBack
    BY <1>3, <2>1, <2>3
  <2> QED BY <2>2, <2>3
<1>12. ReduceCounted' /\ PushCounted' /\ BcastCounted'
  BY <1>0, <1>2, <1>7, <1>10, <1>11, FS_EmptySet DEF Coherent, RootTakes, ReduceCounted, PushCounted, BcastCounted,
     Got, OneIf, CommOf
<1> QED BY <1>5, <1>9, <1>12 DEF Coherent, RightMessages

\* It takes the copy of a step whose copies all other devices wait for.
LEMMA TakeRest ==
    ASSUME Base, Coherent, Take(Root), task[Root].at \notin {"REDUCE", "COMPRESS", "PUSH", "COPYH2D", "BROADCAST"}
    PROVE  Coherent'
<1>0. /\ RootTakes /\ \A e \in Others : SameNumbers(e) /\ e \in Devices /\ e # Root /\ Apart(e)
      /\ Root \in Devices /\ DOMAIN ready = Devices /\ DOMAIN sending = Devices
      /\ task[Root].at \in StagesOf(Root)
  BY RootIsDevice, TakeOfRoot DEF Others, Base, Typed, Coherent
<1>1. task[Root].at \in {"PULL", "DECOMPRESS"}
  BY <1>0, StagesOfRoot
<1>2. ready' = ready
  BY <1>1, CountsOf DEF Take, TableOf, RootTables
<1>3. sending' = sending
  BY <1>1 DEF Take, Grouped
<1>4. SameTaken /\ GivenBack' = GivenBack
  BY <1>0, <1>1 DEF RootTakes, SameTaken, Taken, TakenPush, TakenCopy, TakenBcast, Begun, BcastBegun, OneIf, At,
     Queued, CopyBegun, Copying, GivenBack, FirstPush
<1>5. RootSends'
  BY <1>0, <1>3 DEF RootSends, RootTakes
<1>6. RightMessages' /\ \A e \in Others : SameMessages(e)
  BY <1>0, <1>3, <1>5, MessagesStay DEF RootTakes
<1> QED BY <1>0, <1>2, <1>4, <1>6, NumbersKeep DEF SameCounts, RootTakes

\* It tells the others to copy when the pull of a step is done.
LEMMA TakeCopy ==
    ASSUME Base, Coherent, Take(Root), task[Root].at = "COPYH2D"
    PROVE  Coherent'
<1>0. /\ RootTakes /\ \A e \in Others : SameNumbers(e) /\ e \in Devices /\ e # Root /\ Apart(e)
      /\ Root \in Devices /\ DOMAIN ready = Devices /\ DOMAIN sending = Devices
  BY RootIsDevice, TakeOfRoot DEF Others, Base, Typed, Coherent
<1>1. /\ ready' = ready /\ sending' = [sending EXCEPT ![Root] = [kind |-> "DO_COPYH2D", to |-> Others]]
  BY CountsOf DEF Take, TableOf, Told, RootTables, Grouped
<1>2. sending'[Root] = [kind |-> "DO_COPYH2D", to |-> Others]
  BY <1>0, <1>1
<1>3. /\ Taken' = Taken /\ TakenPush' = TakenPush /\ TakenCopy' = TakenCopy + 1 /\ TakenBcast' = TakenBcast
      /\ ~GivenBack /\ TakenPush = TakenCopy + 1
      /\ Taken \in Int /\ TakenPush \in Int /\ TakenCopy \in Int /\ TakenBcast \in Int
  <2>1. Steps(Root) \in Int
    BY NumbersOfRoot
  <2> QED BY <1>0, <2>1 DEF RootTakes, Taken, TakenPush, TakenCopy, TakenBcast, Begun, BcastBegun, OneIf, At,
             Queued, CopyBegun, Copying, GivenBack, FirstPush
<1>4. RootSends'
  BY <1>0, <1>2 DEF RootSends, RootTakes, Copying
<1>5. RightMessages'
  BY <1>0, <1>4 DEF Coherent, RightMessages, RootTakes, RootReceives, RootSent, OtherSends
<1>6. ASSUME NEW e \in Others PROVE Apart(e)'
  <2>1. Copied(e) = TakenCopy
    <3>1. /\ Asked(e) \in {Steps(e) - 1, Steps(e)} /\ Begun(e) \in {Steps(e) - 1, Steps(e)} /\ Steps(e) \in Int
      BY <1>0, NumbersOf
    <3>2. ready[e]["COPYH2D"] \in 0..1
      BY CountsOf
    <3> QED BY <1>0, <1>3, <3>1, <3>2 DEF Apart, Copied
  <2>2. ~InTransit("DO_COPYH2D", Root, e)
    BY <1>0, <1>3, <2>1 DEF Apart
  <2>3. "DO_COPYH2D" \in Orders
    BY DEF Orders
  <2>4. /\ \A q \in Signals : (InTransit(q, e, Root)' <=> InTransit(q, e, Root)) /\ NotTwice(q, e, Root)'
        /\ \A o \in Orders : /\ InTransit(o, Root, e)' => o = "DO_COPYH2D" \/ InTransit(o, Root, e)
                             /\ NotTwice(o, Root, e)'
    BY <1>0, <1>2, <2>2, <2>3, RootTells
  <2>5. /\ InTransit("REDUCE_READY", e, Root)' <=> InTransit("REDUCE_READY", e, Root)
        /\ InTransit("PUSH_READY", e, Root)' <=> InTransit("PUSH_READY", e, Root)
        /\ InTransit("BCAST_READY", e, Root)' <=> InTransit("BCAST_READY", e, Root)
        /\ InTransit("DO_REDUCE", Root, e)' => InTransit("DO_REDUCE", Root, e)
        /\ InTransit("DO_BROADCAST", Root, e)' => InTransit("DO_BROADCAST", Root, e)
    BY <2>4 DEF Signals, Orders
  <2> QED BY <1>0, <1>3, <2>1, <2>4, <2>5 DEF Apart, SameNumbers
<1>7. ReduceArrived' = ReduceArrived /\ PushArrived' = PushArrived /\ BcastArrived' = BcastArrived
  <2>1. \A e \in Others : /\ InTransit("PUSH_READY", e, Root)' <=> InTransit("PUSH_READY", e, Root)
                          /\ InTransit("REDUCE_READY", e, Root)' <=> InTransit("REDUCE_READY", e, Root)
                          /\ InTransit("BCAST_READY", e, Root)' <=> InTransit("BCAST_READY", e, Root)
    BY <1>0 DEF RootTakes, InTransit, AtSender, InSocket
  <2> QED BY <1>0, <1>3, <2>1 DEF ReduceArrived, PushArrived, BcastArrived, SameNumbers
<1>8. ReduceCounted' /\ PushCounted' /\ BcastCounted'
  BY <1>0, <1>1, <1>3, <1>7 DEF Coherent, RootTakes, ReduceCounted, PushCounted, BcastCounted, Got
<1> QED BY <1>5, <1>6, <1>8 DEF Coherent, RightMessages

\* It starts the broadcast of a step that all devices have copied.
LEMMA TakeBroadcast ==
    ASSUME Base, Coherent, Take(Root), task[Root].at = "BROADCAST"
    PROVE  Coherent'
<1>0. /\ RootTakes /\ \A e \in Others : SameNumbers(e) /\ e \in Devices /\ e # Root /\ Apart(e)
      /\ Root \in Devices /\ DOMAIN ready = Devices /\ DOMAIN sending = Devices
  BY RootIsDevice, TakeOfRoot DEF Others, Base, Typed, Coherent
<1>1. /\ ready[Root]["BROADCAST"] = LocalSize - 1 /\ ready' = [ready EXCEPT ![Root]["BROADCAST"] = 0]
      /\ sending' = [sending EXCEPT ![Root] = [kind |-> "DO_BROADCAST", to |-> Others]]
  BY CountsOf DEF Take, TableOf, ReadyCount, ClearReadyCount, Told, RootTables, Grouped
<1>2. /\ ready'[Root]["BROADCAST"] = 0 /\ ready'[Root]["PUSH"] = ready[Root]["PUSH"]
      /\ ready'[Root]["REDUCE"] = ready[Root]["REDUCE"]
      /\ sending'[Root] = [kind |-> "DO_BROADCAST", to |-> Others]
  BY <1>0, <1>1, CountsOf DEF RootTables
<1>3. BcastArrived = Others /\ listen["nccl"] # "BROADCAST"
  BY <1>1, AllArrived
<1>4. \A e \in Others : BcastSignalled(e) = TakenBcast + 1 /\ ~InTransit("BCAST_READY", e, Root)
  BY <1>3 DEF BcastArrived
<1>5. /\ Taken' = Taken /\ TakenPush' = TakenPush /\ TakenCopy' = TakenCopy /\ TakenBcast' = TakenBcast + 1
      /\ ~GivenBack
      /\ Taken \in Int /\ TakenPush \in Int /\ TakenCopy \in Int /\ TakenBcast \in Int
  <2>1. Steps(Root) \in Int
    BY NumbersOfRoot
  <2> QED BY <1>0, <2>1 DEF RootTakes, Taken, TakenPush, TakenCopy, TakenBcast, Begun, BcastBegun, OneIf, At,
             Queued, CopyBegun, Copying, GivenBack, FirstPush
<1>6. RootSends'
  BY <1>0, <1>2 DEF RootSends, RootTakes
<1>7. RightMessages'
  BY <1>0, <1>6 DEF Coherent, RightMessages, RootTakes, RootReceives, RootSent, OtherSends
<1>8. ASSUME NEW e \in Others PROVE Apart(e)'
  <2>1. BcastBegun(e) = TakenBcast
    <3>1. /\ BcastBegun(e) \in {Steps(e) - 1, Steps(e)} /\ BcastSignalled(e) \in {Steps(e) - 1, Steps(e)}
          /\ Steps(e) \in Int
      BY <1>0, NumbersOf
    <3> QED BY <1>0, <1>4, <1>5, <3>1 DEF Apart
  <2>2. ~InTransit("DO_BROADCAST", Root, e)
    BY <1>0, <1>5, <2>1 DEF Apart
  <2>3. "DO_BROADCAST" \in Orders
    BY DEF Orders
  <2>4. /\ \A q \in Signals : (InTransit(q, e, Root)' <=> InTransit(q, e, Root)) /\ NotTwice(q, e, Root)'
        /\ \A o \in Orders : /\ InTransit(o, Root, e)' => o = "DO_BROADCAST" \/ InTransit(o, Root, e)
                             /\ NotTwice(o, Root, e)'
    BY <1>0, <1>2, <2>2, <2>3, RootTells
  <2>5. /\ InTransit("REDUCE_READY", e, Root)' <=> InTransit("REDUCE_READY", e, Root)
        /\ InTransit("PUSH_READY", e, Root)' <=> InTransit("PUSH_READY", e, Root)
        /\ InTransit("BCAST_READY", e, Root)' <=> InTransit("BCAST_READY", e, Root)
        /\ InTransit("DO_REDUCE", Root, e)' => InTransit("DO_REDUCE", Root, e)
        /\ InTransit("DO_COPYH2D", Root, e)' => InTransit("DO_COPYH2D", Root, e)
    BY <2>4 DEF Signals, Orders
  <2> QED BY <1>0, <1>4, <1>5, <2>1, <2>4, <2>5 DEF Apart, SameNumbers
<1>9. BcastArrived' = {}
  <2> SUFFICES ASSUME NEW e \in Others, BcastSignalled(e)' = TakenBcast' + 1 PROVE FALSE
    BY DEF BcastArrived
  <2>1. BcastSignalled(e)' = TakenBcast + 1
    BY <1>0, <1>4 DEF SameNumbers
  <2> QED BY <1>5, <2>1
<1>10. PushArrived' = PushArrived /\ ReduceArrived' = ReduceArrived
  <2>1. \A e \in Others : /\ InTransit("PUSH_READY", e, Root)' <=> InTransit("PUSH_READY", e, Root)
                          /\ InTransit("REDUCE_READY", e, Root)' <=> InTransit("REDUCE_READY", e, Root)
    BY <1>0 DEF RootTakes, InTransit, AtSender, InSocket
  <2> QED BY <1>0, <1>5, <2>1 DEF PushArrived, ReduceArrived, SameNumbers
<1>11. ReduceCounted' /\ PushCounted' /\ BcastCounted'
  BY <1>0, <1>2, <1>3, <1>5, <1>9, <1>10, FS_EmptySet DEF Coherent, RootTakes, ReduceCounted, PushCounted,
     BcastCounted, Got, OneIf, CommOf
<1> QED BY <1>7, <1>8, <1>11 DEF Coherent, RightMessages

\* What a thread does with its task.
LEMMA TakeCoherent ==
    ASSUME Base, Coherent, NEW d \in Devices, Take(d)
    PROVE  Coherent'
BY TakeCoherentOther, TakeReduce, TakePush, TakeRest, TakeCopy, TakeBroadcast DEF Others

\* The loop threads.
LEMMA ThreadsCoherent ==
    ASSUME Base, Coherent, NEW d \in Devices, Threads(d)
    PROVE  Coherent' /\ UNCHANGED aborted
<1>1. CASE Take(d)
  BY <1>1, TakeCoherent DEF Take
<1>2. CASE Issue(d) \/ DequeueGroup(d)
  BY <1>2, HandOnCoherent DEF Issue, DequeueGroup
<1>3. CASE Sync(d)
  BY <1>3, FinishCoherent DEF Sync, mainVars, commVars, Base, OrderlyAll, HowKnown, Grouped
<1>4. CASE Copy(d)
  BY <1>4, FinishCoherent DEF Copy, Holds, LoopOf, Copying, mainVars, commVars
<1>5. CASE Coordinate(d)
  BY <1>5, CoordinateCoherent
<1> QED BY <1>1, <1>2, <1>3, <1>4, <1>5 DEF Threads

-----------------------------------------------------------------------------
(* Messages.                                                               *)

\* Two processes that have left ncclCommInitRank are in one life.
LEMMA LivesMeet ==
    ASSUME Base, SameLife, NEW d \in Devices, NEW e \in Devices,
           stage[d] \notin {"bound", "rank"}, stage[e] \notin {"bound", "rank"}
    PROVE  life[d] = life[e]
<1>1. Begins(d) = Begins(e) /\ life[d] \in Int /\ life[e] \in Int
  BY BoundsAreNumbers DEF SameLife, Base, Typed
<1> QED BY <1>1 DEF Begins, OneIf

\* A step that leaves the tasks alone.
LEMMA SameTasks ==
    ASSUME UNCHANGED <<manner, stage, step, task>>
    PROVE  /\ \A e \in Devices : Steps(e)' = Steps(e)
           /\ \A e \in Devices : ready'[e]["COPYH2D"] = ready[e]["COPYH2D"] => SameNumbers(e)
           /\ SameTaken /\ GivenBack' = GivenBack
<1>1. \A e \in Devices : Steps(e)' = Steps(e)
  BY DEF Steps, Away, Limit
<1> QED BY <1>1, RootIsDevice, SameTask

\* A message goes into the socket.
LEMMA SendCoherent ==
    ASSUME Base, SameLife, Coherent, NEW d \in Devices, Send(d)
    PROVE  Coherent'
<1> DEFINE e == First(sending[d].to)
           kind == sending[d].kind
           m == Message(kind, d)
<1>0. /\ sending \in [Devices -> [kind : Kinds, to : SUBSET Devices]] /\ sending[d].to \subseteq Devices \ {d}
      /\ sending[d].to # {} /\ DOMAIN inbox = Devices
      /\ Root \in Devices /\ \A f \in Others : f \in Devices /\ f # Root
  BY RootIsDevice DEF Base, Typed, TypedOne, Others, Send
<1>1. /\ inbox' = [inbox EXCEPT ![e] = @ \cup {m}]
      /\ sending' = [sending EXCEPT ![d].to = @ \ {e}]
      /\ UNCHANGED <<manner, life, stage, step, task, listen, ready>>
  BY DEF Send, mainVars, frameVars
<1>2. e \in sending[d].to /\ e \in Devices /\ e # d
  BY <1>0, FirstIsThere
<1>3. m.kind = kind /\ m.from = d /\ m.life = life[d]
  BY DEF Message
<1>4. /\ inbox'[e] = inbox[e] \cup {m} /\ \A f \in Devices \ {e} : inbox'[f] = inbox[f]
      /\ sending'[d].kind = kind /\ sending'[d].to = sending[d].to \ {e}
      /\ \A f \in Devices \ {d} : sending'[f] = sending[f]
  <2> HIDE DEF e, m
  <2> QED BY <1>0, <1>1, <1>2 DEF kind
<1>5. AtSender(kind, d, e)
  BY <1>2 DEF AtSender
<1> HIDE DEF e, m, kind
<1>6. SameTaken /\ GivenBack' = GivenBack /\ \A f \in Others : SameNumbers(f)
  BY <1>0, <1>1, SameTasks
<1>7. CASE d = Root
  <2>1. e \in Others /\ kind \in {"ID"} \cup Orders /\ RootSends
    BY <1>0, <1>2, <1>7 DEF Others, Coherent, RootSends, Orders, kind
  <2>2. RootSends'
    BY <1>1, <1>4, <1>7, <2>1 DEF RootSends, Copying, kind
  <2>3. kind # "ID" => life[Root] = life[e]
    <3> SUFFICES ASSUME kind # "ID" PROVE life[Root] = life[e]
      OBVIOUS
    <3>1. stage[Root] = "up"
      BY <1>0, <1>7, <2>1, NoTaskUnlessUp DEF RootSends, Copying, kind, Base, NoTask
    <3>2. InTransit(kind, Root, e)
      BY <1>5, <1>7 DEF InTransit
    <3>3. ~Done(e)
      BY <2>1, <3>2, DoneOther DEF Orders
    <3>4. stage[e] \in {"up", "ranked"}
      BY <1>2, <3>3, DoneUnlessUp
    <3> QED BY <1>0, <1>2, <3>1, <3>4, LivesMeet
  <2>4. \A f \in Others : RootSent(f)'
    BY <1>0, <1>1, <1>2, <1>3, <1>4, <1>7, <2>1, <2>3 DEF Coherent, RootSent
  <2>5. RootReceives' /\ \A f \in Others : OtherSends(f)'
    BY <1>0, <1>1, <1>2, <1>4, <1>7, <2>1 DEF Coherent, RootReceives, OtherSends
  <2>6. ASSUME NEW f \in Others PROVE SameMessages(f)
    <3>1. \A k \in Signals :
             (InTransit(k, f, Root)' <=> InTransit(k, f, Root)) /\ (NotTwice(k, f, Root)' <=> NotTwice(k, f, Root))
      BY <1>0, <1>4, <1>7, <2>1 DEF Signals, Orders, InTransit, AtSender, InSocket, NotTwice
    <3>2. ASSUME NEW k \in Orders
          PROVE  (InTransit(k, Root, f)' => InTransit(k, Root, f)) /\ (NotTwice(k, Root, f) => NotTwice(k, Root, f)')
      <4>1. CASE f = e
        BY <1>3, <1>4, <1>5, <1>7, <4>1 DEF InTransit, AtSender, InSocket, NotTwice, kind
      <4>2. CASE f # e
        BY <1>0, <1>4, <1>7, <4>2 DEF InTransit, AtSender, InSocket, NotTwice, kind
      <4> QED BY <4>1, <4>2
    <3> QED BY <3>1, <3>2 DEF Coherent, Apart, SameMessages
  <2> QED BY <1>1, <1>6, <2>2, <2>4, <2>5, <2>6, NumbersKeep DEF SameCounts, RightMessages
<1>8. CASE d # Root
  <2>1. d \in Others /\ e = Root /\ kind \in Signals
    BY <1>0, <1>2, <1>8 DEF Others, Coherent, OtherSends, kind
  <2>2. RootSends'
    BY <1>0, <1>1, <1>4, <1>8 DEF Coherent, RootSends, Copying
  <2>3. RootReceives'
    BY <1>1, <1>3, <1>4, <2>1 DEF Coherent, RootReceives
  <2>4. \A f \in Others : RootSent(f)' /\ OtherSends(f)'
    BY <1>0, <1>1, <1>4, <2>1 DEF Coherent, RootSent, OtherSends, kind
  <2>5. ASSUME NEW f \in Others PROVE SameMessages(f)
    <3>1. \A k \in Orders :
             (InTransit(k, Root, f)' <=> InTransit(k, Root, f)) /\ (NotTwice(k, Root, f)' <=> NotTwice(k, Root, f))
      BY <1>0, <1>4, <1>8, <2>1 DEF InTransit, AtSender, InSocket, NotTwice
    <3>2. ASSUME NEW k \in Signals
          PROVE  (InTransit(k, f, Root)' <=> InTransit(k, f, Root)) /\ (NotTwice(k, f, Root) => NotTwice(k, f, Root)')
      <4>1. CASE f = d
        BY <1>3, <1>4, <1>5, <2>1, <4>1 DEF InTransit, AtSender, InSocket, NotTwice, kind
      <4>2. CASE f # d
        BY <1>0, <1>3, <1>4, <2>1, <4>2 DEF InTransit, AtSender, InSocket, NotTwice
      <4> QED BY <4>1, <4>2
    <3> QED BY <3>1, <3>2 DEF Coherent, Apart, SameMessages
  <2> QED BY <1>1, <1>6, <2>2, <2>3, <2>4, <2>5, NumbersKeep DEF SameCounts, RightMessages
<1> QED BY <1>7, <1>8

-----------------------------------------------------------------------------
(* Receiving.                                                              *)

\* A signal goes from the socket of the root to one of its listeners.
LEMMA SignalReceived ==
    ASSUME Base, Coherent, NEW d \in Others, NEW kind \in Signals,
           NEW m \in inbox[Root], m.kind = kind, m.from = d,
           inbox' = [inbox EXCEPT ![Root] = @ \ {m}],
           UNCHANGED <<manner, life, stage, step, task, sending, ready>>
    PROVE  /\ ~InTransit(kind, d, Root)' /\ InTransit(kind, d, Root)
           /\ \A e \in Others, k \in Signals :
                 e # d \/ k # kind => (InTransit(k, e, Root)' <=> InTransit(k, e, Root))
           /\ \A e \in Others : Apart(e)'
           /\ RightMessages'
<1>0. /\ Root \in Devices /\ (\A e \in Others : e \in Devices /\ e # Root) /\ Apart(d) /\ RootReceives
      /\ inbox \in [Devices -> SUBSET [kind : Kinds, from : Devices, life : 0..LastLife]]
  BY RootIsDevice DEF Base, Typed, Others, Coherent
<1>1. inbox'[Root] = inbox[Root] \ {m} /\ \A e \in Others : inbox'[e] = inbox[e]
  BY <1>0
<1>2. InSocket(kind, d, Root) /\ InTransit(kind, d, Root)
  BY DEF InSocket, InTransit
<1>3. ~InSocket(kind, d, Root)'
  <2> SUFFICES ASSUME NEW n \in inbox[Root], n # m, n.kind = kind, n.from = d PROVE FALSE
    BY <1>1 DEF InSocket
  <2>1. n.life = life[d] /\ m.life = life[d]
    BY <1>0 DEF RootReceives
  <2>2. /\ n \in [kind : Kinds, from : Devices, life : 0..LastLife]
        /\ m \in [kind : Kinds, from : Devices, life : 0..LastLife]
    BY <1>0
  <2> QED BY <2>1, <2>2
<1>4. ~AtSender(kind, d, Root)
  BY <1>0, <1>2 DEF Apart, NotTwice
<1>5. ~InTransit(kind, d, Root)'
  BY <1>3, <1>4 DEF InTransit, AtSender
<1>6. ASSUME NEW e \in Others, NEW k \in Signals, e # d \/ k # kind
      PROVE  (InTransit(k, e, Root)' <=> InTransit(k, e, Root)) /\ (NotTwice(k, e, Root)' <=> NotTwice(k, e, Root))
  BY <1>1, <1>6 DEF InTransit, AtSender, InSocket, NotTwice
<1>7. SameTaken /\ \A e \in Others : SameNumbers(e)
  BY <1>0, SameTasks
<1>8. ASSUME NEW e \in Others PROVE Apart(e)'
  <2>1. /\ \A k \in Signals : InTransit(k, e, Root)' => InTransit(k, e, Root)
        /\ \A k \in Signals : NotTwice(k, e, Root)'
    <3> SUFFICES ASSUME NEW k \in Signals
                 PROVE  (InTransit(k, e, Root)' => InTransit(k, e, Root)) /\ NotTwice(k, e, Root)'
      OBVIOUS
    <3>1. CASE e # d \/ k # kind
      BY <1>6, <3>1 DEF Coherent, Apart
    <3>2. CASE e = d /\ k = kind
      BY <1>3, <1>5, <3>2 DEF NotTwice
    <3> QED BY <3>1, <3>2
  <2>2. \A k \in Orders :
           (InTransit(k, Root, e)' <=> InTransit(k, Root, e)) /\ (NotTwice(k, Root, e)' <=> NotTwice(k, Root, e))
    BY <1>1 DEF InTransit, AtSender, InSocket, NotTwice
  <2> QED BY <1>7, <2>1, <2>2 DEF Coherent, Apart, Signals, Orders, SameTaken, SameNumbers
<1>9. RightMessages'
  <2>1. RootSends'
    BY RootSendsStays
  <2> QED BY <1>0, <1>1, <2>1 DEF Coherent, RightMessages, RootReceives, RootSent, OtherSends
<1> QED BY <1>2, <1>5, <1>6, <1>8, <1>9

\* The signals that have arrived, with a new one.
LEMMA OneMore ==
    ASSUME NEW S, NEW T, T \subseteq Others, NEW d \in Others, d \notin S, T = S \cup {d}
    PROVE  Cardinality(T) = Cardinality(S) + 1 /\ Cardinality(S) \in Nat
<1>1. IsFiniteSet(S) /\ Cardinality(S) \in Nat
  BY OthersAreCounted
<1> QED BY <1>1, FS_AddElement

\* A signal for a table, and the communicator of the table.
LEMMA SignalsOf ==
    /\ \A t \in RootTables : ReadyFor(t) \in Signals /\ CommOf(t) \in Comms /\ t \in TablesOf(CommOf(t))
    /\ \A c \in Comms : \A t \in TablesOf(c) : t \in RootTables /\ CommOf(t) = c
    /\ "recv" \notin RootTables /\ "ended" \notin RootTables
    /\ ReadyFor("REDUCE") = "REDUCE_READY" /\ ReadyFor("PUSH") = "PUSH_READY"
    /\ ReadyFor("BROADCAST") = "BCAST_READY"
BY DEF RootTables, ReadyFor, Signals, CommOf, Comms, TablesOf, Grouped

\* The devices whose signal for a table has arrived.
Arrived(t) ==
    CASE t = "REDUCE" -> ReduceArrived [] t = "PUSH" -> PushArrived [] t = "BROADCAST" -> BcastArrived

\* The count of a table, as one formula.
LEMMA CountedOf ==
    ASSUME Base, Coherent
    PROVE  \A t \in RootTables :
              (t = "PUSH" => ~GivenBack) => ready[Root][t] + Got(t) = Cardinality(Arrived(t))
BY DEF Coherent, ReduceCounted, PushCounted, BcastCounted, Arrived, RootTables

\* A signal that a listener takes is one more that has arrived.
LEMMA SignalTaken ==
    ASSUME Base, Coherent, NEW t \in RootTables, listen[CommOf(t)] = "recv",
           NEW m \in inbox[Root], m.kind = ReadyFor(t),
           inbox' = [inbox EXCEPT ![Root] = @ \ {m}],
           listen' = [listen EXCEPT ![CommOf(t)] = IF ShouldShutdown(Root) THEN "ended" ELSE t],
           UNCHANGED <<manner, life, stage, step, task, sending, ready>>
    PROVE  Coherent'
<1> DEFINE d == m.from
           kind == ReadyFor(t)
           c == CommOf(t)
<1>0. /\ Root \in Devices /\ (\A e \in Others : e \in Devices /\ e # Root) /\ DOMAIN listen = Comms
      /\ stage[Root] \in Stages /\ c \in Comms
  BY RootIsDevice, SignalsOf DEF Others, Base, Typed, Live, Shapes
<1>1. d \in Others /\ kind \in Signals
  BY SignalsOf DEF Coherent, RootReceives
<1>2. /\ ~InTransit(kind, d, Root)' /\ InTransit(kind, d, Root)
      /\ \A e \in Others, k \in Signals :
            e # d \/ k # kind => (InTransit(k, e, Root)' <=> InTransit(k, e, Root))
      /\ (\A e \in Others : Apart(e)') /\ RightMessages'
  BY <1>1, SignalReceived
<1>3. ~Done(Root)
  BY <1>1, <1>2, DoneRoot DEF Signals
<1>4. ~ShouldShutdown(Root)
  BY <1>0, <1>3, DoneUnlessUp DEF ShouldShutdown
<1>5. listen'[c] = t /\ listen[c] = "recv" /\ \A b \in Comms \ {c} : listen'[b] = listen[b]
  BY <1>0, <1>4
<1>6. SameTaken /\ GivenBack' = GivenBack /\ \A e \in Others : SameNumbers(e)
  BY <1>0, SameTasks
<1>7. Apart(d)
  BY <1>1 DEF Coherent
<1> HIDE DEF d
<1>8. Got(t) = 0 /\ Got(t)' = 1
  BY <1>5, SignalsOf DEF Got, OneIf
<1>9. \A u \in RootTables \ {t} : Got(u)' = Got(u)
  <2> SUFFICES ASSUME NEW u \in RootTables \ {t} PROVE Got(u)' = Got(u)
    OBVIOUS
  <2>1. CASE CommOf(u) = c
    BY <1>5, <2>1, SignalsOf DEF Got, OneIf
  <2>2. CASE CommOf(u) # c
    BY <1>5, <2>2, SignalsOf DEF Got, OneIf
  <2> QED BY <2>1, <2>2
<1>10. \A u \in RootTables \ {t} : Arrived(u)' = Arrived(u)
  <2>1. \A u \in RootTables \ {t}, e \in Others : InTransit(ReadyFor(u), e, Root)' <=> InTransit(ReadyFor(u), e, Root)
    <3>1. \A u \in RootTables \ {t} : ReadyFor(u) \in Signals /\ ReadyFor(u) # kind
      BY SignalsOf DEF RootTables
    <3> QED BY <1>2, <3>1
  <2>2. t # "REDUCE" => ReduceArrived' = ReduceArrived
    BY <1>6, <2>1, SignalsOf DEF RootTables, ReduceArrived, SameTaken, SameNumbers
  <2>3. t # "PUSH" => PushArrived' = PushArrived
    BY <1>6, <2>1, SignalsOf DEF RootTables, PushArrived, SameTaken, SameNumbers
  <2>4. t # "BROADCAST" => BcastArrived' = BcastArrived
    BY <1>6, <2>1, SignalsOf DEF RootTables, BcastArrived, SameTaken, SameNumbers
  <2> QED BY <2>2, <2>3, <2>4 DEF Arrived, RootTables
<1>11. Arrived(t)' = Arrived(t) \cup {d} /\ d \notin Arrived(t)
  <2>1. CASE t = "REDUCE"
    BY <1>1, <1>2, <1>6, <1>7, <2>1, SignalsOf DEF Arrived, ReduceArrived, SameTaken, SameNumbers, Apart
  <2>2. CASE t = "PUSH"
    BY <1>1, <1>2, <1>6, <1>7, <2>2, SignalsOf DEF Arrived, PushArrived, SameTaken, SameNumbers, Apart
  <2>3. CASE t = "BROADCAST"
    BY <1>1, <1>2, <1>6, <1>7, <2>3, SignalsOf DEF Arrived, BcastArrived, SameTaken, SameNumbers, Apart
  <2> QED BY <2>1, <2>2, <2>3 DEF RootTables
<1>12. Cardinality(Arrived(t)') = Cardinality(Arrived(t)) + 1 /\ Cardinality(Arrived(t)) \in Nat
  <2>1. Arrived(t)' \subseteq Others
    BY DEF Arrived, RootTables, ReduceArrived, PushArrived, BcastArrived
  <2> QED BY <1>1, <1>11, <2>1, OneMore
<1>13. t = "PUSH" => ~GivenBack
  <2>1. GivenBack => TakenPush = Steps(Root)
    <3>1. Steps(Root) \in Int
      BY NumbersOfRoot
    <3> QED BY <3>1 DEF GivenBack, TakenPush, Queued, At, OneIf, FirstPush
  <2> QED BY <1>1, <1>2, <2>1, NoPushLeft, SignalsOf
<1>14. ready'[Root][t] + 1 = Cardinality(Arrived(t)')
  <2>1. ready[Root][t] + 0 = Cardinality(Arrived(t)) /\ ready[Root][t] \in Int
    BY <1>8, <1>13, CountedOf, CountsOf
  <2> QED BY <1>12, <2>1
<1>15. ReduceCounted'
  BY <1>8, <1>9, <1>10, <1>14 DEF Coherent, ReduceCounted, Arrived, RootTables
<1>16. BcastCounted'
  BY <1>8, <1>9, <1>10, <1>14 DEF Coherent, BcastCounted, Arrived, RootTables
<1>17. PushCounted'
  <2>1. CASE t = "PUSH"
    BY <1>6, <1>8, <1>13, <1>14, <2>1 DEF PushCounted, Arrived
  <2>2. CASE t # "PUSH"
    <3>1. listen'["basic"] = listen["basic"] /\ Got("PUSH")' = Got("PUSH") /\ PushArrived' = PushArrived
      BY <1>5, <1>9, <1>10, <2>2, SignalsOf DEF CommOf, Comms, RootTables, Arrived
    <3> QED BY <1>6, <3>1 DEF Coherent, PushCounted
  <2> QED BY <2>1, <2>2
<1> QED BY <1>2, <1>15, <1>16, <1>17 DEF Coherent, RightMessages

\* A signal that a listener has is counted.
LEMMA SignalCounted ==
    ASSUME Base, Coherent, aborted = "no", NEW t \in RootTables, listen[CommOf(t)] = t, stage[Root] = "up",
           AddReadyCount(Root, t), listen' = [listen EXCEPT ![CommOf(t)] = "recv"],
           UNCHANGED <<manner, life, stage, step, task, sending, inbox>>
    PROVE  aborted' = "no" /\ Coherent'
<1> DEFINE c == CommOf(t)
<1>0. /\ Root \in Devices /\ (\A e \in Others : e \in Devices /\ e # Root) /\ DOMAIN listen = Comms
      /\ DOMAIN ready = Devices /\ HasTables(Root) /\ c \in Comms
  BY RootIsDevice, SignalsOf DEF Others, Base, Typed, HasTables
<1>1. listen'[c] = "recv" /\ \A b \in Comms \ {c} : listen'[b] = listen[b]
  BY <1>0
<1>2. Got(t) = 1 /\ Got(t)' = 0
  BY <1>1, SignalsOf DEF Got, OneIf
<1>3. \A u \in RootTables \ {t} : Got(u)' = Got(u)
  <2> SUFFICES ASSUME NEW u \in RootTables \ {t} PROVE Got(u)' = Got(u)
    OBVIOUS
  <2>1. CASE CommOf(u) = c
    BY <1>1, <2>1, SignalsOf DEF Got, OneIf
  <2>2. CASE CommOf(u) # c
    BY <1>1, <2>2, SignalsOf DEF Got, OneIf
  <2> QED BY <2>1, <2>2
<1>4. t = "PUSH" => ~GivenBack
  BY DEF Coherent, PushCounted, CommOf
<1>5. ready[Root][t] + 1 = Cardinality(Arrived(t)) /\ ready[Root][t] \in Int
  BY <1>2, <1>4, CountedOf, CountsOf
<1>6. ready[Root][t] + 1 <= LocalSize - 1
  <2>1. Arrived(t) \subseteq Others
    BY DEF Arrived, RootTables, ReduceArrived, PushArrived, BcastArrived
  <2> QED BY <1>5, <2>1, OthersAreCounted
<1>7. ready' = [ready EXCEPT ![Root][t] = @ + 1] /\ UNCHANGED aborted
  BY <1>0, <1>5, <1>6, CountsOf DEF AddReadyCount, ReadyCount
<1>8. /\ ready'[Root][t] = ready[Root][t] + 1
      /\ \A u \in RootTables \ {t} : ready'[Root][u] = ready[Root][u]
      /\ \A e \in Others : ready'[e] = ready[e]
  BY <1>0, <1>7, CountsOf
<1>9. SameTaken /\ GivenBack' = GivenBack /\ \A e \in Others : SameNumbers(e)
  BY <1>0, <1>8, SameTasks
<1>10. RootSends'
  BY <1>0, RootSendsStays
<1>11. RightMessages' /\ \A e \in Others : SameMessages(e)
  BY <1>0, <1>10, MessagesStay
<1>12. ReduceArrived' = ReduceArrived /\ PushArrived' = PushArrived /\ BcastArrived' = BcastArrived
  BY <1>9, <1>11 DEF ReduceArrived, PushArrived, BcastArrived, SameTaken, SameNumbers, SameMessages, Signals
<1>13. \A e \in Others : Apart(e)'
  BY <1>9, <1>11 DEF Coherent, Apart, SameTaken, SameNumbers, SameMessages, Signals, Orders
<1>14. ready'[Root][t] + 0 = Cardinality(Arrived(t)) /\ ready'[Root][t] \in Int
  BY <1>5, <1>8
<1>15. ReduceCounted'
  BY <1>2, <1>3, <1>8, <1>12, <1>14 DEF Coherent, ReduceCounted, Arrived, RootTables
<1>16. BcastCounted'
  BY <1>2, <1>3, <1>8, <1>12, <1>14 DEF Coherent, BcastCounted, Arrived, RootTables
<1>17. PushCounted'
  <2>1. CASE t = "PUSH"
    BY <1>2, <1>4, <1>9, <1>12, <1>14, <2>1 DEF PushCounted, Arrived
  <2>2. CASE t # "PUSH"
    <3>1. /\ listen'["basic"] = listen["basic"] /\ Got("PUSH")' = Got("PUSH")
          /\ ready'[Root]["PUSH"] = ready[Root]["PUSH"]
      BY <1>1, <1>3, <1>8, <2>2 DEF CommOf, Comms, RootTables
    <3> QED BY <1>9, <1>12, <3>1 DEF Coherent, PushCounted
  <2> QED BY <2>1, <2>2
<1> QED BY <1>7, <1>11, <1>13, <1>15, <1>16, <1>17 DEF Coherent, RightMessages

\* A listener of the root that has not ended runs while the root is up, or is
\* not yet.
LEMMA ListenCoherent ==
    ASSUME Base, Coherent, aborted = "no", NEW c \in Comms, Listen(c)
    PROVE  \/ aborted' = "no" /\ Coherent'
           \/ aborted' = "early" /\ UNCHANGED <<manner, life, stage, step, task>>
<1>0. /\ UNCHANGED <<manner, life, stage, step, task, sending>>
      /\ Root \in Devices /\ DOMAIN listen = Comms /\ stage[Root] \in Stages
  BY RootIsDevice DEF Listen, mainVars, frameVars, Base, Typed, Live, Shapes
<1>1. ASSUME listen[c] = "recv", NEW t \in TablesOf(c), NEW m \in inbox[Root], m.kind = ReadyFor(t),
             inbox' = [inbox EXCEPT ![Root] = @ \ {m}],
             listen' = [listen EXCEPT ![c] = IF ShouldShutdown(Root) THEN "ended" ELSE t],
             UNCHANGED <<ready, aborted>>
      PROVE  aborted' = "no" /\ Coherent'
  <2>1. t \in RootTables /\ CommOf(t) = c
    BY <1>1, SignalsOf
  <2> QED BY <1>0, <1>1, <2>1, SignalTaken
<1>2. ASSUME listen[c] = "recv", listen' = [listen EXCEPT ![c] = "ended"], UNCHANGED <<ready, inbox, aborted>>
      PROVE  aborted' = "no" /\ Coherent'
  <2>1. \A t \in RootTables : listen'[CommOf(t)] = t <=> listen[CommOf(t)] = t
    <3> SUFFICES ASSUME NEW t \in RootTables PROVE listen'[CommOf(t)] = t <=> listen[CommOf(t)] = t
      OBVIOUS
    <3>1. CommOf(t) \in Comms /\ t # "recv" /\ t # "ended"
      BY SignalsOf
    <3> QED BY <1>0, <1>2, <3>1
  <2>2. SameTaken /\ GivenBack' = GivenBack /\ \A e \in Others : SameNumbers(e)
    BY <1>0, <1>2, SameTasks DEF Others
  <2>3. RootSends'
    BY <1>0, RootSendsStays
  <2>4. RightMessages' /\ \A e \in Others : SameMessages(e)
    BY <1>0, <1>2, <2>3, MessagesStay
  <2> QED BY <1>2, <2>1, <2>2, <2>4, NumbersKeep DEF SameCounts
<1>3. ASSUME listen[c] \in TablesOf(c), AddReadyCount(Root, listen[c]),
             listen' = [listen EXCEPT ![c] = "recv"], UNCHANGED inbox
      PROVE  \/ aborted' = "no" /\ Coherent'
             \/ aborted' = "early" /\ UNCHANGED <<manner, life, stage, step, task>>
  <2>1. PICK t \in RootTables : listen[c] = t /\ CommOf(t) = c
    BY <1>3, SignalsOf
  <2>2. ~Done(Root)
    BY <2>1, DoneRoot DEF NoneGot
  <2>3. stage[Root] \in {"up", "ranked"}
    BY <1>0, <2>2, DoneUnlessUp
  <2>4. CASE stage[Root] = "ranked"
    BY <1>0, <1>3, <2>4 DEF AddReadyCount, HasTables, ShouldShutdown
  <2>5. CASE stage[Root] = "up"
    BY <1>0, <1>3, <2>1, <2>5, SignalCounted
  <2> QED BY <2>3, <2>4, <2>5
<1>4. \/ /\ listen[c] = "recv"
         /\ \E t \in TablesOf(c) : \E m \in inbox[Root] :
               /\ m.kind = ReadyFor(t) /\ inbox' = [inbox EXCEPT ![Root] = @ \ {m}]
               /\ listen' = [listen EXCEPT ![c] = IF ShouldShutdown(Root) THEN "ended" ELSE t]
         /\ UNCHANGED <<ready, aborted>>
      \/ /\ listen[c] = "recv" /\ listen' = [listen EXCEPT ![c] = "ended"]
         /\ UNCHANGED <<ready, inbox, aborted>>
      \/ /\ listen[c] \in TablesOf(c) /\ AddReadyCount(Root, listen[c])
         /\ listen' = [listen EXCEPT ![c] = "recv"] /\ UNCHANGED inbox
  BY DEF Listen, Received
<1> QED BY <1>1, <1>2, <1>3, <1>4

\* A command of the root is taken from the socket of another device.
LEMMA CommandReceived ==
    ASSUME Base, Coherent, NEW d \in Others, NEW kind \in Orders,
           NEW m \in inbox[d], m.kind = kind,
           inbox' = [inbox EXCEPT ![d] = @ \ {m}],
           RootSends', UNCHANGED <<life, sending>>
    PROVE  /\ InTransit(kind, Root, d) /\ ~InTransit(kind, Root, d)'
           /\ \A e \in Others, k \in Signals :
                 InTransit(k, e, Root)' <=> InTransit(k, e, Root)
           /\ RightMessages' /\ \A e \in Others : SameMessages(e)
<1>0. /\ Root \in Devices /\ (\A e \in Others : e \in Devices /\ e # Root) /\ Apart(d) /\ RootSent(d)
      /\ inbox \in [Devices -> SUBSET [kind : Kinds, from : Devices, life : 0..LastLife]]
  BY RootIsDevice DEF Base, Typed, Others, Coherent
<1>1. inbox'[d] = inbox[d] \ {m} /\ \A e \in Devices \ {d} : inbox'[e] = inbox[e]
  BY <1>0
<1>2. m.from = Root /\ m.life = life[d]
  BY <1>0 DEF RootSent, Orders
<1>3. InSocket(kind, Root, d) /\ InTransit(kind, Root, d)
  BY <1>2 DEF InSocket, InTransit
<1>4. ~InSocket(kind, Root, d)'
  <2> SUFFICES ASSUME NEW n \in inbox[d], n # m, n.kind = kind, n.from = Root PROVE FALSE
    BY <1>1 DEF InSocket
  <2>1. n.life = life[d]
    BY <1>0 DEF RootSent, Orders
  <2>2. /\ n \in [kind : Kinds, from : Devices, life : 0..LastLife]
        /\ m \in [kind : Kinds, from : Devices, life : 0..LastLife]
    BY <1>0
  <2> QED BY <1>2, <2>1, <2>2
<1>5. ~AtSender(kind, Root, d)
  BY <1>0, <1>3 DEF Apart, NotTwice
<1>6. ~InTransit(kind, Root, d)' /\ NotTwice(kind, Root, d)'
  BY <1>4, <1>5 DEF InTransit, AtSender, NotTwice
<1>7. \A e \in Others, k \in Signals :
         (InTransit(k, e, Root)' <=> InTransit(k, e, Root)) /\ (NotTwice(k, e, Root)' <=> NotTwice(k, e, Root))
  BY <1>0, <1>1 DEF InTransit, AtSender, InSocket, NotTwice
<1>8. ASSUME NEW e \in Others, NEW k \in Orders
      PROVE  (InTransit(k, Root, e)' => InTransit(k, Root, e)) /\ NotTwice(k, Root, e)'
  <2>1. NotTwice(k, Root, e)
    BY DEF Coherent, Apart
  <2> QED BY <1>0, <1>1, <2>1 DEF InTransit, AtSender, InSocket, NotTwice
<1>9. RightMessages'
  BY <1>0, <1>1 DEF Coherent, RightMessages, RootReceives, RootSent, OtherSends
<1>10. \A e \in Others : SameMessages(e)
  BY <1>7, <1>8 DEF Coherent, Apart, SameMessages
<1> QED BY <1>3, <1>6, <1>7, <1>9, <1>10

\* A copy that the root has announced is one that the device waits for.
LEMMA ReceiveCopyCoherent ==
    ASSUME Base, Coherent, aborted = "no", NEW d \in Devices, ReceiveCopy(d)
    PROVE  aborted' = "no" /\ Coherent'
<1>0. /\ UNCHANGED <<manner, life, stage, step, task, sending, listen>>
      /\ Root \in Devices /\ (\A e \in Others : e \in Devices /\ e # Root)
      /\ DOMAIN ready = Devices /\ stage[d] \in Stages /\ "LISTEN" \in loop[d]
  BY RootIsDevice DEF ReceiveCopy, mainVars, frameVars, Others, Base, Typed, Live, Shapes
<1>1. d \in Others /\ HasTables(d)
  <2>1. "LISTEN" \in Loops(d) /\ HasQueues(d)
    BY <1>0 DEF Base, Typed, TypedOne, Live, Runs, QueuesLive
  <2>2. d # Root
    BY <2>1 DEF Loops
  <2> QED BY <2>1, <2>2 DEF Others, HasTables, HasQueues
<1>2. PICK m \in inbox[d] : m.kind = "DO_COPYH2D" /\ inbox' = [inbox EXCEPT ![d] = @ \ {m}]
  BY DEF ReceiveCopy, Received
<1>3. RootSends'
  BY <1>0, RootSendsStays
<1>4. /\ InTransit("DO_COPYH2D", Root, d) /\ ~InTransit("DO_COPYH2D", Root, d)'
      /\ \A e \in Others, k \in Signals :
            InTransit(k, e, Root)' <=> InTransit(k, e, Root)
      /\ RightMessages' /\ \A e \in Others : SameMessages(e)
  BY <1>0, <1>1, <1>2, <1>3, CommandReceived DEF Orders
<1>5. Apart(d) /\ Copied(d) + 1 = TakenCopy
  BY <1>1, <1>4 DEF Coherent, Apart
<1>6. ~ShouldShutdown(d)
  <2>1. ~Done(d)
    BY <1>1, <1>4, DoneOther
  <2> QED BY <2>1, DoneUnlessUp DEF ShouldShutdown
<1>7. /\ TakenCopy \in Int /\ TakenPush \in Int /\ TakenCopy <= TakenPush
      /\ Asked(d) \in {Steps(d) - 1, Steps(d)} /\ Begun(d) \in {Steps(d) - 1, Steps(d)} /\ Steps(d) \in Int
      /\ ready[d]["COPYH2D"] \in 0..1
  BY <1>1, NumbersOf, NumbersOfRoot, CountsOf
<1>8. ready[d]["COPYH2D"] = 0
  BY <1>5, <1>7 DEF Apart, Copied
<1>9. ready' = [ready EXCEPT ![d]["COPYH2D"] = @ + 1] /\ UNCHANGED aborted
  <2>1. AddReadyCount(d, "COPYH2D") /\ ReadyCount(d) = 1
    BY <1>1, <1>6 DEF ReceiveCopy, ReadyCount, Others
  <2> QED BY <1>1, <1>8, <2>1 DEF AddReadyCount
<1>10. ready'[d]["COPYH2D"] = 1 /\ \A e \in Devices \ {d} : ready'[e] = ready[e]
  BY <1>0, <1>1, <1>8, <1>9, CountsOf
<1>11. /\ (\A e \in Devices : Steps(e)' = Steps(e)) /\ SameTaken /\ GivenBack' = GivenBack
       /\ \A e \in Others \ {d} : SameNumbers(e)
  BY <1>0, <1>10, SameTasks
<1>12. /\ Signalled(d)' = Signalled(d) /\ Launched(d)' = Launched(d) /\ Asked(d)' = Asked(d)
       /\ Begun(d)' = Begun(d) /\ BcastSignalled(d)' = BcastSignalled(d) /\ BcastBegun(d)' = BcastBegun(d)
  BY <1>0, <1>11 DEF Signalled, Launched, Asked, Begun, BcastSignalled, BcastBegun, At, Queued, CopyBegun, Copying
<1>13. Copied(d)' = TakenCopy
  <2>1. Copied(d)' = Begun(d) + 1 /\ Copied(d) = Begun(d) + 0
    BY <1>8, <1>10, <1>12 DEF Copied
  <2> QED BY <1>5, <1>7, <2>1
<1>14. ASSUME NEW e \in Others PROVE Apart(e)'
  <2>1. CASE e = d
    BY <1>4, <1>5, <1>7, <1>11, <1>12, <1>13, <2>1 DEF Apart, SameTaken, SameMessages, Signals, Orders
  <2>2. CASE e # d
    BY <1>4, <1>11, <2>2 DEF Coherent, Apart, SameTaken, SameNumbers, SameMessages, Signals, Orders
  <2> QED BY <2>1, <2>2
<1>15. ReduceArrived' = ReduceArrived /\ PushArrived' = PushArrived /\ BcastArrived' = BcastArrived
  BY <1>4, <1>11, <1>12 DEF ReduceArrived, PushArrived, BcastArrived, Signals, SameTaken, SameNumbers
<1>16. ReduceCounted' /\ PushCounted' /\ BcastCounted'
  <2>1. ready'[Root] = ready[Root]
    BY <1>0, <1>1, <1>10 DEF Others
  <2> QED BY <1>0, <1>11, <1>15, <2>1 DEF Coherent, ReduceCounted, PushCounted, BcastCounted, Got
<1> QED BY <1>4, <1>9, <1>14, <1>16 DEF Coherent, RightMessages

\* The device launches the group of a reduction when the root has launched its
\* own; its task is there.
LEMMA ReceiveNcclCoherent ==
    ASSUME Base, Coherent, aborted = "no", NEW d \in Devices, ReceiveNccl(d)
    PROVE  \/ aborted' = "no" /\ Coherent'
           \/ aborted' = "id" /\ Received(d, "ID") # {} /\ UNCHANGED <<manner, life, stage, step, task>>
<1>0. /\ UNCHANGED <<manner, life, stage, step, sending, ready, listen>>
      /\ Root \in Devices /\ (\A e \in Others : e \in Devices /\ e # Root)
      /\ stage[d] \in Stages /\ d \in Others
  BY RootIsDevice DEF ReceiveNccl, mainVars, frameVars, Others, Base, Typed, Live, Shapes
<1>1. CASE Received(d, "ID") # {} /\ aborted' = "id" /\ UNCHANGED task
  BY <1>0, <1>1
<1>2. ASSUME NEW s \in Grouped, NEW m \in inbox[d], m.kind = Told(s), inbox' = [inbox EXCEPT ![d] = @ \ {m}],
             IF ShouldShutdown(d)
             THEN UNCHANGED <<task, aborted>>
             ELSE IF task[d].at = s /\ task[d].how = "queued"
             THEN task' = [task EXCEPT ![d].how = "group"] /\ UNCHANGED aborted
             ELSE aborted' = "task" /\ UNCHANGED task
      PROVE  aborted' = "no" /\ Coherent'
  <2> DEFINE k == Told(s)
  <2>0. /\ (s = "REDUCE" /\ k = "DO_REDUCE") \/ (s = "BROADCAST" /\ k = "DO_BROADCAST")
        /\ k \in Orders
    BY DEF Grouped, Told, Orders
  <2>1. InTransit(k, Root, d) /\ Apart(d)
    BY <1>0, <1>2, <2>0 DEF Coherent, RootSent, InTransit, InSocket
  <2> HIDE DEF k
  <2>2. ~ShouldShutdown(d)
    <3>1. ~Done(d)
      BY <1>0, <2>0, <2>1, DoneOther
    <3> QED BY <3>1, DoneUnlessUp DEF ShouldShutdown
  <2>3. /\ s = "REDUCE" => Launched(d) + 1 = Taken
        /\ s = "BROADCAST" => BcastBegun(d) + 1 = TakenBcast
        /\ Taken <= Signalled(d) /\ TakenBcast <= BcastSignalled(d)
        /\ Steps(d) \in Int /\ Taken \in Int /\ TakenBcast \in Int
    BY <2>0, <2>1, NumbersOf, NumbersOfRoot DEF Apart
  <2>4. Queued(d, s) /\ (s = "REDUCE" => Launched(d) = Steps(d) - 1)
        /\ (s = "BROADCAST" => BcastBegun(d) = Steps(d) - 1)
    <3>1. CASE s = "REDUCE"
      BY <2>3, <3>1 DEF Launched, Signalled, OneIf, At, Queued
    <3>2. CASE s = "BROADCAST"
      <4>1. BcastBegun(d) < BcastSignalled(d)
        BY <1>0, <2>3, <3>2, NumbersOf
      <4> QED BY <2>3, <3>2, <4>1 DEF BcastBegun, BcastSignalled, OneIf, Queued
    <3> QED BY <2>0, <3>1, <3>2
  <2>5. task' = [task EXCEPT ![d].how = "group"] /\ UNCHANGED aborted
    BY <1>2, <2>2, <2>4 DEF Queued
  <2>6. /\ task'[d].at = s /\ task'[d].how = "group" /\ task[d].at = s /\ task[d].how = "queued"
        /\ \A e \in Devices \ {d} : task'[e] = task[e]
    BY <2>4, <2>5, HowTyped DEF Base, Queued
  <2>7. \A e \in Devices : Steps(e)' = Steps(e)
    BY <1>0 DEF Steps, Away, Limit
  <2>8. /\ Signalled(d)' = Signalled(d) /\ Asked(d)' = Asked(d) /\ Copied(d)' = Copied(d)
        /\ BcastSignalled(d)' = BcastSignalled(d)
        /\ s = "REDUCE" => Launched(d)' = Launched(d) + 1 /\ BcastBegun(d)' = BcastBegun(d)
        /\ s = "BROADCAST" => Launched(d)' = Launched(d) /\ BcastBegun(d)' = BcastBegun(d) + 1
    <3>1. CASE s = "REDUCE"
      BY <1>0, <2>3, <2>6, <2>7, <3>1 DEF Signalled, Launched, Asked, Copied, Begun, BcastSignalled, BcastBegun,
         OneIf, At, Queued, CopyBegun, Copying
    <3>2. CASE s = "BROADCAST"
      BY <1>0, <2>3, <2>6, <2>7, <3>2 DEF Signalled, Launched, Asked, Copied, Begun, BcastSignalled, BcastBegun,
         OneIf, At, Queued, CopyBegun, Copying
    <3> QED BY <2>0, <3>1, <3>2
  <2>9. SameTaken /\ GivenBack' = GivenBack /\ \A e \in Others \ {d} : SameNumbers(e)
    BY <1>0, <2>6, <2>7, SameTask
  <2>10. RootSends'
    BY <1>0, <2>6, RootSendsStays
  <2>11. /\ ~InTransit(k, Root, d)'
         /\ \A e \in Others, q \in Signals : InTransit(q, e, Root)' <=> InTransit(q, e, Root)
         /\ RightMessages' /\ \A e \in Others : SameMessages(e)
    BY <1>0, <1>2, <2>0, <2>10, CommandReceived DEF k
  <2>12. ASSUME NEW e \in Others PROVE Apart(e)'
    <3>1. CASE e = d
      <4>1. CASE s = "REDUCE"
        BY <2>0, <2>1, <2>3, <2>8, <2>9, <2>11, <3>1, <4>1 DEF Apart, SameTaken, SameMessages, Signals, Orders
      <4>2. CASE s = "BROADCAST"
        BY <2>0, <2>1, <2>3, <2>8, <2>9, <2>11, <3>1, <4>2 DEF Apart, SameTaken, SameMessages, Signals, Orders
      <4> QED BY <2>0, <4>1, <4>2
    <3>2. CASE e # d
      BY <2>9, <2>11, <3>2 DEF Coherent, Apart, SameTaken, SameNumbers, SameMessages, Signals, Orders
    <3> QED BY <3>1, <3>2
  <2>13. ReduceArrived' = ReduceArrived /\ PushArrived' = PushArrived /\ BcastArrived' = BcastArrived
    BY <2>8, <2>9, <2>11 DEF ReduceArrived, PushArrived, BcastArrived, SameTaken, SameNumbers, Signals
  <2>14. ReduceCounted' /\ PushCounted' /\ BcastCounted'
    BY <1>0, <2>9, <2>13 DEF Coherent, ReduceCounted, PushCounted, BcastCounted, Got
  <2> QED BY <2>5, <2>11, <2>12, <2>14 DEF Coherent, RightMessages
<1>3. \/ Received(d, "ID") # {} /\ aborted' = "id" /\ UNCHANGED task
      \/ \E s \in Grouped : \E m \in inbox[d] :
            /\ m.kind = Told(s) /\ inbox' = [inbox EXCEPT ![d] = @ \ {m}]
            /\ IF ShouldShutdown(d)
               THEN UNCHANGED <<task, aborted>>
               ELSE IF task[d].at = s /\ task[d].how = "queued"
               THEN task' = [task EXCEPT ![d].how = "group"] /\ UNCHANGED aborted
               ELSE aborted' = "task" /\ UNCHANGED task
  BY DEF ReceiveNccl, Received, Commands
<1> QED BY <1>1, <1>2, <1>3

\* A step that touches nothing of this.
LEMMA CoherentUntouched ==
    ASSUME Coherent, UNCHANGED <<manner, life, stage, step, task, inbox, sending, ready, listen>>
    PROVE  Coherent'
<1> USE DEF Coherent, Steps, Away, Limit, At, Queued, OneIf
<1>1. /\ \A d : Signalled(d)' = Signalled(d) /\ Launched(d)' = Launched(d) /\ Asked(d)' = Asked(d)
      /\ \A d : Copied(d)' = Copied(d) /\ BcastSignalled(d)' = BcastSignalled(d) /\ BcastBegun(d)' = BcastBegun(d)
      /\ SameTaken /\ (GivenBack' <=> GivenBack)
  BY DEF Signalled, Launched, Asked, Copied, Begun, BcastSignalled, BcastBegun, SameTaken, Taken, TakenPush, TakenCopy,
     TakenBcast, CopyBegun, Copying, GivenBack
<1>2. \A d, e, k : (InTransit(k, d, e)' <=> InTransit(k, d, e)) /\ (NotTwice(k, d, e)' <=> NotTwice(k, d, e))
  BY DEF InTransit, AtSender, InSocket, NotTwice
<1>3. \A d \in Others : Apart(d)'
  BY <1>1, <1>2 DEF Apart, SameTaken
<1>4. ReduceArrived' = ReduceArrived /\ PushArrived' = PushArrived /\ BcastArrived' = BcastArrived
  BY <1>1, <1>2 DEF ReduceArrived, PushArrived, BcastArrived, SameTaken
<1>5. ReduceCounted' /\ PushCounted' /\ BcastCounted'
  BY <1>1, <1>4 DEF ReduceCounted, PushCounted, BcastCounted, Got, CommOf
<1>6. RootSends' /\ RootReceives' /\ \A d \in Others : RootSent(d)' /\ OtherSends(d)'
  BY DEF RootSends, RootReceives, RootSent, OtherSends, Copying
<1> QED BY <1>3, <1>5, <1>6

-----------------------------------------------------------------------------
(* What follows.                                                           *)

\* Every step of a framework that waits, but for the two that end a process.
LEMMA StepCoherent ==
    ASSUME Base, Handles, Waits, SameLife, Coherent, Next
    PROVE  \/ aborted' = "no" /\ Coherent'
           \/ aborted' = "early" /\ UNCHANGED <<manner, life, stage, step, task>>
           \/ /\ aborted' = "id" /\ UNCHANGED <<manner, life, stage, step, task>>
              /\ \E d \in Devices \ {Root} : Received(d, "ID") # {} /\ "NCCL" \in loop[d]
<1>0. aborted = "no"
  BY DEF Next
<1>1. CASE InitRank
  BY <1>0, <1>1, InitRankCoherent DEF InitRank
<1>2. ASSUME NEW c \in Comms, Listen(c)
      PROVE  \/ aborted' = "no" /\ Coherent'
             \/ aborted' = "early" /\ UNCHANGED <<manner, life, stage, step, task>>
  BY <1>0, <1>2, ListenCoherent
<1>3. ASSUME NEW d \in Devices, Framework(d) PROVE aborted' = "no" /\ Coherent'
  BY <1>0, <1>3, FrameworkCoherent DEF Framework, Enqueue, Release, Suspend
<1>4. ASSUME NEW d \in Devices, Main(d) PROVE aborted' = "no" /\ Coherent'
  BY <1>0, <1>4, MainCoherent DEF Main, Bind, HaveId, Start, Join, Finalize, Close
<1>5. ASSUME NEW d \in Devices, Threads(d) PROVE aborted' = "no" /\ Coherent'
  BY <1>0, <1>5, ThreadsCoherent
<1>6. ASSUME NEW d \in Devices, Send(d) PROVE aborted' = "no" /\ Coherent'
  BY <1>0, <1>6, SendCoherent DEF Send
<1>7. ASSUME NEW d \in Devices, Complete(d) PROVE aborted' = "no" /\ Coherent'
  BY <1>0, <1>7, CompleteCoherent
<1>8. ASSUME NEW d \in Devices, Receivers(d)
      PROVE  \/ aborted' = "no" /\ Coherent'
             \/ /\ aborted' = "id" /\ UNCHANGED <<manner, life, stage, step, task>>
                /\ d # Root /\ Received(d, "ID") # {} /\ "NCCL" \in loop[d]
  <2>1. CASE ReceiveCopy(d)
    BY <1>0, <2>1, ReceiveCopyCoherent
  <2>2. CASE ReceiveNccl(d)
    BY <1>0, <2>2, ReceiveNcclCoherent DEF ReceiveNccl
  <2> QED BY <1>8, <2>1, <2>2 DEF Receivers
<1>9. ASSUME NEW d \in Devices, Ending(d) PROVE aborted' = "no" /\ Coherent'
  <2>1. UNCHANGED <<manner, mainVars, frameVars, task, sending, commVars, aborted>>
    BY <1>9, EndingLeaves DEF Base
  <2> QED BY <1>0, <2>1, CoherentUntouched DEF mainVars, frameVars, commVars
<1> QED BY <1>1, <1>2, <1>3, <1>4, <1>5, <1>6, <1>7, <1>8, <1>9 DEF Next

\* The root pushes what all devices have copied to the host, and no other device
\* goes on with the step before the root copies the result.
LEMMA CoherentInStep ==
    ASSUME Base, SameLife, Coherent
    PROVE  AllInStep
<1> SUFFICES ASSUME PushBegun, NEW d \in Devices
             PROVE  life[d] = life[Root] /\ step[d] = step[Root] /\ AwaitsResult(d)
  BY DEF AllInStep
<1>0. Root \in Devices /\ stage[d] \in Stages /\ step[d] \in Int /\ step[Root] \in Int
  BY RootIsDevice, BoundsAreNumbers DEF Base, Live, Shapes, Typed
<1>1. CASE d = Root
  BY <1>0, <1>1 DEF AwaitsResult
<1>2. CASE d # Root
  <2>0. d \in Others
    BY <1>2 DEF Others
  <2>1. stage[Root] = "up" /\ task[Root].how # "none" /\ ~CopyBegun(Root)
    BY <1>0, NoTaskUnlessUp DEF Base, PushBegun, NoTask, CopyBegun, Copying, At
  <2>2. Steps(Root) = step[Root] /\ TakenPush = step[Root] /\ TakenCopy = step[Root] - 1
    <3>1. Steps(Root) = step[Root]
      BY <2>1 DEF Steps, Away
    <3>2. ~At(Root, {"REDUCE"}) /\ ~Queued(Root, FirstPush)
      BY DEF PushBegun, At, Queued, FirstPush
    <3>3. TakenPush = Steps(Root) - 0 /\ TakenCopy = Steps(Root) - 1
      BY <2>1, <3>2 DEF TakenPush, TakenCopy, Begun, OneIf
    <3> QED BY <1>0, <3>1, <3>3
  <2>3. ~Done(d)
    <3>1. TakenCopy # Limit
      BY <1>0, <2>2, NumbersOfRoot
    <3> QED BY <2>0, <3>1, DoneOther
  <2>4. stage[d] \in {"up", "ranked"}
    BY <1>0, <2>3, DoneUnlessUp
  <2>5. Steps(d) = step[d]
    BY <2>4 DEF Steps, Away
  <2>6. step[d] = step[Root] /\ Asked(d) = Steps(d) /\ Begun(d) = Steps(d) - 1
    <3>1. TakenPush <= Asked(d) /\ Copied(d) <= TakenCopy /\ ready[d]["COPYH2D"] \in 0..1
      BY <2>0, CountsOf DEF Coherent, Apart
    <3>2. /\ Asked(d) \in {Steps(d) - 1, Steps(d)} /\ Begun(d) \in {Steps(d) - 1, Steps(d)}
          /\ Copied(d) = Begun(d) + ready[d]["COPYH2D"]
      BY NumbersOf DEF Copied
    <3> QED BY <1>0, <2>2, <2>5, <3>1, <3>2
  <2>7. AwaitsResult(d)
    <3>1. task[d].how # "none" /\ ~CopyBegun(d)
      BY <1>0, <2>5, <2>6 DEF Begun, OneIf
    <3>2. ~At(d, {"COORDINATE_REDUCE", "REDUCE", "COORDINATE_PUSH"})
      BY <1>0, <2>5, <2>6 DEF Asked, OneIf
    <3>3. task[d].at \in StagesOf(d)
      BY <3>1 DEF Base, Live, Runs, StageKnown
    <3> QED BY <1>2, <2>0, <3>1, <3>2, <3>3, StagesOfOthers DEF At, CopyBegun, AwaitsResult
  <2>8. life[d] = life[Root]
    BY <1>0, <2>1, <2>4, LivesMeet
  <2> QED BY <2>6, <2>7, <2>8
<1> QED BY <1>1, <1>2

-----------------------------------------------------------------------------
(* The ids.                                                                *)

\* The ids stay where they are, or are taken away.
LEMMA IdsStay ==
    ASSUME IdsMeet, life'[Root] = life[Root], stage' = stage,
           \A d \in Others : inbox'[d] \subseteq inbox[d],
           \/ sending'[Root] = sending[Root]
           \/ sending[Root].to = {} /\ sending'[Root].kind # "ID"
    PROVE  IdsMeet'
BY DEF IdsMeet, InTransit, AtSender, InSocket, NotTwice

\* The ids, when a process begins or ends a life.
LEMMA MainIds ==
    ASSUME Base, SameLife, Coherent, IdsMeet, manner = "together", NEW d \in Devices, Main(d)
    PROVE  IdsMeet'
<1>0. /\ stage \in [Devices -> Stages] /\ life \in [Devices -> Int]
      /\ inbox \in [Devices -> SUBSET [kind : Kinds, from : Devices, life : 0..LastLife]]
      /\ DOMAIN sending = Devices /\ Root \in Devices /\ \A e \in Others : e \in Devices /\ e # Root
  BY RootIsDevice, BoundsAreNumbers DEF Base, Live, Shapes, Typed, Others
<1>1. CASE Bind(d) /\ d = Root
  <2>1. /\ stage[Root] = "down" /\ stage' = [stage EXCEPT ![Root] = "bound"]
        /\ sending' = [sending EXCEPT ![Root] = [kind |-> "ID", to |-> Others]]
        /\ UNCHANGED inbox
        /\ \A e \in Devices : life[e] > life[Root] \/ (life[e] = life[Root] /\ stage[e] = "down")
    BY <1>1 DEF Bind, MayResume
  <2>2. \A e \in Others : stage[e] # "rank" /\ ~InSocket("ID", Root, e)
    BY <2>1 DEF IdsMeet, InTransit
  <2>3. \A e \in Others : \A m \in inbox[e] : m.kind # "ID"
    BY <2>2 DEF InSocket, Coherent, RootSent
  <2>4. \A e \in Others : stage[e] \in {"down", "bound"}
    <3> SUFFICES ASSUME NEW e \in Others, life[e] > life[Root] PROVE stage[e] = "bound"
      BY <1>0, <2>1
    <3>1. Begins(e) = Begins(Root) /\ life[e] \in Int /\ life[Root] \in Int
      BY <1>0 DEF SameLife
    <3>2. stage[e] \in {"bound", "rank"}
      BY <2>1, <3>1 DEF Begins, OneIf
    <3> QED BY <2>2, <3>2
  <2>5. stage'[Root] = "bound" /\ \A e \in Others : stage'[e] = stage[e]
    BY <1>0, <2>1
  <2> QED BY <2>1, <2>3, <2>4, <2>5 DEF IdsMeet, InTransit, NotTwice, InSocket
<1>2. CASE Bind(d) /\ d # Root
  <2>1. /\ stage[d] = "down" /\ stage' = [stage EXCEPT ![d] = "bound"] /\ UNCHANGED <<sending, inbox>>
        /\ life' = [life EXCEPT ![d] = @ + 1]
    BY <1>2 DEF Bind
  <2>2. /\ stage'[d] = "bound" /\ \A e \in Devices \ {d} : stage'[e] = stage[e]
        /\ life'[Root] = life[Root]
    BY <1>0, <1>2, <2>1
  <2> QED BY <1>0, <1>2, <2>1, <2>2 DEF IdsMeet, InTransit, AtSender, NotTwice, InSocket
<1>3. CASE HaveId(d) /\ d = Root
  <2>1. /\ stage[d] = "bound" /\ stage' = [stage EXCEPT ![d] = "rank"] /\ UNCHANGED <<life, sending, inbox>>
    BY <1>3 DEF HaveId
  <2>2. /\ stage'[Root] = "rank" /\ \A e \in Others : stage'[e] = stage[e]
    BY <1>0, <1>3, <2>1
  <2> QED BY <1>0, <2>1, <2>2 DEF IdsMeet, InTransit, AtSender, NotTwice, InSocket
<1>4. CASE HaveId(d) /\ d # Root
  <2>1. /\ stage[d] = "bound" /\ stage' = [stage EXCEPT ![d] = "rank"] /\ UNCHANGED <<life, sending>>
        /\ d \in Others
    BY <1>4 DEF HaveId, Others
  <2>2. PICK m \in inbox[d] : m.kind = "ID" /\ inbox' = [inbox EXCEPT ![d] = @ \ {m}]
    BY <1>4 DEF HaveId, Received
  <2>3. m.from = Root /\ InSocket("ID", Root, d)
    BY <2>1, <2>2 DEF Coherent, RootSent, InSocket
  <2>4. stage[Root] \in {"bound", "rank"} /\ ~AtSender("ID", Root, d)
    BY <2>1, <2>3 DEF IdsMeet, InTransit, NotTwice
  <2>5. /\ inbox'[d] = inbox[d] \ {m} /\ \A e \in Devices \ {d} : inbox'[e] = inbox[e]
        /\ stage'[d] = "rank" /\ \A e \in Devices \ {d} : stage'[e] = stage[e]
    BY <1>0, <2>1, <2>2
  <2>6. ~InSocket("ID", Root, d)'
    <3> SUFFICES ASSUME NEW n \in inbox[d], n # m, n.kind = "ID", n.from = Root PROVE FALSE
      BY <2>5 DEF InSocket
    <3>1. n.life = life[Root] /\ m.life = life[Root]
      BY <2>1, <2>2 DEF IdsMeet
    <3>2. /\ n \in [kind : Kinds, from : Devices, life : 0..LastLife]
          /\ m \in [kind : Kinds, from : Devices, life : 0..LastLife]
      BY <1>0
    <3> QED BY <2>2, <2>3, <3>1, <3>2
  <2>7. ~InTransit("ID", Root, d)' /\ NotTwice("ID", Root, d)'
    BY <2>1, <2>4, <2>6 DEF InTransit, AtSender, NotTwice
  <2>8. \A e \in Others \ {d} :
           (InTransit("ID", Root, e)' <=> InTransit("ID", Root, e)) /\ (NotTwice("ID", Root, e)' <=> NotTwice("ID", Root, e))
    BY <1>0, <2>1, <2>5 DEF InTransit, AtSender, InSocket, NotTwice
  <2>9. stage'[Root] = stage[Root]
    BY <1>0, <1>4, <2>5
  <2>10. ASSUME NEW e \in Others
         PROVE  /\ stage'[e] = "rank" => stage'[Root] \in {"bound", "rank"}
                /\ InTransit("ID", Root, e)' => stage'[e] \in {"down", "bound"} /\ stage'[Root] \in {"bound", "rank"}
                /\ NotTwice("ID", Root, e)'
                /\ \A n \in inbox'[e] : n.kind = "ID" => n.life = life'[Root]
    <3>1. CASE e = d
      BY <2>1, <2>4, <2>5, <2>7, <2>9, <3>1 DEF IdsMeet
    <3>2. CASE e # d
      BY <1>0, <2>1, <2>5, <2>8, <2>9, <3>2 DEF IdsMeet
    <3> QED BY <3>1, <3>2
  <2> QED BY <2>10 DEF IdsMeet
<1>5. CASE Start(d) \/ Join(d) \/ Finalize(d) \/ Close(d)
  <2>1. /\ stage[d] \notin {"down", "bound", "rank"} /\ UNCHANGED <<life, sending>>
        /\ \E s \in Stages \ {"bound", "rank"} : stage' = [stage EXCEPT ![d] = s]
        /\ inbox' = inbox \/ inbox' = [inbox EXCEPT ![d] = {}]
    BY <1>5 DEF Start, Join, Finalize, Close, commVars, Stages
  <2>2. /\ stage'[d] \notin {"bound", "rank"} /\ \A e \in Devices \ {d} : stage'[e] = stage[e]
        /\ \A e \in Devices : inbox'[e] \subseteq inbox[e]
    BY <1>0, <2>1
  <2>3. \A e \in Others : /\ InTransit("ID", Root, e)' => InTransit("ID", Root, e)
                          /\ NotTwice("ID", Root, e) => NotTwice("ID", Root, e)'
    BY <1>0, <2>1, <2>2 DEF InTransit, AtSender, InSocket, NotTwice
  <2>4. \A e \in Others : \A n \in inbox'[e] : n.kind = "ID" => n.life = life'[Root]
    BY <1>0, <2>1, <2>2 DEF IdsMeet
  <2> QED BY <1>0, <2>1, <2>2, <2>3, <2>4 DEF IdsMeet
<1> QED BY <1>1, <1>2, <1>3, <1>4, <1>5 DEF Main

\* A message that is sent is on its way as before.
LEMMA SendIds ==
    ASSUME Base, Coherent, IdsMeet, NEW d \in Devices, Send(d)
    PROVE  IdsMeet'
<1> DEFINE e == First(sending[d].to)
           kind == sending[d].kind
           m == Message(kind, d)
<1>0. /\ sending \in [Devices -> [kind : Kinds, to : SUBSET Devices]] /\ sending[d].to \subseteq Devices \ {d}
      /\ sending[d].to # {} /\ DOMAIN inbox = Devices
      /\ Root \in Devices /\ \A f \in Others : f \in Devices /\ f # Root
  BY RootIsDevice DEF Base, Typed, TypedOne, Others, Send
<1>1. /\ inbox' = [inbox EXCEPT ![e] = @ \cup {m}]
      /\ sending' = [sending EXCEPT ![d].to = @ \ {e}]
      /\ UNCHANGED <<life, stage>>
  BY DEF Send, mainVars
<1>2. e \in sending[d].to /\ e \in Devices /\ e # d
  BY <1>0, FirstIsThere
<1>3. m.kind = kind /\ m.from = d /\ m.life = life[d]
  BY DEF Message
<1>4. /\ inbox'[e] = inbox[e] \cup {m} /\ \A f \in Devices \ {e} : inbox'[f] = inbox[f]
      /\ sending'[d].kind = kind /\ sending'[d].to = sending[d].to \ {e}
      /\ \A f \in Devices \ {d} : sending'[f] = sending[f]
  <2> HIDE DEF e, m
  <2> QED BY <1>0, <1>1, <1>2 DEF kind
<1> HIDE DEF e, m
<1>5. CASE d = Root
  <2>1. e \in Others
    BY <1>0, <1>2, <1>5 DEF Others
  <2>2. ASSUME NEW f \in Others
        PROVE  /\ InTransit("ID", Root, f)' => InTransit("ID", Root, f)
               /\ NotTwice("ID", Root, f) => NotTwice("ID", Root, f)'
               /\ \A n \in inbox'[f] : n.kind = "ID" => n \in inbox[f] \/ n.life = life[Root]
    <3>1. CASE f = e
      BY <1>2, <1>3, <1>4, <1>5, <3>1 DEF InTransit, AtSender, InSocket, NotTwice
    <3>2. CASE f # e
      BY <1>0, <1>4, <1>5, <3>2 DEF InTransit, AtSender, InSocket, NotTwice
    <3> QED BY <3>1, <3>2
  <2> QED BY <1>1, <2>2 DEF IdsMeet
<1>6. CASE d # Root
  <2>1. e = Root
    BY <1>2, <1>6 DEF Coherent, OtherSends, Others
  <2>2. sending'[Root] = sending[Root] /\ \A f \in Others : inbox'[f] = inbox[f]
    BY <1>0, <1>4, <1>6, <2>1
  <2> QED BY <1>1, <2>2, IdsStay
<1> QED BY <1>5, <1>6

\* The ids meet their processes, until a process ends.
LEMMA NextIds ==
    ASSUME Base, SameLife, Coherent, IdsMeet, manner = "together", Next
    PROVE  IdsMeet'
<1>0. /\ stage \in [Devices -> Stages] /\ DOMAIN inbox = Devices /\ DOMAIN sending = Devices
      /\ Root \in Devices /\ \A e \in Others : e \in Devices /\ e # Root
  BY RootIsDevice DEF Base, Live, Shapes, Typed, Others
<1>1. CASE InitRank
  BY <1>0, <1>1 DEF InitRank, commVars, IdsMeet, InTransit, AtSender, InSocket, NotTwice
<1>2. ASSUME NEW c \in Comms, Listen(c) PROVE IdsMeet'
  <2>1. \A d \in Others : inbox'[d] = inbox[d]
    BY <1>0, <1>2 DEF Listen
  <2> QED BY <1>2, <2>1, IdsStay DEF Listen, mainVars
<1>3. ASSUME NEW d \in Devices, Framework(d) PROVE IdsMeet'
  <2>1. CASE Suspend(d)
    <3>1. /\ stage[d] = "up" /\ stage' = [stage EXCEPT ![d] = "joining"] /\ UNCHANGED <<life, inbox, sending>>
      BY <2>1 DEF Suspend, commVars
    <3>2. stage'[d] = "joining" /\ \A e \in Devices \ {d} : stage'[e] = stage[e]
      BY <1>0, <3>1
    <3> QED BY <1>0, <3>1, <3>2 DEF IdsMeet, InTransit, AtSender, InSocket, NotTwice
  <2> QED BY <1>3, <2>1, IdsStay DEF Framework, Enqueue, Release, mainVars, commVars
<1>4. ASSUME NEW d \in Devices, Threads(d) PROVE IdsMeet'
  <2>1. UNCHANGED <<stage, life, inbox>>
    BY <1>4 DEF Threads, Take, Issue, DequeueGroup, Sync, Copy, Coordinate, mainVars, commVars
  <2>2. CASE Take(d)
    <3>1. CASE d = Root
      <4>1. sending[Root].to = {}
        BY <2>2, <3>1, TakeOfRoot DEF RootTakes
      <4>2. sending' = sending \/ \E k \in Orders : sending' = [sending EXCEPT ![Root] = [kind |-> k, to |-> Others]]
        BY <2>2, <3>1 DEF Take, Told, Orders, Grouped
      <4>3. "ID" \notin Orders
        BY DEF Orders
      <4>4. sending'[Root] = sending[Root] \/ sending'[Root].kind # "ID"
        BY <1>0, <4>2, <4>3
      <4> QED BY <2>1, <4>1, <4>4, IdsStay
    <3>2. CASE d # Root
      BY <2>1, <2>2, <3>2, IdsStay DEF Take
    <3> QED BY <3>1, <3>2
  <2>3. CASE Coordinate(d)
    <3>1. task[d].at \in Coordinated /\ task[d].at \in StagesOf(d)
      <4>1. task[d].at \in Coordinated /\ task[d].how = "held"
        BY <2>3 DEF Coordinate, Holds, LoopOf, Grouped, Coordinated
      <4> QED BY <4>1 DEF Base, Live, Runs, StageKnown, Coordinated
    <3>2. d # Root
      BY <3>1, StagesOfRoot DEF Coordinated
    <3>3. sending'[Root] = sending[Root]
      BY <1>0, <2>3, <3>2 DEF Coordinate
    <3> QED BY <2>1, <3>3, IdsStay
  <2> QED BY <1>4, <2>1, <2>2, <2>3, IdsStay DEF Threads, Issue, DequeueGroup, Sync, Copy
<1>5. ASSUME NEW d \in Devices, Complete(d) PROVE IdsMeet'
  BY <1>5, IdsStay DEF Complete, mainVars
<1>6. ASSUME NEW d \in Devices, Receivers(d) PROVE IdsMeet'
  <2>1. /\ UNCHANGED <<stage, life, sending>>
        /\ inbox' = inbox \/ \E m \in inbox[d] : inbox' = [inbox EXCEPT ![d] = @ \ {m}]
    BY <1>6 DEF Receivers, ReceiveCopy, ReceiveNccl, Commands, Received, mainVars
  <2>2. \A e \in Others : inbox'[e] \subseteq inbox[e]
    BY <1>0, <2>1
  <2> QED BY <2>1, <2>2, IdsStay
<1>7. ASSUME NEW d \in Devices, Ending(d) PROVE IdsMeet'
  <2>1. UNCHANGED <<mainVars, sending, commVars>>
    BY <1>7, EndingLeaves DEF Base
  <2> QED BY <2>1, IdsStay DEF mainVars, commVars
<1> QED BY <1>1, <1>2, <1>3, <1>4, <1>5, <1>6, <1>7, MainIds, SendIds DEF Next

-----------------------------------------------------------------------------
(* The invariant.                                                          *)

\* No process that aborts moves on; what the root pushes stays right.
Coherence ==
    /\ Live /\ Typed /\ Handles /\ SameLife
    /\ Waits => OrderlyAll /\ AllInStep /\ (aborted = "no" => Coherent)
    /\ manner = "together" /\ aborted = "no" => IdsMeet
    /\ WaitingSuffices

\* Initially all is done.
LEMMA InitCoherent == ASSUME Init PROVE Coherent
<1>0. Root \in Devices /\ (\A d \in Others : d \in Devices /\ d # Root) /\ Limit \in Nat \ {0}
  BY RootIsDevice, BoundsAreNumbers DEF Others, Init
<1>1. \A d \in Devices : Steps(d) = Limit /\ task[d] = NoTask /\ inbox[d] = {} /\ sending[d].to = {}
  BY DEF Init, Steps, Away, Nothing
<1>2. \A d \in Others : ready[d]["COPYH2D"] = 0
  BY <1>0 DEF Init, NoneReady, Tables
<1>3. \A t \in RootTables : ready[Root][t] = 0
  BY <1>0 DEF Init, NoneReady, Tables, RootTables
<1>4. NoneGot
  BY SignalsOf DEF Init, Comms, NoneGot, RootTables
<1>5. /\ Taken = Limit /\ TakenPush = Limit /\ TakenCopy = Limit /\ TakenBcast = Limit /\ ~GivenBack
      /\ \A d \in Others : /\ Signalled(d) = Limit /\ Launched(d) = Limit /\ Asked(d) = Limit /\ Copied(d) = Limit
                          /\ BcastSignalled(d) = Limit /\ BcastBegun(d) = Limit
  BY <1>0, <1>1, <1>2 DEF Taken, TakenPush, TakenCopy, TakenBcast, Signalled, Launched, Asked, Copied, Begun,
     BcastSignalled, BcastBegun, OneIf, At, Queued, CopyBegun, Copying, NoTask, GivenBack
<1>6. ASSUME NEW d \in Others PROVE Apart(d)
  <2>1. /\ \A k : ~InTransit(k, d, Root) /\ ~InTransit(k, Root, d)
        /\ \A k : NotTwice(k, d, Root) /\ NotTwice(k, Root, d)
    BY <1>0, <1>1 DEF InTransit, AtSender, InSocket, NotTwice
  <2> QED BY <1>0, <1>5, <2>1 DEF Apart
<1>7. ReduceArrived = {} /\ PushArrived = {} /\ BcastArrived = {}
  BY <1>0, <1>5 DEF ReduceArrived, PushArrived, BcastArrived
<1>8. ReduceCounted /\ PushCounted /\ BcastCounted
  BY <1>3, <1>4, <1>5, <1>7, FS_EmptySet DEF ReduceCounted, PushCounted, BcastCounted, Got, OneIf, NoneGot, RootTables
<1> QED BY <1>0, <1>1, <1>6, <1>8 DEF Coherent, RootSends, RootReceives, RootSent, OtherSends

\* The invariant holds initially,
LEMMA InitCoherence == ASSUME Init PROVE Coherence
<1>1. Live /\ Typed /\ Handles /\ SameLife /\ OrderlyAll /\ Coherent
  BY InitLive, InitTyped, InitHandles, InitSameLife, InitOrderly, InitCoherent
<1>2. AllInStep
  BY <1>1, CoherentInStep DEF Base
<1>3. IdsMeet
  <2>1. /\ \A d \in Devices : stage[d] = "down" /\ inbox[d] = {} /\ sending[d].to = {}
        /\ Root \in Devices /\ Others \subseteq Devices
    BY RootIsDevice DEF Init, Nothing, Others
  <2> QED BY <2>1 DEF IdsMeet, InTransit, AtSender, InSocket, NotTwice
<1>4. WaitingSuffices
  BY DEF Init, WaitingSuffices
<1> QED BY <1>1, <1>2, <1>3, <1>4 DEF Coherence

\* The framework does not change its manner.
LEMMA MannerStays == ASSUME Next PROVE manner' = manner
BY DEF Next, InitRank, Listen, Framework, Enqueue, Release, Suspend, Main, Bind, HaveId, Start, Join, Finalize,
   Close, Threads, Take, Issue, DequeueGroup, Sync, Copy, Coordinate, Send, Complete, Receivers, ReceiveCopy,
   ReceiveNccl, Ending, EndIdle, EndBusy

\* and every step keeps it.
LEMMA NextCoherence == ASSUME Coherence, [Next]_vars PROVE Coherence'
<1>1. Live' /\ Typed' /\ Handles' /\ SameLife'
  BY NextKeeps, NextTyped, NextKeepsHandles, NextSameLife DEF Coherence
<1>2. ASSUME Next PROVE Coherence'
  <2>1. aborted = "no" /\ manner' = manner
    BY <1>2, MannerStays DEF Next
  <2>2. CASE manner = "hasty"
    BY <1>1, <2>1, <2>2 DEF Coherence, Waits, WaitingSuffices
  <2>3. CASE manner # "hasty"
    <3>0. Base /\ Handles /\ Waits /\ SameLife /\ Coherent
      BY <2>1, <2>3 DEF Coherence, Base, Waits
    <3>1. OrderlyAll'
      BY <1>2, <3>0, NextOrderly DEF Base
    <3>2. manner = "together" => IdsMeet'
      BY <1>2, <2>1, <3>0, NextIds DEF Coherence
    <3>3. CASE aborted' = "no" /\ Coherent'
      <4>1. AllInStep'
        <5>1. Base'
          BY <1>1, <3>1 DEF Base
        <5> QED BY <1>1, <3>3, <5>1, CoherentInStep, PTL
      <4> QED BY <1>1, <2>1, <3>1, <3>2, <3>3, <4>1 DEF Coherence, WaitingSuffices
    <3>4. CASE aborted' \in {"early", "id"} /\ UNCHANGED <<manner, life, stage, step, task>>
      <4>1. AllInStep'
        BY <2>3, <3>4 DEF Coherence, Waits, AllInStep, PushBegun, AwaitsResult
      <4>2. aborted' = "id" => manner # "together"
        <5> SUFFICES ASSUME aborted' = "id", manner = "together" PROVE FALSE
          OBVIOUS
        <5>1. PICK d \in Devices \ {Root} : Received(d, "ID") # {} /\ "NCCL" \in loop[d]
          BY <1>2, <3>0, StepCoherent
        <5>2. InTransit("ID", Root, d) /\ IdsMeet /\ d \in Others
          BY <2>1, <3>0, <5>1 DEF Coherence, Coherent, RootSent, Received, InTransit, InSocket, Others
        <5>3. HasQueues(d)
          BY <3>0, <5>1 DEF Base, Live, Runs, QueuesLive
        <5> QED BY <5>2, <5>3 DEF IdsMeet, HasQueues
      <4> QED BY <1>1, <2>1, <2>3, <3>1, <3>4, <4>1, <4>2 DEF Coherence, WaitingSuffices
    <3> QED BY <1>2, <3>0, <3>3, <3>4, StepCoherent
  <2> QED BY <2>2, <2>3
<1>3. CASE UNCHANGED vars
  <2>1. UNCHANGED <<manner, life, stage, step, task, inbox, sending, ready, listen, aborted>>
    BY <1>3 DEF vars, mainVars, frameVars, commVars
  <2>2. Coherent => Coherent'
    BY <2>1, CoherentUntouched
  <2>3. OrderlyAll => OrderlyAll'
    BY <2>1, OrderlyUntouched
  <2>4. (AllInStep => AllInStep') /\ (IdsMeet => IdsMeet')
    BY <2>1 DEF AllInStep, PushBegun, AwaitsResult, IdsMeet, InTransit, AtSender, InSocket, NotTwice
  <2> QED BY <1>1, <2>1, <2>2, <2>3, <2>4 DEF Coherence, Waits, WaitingSuffices
<1> QED BY <1>2, <1>3

\* Two processes are at most one step apart, and the counts and messages between
\* them account for the difference: what AddReadyCount (ready_table.cc:35) and
\* the broadcasts of the root (core_loops.cc:335, 808) rely on.
THEOREM CoherenceCorrect == Spec => []Coherence
BY InitCoherence, NextCoherence, PTL DEF Spec

\* A framework that waits for its handles is safe: no call that is outstanding
\* uses what Shutdown has deleted (core_loops.cc:37, 643, 694; global.cc:383),
\* no signal counts in the life that follows (ready_table.cc:35), and when all
\* resume together no process meets the id of another life.
THEOREM WaitingIsEnough == Spec => []WaitingSuffices
<1>1. Coherence => WaitingSuffices
  BY DEF Coherence
<1> QED BY <1>1, CoherenceCorrect, PTL

\* What the root compresses and pushes is the sum of one step of one life of all
\* devices of the machine, which have copied their parts and wait, whatever signals the processes have sent, and the
\* listening threads have not used, when the processes are suspended and resumed.
THEOREM PushesOfAll == Spec => []PushOfAllDevices
<1>1. Coherence /\ TypeOK => PushOfAllDevices
  BY DEF Coherence, Waits, AllInStep, PushOfAllDevices
<1> QED BY <1>1, CoherenceCorrect, TypeCorrect, PTL

=============================================================================
