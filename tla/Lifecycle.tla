------------------------------ MODULE Lifecycle ------------------------------
(***************************************************************************)
(* The life of the worker processes of one machine, one for each device:   *)
(* BytePSGlobal::Init, Shutdown and their repetition by byteps_suspend and *)
(* byteps_resume (global.cc, operations.cc), with what runs meanwhile: the *)
(* loop threads, the listening thread of the root, the pool jobs and the   *)
(* requests of ps-lite that are outstanding, the sockets between the       *)
(* processes, and the handles of the torch plugin.                         *)
(*                                                                         *)
(* A process has one tensor of one partition.  Of the stages of its task   *)
(* the module leaves out COPYD2H, which waits for nobody; what a loop does *)
(* with the GPU is in module WorkerPipeline.                               *)
(***************************************************************************)
EXTENDS Integers, FiniteSets, Sequences

CONSTANTS
    LocalSize,      \* the devices of the machine, in one PCIe switch
    Compressed,     \* whether the tensor has a compressor
    Manners,        \* how the framework may suspend; see Manner
    MaxStep,        \* bound: MaxStep[m]: the steps of a life in manner m
    MaxLife         \* bound: MaxLife[m]: the lives of a process in manner m

\* The framework suspends a process when its handles are done and all the
\* processes of the machine resume together, or each alone; or it suspends,
\* hasty, with handles that are not done.
Manner == {"together", "alone", "hasty"}

ASSUME LifecycleAssumption ==
    /\ LocalSize \in Nat \ {0}
    /\ MaxStep \in [Manner -> Nat \ {0}] /\ MaxLife \in [Manner -> Nat \ {0}]
    /\ Compressed \in BOOLEAN /\ Manners \subseteq Manner

Devices == 0..LocalSize - 1
Root == LocalSize - 1
Others == Devices \ {Root}
Comms == {"nccl", "basic"}

VARIABLES
    manner,     \* the manner of the job
    stage,      \* stage[d]: where the main thread is in Init or Shutdown
    life,       \* life[d]: the number of the process's life
    step,       \* step[d]: the steps enqueued in this life
    held,       \* held[d]: the handle that the framework waits for, or 0
    last_handle,\* last_handle[d]: last_handle_ of HandleManager
    results,    \* results[d]: results_: the handles, and whether they are done
    task,       \* task[d]: the stage of the task, who has it, and its handle
    loop,       \* loop[d]: the loop threads that run
    sending,    \* sending[d]: to whom the message at hand has still to be sent
    launched,   \* launched[d]: the NCCL groups launched with the current id
    ready,      \* ready[d]: the count of the key in each ready table
    inbox,      \* inbox[d]: the datagrams in the sockets of the process
    id,         \* id[d]: the NCCL id that the process has
    listen,     \* listen[c]: the root's thread that listens to communicator c
    aborted     \* what ended a process

mainVars == <<stage, life, id>>
frameVars == <<step, held, last_handle, results>>
commVars == <<ready, inbox, listen>>
vars == <<manner, mainVars, frameVars, task, loop, sending, launched, commVars, aborted>>

NoTask == [at |-> "none", how |-> "none", handle |-> 0]
NoResult == [h \in {} |-> FALSE]

ShouldShutdown(d) == stage[d] \in {"joining", "finalizing", "closing"}
HasQueues(d) == stage[d] \in {"up", "joining"}
HasTables(d) == stage[d] \in {"up", "joining", "finalizing"}
IsBound(d) == stage[d] # "down"

\* The stages of a task, the thread that runs each, and the loop threads.
QueueList(d) ==
    IF d # Root THEN <<"COORDINATE_REDUCE", "REDUCE", "COORDINATE_PUSH", "COPYH2D",
                       "COORDINATE_BROADCAST", "BROADCAST">>
    ELSE IF Compressed
    THEN <<"REDUCE", "COMPRESS", "PUSH", "PULL", "DECOMPRESS", "COPYH2D", "BROADCAST">>
    ELSE <<"REDUCE", "PUSH", "PULL", "COPYH2D", "BROADCAST">>
Grouped == {"REDUCE", "BROADCAST"}
Coordinated == {"COORDINATE_REDUCE", "COORDINATE_PUSH", "COORDINATE_BROADCAST"}
LoopOf(s) == IF s \in Grouped THEN "NCCL" ELSE s
Loops(d) ==
    {"NCCL", "SYNC", "COPYH2D"} \cup
    IF d = Root THEN {"PULL", "DECOMPRESS", "PUSH", "COMPRESS"}
    ELSE Coordinated \cup {"LISTEN"}

\* The ready tables, and the one that a queue waits for.
Tables(d) == IF d = Root THEN {"REDUCE", "PUSH", "BROADCAST"} ELSE {"COPYH2D"}
TableOf(d, s) == IF d = Root /\ s = "COMPRESS" THEN "PUSH" ELSE s
ReadyCount(d) == IF d = Root THEN LocalSize - 1 ELSE 1
NoneReady(d) == [t \in Tables(d) |-> 0]

\* The messages, and those to be sent.
Message(kind, d) == [kind |-> kind, from |-> d, life |-> life[d]]
Received(d, kind) == {m \in inbox[d] : m.kind = kind}
Nothing == [kind |-> "none", to |-> {}]

-----------------------------------------------------------------------------
(* Init.                                                                   *)

\* When the framework resumes a process.
MayResume(d) ==
    manner = "together" =>
       \A e \in Devices : life[e] > life[d] \/ (life[e] = life[d] /\ stage[e] = "down")

\* The sockets are bound, anew, and the root has the NCCL id to send.
Bind(d) ==
    /\ stage[d] = "down" /\ life[d] < MaxLife[manner] /\ MayResume(d)
    /\ life' = [life EXCEPT ![d] = @ + 1]
    /\ stage' = [stage EXCEPT ![d] = "bound"]
    /\ IF d = Root
       THEN /\ listen' = [c \in Comms |-> "recv"]
            /\ sending' = [sending EXCEPT ![d] = [kind |-> "ID", to |-> Others]]
            /\ id' = [id EXCEPT ![d] = life'[d]]
       ELSE UNCHANGED <<listen, sending, id>>
    /\ UNCHANGED <<manner, frameVars, task, loop, launched, ready, inbox, aborted>>

\* sendSignal and broadcastSignal: one member after the other, and again until
\* the socket of the member is there.
First(S) == CHOOSE d \in S : \A e \in S : d <= e
Send(d) ==
    /\ sending[d].to # {}
    /\ LET e == First(sending[d].to)
       IN  /\ IsBound(e)
           /\ inbox' = [inbox EXCEPT ![e] = @ \cup {Message(sending[d].kind, d)}]
           /\ sending' = [sending EXCEPT ![d].to = @ \ {e}]
    /\ UNCHANGED <<manner, mainVars, frameVars, task, loop, launched, ready, listen, aborted>>

\* A device has the id, and calls ncclCommInitRank.
HaveId(d) ==
    /\ stage[d] = "bound"
    /\ IF d = Root
       THEN sending[d].to = {} /\ UNCHANGED <<id, inbox>>
       ELSE \E m \in Received(d, "ID") : /\ id' = [id EXCEPT ![d] = m.life]
                                         /\ inbox' = [inbox EXCEPT ![d] = @ \ {m}]
    /\ stage' = [stage EXCEPT ![d] = "rank"]
    /\ UNCHANGED <<manner, life, frameVars, task, loop, sending, launched, ready, listen,
                   aborted>>

\* ncclCommInitRank returns when all devices have called it with one id.
InitRank ==
    /\ \A d \in Devices : stage[d] = "rank" /\ id[d] = id[Root]
    /\ stage' = [d \in Devices |-> "ranked"]
    /\ launched' = [d \in Devices |-> 0]
    /\ UNCHANGED <<manner, life, id, frameVars, task, loop, sending, commVars, aborted>>

\* The new pool replaces that of the life before, whose destructor waits for
\* its jobs; then tables, queues and loop threads are created.
Start(d) ==
    /\ stage[d] = "ranked" /\ task[d].how # "pool"
    /\ stage' = [stage EXCEPT ![d] = "up"]
    /\ loop' = [loop EXCEPT ![d] = Loops(d)]
    /\ UNCHANGED <<manner, life, id, frameVars, task, sending, launched, commVars, aborted>>

-----------------------------------------------------------------------------
(* The framework.                                                          *)

\* results_[handle] = done, which inserts a handle that is not there.
SetResult(r, h, done) == [g \in DOMAIN r \cup {h} |-> IF g = h THEN done ELSE r[g]]

\* AllocateHandle, and EnqueueTensor with a callback that marks the handle;
\* during a shutdown EnqueueTensor returns OK and does nothing.
Enqueue(d) ==
    /\ step[d] < MaxStep[manner] /\ held[d] = 0
    /\ last_handle' = [last_handle EXCEPT ![d] = @ + 1]
    /\ held' = [held EXCEPT ![d] = last_handle'[d]]
    /\ results' = [results EXCEPT ![d] = SetResult(@, last_handle'[d], FALSE)]
    /\ step' = [step EXCEPT ![d] = @ + 1]
    /\ IF ShouldShutdown(d)
       THEN UNCHANGED task
       ELSE /\ stage[d] = "up" /\ task[d] = NoTask
            /\ task' = [task EXCEPT ![d] = [at |-> Head(QueueList(d)), how |-> "queued",
                                            handle |-> last_handle'[d]]]
    /\ UNCHANGED <<manner, mainVars, loop, sending, launched, commVars, aborted>>

\* ReleaseHandle, once PollHandle says that the handle is done, or before.
Forget(f, h) == [g \in DOMAIN f \ {h} |-> f[g]]
Release(d) ==
    /\ held[d] # 0
    /\ manner = "hasty" \/ results[d][held[d]]
    /\ results' = [results EXCEPT ![d] = Forget(@, held[d])]
    /\ held' = [held EXCEPT ![d] = 0]
    /\ UNCHANGED <<manner, mainVars, step, last_handle, task, loop, sending, launched,
                   commVars, aborted>>

\* byteps_suspend.
Suspend(d) ==
    /\ stage[d] = "up"
    /\ manner = "hasty" \/ (held[d] = 0 /\ step[d] = MaxStep[manner])
    /\ stage' = [stage EXCEPT ![d] = "joining"]
    /\ UNCHANGED <<manner, life, id, frameVars, task, loop, sending, launched, commVars,
                   aborted>>

-----------------------------------------------------------------------------
(* Tasks.                                                                  *)

\* The stage after one, if there is one.
After(d, s) ==
    LET i == CHOOSE i \in DOMAIN QueueList(d) : QueueList(d)[i] = s
    IN  IF i = Len(QueueList(d)) THEN "none" ELSE QueueList(d)[i + 1]

\* FinishOrProceed, whose callback is MarkDone.
FinishOrProceedMarking(d) ==
    /\ results' = [results EXCEPT ![d] = SetResult(@, task[d].handle, TRUE)]
    /\ task' = IF After(d, task[d].at) = "none" THEN [task EXCEPT ![d] = NoTask]
               ELSE [task EXCEPT ![d].at = After(d, @), ![d].how = "queued"]
FinishOrProceed(d) ==
    IF After(d, task[d].at) = "none"
    THEN /\ results' = [results EXCEPT ![d] = SetResult(@, task[d].handle, TRUE)]
         /\ task' = [task EXCEPT ![d] = NoTask]
    ELSE /\ task' = [task EXCEPT ![d].at = After(d, @), ![d].how = "queued"]
         /\ UNCHANGED results

\* It uses the queues, which Shutdown deletes.
Finish(d, user) ==
    IF HasQueues(d) THEN FinishOrProceed(d) /\ UNCHANGED aborted
    ELSE aborted' = user /\ UNCHANGED <<task, results>>

\* A loop is between two iterations.
SenderOf(kind) ==
    CASE kind = "REDUCE_READY" -> "COORDINATE_REDUCE" [] kind = "PUSH_READY" -> "COORDINATE_PUSH"
      [] kind = "BCAST_READY" -> "COORDINATE_BROADCAST"
      [] kind \in {"DO_REDUCE", "DO_BROADCAST"} -> "NCCL" [] kind = "DO_COPYH2D" -> "COPYH2D"
      [] OTHER -> "none"
Sends(d, s) == sending[d].to # {} /\ s = SenderOf(sending[d].kind)
Holds(d, s) == \/ LoopOf(task[d].at) = s /\ task[d].how = "held"
               \/ task[d].how = "sync" /\ s = "SYNC"
Between(d, s) == s \in loop[d] /\ ~Holds(d, s) /\ ~Sends(d, s)

KeepReadyCount(d, t) == ready
ClearReadyCount(d, t) == [ready EXCEPT ![d][t] = 0]

\* getTask.  The root tells the other devices of what it takes.
Told(s) == CASE s = "REDUCE" -> "DO_REDUCE" [] s = "BROADCAST" -> "DO_BROADCAST"
             [] s = "COPYH2D" -> "DO_COPYH2D"
Take(d) ==
    LET s == task[d].at
        t == TableOf(d, s)
    IN  /\ task[d].how = "queued" /\ Between(d, LoopOf(s)) /\ (s \in Grouped => d = Root)
        /\ t \in Tables(d) => ready[d][t] = ReadyCount(d)
        /\ ready' = IF t \in Tables(d) THEN ClearReadyCount(d, t) ELSE ready
        /\ task' = [task EXCEPT ![d].how = "held"]
        /\ sending' = IF d = Root /\ s \in Grouped \cup {"COPYH2D"}
                      THEN [sending EXCEPT ![d] = [kind |-> Told(s), to |-> Others]]
                      ELSE sending
        /\ UNCHANGED <<manner, mainVars, frameVars, loop, launched, inbox, listen, aborted>>

\* A loop of the root hands its task to ps-lite, to the pool, or to NCCL.
Call(s) == CASE s \in {"PUSH", "PULL"} -> "ps"
             [] s \in {"COMPRESS", "DECOMPRESS"} -> "pool"
             [] s \in Grouped -> "group"
Issue(d) ==
    /\ d = Root /\ task[d].how = "held" /\ task[d].at # "COPYH2D" /\ sending[d].to = {}
    /\ task' = [task EXCEPT ![d].how = Call(task[d].at)]
    /\ launched' = IF task[d].at \in Grouped THEN [launched EXCEPT ![d] = @ + 1]
                   ELSE launched
    /\ UNCHANGED <<manner, mainVars, frameVars, loop, sending, commVars, aborted>>

RestoredCount(d) == ReadyCount(d)

\* A response of the server, or the end of a pool job, which restores the ready
\* count after a compression.
Complete(d) ==
    /\ task[d].how \in {"ps", "pool"}
    /\ Finish(d, "call")
    /\ ready' = IF HasQueues(d) /\ task[d].at = "COMPRESS"
                THEN [ready EXCEPT ![d]["PUSH"] = RestoredCount(d)] ELSE ready
    /\ UNCHANGED <<manner, mainVars, step, held, last_handle, loop, sending, launched,
                   inbox, listen>>

\* SyncNcclLoop takes a group, which ends when all devices have launched it; it
\* ends also when one of them has shut down since, because the destructor of
\* NcclManager lets its stream finish and destroys no communicator.
DequeueGroup(d) ==
    /\ task[d].how = "group" /\ Between(d, "SYNC")
    /\ task' = [task EXCEPT ![d].how = "sync"]
    /\ UNCHANGED <<manner, mainVars, frameVars, loop, sending, launched, commVars, aborted>>
Sync(d) ==
    /\ task[d].how = "sync"
    /\ \A e \in Devices : launched[e] >= launched[d]
    /\ Finish(d, "loop")
    /\ UNCHANGED <<manner, mainVars, step, held, last_handle, loop, sending, launched,
                   commVars>>

\* CopyHost2Device, after the root has told the others.
Copy(d) ==
    /\ Holds(d, "COPYH2D") /\ ~Sends(d, "COPYH2D")
    /\ Finish(d, "loop")
    /\ UNCHANGED <<manner, mainVars, step, held, last_handle, loop, sending, launched,
                   commVars>>

SignalOf(s) == CASE s = "COORDINATE_REDUCE" -> "REDUCE_READY"
                 [] s = "COORDINATE_PUSH" -> "PUSH_READY"
                 [] s = "COORDINATE_BROADCAST" -> "BCAST_READY"

\* A coordinator hands the task on and then signals the root.
Coordinate(d) ==
    /\ \E s \in Coordinated : Holds(d, s)
    /\ Finish(d, "loop")
    /\ sending' = [sending EXCEPT ![d] = [kind |-> SignalOf(task[d].at), to |-> {Root}]]
    /\ UNCHANGED <<manner, mainVars, step, held, last_handle, loop, launched, commVars>>

-----------------------------------------------------------------------------
(* Listening and ending.                                                   *)

\* AddReadyCount, with its check.
AddReadyCount(d, t) ==
    IF ~HasTables(d)
    THEN aborted' = (IF ShouldShutdown(d) THEN "table" ELSE "early") /\ UNCHANGED ready
    ELSE IF ready[d][t] < ReadyCount(d)
    THEN ready' = [ready EXCEPT ![d][t] = @ + 1] /\ UNCHANGED aborted
    ELSE aborted' = "count" /\ UNCHANGED ready

\* The signals that arrive at a communicator of the root, and their tables.
TablesOf(c) == IF c = "nccl" THEN Grouped ELSE {"PUSH"}
ReadyFor(t) == CASE t = "REDUCE" -> "REDUCE_READY" [] t = "BROADCAST" -> "BCAST_READY"
                 [] t = "PUSH" -> "PUSH_READY"

\* A thread of the root tests for the shutdown between the receipt of a signal
\* and its use, and after a receive that timed out.
Listen(c) ==
    /\ \/ /\ listen[c] = "recv"
          /\ \E t \in TablesOf(c) : \E m \in Received(Root, ReadyFor(t)) :
                /\ inbox' = [inbox EXCEPT ![Root] = @ \ {m}]
                /\ listen' = [listen EXCEPT ![c] =
                                 IF ShouldShutdown(Root) THEN "ended" ELSE t]
          /\ UNCHANGED <<ready, aborted>>
       \/ /\ listen[c] = "recv" /\ ShouldShutdown(Root)
          /\ \A t \in TablesOf(c) : Received(Root, ReadyFor(t)) = {}
          /\ listen' = [listen EXCEPT ![c] = "ended"]
          /\ UNCHANGED <<ready, inbox, aborted>>
       \/ /\ listen[c] \in TablesOf(c)
          /\ AddReadyCount(Root, listen[c])
          /\ listen' = [listen EXCEPT ![c] = "recv"]
          /\ UNCHANGED inbox
    /\ UNCHANGED <<manner, mainVars, frameVars, task, loop, sending, launched>>

\* The copy listener of another device takes a signal of the root.
ReceiveCopy(d) ==
    /\ "LISTEN" \in loop[d]
    /\ \E m \in Received(d, "DO_COPYH2D") : inbox' = [inbox EXCEPT ![d] = @ \ {m}]
    /\ IF ShouldShutdown(d)
       THEN loop' = [loop EXCEPT ![d] = @ \ {"LISTEN"}] /\ UNCHANGED <<ready, aborted>>
       ELSE AddReadyCount(d, "COPYH2D") /\ UNCHANGED loop
    /\ UNCHANGED <<manner, mainVars, frameVars, task, sending, launched, listen>>

\* The NCCL loop of another device takes a command of the root and launches the
\* task that it finds in the queue by its key; with one tensor a group has one
\* task, and DO_GROUP comes with the command.  An id for the life to come is
\* longer than a command, and fails the check of recvSignal, shutdown or not.
Commands(d, s) == Received(d, Told(s))
ReceiveNccl(d) ==
    /\ "NCCL" \in loop[d] /\ d # Root
    /\ \/ /\ Received(d, "ID") # {}
          /\ aborted' = "id" /\ UNCHANGED <<inbox, loop, task, launched>>
       \/ \E s \in Grouped :
          /\ \E m \in Commands(d, s) : inbox' = [inbox EXCEPT ![d] = @ \ {m}]
          /\ IF ShouldShutdown(d)
             THEN /\ loop' = [loop EXCEPT ![d] = @ \ {"NCCL"}]
                  /\ UNCHANGED <<task, launched, aborted>>
             ELSE IF task[d].at = s /\ task[d].how = "queued"
             THEN /\ task' = [task EXCEPT ![d].how = "group"]
                  /\ launched' = [launched EXCEPT ![d] = @ + 1]
                  /\ UNCHANGED <<loop, aborted>>
             ELSE aborted' = "task" /\ UNCHANGED <<task, launched, loop>>
    /\ UNCHANGED <<manner, mainVars, frameVars, sending, ready, listen>>

\* The loops end that have nothing to do; those that receive, when a receive
\* times out.  Such loops end in one step, because the end of one is seen only
\* when a task or a message for it comes later.
AwaitsMessage(d, s) ==
    \/ s = "LISTEN"
    \/ s = "NCCL" /\ d # Root
    \/ s = "SYNC" /\ task[d].how = "group"
    \/ LoopOf(task[d].at) = s /\ task[d].how = "queued" /\ (s = "NCCL" => d = Root)
HasWork(d, s) ==
    \/ s = "LISTEN" /\ Received(d, "DO_COPYH2D") # {}
    \/ s = "NCCL" /\ d # Root
       /\ Received(d, "ID") \cup Commands(d, "REDUCE") \cup Commands(d, "BROADCAST") # {}
    \/ s = "SYNC" /\ task[d].how = "group"
    \/ LoopOf(task[d].at) = s /\ task[d].how = "queued" /\ (s = "NCCL" => d = Root)
EndIdle(d) ==
    LET idle == {s \in loop[d] : Between(d, s) /\ ~HasWork(d, s)}
    IN  /\ ShouldShutdown(d) /\ idle # {}
        /\ loop' = [loop EXCEPT ![d] = @ \ idle]
        /\ UNCHANGED <<manner, mainVars, frameVars, task, sending, launched, commVars, aborted>>

\* A loop ends, and leaves a task in its queue.
EndBusy(d) ==
    LET s == IF task[d].how = "group" THEN "SYNC" ELSE LoopOf(task[d].at)
    IN  /\ ShouldShutdown(d) /\ s \in loop[d] /\ Between(d, s)
        /\ task[d].how \in {"queued", "group"} /\ HasWork(d, s)
        /\ loop' = [loop EXCEPT ![d] = @ \ {s}]
        /\ UNCHANGED <<manner, mainVars, frameVars, task, sending, launched, commVars, aborted>>

JoinedFirst(d) == Cardinality(loop[d]) < Cardinality(Loops(d))
Joined(d) == loop[d] = {}

\* Shutdown joins the loop threads and deletes the queues,
Join(d) ==
    /\ stage[d] = "joining" /\ Joined(d)
    /\ stage' = [stage EXCEPT ![d] = "finalizing"]
    /\ UNCHANGED <<manner, life, id, frameVars, task, loop, sending, launched, commVars,
                   aborted>>

\* waits in ps::Finalize for the requests that are outstanding, and deletes the
\* tables,
Finalize(d) ==
    /\ stage[d] = "finalizing" /\ task[d].how # "ps"
    /\ stage' = [stage EXCEPT ![d] = "closing"]
    /\ ready' = [ready EXCEPT ![d] = NoneReady(d)]
    /\ UNCHANGED <<manner, life, id, frameVars, task, loop, sending, launched, inbox,
                   listen, aborted>>

\* joins the listening threads, and removes the sockets.
Close(d) ==
    /\ stage[d] = "closing"
    /\ IF d = Root
       THEN /\ \A c \in Comms : listen[c] = "ended"
            /\ listen' = [c \in Comms |-> "none"]
       ELSE UNCHANGED listen
    /\ stage' = [stage EXCEPT ![d] = "down"]
    /\ inbox' = [inbox EXCEPT ![d] = {}]
    /\ id' = [id EXCEPT ![d] = 0]
    /\ task' = IF task[d].how = "pool" THEN task ELSE [task EXCEPT ![d] = NoTask]
    /\ step' = [step EXCEPT ![d] = 0]
    /\ UNCHANGED <<manner, life, held, last_handle, results, loop, sending, launched, ready,
                   aborted>>

-----------------------------------------------------------------------------

Init ==
    /\ manner \in Manners
    /\ stage = [d \in Devices |-> "down"]
    /\ life = [d \in Devices |-> 0]
    /\ step = [d \in Devices |-> 0]
    /\ held = [d \in Devices |-> 0]
    /\ last_handle = [d \in Devices |-> 0]
    /\ results = [d \in Devices |-> NoResult]
    /\ task = [d \in Devices |-> NoTask]
    /\ loop = [d \in Devices |-> {}]
    /\ sending = [d \in Devices |-> Nothing]
    /\ launched = [d \in Devices |-> 0]
    /\ ready = [d \in Devices |-> NoneReady(d)]
    /\ inbox = [d \in Devices |-> {}]
    /\ id = [d \in Devices |-> 0]
    /\ listen = [c \in Comms |-> "none"]
    /\ aborted = "no"

Framework(d) == Enqueue(d) \/ Release(d) \/ Suspend(d)
Main(d) == Bind(d) \/ HaveId(d) \/ Start(d) \/ Join(d) \/ Finalize(d) \/ Close(d)
Threads(d) == Take(d) \/ Issue(d) \/ DequeueGroup(d) \/ Sync(d) \/ Copy(d) \/ Coordinate(d)
Receivers(d) == ReceiveCopy(d) \/ ReceiveNccl(d)
Ending(d) == EndIdle(d) \/ EndBusy(d)

Next ==
    /\ aborted = "no"
    /\ \/ InitRank
       \/ \E c \in Comms : Listen(c)
       \/ \E d \in Devices :
             \/ Framework(d) \/ Main(d) \/ Threads(d) \/ Send(d) \/ Complete(d)
             \/ Receivers(d) \/ Ending(d)

Spec == Init /\ [][Next]_vars

\* Every thread runs, a framework that is not hasty goes on, calls end, and a
\* receive times out.
Act(A) == aborted = "no" /\ A
FairSpec ==
    /\ Spec
    /\ WF_vars(Act(InitRank)) /\ \A c \in Comms : WF_vars(Act(Listen(c)))
    /\ \A d \in Devices :
          /\ WF_vars(Act(Main(d))) /\ WF_vars(Act(Complete(d))) /\ WF_vars(Act(Send(d)))
          /\ WF_vars(Act(Threads(d))) /\ WF_vars(Act(Receivers(d)))
          /\ WF_vars(Act(manner # "hasty" /\ Framework(d)))
          /\ WF_vars(Act(Ending(d)))

=============================================================================
