---------------------- MODULE WorkerPipelineProperties ----------------------
(***************************************************************************)
(* What the devices of a machine promise to each other.                    *)
(***************************************************************************)
EXTENDS WorkerPipeline

Tasks == [op : {"REDUCE", "BROADCAST", "DO_GROUP"}, key : Nat]
Contributions == (Switches \cup {Servers}) \X Nat
Contents == [sum : SUBSET Contributions, coded : BOOLEAN]

(* Every variable keeps its type: queues hold keys, a ready count is at    *)
(* most the number of devices it waits for (ReadyTable, core_loops.cc).    *)
TypeOK ==
    /\ machine \in Machines
    /\ queue_list \in [Devices -> [Keys -> Seq(QueueType)]]
    /\ sq \in [Devices -> [QueueType -> Seq(Keys)]]
    /\ ready_event \in [Devices -> SUBSET Tensors]
    /\ credits \in [Devices -> 0..PartitionBound * machine.credit]
    /\ \A t \in Tensors, d \in Devices : /\ counter[d][t] \in 0..Len(KeyList[t])
                                         /\ enqueued[d][t] \in 0..machine.steps[t]
                                         /\ step_cnt[d][t] \in 0..enqueued[d][t]
    /\ \A d \in Devices, table \in Tables, k \in Keys :
          /\ ready_table[d][table][k] \in 0..ReadyCount(table)
          /\ signals[d][table][k] \in Nat
    /\ owed \in [Devices -> [Coordinates -> Keys \cup {NoKey}]]
    /\ nccl_msgs \in [Devices -> Seq(Tasks)]
    /\ nccl_phase \in [Devices -> {"REDUCE", "BROADCAST"}]
    /\ nccl_tasks \in [Devices -> Seq(Tasks)]
    /\ nccl_pipeline \in [Devices -> Seq(Seq(Tasks) \ {<<>>})]
    /\ synced \in [Devices -> Nat]
    /\ calls \in [Calls -> SUBSET Keys]
    /\ cpubuff \in [Switches -> [Keys -> [Slices -> Contents]]]
    /\ pushed \in [Keys -> [Slices -> SUBSET Contributions]]
    /\ slice \in [Devices -> [Keys -> Contents]]
    /\ aborted \in {"no", "ready count exceeded", "no task for the key",
                      "SetReadyCount does not return"}

-----------------------------------------------------------------------------
(* Safety.                                                                 *)

(* No check fails on any device: a signal never exceeds the count it adds  *)
(* to (ready_table.cc:35), and the task that the signal root announces is  *)
(* always in the queue of the device it tells (core_loops.cc:394).         *)
NeverAborts == aborted = "no"

GroupsAgree(g, h) == IsSuffix(g, h) \/ IsSuffix(h, g)

(* The devices of a switch launch the same NCCL calls in the same order,   *)
(* for the same step of each tensor: the n-th group of one is the n-th of  *)
(* the other, but for the tasks of it that have already gone on            *)
(* (RunRootNcclLoopOnce, RunNonRootNcclLoopOnce, RunSyncNcclOnce).         *)
NcclOrder ==
    \A d \in Devices : \A p \in Peers(d) :
        \A i \in DOMAIN nccl_pipeline[d] :
            LET j == synced[d] + i - synced[p] IN
            j \in DOMAIN nccl_pipeline[p] =>
                /\ GroupsAgree(nccl_pipeline[d][i], nccl_pipeline[p][j])
                /\ \A task \in Range(nccl_pipeline[d][i]) \cap Range(nccl_pipeline[p][j]) :
                      Step(d, task.key) = Step(p, task.key)

\* The NCCL groups of a device: those that it has launched, and the next.
Groups(d) == Append(nccl_pipeline[d], nccl_tasks[d])

InNccl(d, op, k) == \E group \in Range(Groups(d)) : NcclTask(op, k) \in Range(group)

\* No NCCL group of d holds a task twice, and no two hold the same.
GroupsDistinct(d) ==
    \A m, n \in DOMAIN Groups(d) :
       \A i \in DOMAIN Groups(d)[m], j \in DOMAIN Groups(d)[n] :
          Groups(d)[m][i].key = Groups(d)[n][j].key => m = n /\ i = j

\* Where the task of key k is: in the queue of a stage, in an NCCL group, in a
\* call of the root.
InQueue(d, k) == {op \in QueueType : k \in Range(sq[d][op])}
InGroup(d, k) == {op \in QueueType : InNccl(d, op, k)}
InCall(d, k) == {op \in Calls : d = Root /\ k \in calls[op]}

Stage(d, k) == IF queue_list[d][k] = <<>> THEN {} ELSE {Head(queue_list[d][k])}

(* A task that was enqueued and not called back is in exactly one place,   *)
(* that of its present stage: a queue, an NCCL group, or a call of the     *)
(* root.  A task that has finished is nowhere (FinishOrProceed, getTask).  *)
HeldOnce ==
    /\ TypeOK
    /\ \A d \in Devices :
          /\ \A op \in QueueType : IsInjective(sq[d][op])
          /\ GroupsDistinct(d)
          /\ \A k \in Keys :
                /\ InQueue(d, k) \cup InGroup(d, k) \cup InCall(d, k) = Stage(d, k)
                /\ InQueue(d, k) \cap (InGroup(d, k) \cup InCall(d, k)) = {}

(* While a push or a compression of a key runs without a lock over the     *)
(* shared buffer, the buffer holds the reduced gradients of all switches   *)
(* for the step of the push, and nobody changes it (RunPushLoopOnce passes *)
(* the buffer to ZPush without a copy, core_loops.cc:643).                 *)
PushStable ==
    \A k \in calls["COMPRESS"] \cup calls["PUSH"], i \in Slices :
        cpubuff[Back][k][i] = Plain(LocalSum(Step(Root, k)))

(* The credits that are not in the queue are held by REDUCE calls that     *)
(* NCCL has not finished: none is lost and none is returned twice          *)
(* (scheduled_queue.cc:179 and :231).                                      *)
Reducing(d) ==
    {u \in Keys \X (1..PartitionBound) : InNccl(d, "REDUCE", u[1]) /\ u[2] <= Length[u[1]]}
CreditsBalance ==
    \A d \in Devices :
        IsSignalRoot(d) /\ machine.credit > 0 =>
            credits[d] + Cardinality(Reducing(d)) = PartitionBound * machine.credit

-----------------------------------------------------------------------------
(* What a step may do.                                                     *)

OutputIsGlobalSum(d, t) ==
    \A k \in Range(KeyList[t]), p \in Peers(d) :
        slice[p][k] = Plain(GlobalSum(enqueued[d][t]))

CalledBack(d, t) == step_cnt'[d][t] # step_cnt[d][t]

(* When a tensor is called back, the broadcast of the switch was made of   *)
(* slices that all hold the global sum of this step: no slice is of an     *)
(* earlier or later step, partial, or still compressed.  For machines with *)
(* one PCIe switch (core_loops.cc:112-128, :741-790).                      *)
CallbackIsComplete ==
    [][\A d \in Devices, t \in Tensors :
          CalledBack(d, t) /\ HostCopies /\ ~CrossPcie => OutputIsGlobalSum(d, t)]_vars

(* The same for a machine with two PCIe switches, where a comment calls    *)
(* PUSH the barrier (operations.cc:505, core_loops.cc:655).                *)
CallbackIsCompleteAcrossPcie ==
    [][\A d \in Devices, t \in Tensors :
          CalledBack(d, t) /\ CrossPcie => OutputIsGlobalSum(d, t)]_vars

-----------------------------------------------------------------------------
(* Liveness.                                                               *)

(* Every device calls back every tensor that the training run enqueues, as *)
(* often as it does: no queue, table, credit, signal or group keeps a task *)
(* for ever (EnqueueTensor, FinishOrProceed).                              *)
TrainingFinishes ==
    <>(\A d \in Devices, t \in Tensors : step_cnt[d][t] = machine.steps[t])
=============================================================================
