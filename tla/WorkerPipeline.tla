--------------------------- MODULE WorkerPipeline ---------------------------
(***************************************************************************)
(* The devices of one worker machine (deep_inc/common/core_loops.cc,       *)
(* operations.cc, scheduled_queue.cc, ready_table.cc, nccl_manager.cc and  *)
(* communicator.cc).  Each device is a process with one task per partition *)
(* of a tensor; a task passes from the queue of one stage to the queue of  *)
(* the next, and a thread per stage works on the queue.  The devices of a  *)
(* machine agree through signals on sockets and through ready tables.      *)
(*                                                                         *)
(* The content of a buffer is the set of what is summed in it: <<w, n>> is *)
(* the reduced gradient of PCIe switch w at step n.                        *)
(***************************************************************************)
EXTENDS Integers, FiniteSets, Sequences, SequencesExt, FiniteSetsExt

CONSTANTS
    Machines,       \* the environments and the training runs of a worker
    Tensors,        \* the declared tensors
    KeyList,        \* KeyList[t]: the keys of the partitions of tensor t
    Length,         \* Length[k]: the length of partition k
    PartitionBound, \* BYTEPS_PARTITION_BYTES, in the unit of Length
    Priority,       \* Priority[t]: the priority of tensor t
    Compressed,     \* the tensors registered with a compressor
    GroupSize       \* BYTEPS_NCCL_GROUP_SIZE

Keys == UNION {Range(KeyList[t]) : t \in Tensors}
TensorOf(k) == CHOOSE t \in Tensors : k \in Range(KeyList[t])

ASSUME PipelineAssumption ==
    /\ \A m \in Machines : /\ m.local_size \in Nat \ {0}
                           /\ m.pcie_switch_size \in Nat \ {0}
                           /\ m.is_distributed \in BOOLEAN
                           /\ m.credit \in Nat
                           /\ m.reset_returns \in BOOLEAN
                           /\ m.steps \in [Tensors -> Nat]
    /\ IsFiniteSet(Tensors)
    /\ \A t \in Tensors : /\ KeyList[t] \in Seq(Nat) /\ KeyList[t] # <<>>
                          /\ IsInjective(KeyList[t])
    /\ \A t, u \in Tensors : Range(KeyList[t]) \cap Range(KeyList[u]) # {} => t = u
    /\ PartitionBound \in Nat
    /\ \A k \in Keys : Length[k] \in 1..PartitionBound
    /\ \A t \in Tensors : Priority[t] \in Int
    /\ Compressed \subseteq Tensors
    /\ GroupSize \in Nat \ {0}

VARIABLES
    machine,        \* the environment, read once by BytePSGlobal::Init, and:
                    \* machine.steps[t], a bound: how often t is enqueued;
                    \* machine.reset_returns: whether SetReadyCount, which has
                    \* no return statement, returns in this build
    queue_list,     \* queue_list[d][k]: the stages the task k has still to pass
    sq,             \* sq[d][op]: the tasks in the scheduled queue of op
    ready_event,    \* ready_event[d]: the tensors whose gradient is computed
    credits,        \* credits[d]: the credits of the REDUCE queue
    counter,        \* counter[d][t]: counter_ptr, the partitions that are done
    enqueued,       \* enqueued[d][t]: the calls of EnqueueTensor
    step_cnt,       \* step_cnt[d][t]: the callbacks
    ready_table,    \* ready_table[d][table][k]: the ready count of key k
    signals,        \* signals[d][table][k]: the signals on their way to d
    owed,           \* owed[d][op]: the signal a coordinate loop has still to send
    nccl_msgs,      \* nccl_msgs[d]: what the signal root has told d
    nccl_phase,     \* nccl_phase[d]: the queue RunRootNcclLoopOnce is reading
    nccl_tasks,     \* nccl_tasks[d]: the NCCL group being put together
    nccl_pipeline,  \* nccl_pipeline[d]: the groups launched and not synchronized
    synced,         \* synced[d]: how many groups were synchronized
    calls,          \* calls[c]: the root's tasks in the thread pool or in ps-lite
    cpubuff,        \* cpubuff[w][k][i]: slice i of the shared buffer of switch w
    pushed,         \* pushed[k]: what the push of k sends to the servers
    slice,          \* slice[d][k]: what device d last copied from the host
    aborted         \* the check that has failed, or "no"

taskVars == <<queue_list, sq, ready_event, credits, counter, enqueued, step_cnt>>
signalVars == <<ready_table, signals, owed>>
ncclVars == <<nccl_msgs, nccl_phase, nccl_tasks, nccl_pipeline, synced>>
dataVars == <<cpubuff, pushed, slice>>
vars == <<machine, taskVars, signalVars, ncclVars, calls, dataVars, aborted>>

-----------------------------------------------------------------------------
(* The machine.                                                            *)

Devices == 0..machine.local_size - 1
Root == machine.local_size - 1

\* InitGlobalEnv: unbalanced switches are taken as one switch.
PcieSize == IF machine.local_size % machine.pcie_switch_size = 0
            THEN machine.pcie_switch_size ELSE machine.local_size
PcieNum == machine.local_size \div PcieSize

CrossPcie == machine.local_size > PcieSize
HostCopies == machine.is_distributed \/ CrossPcie

Switches == 0..PcieNum - 1
Slices == 0..PcieSize - 1
SwitchOf(d) == d \div PcieSize
SliceOf(d) == d % PcieSize
Peers(d) == {p \in Devices : SwitchOf(p) = SwitchOf(d)}
SignalRoot(d) == SwitchOf(d) * PcieSize + PcieSize - 1
ReducerRoot(d) == (PcieNum - 1) * PcieSize + SliceOf(d)

\* The buffer that a task calls cpubuff: pcie_cpubuff.back().
Back == PcieNum - 1

IsSignalRoot(d) == d = SignalRoot(d)
IsReducerRoot(d) == d = ReducerRoot(d)
HasCompressor(t) == t \in Compressed /\ machine.is_distributed

-----------------------------------------------------------------------------
(* Stages, queues and ready tables.                                        *)

Coordinated == [COORDINATE_REDUCE |-> "REDUCE", COORDINATE_PUSH |-> "PUSH",
                COORDINATE_BROADCAST |-> "BROADCAST"]
Coordinates == DOMAIN Coordinated
Calls == {"COMPRESS", "PUSH", "PULL", "DECOMPRESS"}
QueueType == Coordinates \cup Calls
                \cup {"REDUCE", "COPYD2H", "PCIE_REDUCE", "COPYH2D", "BROADCAST"}
Tables == {"REDUCE", "PCIE_REDUCE", "PUSH", "COPYH2D", "BROADCAST"}

NoKey == -1

If(condition, stages) == IF condition THEN stages ELSE <<>>

PushQueueListPushFirst(d, t) ==
    If(~IsSignalRoot(d), <<"COORDINATE_REDUCE">>) \o <<"REDUCE">>
    \o If(HostCopies /\ d # Root, <<"COORDINATE_PUSH">>)
    \o If(HostCopies, <<"COPYD2H">>)
    \o If(CrossPcie, <<"PCIE_REDUCE">>)
    \o If(HostCopies /\ d = Root,
          If(HasCompressor(t), <<"COMPRESS">>) \o <<"PUSH">>)

PushQueueList(d, t) ==
    If(~IsSignalRoot(d), <<"COORDINATE_REDUCE">>) \o <<"REDUCE">>
    \o If(HostCopies, <<"COPYD2H">>)
    \o If(CrossPcie, <<"PCIE_REDUCE">>)
    \o If(HostCopies /\ d # Root, <<"COORDINATE_PUSH">>)
    \o If(HostCopies /\ d = Root,
          If(HasCompressor(t), <<"COMPRESS">>) \o <<"PUSH">>)

PullQueueListDecompressFirst(d, t) ==
    If(machine.is_distributed /\ d = Root,
       If(HasCompressor(t), <<"DECOMPRESS">>) \o <<"PULL">>)
    \o If(HostCopies, <<"COPYH2D">>)
    \o If(~IsSignalRoot(d), <<"COORDINATE_BROADCAST">>) \o <<"BROADCAST">>

PullQueueList(d, t) ==
    If(machine.is_distributed /\ d = Root,
       <<"PULL">> \o If(HasCompressor(t), <<"DECOMPRESS">>))
    \o If(HostCopies, <<"COPYH2D">>)
    \o If(~IsSignalRoot(d), <<"COORDINATE_BROADCAST">>) \o <<"BROADCAST">>

QueueList(d, t) == PushQueueList(d, t) \o PullQueueList(d, t)

\* COMPRESS and PUSH share the push table.
TableOf(op) == IF op = "COMPRESS" THEN "PUSH" ELSE op

HasTable(d, op) ==
    \/ op \in {"REDUCE", "BROADCAST"} /\ IsSignalRoot(d)
    \/ op = "PCIE_REDUCE" /\ IsReducerRoot(d)
    \/ op \in {"COMPRESS", "PUSH"} /\ d = Root
    \/ op = "COPYH2D" /\ d # Root

ReadyCount(table) ==
    CASE table \in {"REDUCE", "BROADCAST"} -> PcieSize - 1
      [] table = "PCIE_REDUCE" -> PcieNum - 1
      [] table = "PUSH" -> machine.local_size - 1
      [] table = "COPYH2D" -> 1

IsScheduled(d, op) == op = "REDUCE" /\ IsSignalRoot(d) /\ machine.credit > 0

\* The order of addTask's sort.
Before(a, b) ==
    LET p == Priority[TensorOf(a)]
        q == Priority[TensorOf(b)]
    IN  p > q \/ (p = q /\ a < b)

\* addTask, for one task of ks after the other: the queues q become one of these.
\* A scheduled queue is sorted, any other keeps the order of arrival.
AddTask(q, d, op, ks) ==
    LET s == q[d][op]
        all == Range(s) \cup Range(ks)
        n == Len(s) + Len(ks)
        sorted == {r \in [1..n -> all] :
                      Range(r) = all /\ \A i, j \in 1..n : i < j => Before(r[i], r[j])}
    IN  {[q EXCEPT ![d][op] = r] :
            r \in IF IsScheduled(d, op) THEN sorted ELSE {s \o ks}}

\* An entry keeps its ready event until it is taken for the first time.
EventReady(d, op, k) ==
    op = Head(QueueList(d, TensorOf(k))) => TensorOf(k) \in ready_event[d]

\* The conditions under which getTask() does not skip an entry.
EligibleBelowCredits(d, op, k) ==
    /\ EventReady(d, op, k)
    /\ IsScheduled(d, op) => Length[k] < credits[d]
    /\ HasTable(d, op) => ready_table[d][TableOf(op)][k] = ReadyCount(TableOf(op))

Eligible(d, op, k) ==
    /\ EventReady(d, op, k)
    /\ IsScheduled(d, op) => Length[k] <= credits[d]
    /\ HasTable(d, op) => ready_table[d][TableOf(op)][k] = ReadyCount(TableOf(op))

\* getTask() returns k.
GetTask(d, op, k) ==
    \E i \in DOMAIN sq[d][op] :
        /\ sq[d][op][i] = k
        /\ Eligible(d, op, k)
        /\ \A j \in 1..i - 1 : ~Eligible(d, op, sq[d][op][j])

NoTask(d, op) == \A k \in Range(sq[d][op]) : ~Eligible(d, op, k)

\* What getTask leaves: the queues, and the table whose count it has cleared.
TakenFirst(d, op, k) == [sq EXCEPT ![d][op] = Tail(@)]
Taken(d, op, k) ==
    [sq EXCEPT ![d][op] = RemoveAt(@, CHOOSE i \in DOMAIN @ : @[i] = k)]
KeepReadyCount(d, op, k) == UNCHANGED ready_table
ClearReadyCount(d, op, k) ==
    ready_table' = IF HasTable(d, op)
                   THEN [ready_table EXCEPT ![d][TableOf(op)][k] = 0]
                   ELSE ready_table

\* The credits that a finished stage returns.
ReportFinishAnyStage(d, op, k) ==
    credits' = IF IsScheduled(d, "REDUCE")
               THEN [credits EXCEPT ![d] = @ + Length[k]] ELSE credits
ReportFinish(d, op, k) ==
    credits' = IF IsScheduled(d, op)
               THEN [credits EXCEPT ![d] = @ + Length[k]] ELSE credits

\* FinishOrProceed: q are the queues once task k was taken.
FinishOrProceed(d, k, q) ==
    LET t == TensorOf(k)
        rest == Tail(queue_list[d][k])
        last == counter[d][t] + 1 = Len(KeyList[t])
    IN  /\ queue_list' = [queue_list EXCEPT ![d][k] = rest]
        /\ ReportFinish(d, Head(queue_list[d][k]), k)
        /\ IF rest # <<>>
           THEN /\ sq' \in AddTask(q, d, Head(rest), <<k>>)
                /\ UNCHANGED <<counter, step_cnt>>
           ELSE /\ sq' = q
                /\ counter' = [counter EXCEPT ![d][t] = @ + 1]
                /\ step_cnt' = IF last THEN [step_cnt EXCEPT ![d][t] = @ + 1]
                                       ELSE step_cnt
        /\ UNCHANGED <<ready_event, enqueued>>

Abort(check) ==
    /\ aborted' = check
    /\ UNCHANGED <<taskVars, signalVars, ncclVars, calls, dataVars>>

\* A thread of a machine on which no check has failed.
Alive(A) == aborted = "no" /\ A /\ UNCHANGED machine

-----------------------------------------------------------------------------
(* Buffers.                                                                *)

\* A contribution to a sum that is not this machine's.
Servers == -1

Plain(sum) == [sum |-> sum, coded |-> FALSE]
Null == Plain({})

\* The step that the task of key k on device d belongs to.
Step(d, k) == enqueued[d][TensorOf(k)]

LocalSum(n) == {<<w, n>> : w \in Switches}
GlobalSum(n) == LocalSum(n)
                   \cup (IF machine.is_distributed THEN {<<Servers, n>>} ELSE {})

-----------------------------------------------------------------------------
Init ==
    /\ machine \in Machines
    /\ queue_list = [d \in Devices |-> [k \in Keys |-> <<>>]]
    /\ sq = [d \in Devices |-> [op \in QueueType |-> <<>>]]
    /\ ready_event = [d \in Devices |-> {}]
    /\ credits = [d \in Devices |-> PartitionBound * machine.credit]
    /\ counter = [d \in Devices |-> [t \in Tensors |-> 0]]
    /\ enqueued = [d \in Devices |-> [t \in Tensors |-> 0]]
    /\ step_cnt = [d \in Devices |-> [t \in Tensors |-> 0]]
    /\ ready_table = [d \in Devices |-> [table \in Tables |-> [k \in Keys |-> 0]]]
    /\ signals = [d \in Devices |-> [table \in Tables |-> [k \in Keys |-> 0]]]
    /\ owed = [d \in Devices |-> [op \in Coordinates |-> NoKey]]
    /\ nccl_msgs = [d \in Devices |-> <<>>]
    /\ nccl_phase = [d \in Devices |-> "REDUCE"]
    /\ nccl_tasks = [d \in Devices |-> <<>>]
    /\ nccl_pipeline = [d \in Devices |-> <<>>]
    /\ synced = [d \in Devices |-> 0]
    /\ calls = [c \in Calls |-> {}]
    /\ cpubuff = [w \in Switches |-> [k \in Keys |-> [i \in Slices |-> Null]]]
    /\ pushed = [k \in Keys |-> [i \in Slices |-> {}]]
    /\ slice = [d \in Devices |-> [k \in Keys |-> Null]]
    /\ aborted = "no"

-----------------------------------------------------------------------------
(* The framework: it enqueues a tensor again once it was called back.      *)

EnqueueTensor(d, t) ==
    /\ enqueued[d][t] = step_cnt[d][t]
    /\ enqueued[d][t] < machine.steps[t]
    /\ enqueued' = [enqueued EXCEPT ![d][t] = @ + 1]
    /\ ready_event' = [ready_event EXCEPT ![d] = @ \ {t}]
    /\ counter' = [counter EXCEPT ![d][t] = 0]
    /\ queue_list' = [queue_list EXCEPT ![d] = [k \in Keys |->
                          IF k \in Range(KeyList[t]) THEN QueueList(d, t) ELSE @[k]]]
    /\ sq' \in AddTask(sq, d, Head(QueueList(d, t)), KeyList[t])
    /\ UNCHANGED <<credits, step_cnt, signalVars, ncclVars, calls, dataVars, aborted>>

\* The event of a gradient fires.
ReadyEvent(d, t) ==
    /\ enqueued[d][t] > step_cnt[d][t]
    /\ t \notin ready_event[d]
    /\ ready_event' = [ready_event EXCEPT ![d] = @ \cup {t}]
    /\ UNCHANGED <<queue_list, sq, credits, counter, enqueued, step_cnt,
                   signalVars, ncclVars, calls, dataVars, aborted>>

-----------------------------------------------------------------------------
(* Signals to a root, and from the root.                                   *)

Send(receivers, table, k) ==
    signals' = [d \in Devices |->
                   IF d \in receivers THEN [signals[d] EXCEPT ![table][k] = @ + 1]
                                      ELSE signals[d]]

Destination(d, op) == IF op = "COORDINATE_PUSH" THEN Root ELSE SignalRoot(d)

\* RunCoordinateLoopOnce: the task goes to its next queue, then the signal.
Coordinate(d, op) ==
    /\ owed[d][op] = NoKey
    /\ \E k \in Keys :
          /\ GetTask(d, op, k)
          /\ FinishOrProceed(d, k, Taken(d, op, k))
          /\ owed' = [owed EXCEPT ![d][op] = k]
    /\ UNCHANGED <<ready_table, signals, ncclVars, calls, dataVars, aborted>>

SendSignal(d, op) ==
    /\ owed[d][op] # NoKey
    /\ Send({Destination(d, op)}, Coordinated[op], owed[d][op])
    /\ owed' = [owed EXCEPT ![d][op] = NoKey]
    /\ UNCHANGED <<taskVars, ready_table, ncclVars, calls, dataVars, aborted>>

\* startListenThread and RunNonRootCopyListenLoopOnce.
AddReadyCount(d, table, k) ==
    /\ signals[d][table][k] > 0
    /\ IF ready_table[d][table][k] < ReadyCount(table)
       THEN /\ signals' = [signals EXCEPT ![d][table][k] = @ - 1]
            /\ ready_table' = [ready_table EXCEPT ![d][table][k] = @ + 1]
            /\ UNCHANGED <<taskVars, owed, ncclVars, calls, dataVars, aborted>>
       ELSE Abort("ready count exceeded")

-----------------------------------------------------------------------------
(* NCCL.                                                                   *)

NcclTask(op, k) == [op |-> op, key |-> k]
NcclMsg(d, m) == [p \in Devices |-> IF p \in Peers(d) \ {d}
                                    THEN Append(nccl_msgs[p], m) ELSE nccl_msgs[p]]
DoGroup == NcclTask("DO_GROUP", 0)

PhaseSize(d) == Len(SelectSeq(nccl_tasks[d], LAMBDA task : task.op = nccl_phase[d]))

\* RunRootNcclLoopOnce takes a task and tells the other devices of the switch.
RootNcclTake(d) ==
    LET op == nccl_phase[d] IN
    /\ PhaseSize(d) < GroupSize
    /\ \E k \in Keys :
          /\ GetTask(d, op, k)
          /\ sq' = Taken(d, op, k)
          /\ ClearReadyCount(d, op, k)
          /\ credits' = IF IsScheduled(d, op)
                        THEN [credits EXCEPT ![d] = @ - Length[k]] ELSE credits
          /\ nccl_tasks' = [nccl_tasks EXCEPT ![d] = Append(@, NcclTask(op, k))]
          /\ nccl_msgs' = NcclMsg(d, NcclTask(op, k))
    /\ UNCHANGED <<queue_list, ready_event, counter, enqueued, step_cnt, signals,
                   owed, nccl_phase, nccl_pipeline, synced, calls, dataVars, aborted>>

\* It goes on to BROADCAST, and from there to the end of the group.
RootNcclNext(d) ==
    /\ PhaseSize(d) = GroupSize \/ NoTask(d, nccl_phase[d])
    /\ IF nccl_phase[d] = "REDUCE"
       THEN /\ nccl_phase' = [nccl_phase EXCEPT ![d] = "BROADCAST"]
            /\ UNCHANGED <<nccl_msgs, nccl_tasks, nccl_pipeline>>
       ELSE /\ nccl_phase' = [nccl_phase EXCEPT ![d] = "REDUCE"]
            /\ IF nccl_tasks[d] = <<>>
               THEN UNCHANGED <<nccl_msgs, nccl_tasks, nccl_pipeline>>
               ELSE /\ nccl_msgs' = NcclMsg(d, DoGroup)
                    /\ nccl_tasks' = [nccl_tasks EXCEPT ![d] = <<>>]
                    /\ nccl_pipeline' =
                          [nccl_pipeline EXCEPT ![d] = Append(@, nccl_tasks[d])]
    /\ UNCHANGED <<taskVars, signalVars, synced, calls, dataVars, aborted>>

\* getTask(key) finds the task, and scans no entry whose event is not ready.
FindsTask(d, op, k) ==
    \E i \in DOMAIN sq[d][op] :
        /\ sq[d][op][i] = k
        /\ \A j \in 1..i : EventReady(d, op, sq[d][op][j])

\* What the signal root has announced is what the device calls next.
NextCallAnyKey(d) ==
    LET m == Head(nccl_msgs[d]) IN
    IF m = DoGroup \/ sq[d][m.op] = <<>> THEN m ELSE NcclTask(m.op, Head(sq[d][m.op]))
NextCall(d) == Head(nccl_msgs[d])

\* RunNonRootNcclLoopOnce follows the signal root of its switch.
NonRootNccl(d) ==
    /\ nccl_msgs[d] # <<>>
    /\ LET task == NextCall(d) IN
       IF task = DoGroup
       THEN /\ nccl_tasks' = [nccl_tasks EXCEPT ![d] = <<>>]
            /\ nccl_pipeline' = [nccl_pipeline EXCEPT ![d] = Append(@, nccl_tasks[d])]
            /\ nccl_msgs' = [nccl_msgs EXCEPT ![d] = Tail(@)]
            /\ UNCHANGED <<taskVars, signalVars, nccl_phase, synced, calls,
                           dataVars, aborted>>
       ELSE IF FindsTask(d, task.op, task.key)
       THEN /\ sq' = Taken(d, task.op, task.key)
            /\ nccl_tasks' = [nccl_tasks EXCEPT ![d] = Append(@, task)]
            /\ nccl_msgs' = [nccl_msgs EXCEPT ![d] = Tail(@)]
            /\ UNCHANGED <<queue_list, ready_event, credits, counter, enqueued,
                           step_cnt, signalVars, nccl_phase, nccl_pipeline,
                           synced, calls, dataVars, aborted>>
       ELSE Abort("no task for the key")

\* The events of a group fire once all devices of the switch have launched it.
GroupDone(d) ==
    /\ nccl_pipeline[d] # <<>>
    /\ \A p \in Peers(d) : synced[p] + Len(nccl_pipeline[p]) > synced[d]

\* RunSyncNcclOnce: one task of the oldest group proceeds.
SyncNccl(d) ==
    /\ GroupDone(d)
    /\ LET group == Head(nccl_pipeline[d])
           rest == Tail(nccl_pipeline[d])
       IN  /\ FinishOrProceed(d, group[1].key, sq)
           /\ IF Len(group) = 1
              THEN /\ nccl_pipeline' = [nccl_pipeline EXCEPT ![d] = rest]
                   /\ synced' = [synced EXCEPT ![d] = @ + 1]
              ELSE /\ nccl_pipeline' = [nccl_pipeline EXCEPT ![d] = <<Tail(group)>> \o rest]
                   /\ UNCHANGED synced
    /\ UNCHANGED <<signalVars, nccl_msgs, nccl_phase, nccl_tasks, calls, dataVars, aborted>>

-----------------------------------------------------------------------------
(* Copies and sums in host memory.                                         *)

CopyDevice2Host(d) ==
    /\ \E k \in Keys :
          /\ GetTask(d, "COPYD2H", k)
          /\ cpubuff' = [cpubuff EXCEPT ![SwitchOf(d)][k][SliceOf(d)] =
                             Plain({<<SwitchOf(d), Step(d, k)>>})]
          /\ FinishOrProceed(d, k, Taken(d, "COPYD2H", k))
    /\ UNCHANGED <<signalVars, ncclVars, calls, pushed, slice, aborted>>

\* The root of the slice adds the first switch's buffer to its own.
PcieReduce(d) ==
    /\ \E k \in Keys :
          /\ GetTask(d, "PCIE_REDUCE", k)
          /\ ClearReadyCount(d, "PCIE_REDUCE", k)
          /\ IF IsReducerRoot(d)
             THEN /\ cpubuff' = [cpubuff EXCEPT ![Back][k][SliceOf(d)].sum =
                                     @ \cup cpubuff[0][k][SliceOf(d)].sum]
                  /\ UNCHANGED signals
             ELSE /\ Send({ReducerRoot(d)}, "PCIE_REDUCE", k)
                  /\ UNCHANGED cpubuff
          /\ FinishOrProceed(d, k, Taken(d, "PCIE_REDUCE", k))
    /\ UNCHANGED <<owed, ncclVars, calls, pushed, slice, aborted>>

\* CopyHost2Device; the root tells the others before it copies.
CopyHost2Device(d) ==
    /\ \E k \in Keys :
          /\ GetTask(d, "COPYH2D", k)
          /\ ClearReadyCount(d, "COPYH2D", k)
          /\ Send(IF d = Root THEN Devices \ {Root} ELSE {}, "COPYH2D", k)
          /\ slice' = [slice EXCEPT ![d][k] = cpubuff[Back][k][SliceOf(d)]]
          /\ FinishOrProceed(d, k, Taken(d, "COPYH2D", k))
    /\ UNCHANGED <<owed, ncclVars, calls, cpubuff, pushed, aborted>>

-----------------------------------------------------------------------------
(* The root: compression in the thread pool, push and pull in ps-lite.     *)

HostSum(k) == [i \in Slices |-> cpubuff[Back][k][i].sum]

\* A loop of the root takes a task and leaves it to another thread.
Call(op) ==
    /\ \E k \in Keys :
          /\ GetTask(Root, op, k)
          /\ sq' = Taken(Root, op, k)
          /\ ClearReadyCount(Root, op, k)
          /\ calls' = [calls EXCEPT ![op] = @ \cup {k}]
    /\ UNCHANGED <<queue_list, ready_event, credits, counter, enqueued, step_cnt,
                   signals, owed, ncclVars, dataVars, aborted>>

\* RunPushLoopOnce without servers: a dummy barrier.
DummyBarrier ==
    /\ ~machine.is_distributed
    /\ \E k \in Keys :
          /\ GetTask(Root, "PUSH", k)
          /\ ClearReadyCount(Root, "PUSH", k)
          /\ FinishOrProceed(Root, k, Taken(Root, "PUSH", k))
    /\ UNCHANGED <<signals, owed, ncclVars, calls, dataVars, aborted>>

Return(op, k) ==
    /\ k \in calls[op]
    /\ calls' = [calls EXCEPT ![op] = @ \ {k}]
    /\ FinishOrProceed(Root, k, sq)

\* The compressor's job restores the count that its own getTask has cleared.
RestoredCount == machine.local_size - 1

CompressJob(k) ==
    IF machine.reset_returns
    THEN /\ Return("COMPRESS", k)
         /\ pushed' = [pushed EXCEPT ![k] = HostSum(k)]
         /\ ready_table' = [ready_table EXCEPT ![Root]["PUSH"][k] = RestoredCount]
         /\ UNCHANGED <<signals, owed, ncclVars, cpubuff, slice, aborted>>
    ELSE k \in calls["COMPRESS"] /\ Abort("SetReadyCount does not return")

\* The servers have a push: of the compressor's buffer, or of the host's.
PushDone(k) ==
    /\ Return("PUSH", k)
    /\ pushed' = IF HasCompressor(TensorOf(k)) THEN pushed
                 ELSE [pushed EXCEPT ![k] = HostSum(k)]
    /\ UNCHANGED <<signalVars, ncclVars, cpubuff, slice, aborted>>

\* The answer adds what the other machines have pushed.
PullDone(k) ==
    /\ Return("PULL", k)
    /\ cpubuff' = [cpubuff EXCEPT ![Back][k] = [i \in Slices |->
                       [sum |-> pushed[k][i] \cup {<<Servers, Step(Root, k)>>},
                        coded |-> HasCompressor(TensorOf(k))]]]
    /\ UNCHANGED <<signalVars, ncclVars, pushed, slice, aborted>>

DecompressJob(k) ==
    /\ Return("DECOMPRESS", k)
    /\ cpubuff' = [cpubuff EXCEPT ![Back][k] = [i \in Slices |-> Plain(@[i].sum)]]
    /\ UNCHANGED <<signalVars, ncclVars, pushed, slice, aborted>>

-----------------------------------------------------------------------------
(* The threads of a device (byteps_lazy_init).                             *)

Framework(d, t) == Alive(EnqueueTensor(d, t) \/ ReadyEvent(d, t))
CoordinateLoop(d, op) == Alive(Coordinate(d, op) \/ SendSignal(d, op))
Listen(d, table, k) == Alive(AddReadyCount(d, table, k))
NcclLoop(d) == Alive(IF IsSignalRoot(d) THEN RootNcclTake(d) \/ RootNcclNext(d)
                                        ELSE NonRootNccl(d))
SyncNcclLoop(d) == Alive(SyncNccl(d))
CopyDevice2HostLoop(d) == Alive(CopyDevice2Host(d))
PcieReduceLoop(d) == Alive(PcieReduce(d))
CopyHost2DeviceLoop(d) == Alive(CopyHost2Device(d))
CallLoop(op) == Alive(IF op = "PUSH" /\ ~machine.is_distributed
                      THEN DummyBarrier ELSE Call(op))
CallReturns(k) == Alive(CompressJob(k) \/ PushDone(k) \/ PullDone(k) \/ DecompressJob(k))

\* The threads that work only when they have something to do; the loop over
\* NCCL groups of a signal root also goes round without a task.
Device(d) ==
    \/ \E t \in Tensors : Framework(d, t)
    \/ \E op \in Coordinates : CoordinateLoop(d, op)
    \/ \E table \in Tables, k \in Keys : Listen(d, table, k)
    \/ SyncNcclLoop(d)
    \/ CopyDevice2HostLoop(d)
    \/ PcieReduceLoop(d)
    \/ CopyHost2DeviceLoop(d)

RootCalls ==
    \/ \E op \in Calls : CallLoop(op)
    \/ \E k \in Keys : CallReturns(k)

Next ==
    \/ \E d \in Devices : Device(d) \/ NcclLoop(d)
    \/ RootCalls

Spec == Init /\ [][Next]_vars

\* Every loop is a thread, ps-lite and the thread pool answer, and the
\* framework enqueues its tensors on all devices.  Work is finite, so one
\* condition for it is as good as one for each thread; only the loop of a
\* signal root can go on for ever.
Work == RootCalls \/ \E d \in Devices : Device(d)

MaxLocalSize == Max({m.local_size : m \in Machines})

FairSpec ==
    /\ Spec
    /\ WF_vars(Work)
    /\ \A d \in 0..MaxLocalSize - 1 : WF_vars(d \in Devices /\ NcclLoop(d))
=============================================================================
