# DeepINC in TLA+

DeepINC is a parameter server and a worker library for distributed training.
Workers push the gradients of a tensor, partition by partition, to servers; a
server sums what all workers pushed in a round, and the workers pull the sum.
This directory holds a model of it in TLA+, configurations for TLC, and proofs
for TLAPS. File names below are relative to `deep_inc/`.

## The system

| Component | State | Operations | Hard behaviour | What makes it correct |
|---|---|---|---|---|
| Server (`server/server.cc`, `server.h`, `msg.h`) | `store_`, `update_buf_`, `compressor_map_`, `hash_cache_`, `acc_load_`, the engine queues, the flags of a key (`is_push_finished_`, `pull_cnt_`, `seen_sender_`, `q_pull_reqmeta_`) | `DeepIncServerHandle` (init push, registration, push, pull), `DeepIncServerEngineThread`, `start_server` | handler against engine threads; rounds of several workers; answers without a copy; shutdown | an answer is the sum of its round, or known to be overtaken; each pull answered once; threads end |
| PriorityQueue (`server/queue.h`) | the heap, the push counts | `Push`, `WaitAndPop`, `ClearCounter` | the counts that order the heap change under it | order within a key |
| ScheduledQueue (`common/scheduled_queue.*`) | the sorted tasks, the credits | `addTask`, `getTask`, `getTask(key)`, `reportFinish`, `reset` | credits taken in one stage and returned in a callback | no task starves; credits balance |
| ReadyTable (`common/ready_table.*`) | ready counts | `Add`, `Set`, `Clear`, `IsKeyReady` | signals of a key that arrive before the task was taken | a count never exceeds the devices |
| Core loops (`common/core_loops.*`) | a thread per stage | the `Run...LoopOnce` functions, `FinishOrProceed` | a root and its devices coordinate by messages | every device runs the NCCL calls in one order; the callback fires once |
| Operations (`common/operations.*`) | contexts of tensors | `InitTensor`, `EnqueueTensor`, `PartitionTensor` | shutdown while tasks are queued | partitions cover the tensor; every enqueue calls back |
| BytePSGlobal (`common/global.*`) | all of a worker's tables: contexts and their order of declaration, the key cache, the loads of the servers, the loop threads | `Init`, `Start`, `Shutdown`, `IsTensorDeclared`, `ReDeclareTensor`, `EncodeDefaultKey`, the hash functions | deletion while callbacks run; state that survives a suspend | all processes give a partition one key and one server, in every epoch; no thread uses what is deleted |
| Communicator (`common/communicator.*`) | sockets | send, broadcast and receive of signals, the root's listening thread | lost order between two sockets; a send before the other's socket exists; receives that time out | the root sees every signal, of this life only; a receiver ends at a shutdown |
| NcclManager (`common/nccl_manager.*`) | group entries | `EnqueueGroup`, `DequeueGroup` | order of groups | groups finish in order |
| CpuReducer (`common/cpu_reducer.*`) | none | `sum`, `copy` | numeric | — |
| Compressors (`common/compressor/`) | error, momentum, the buffer of the server's compressor | `Compress`, `Decompress`, `UpdateGradient`, `FastUpdateError` | the error carried over rounds; codes without delimiters; sizes that differ between partitions | what is not sent is kept; a reader reads what was written; the length that travels is the message's |
| ThreadPool (`common/thread_pool.h`) | tasks, stop flag | `enqueue`, destructor | jobs that outlive the loops | queued tasks run, on queues that exist |
| SharedMemory, logging, half, common types | — | — | — | encoding and decoding of commands agree |
| Torch plugin (`torch/`) | handles | `HandleManager` | callback against poll | a handle is released once |
| Launcher, Docker, `setup.py` | — | start processes | — | — |
| ps-lite | external (empty submodule) | delivery, `Wait`, `Finalize` | reordering between keys and senders | — |

How they interact: a worker's `EnqueueTensor` makes one task per partition, each
with a list of stages; a loop thread per stage takes a task from the stage's
queue, and `FinishOrProceed` hands it to the next. The PUSH and PULL loops of
the root device call ps-lite, which calls the server's handler. The handler
holds `handle_mu_`, so requests are handled one at a time; it hands the summing
to engine threads through their queues, and both sides decide when a pull is
answered through the flags of the key under `flag_mu_`.

## Modules

| Module | What it is |
|---|---|
| `Server` | the server with its workers as the environment, for one element of the tensor of each key |
| `ServerProperties` | what it promises: type, safety, the refinement, liveness |
| `AllReduce` | the abstract specification: an all-reduce with a barrier, for one element |
| `ServerTensor` | the server over tensors whose parts are written and sent one after the other; each part implements `Server` |
| `ServerTensorProperties` | what a worker may rely on of a whole tensor |
| `ServerInvariant` | the inductive invariants of `Server` |
| `MCServer`, `MCServerTensor` | values of the constants for TLC |
| `ServerProof` | type correctness, the load of the threads, async mode; the inductive invariant `Accounting`, and the safety properties that follow from it |
| `ServerContentProof` | the inductive invariant `Contents`: what a round sums, what a pull returns, and the refinement |
| `WorkerPipeline` | the devices of one worker machine: queues, tables, signals, loops, buffers |
| `WorkerPipelineProperties` | what the devices promise each other |
| `WorkerPipelineProof` | the inductive invariant of the pipeline: types, one place for each task, the balance of credits |
| `WorkerSignalsProof` | the inductive invariant of the signals between devices; that no check fails; the order of NCCL calls |
| `WorkerDataProof` | the inductive invariant of the buffers; what is pushed, and what a callback finds |
| `MCWorkerPipeline` | the machines and training runs for TLC |
| `PriorityQueue`, `MCPriorityQueue` | the queue of an engine thread, as a heap and as a FIFO queue |
| `KeyAssignment` | how the processes of a job come to the same keys, partitions and servers, through epochs of suspend and resume |
| `Hashing` | the hash functions from keys to servers, on unsigned 64-bit words |
| `KeyAssignmentProperties`, `MCKeyAssignment` | what the processes rely on, and a job for TLC |
| `KeyAssignmentProof` | distinct keys, partitions that tile, the abort of mixed mode; that processes agree on keys, partitions and servers |
| `Lifecycle` | the processes of one machine through Init, Shutdown, suspend and resume: loops, sockets, requests, handles |
| `LifecycleProperties`, `MCLifecycle` | what a framework may rely on, and a machine for TLC |
| `LifecycleProof` | no loop uses a deleted queue; a released handle stays released; waiting suffices; a push is of all devices |
| `Compressors` | the four compressors, the codes of dithering, sizes and commands, as operators |
| `Compression` | a partition that travels compressed: workers, decorators, lengths, the server's compressor |
| `CompressionProperties`, `MCCompression` | what the workers rely on, and the settings for TLC |
| `CompressionProof` | commands, lengths and sizes |

`ServerTensor` takes the handler and the locks from `Server` (`Control`). The
other modules share no variables. Where two describe the same code, one of them
reduces it to its outcome: `Server` knows the content of a buffer as a set of
contributions and `Compression` as numbers; `WorkerPipeline` has all the stages
of a task in one life and `Lifecycle` those that wait for others in several;
and both take the keys that `KeyAssignment` shows to be agreed on.

### `Server` and the code

* The module follows *one element* of the tensor of each key. The engine
  threads copy and sum without a lock (`server.cc:161`, `:205`) while ps-lite
  may send the same memory (`:61`, `:73`), so no more than an element is read
  or written in one step. Whole tensors are in `ServerTensor`.
* An element is the *set of contributions* `<<worker, round>>` summed in it.
  `COPY_FIRST` sets it to one contribution, `SUM_RECV` adds one. Round 0 is the
  content of the init push. A worker makes one push per round, so a set is as
  good as a bag. `{}` is a buffer not allocated. `Encode` marks contributions
  that are in a compressor's code: what a compressed key is answered with, and
  what its push consists of until it is decompressed (`:143`). Async mode adds
  the bytes of a message as they are (`:360`), so of a compressed key `AsyncSum`
  adds the code (`AsPushed`).
* `cbuf[k]` is what the buffer of the key's compressor has of the element:
  the code of the last sum, or the gradient that was decompressed last.
* `merged[k]` is the pointer `update_buf_[key].merged.tensor`: null, the stored
  tensor itself (`server.cc:153`) or the compressor's output buffer (`:134`).
  An answer is built over that pointer without a copy (`:61`, `:73`), so the
  content is read in the action `Receive`, when ps-lite sends it, and not when
  the handler answers.
* The handler runs under `handle_mu_`: each branch is one action
  (`HandleInitPush`, `HandleRegister`, `HandlePush`, `HandlePushAsync`,
  `HandlePull`, `HoldPull`), and `PullAborts` is the failed `CHECK`s and the use
  of a missing flag vector, each with its own value of `aborted`.
* An engine thread executes a message in one action, except `ALL_RECV`, in
  which the write of `merged` (`:123-156`) comes before the lock (`:167`):
  `EngineAllRecv` and `EngineFinishRound`, with the handler free to run between.
* The vectors `is_push_finished_[tid][key]` and the rest are indexed by thread
  and key; a key keeps its thread, so the model indexes them by key.
  `NumFlagSlots` is the length of the vectors. It is 0 in the code, which gives
  them no size anywhere: the run `server_flags` has this value and ends at the
  first use of a flag. The other runs give each thread a slot, to check the
  protocol that the flags are for, and the theorems take any number.
* `Finalize` is `ps::Finalize`, which waits for the workers, with the deletions
  and the `TERMINATE` messages after it. `LeaveEarly` says whether workers may
  leave with a round outstanding; `BytePSGlobal::Shutdown` (`global.cc:356`)
  does not wait for its tasks, so the code allows both.
* `is_engine_blocking_` is false and never written: its branches are left out,
  as are the debug output and the key log.
* `epoch` is a history variable: the `ALL_RECV` messages done for a key.
* That a code fits its message (`CHECK_LE` of `:140`) is in `Compression`.

### `ServerTensor` and the code

* A tensor has `Parts`, any finite number. `WritePart` is `COPY_FIRST` or
  `SUM_RECV` of one part, in any order, since `CpuReducer` copies and sums in
  parallel; `CompressPart` is the compressor's output; `SendPart` is ps-lite
  sending a part of an answer out of `merged.tensor`. All of them interleave:
  nothing in the code keeps a thread from a buffer that is being sent.
* The handler, the locks, the lists and the shutdown are `Server`'s, by the
  instance `Control`, which sees of a buffer only whether it is allocated.
* `Followed` is any one of the parts. `Element` is the refinement mapping: a
  part's server has done a message when the part is written, and its worker has
  the answer when the part is sent, whatever the other parts do.
  `ImplementsServer` says that this is a behaviour of `Server`, which is why
  the invariants and theorems about `Server` speak of every element.

### `PriorityQueue` and the code

`Push`, `WaitAndPop` and `ClearCounter` are the three critical sections of
`queue.h`. `push_heap` and `pop_heap` are the algorithms of libstdc++ (a hole
that sinks along the first child to a leaf, then a rise), because the outcome on
a vector that is no heap depends on them. The handler's two calls at the end of
a round (`server.cc:422-423`) are separate actions. The engine is reduced to
which message it takes. The constructor's `make_heap` is of an empty vector.

### `WorkerPipeline` and the code

A worker machine runs a process per device. A partition of a tensor is one task
in each process, and its list of stages (`GetPushQueueList`, then
`GetPullQueueList`) depends on the device's role.

* `machine` is chosen in `Init`: the environment that `BytePSGlobal::Init` and
  `InitGlobalEnv` read once (number of devices, devices per PCIe switch,
  whether there are servers, scheduling credits) and two entries that are not
  of the code. `machine.steps[t]` bounds how often `t` is enqueued.
  `machine.reset_returns` is the outcome of `SetReadyCount`
  (`ready_table.cc:44`), which should return an `int` and has no return
  statement; the runs take it as returning.
* `queue_list`, `sq`, `credits`, `ready_table` are the fields of those names;
  `counter` is `counter_ptr`. A key is in the variables of every device, so
  `sq[d][op]` needs only keys. `Eligible` is what `getTask` does not skip, and
  `GetTask` picks the first such entry. `FinishOrProceed` is the function of
  that name, `BytePSScheduledQueue::reportFinish` and the `addTask` that it
  ends with included.
* A coordinate loop hands the task on and *then* signals: `Coordinate` and
  `SendSignal`, with `owed` between them. Signals to a root are counted, not
  queued: a root does nothing with one but `AddReadyCount`, and additions
  commute. `nccl_msgs` is a sequence, because its order matters.
* The signal root's NCCL loop takes up to `GroupSize` tasks of REDUCE and of
  BROADCAST (`RootNcclTake`, `RootNcclNext`) and announces each; the others
  take what was announced (`NonRootNccl`). NCCL is external: a group ends when
  every device of the switch has launched it. `SyncNccl` hands on one task of
  the oldest group that ended.
* `Call` is a loop of the root that gives a task to ps-lite or to the thread
  pool; `PushDone`, `PullDone`, `CompressJob` and `DecompressJob` are the
  callbacks and the jobs. `ZPush` gets the shared buffer, not a copy
  (`core_loops.cc:643`), so what is pushed is read in `PushDone`.
* `EnqueueTensor` adds all partitions in one action: no thread tells a device
  whose queue has some of them from one that is slower. The framework is
  external: `torch/ops.cc` is empty, and nothing under `deep_inc/` calls
  `EnqueueTensor` or the two functions of queue lists. The model assumes what
  the counters and buffers of a context need: a tensor is enqueued again only
  after its callback, with the push list followed by the pull list.
* A buffer holds the set of the gradients summed in it; `<<w, n>>` is the
  gradient that the devices of switch `w` reduced at step `n`, and `Servers`
  stands for the other machines. `coded` says that it is still compressed.

### `KeyAssignment`, `Hashing` and the code

* A worker here is the root process of a machine: the one that pushes. A job is
  a sequence of *epochs*: all processes start (`byteps_init`, or
  `byteps_resume`), declare and initialise the first tensors of the program,
  and leave (`BytePSGlobal::Shutdown`). Between epochs (`NextEpoch`) the
  scheduler of the job, which is external, replaces some processes by new ones
  and starts another number of servers. What `Shutdown` resets and what it
  forgets to reset is in the two actions `Shutdown` and `Start`.
* `Declare` is `IsTensorDeclared` with `RegisterCompressor`; `Redeclare` is one
  round of the loop of `ReDeclareTensor`. `InitPush` is one blocking push of
  `InitTensor`, with `EncodeDefaultKey` in it, and `InitAnswered` its return,
  when the same push of all workers has reached one server: that is the barrier
  of `server.cc:309`, modelled in full in `Server`.
* `partition_bytes` and `reduce_roots` survive a suspend and are changed again
  by the next `Start`, as in `Init`.
* The hash functions work on unsigned 64-bit words, kept as four limbs of 16
  bits because TLC's integers have 32. `Hash_DJB2` and `Hash_SDBM` read the
  characters of a string that no longer exists (`global.cc:691`);
  `cluster.kept` is the outcome: the characters are still there, or every call
  may give any server; the run takes them as there, for otherwise a push may
  wait for ever. `Hash_Mixed_Mode` keeps the wrap-around of its unsigned
  difference and the division by zero of a single worker. The `built_in`
  function (`std::hash` of the library) is left out.
* Lengths and offsets are natural numbers without a width.

### `Lifecycle` and the code

* A process per device, with one tensor of one partition. `stage` is where the
  main thread is in `Init` or `Shutdown`: the sockets are bound, the NCCL id is
  sent and received, NCCL is initialised by all processes together, `Start` has
  started the loops; then the loops are joined and the queues deleted, `ps` is
  finalized and the tables deleted, the sockets closed.
* `manner` says how the framework, which is external, suspends: *together*,
  when its handles are done and all processes of the machine resume only after
  all have left; *alone*, when its handles are done, each process for itself;
  *hasty*, with handles that are not done. `byteps_suspend` permits all three.
* A task has the stages of `GetPushQueueList` and `GetPullQueueList` up to
  BROADCAST; of a device that is not the root, with COORDINATE_REDUCE,
  COORDINATE_PUSH and COORDINATE_BROADCAST, whose loops signal REDUCE_READY,
  PUSH_READY and BCAST_READY to the root's ready tables. REDUCE and BROADCAST
  share the NCCL loop of a device and its order of groups. COPYD2H is left out,
  because it waits for nobody. The handle of a task is `HandleManager`'s; the
  callback, `MarkDone`, comes after the last stage, BROADCAST.
* `aborted` names the use or check that ends a process: `loop`, a loop thread
  uses a deleted queue; `call`, the callback of a request or a pool job does;
  `table`, a signal finds its ready table deleted, `early`, not yet created;
  `count`, a ready count is exceeded; `task`, an announced task is not in the
  queue; `id`, a signal of the wrong length is received.
* A loop thread ends between two iterations. `EndIdle` ends in one step all the
  loops that have nothing to do: a loop without work reads the flag and
  returns, and whether it did so before or after another one shows only when a
  task or a message comes. `EndBusy` ends a loop that leaves a task in its
  queue.
* The thread pool is taken to exist (`BYTEPS_THREADPOOL_SIZE`,
  `global.cc:235`).

### `Compressors`, `Compression` and the code

* A vector is a sequence of integers in a unit so small that the divisions of
  the compressors are `\div`. A message is what the decompressor needs to know:
  the kept pairs of top-k and random-k, the signs and the scale of onebit, and
  for dithering the *sequence of bits* with its Elias-delta codes, which the
  reader takes apart again. Where the result depends on random numbers or on
  the order of equal elements in a heap, `Compress` gives the set of all
  messages.
* Sizes are in words of `Packing` bits, one element each, as they are for
  32-bit floats. `SizeOf` is what `Compress` returns, `K` what `k` becomes
  after alignment.
* The worker's stages are COMPRESS, PUSH, PULL and DECOMPRESS with the length
  of the key cache (`pskv`), which `EncodeDefaultKey` sets and ps-lite's
  answers overwrite. The server decompresses, sums and, with the last push,
  compresses into the buffer that it answers from; its threads are those of
  `Server`, and a push goes through them in one step.
* Error feedback and momentum are the decorators around the compressor, with
  the learning rates that `VanillaErrorFeedback` reads from a file.
* `gradients`, `decoded` and `answers` are history variables. The conversion of
  NaN to an unsigned number (`dithering.cc:91`, the zero vector) gives 0, as on
  x86-64.

## Runs

| Run | Shows | Bounds |
|---|---|---|
| `server_sync` | the safety properties of sync mode, that the server implements `AllReduce` in every element, and liveness: every request is answered, the threads end | 3 workers that may leave early, 1 compressed key, 3 rounds, 1 thread |
| `server_async` | async mode: the threads are balanced; an acknowledged push of a key without compressor stays in the buffer; the first pull ends the process | 2 workers, a compressed and a plain key, 2 threads, 2 rounds |
| `server_flags` | (violated) with vectors of flags as the code has them, a pull or a finished round finds no flag | 2 workers, 1 round, 0 flag slots |
| `server_tensor` | every part of a tensor behaves as `Server` says; an answer is whole if no push of the next round was handled before it was received | 2 workers that may leave early, 1 compressed key of 2 parts, 2 rounds |
| `server_exact` | (violated) an answer may hold, in some of its parts, the next round | 2 workers, 1 plain key of 2 parts, 2 rounds |
| `queue` | the order within a key where the code keeps it | 2 keys, 3 workers, 2 rounds, both modes |
| `queue_order` | (violated) two keys, scheduled: the order is lost | 1 round of 3 pushes |
| `pipeline` | no check fails; NCCL order; a task is in one place; nobody writes what is pushed; credits balance; a callback has the result of its step; training finishes | eight machines, see below |
| `pipeline_pcie` | (violated) with two PCIe switches a callback may have the next step's data | 2 devices, 2 switches, 1 tensor twice |
| `keys` | processes agree on keys, in all epochs and after any replacement; pushes of a partition, and no others, meet at a server; the reduce roots agree; mixed mode fails as its message says; tasks are as initialised; every epoch ends | 2 workers with 1 and 2 devices, 2 tensors, 6 clusters, 3 epochs |
| `lifecycle` | no loop uses a deleted queue; what a framework that waits is safe from; a push is of all devices; suspend, resume and handles end | 2 devices, a compressed tensor; waiting: 3 lives of 2 steps, hasty: 1 life of 1 step |
| `compression` | error feedback loses nothing at workers and server; without it, what is read is near what was sent; answers are read as made; lengths and sizes | 2 workers, 2 rounds, 90 settings, words of 8 bits, partitions of 1 to 8 elements |

Why the bounds are enough: the server. A worker is at most one round ahead of
another (`Barrier`, proved for all constants), so two rounds show every
overlap, the third that the flags are clean again after being cleared twice.
Three workers tell first, middle and last apart; two leave no middle. Keys
share nothing but the load of the threads and, on one thread, the order of its
queue, which the theorems cover for any number of keys and threads;
`server_async` has two keys for the load and `queue` two for the order. A
compressed key has all the buffers that a plain one has. Two parts of a tensor
are enough for an answer with parts of two rounds, and each further part is
another `Followed`. The heap needs a parent, two children and a key that
changes its count. `MaxRound` bounds the pushes and is the only bound on the
behaviour; at the bound workers stop, and the server is then finalized.

Why the bounds are enough: the pipeline. `Init` chooses among eight machines, so
that one run covers the roles a device can have:

| Devices / switches | Servers | Credits | Enqueued | What it adds |
|---|---|---|---|---|
| 2 / 1 | yes | 1 partition | `t1` twice | compression, COMPRESS and PUSH on one table, two partitions, credits that hold back one of them, a step on the heels of the other |
| 2 / 1 | yes | 2 partitions | `t2`, `t3` | priorities in the scheduled queue against the order of the other device's queue, push and pull of two tensors |
| 2 / 1 | no | off | `t2` twice, `t3` | NCCL alone; tensors enqueued in different orders, one a step ahead |
| 2 / 2 | no | off | `t2` twice | PCIE_REDUCE, the dummy barrier, consecutive steps |
| 2 / 2 | yes | off | `t1` once | the same with push, pull and compression |
| 3 / 1 | yes | off | `t2` twice | switches of two are unbalanced and taken as one; a count that two devices fill, one ahead of the other |
| 4 / 2 | no | off | `t2` once | signal roots, reducer roots and the root are different devices; two slices |
| 1 / 1 | yes | off | `t1`, `t2` | a device that is every root and waits for nobody |

Tensor `t1` has two partitions, of different lengths, and a compressor; `t2`
and `t3` have one partition, and `t2` goes first. A group has at most two
tasks. Two steps show everything that steps can do to each other, since a
tensor is enqueued only after its callback. `CallbackIsComplete` is stated for
one switch; `CallbackIsCompleteAcrossPcie`, its counterpart, is what
`pipeline_pcie` refutes.

Why the bounds are enough: the keys. The two workers have machines with
different numbers of devices, so their partition bounds differ unless the
roundings meet. The first tensor has two partitions, the second is too small to
be compressed. Three epochs are what a resumed process needs to meet a new one
twice, the second time with a bound that was rounded and roots that were
appended twice. The clusters change the number of servers and the hash
function; mixed mode has two clusters that it accepts and one that it
refuses.

Why the bounds are enough: the life. A root and another device are all the
roles that a device of one switch has. Two steps in a life show a step on the
heels of another, and the third life that what the second has left is not taken
up by it. A hasty framework has by far the most behaviours and gets one step in
one life: it is there for what only it meets, a suspend with a task under way.
What such a task does in a later life is not covered; of a framework that
waits, the run shows that there is none.

Why the bounds are enough: compression. An error is carried from the first
round to the second, with a rate that changes between the two. Eight elements
are one word of onebit, fewer a part of it, and the lengths of top-k include
the ones at which `k` becomes zero, one, or more than half of the partition.

Deadlock is checked except in `server_sync`, `server_async`, `server_flags`,
`server_tensor` and `server_exact`, where a failed check ends the process, and
in `lifecycle`, where processes stop at `MaxLife` or at an abort: there the
system really stops. In `server_sync` the two liveness properties say what
deadlock would. `keys`, `queue` and `compression` name their end (`Quit`,
`Finish`), and any other stop is reported. Workers are symmetric in
`server_async` and `server_exact`, which have no liveness property. In the
pipeline the loop of a signal root goes round for ever without a task, as in the
code, so a stop of everything else shows as a violation of `TrainingFinishes`
and not as a deadlock.

Each module with operations has its `TypeOK`, but for `ServerTensor`, whose
variables are those of `Server` part by part, and `PriorityQueue`. It is an
invariant of its own in `server_sync`, and elsewhere the first part of the
invariant that says most about the same variables: `HeldOnce`, `KeysAgree`,
`PushOfAllDevices`, `NothingLost` of `Compression`.

### Fairness

`FairSpec` assumes weak fairness of each worker's steps on a key, of the
handler for each request, and of each engine thread. Each is a thread of its
own in the code (the stage loops, ps-lite's receiving thread, the engine
threads) that blocks only on its queue, and ps-lite delivers every message. It
assumes nothing about `Finalize`. The engine's fairness is for all messages at
once: one thread has one queue.

For the pipeline, `FairSpec` assumes weak fairness of each NCCL loop and, with
one condition, of everything else. Each loop is a thread started by
`byteps_lazy_init`, and ps-lite, the thread pool and NCCL finish what they are
given, so the code justifies a condition per thread. The one condition is weaker
and enough: a training run is a finite amount of work, so no thread can keep
another from its turn for ever, except the NCCL loop, which goes round without
work and has a condition of its own.

For the keys, weak fairness of each worker's steps: its main thread. For the
life, of the main thread, the loop threads, the senders, the receivers and the
listening threads, and of the calls that ps-lite, the pool and NCCL complete. A
receive returns at the latest when its time-out of three seconds is over
(`communicator.cc:270`), so a receiver tests the shutdown flag again and again,
and fairness of its end is justified. A framework is taken to go on only if it
is not hasty. `Compression` states no fairness: that it always reaches its end
is the absence of deadlock.

### What the runs found

1. `server_exact`. The answer to a slow worker is read from a buffer that a
   fast worker's next push may overwrite, also while the answer is being sent
   (`server.cc:161` against `:61`): the run ends with an answer of which one
   part is the sum of the round and another a contribution to the next.
   `ElementOfOneRound` and the refinement say how wrong an element can be
   (contributions of other workers to the next round); of a whole tensor only
   `WholeUnlessOvertaken` holds.
2. `server_flags`. `flag_mu_`, `is_push_finished_`, `pull_cnt_`, `seen_sender_`
   and `q_pull_reqmeta_` (`server.h:84-88`) have no element when the first pull
   (`server.cc:447`) or the end of the first round (`:167`) indexes them. As
   the code stands, sync mode has no defined behaviour after that; what the
   other runs show, they show of the code with vectors of a sufficient length.
3. `queue_order`. With `SERVER_ENABLE_SCHEDULE`, the counts change under the
   heap: an `ALL_RECV` can overtake a `SUM_RECV` of its round. `Server`
   therefore models the FIFO queue, the default (`SERVER_ENABLE_SCHEDULE` is
   0).
4. `pipeline_pcie`. With two PCIe switches the result is in the buffer of the
   last one (`operations.cc:386`), and COPYD2H of the next step writes to the
   same buffer (`core_loops.cc:461`). PUSH is a barrier before the copy back to
   the devices, as the comment in `operations.cc:505` says, but nothing is one
   after it: a device of the last switch may finish and start the next step
   while one of the first has still to copy. `PushStable` shows that what is
   *pushed* is never disturbed, because COORDINATE_PUSH comes after the copy to
   the host.

Async mode ends at its first pull, as `AsyncPullsFail` says: `merged.tensor` is
set by engine threads only, which async mode does not start, so
`CHECK(updates->merged.tensor)` (`server.cc:50`) fails.

Some properties hold only under a condition that the code does not enforce, and
say which:

* `AbortsExplained` names two: flag vectors with a slot for each thread
  (`NumFlagSlots`), and workers that leave with no request outstanding.
  `inc_server_` and `inc_reducer_` are deleted before the engine threads have
  ended; `BytePSGlobal::Shutdown` does not wait for its tasks, so a worker may
  leave while the engine threads still have work, and they then use what is
  deleted. `ShutdownQuiescent`, `RequestsAnswered` and `EnginesStop` name the
  same alternatives.
* `AsyncKeepsPushes` is for keys without a compressor. Of a key with one,
  async mode adds the bytes of the messages (`server.cc:360`), and what the sum
  of two codes means is for no decompressor to say.
* `WaitingSuffices` has two exceptions for a framework that waits for its
  handles. A device that is up before the root has created its ready tables may
  signal into a null pointer (`early`); and a process that resumes while
  another one of the machine has not left sends its NCCL id into the other's
  old socket (`id`). Only resuming together rules out the second.
* `LengthsAgree` has one: dithering whose message comes out at exactly the
  length of the partition, which the key cache takes for unchanged while
  ps-lite has overwritten the length behind it (`global.cc:721`).
* `AnswersRead` has one: the buffer of the server's compressor also receives
  the next push (`server.cc:145`), so a worker whose pull comes late may read a
  gradient as a message. It is `server_exact` with a compressor.
* `MixedAbortsAsDocumented` is for two workers at least. With one, the quotient
  of `global.cc:658` is by zero, and mixed mode ends the process for no
  documented reason.

## Proofs

Each module names the assumptions on its constants (`ServerAssumption`,
`PipelineAssumption`, `KeyAssumption`, `LifecycleAssumption`,
`CompressionAssumption`), which say no more than that workers, devices, threads
and bounds exist, that an order of declaration repeats no tensor, that sizes
are positive, and, for the pipeline, that a partition is no longer than the
bound and that two partitions have two keys, which is what `PartsTile` and
`PartitionKeys` prove of the code that makes them. The theorems hold for all
such constants.

* `TypeCorrect` (`ServerProof`): the type invariant, both modes.
* `AccountingCorrect` (`ServerProof`): `Accounting` is inductive in
  sync mode. It describes everything relative to `epoch[k]`, the rounds that
  the engine has finished. A worker is *counted* (its push of round `epoch[k] +
  1` is handled), *late* (it has still to pull round `epoch[k]`) or *between*.
  Then `request` holds the counted workers; the flag is set exactly while
  somebody is late, and `seen_sender` holds those that are not; an `ALL_RECV`
  means that all are counted and is the last message of its key in the queue of
  the key's thread; the queued pushes come from counted workers. None of the
  safety properties is inductive alone: `PullAccounting`, say, needs that a
  closing round has no late worker, which needs `CloseInv`, which needs what
  `request` counts.
* From it: `PullAccountingCorrect`, `BarrierCorrect`, `MergedNotSharedCorrect`,
  `ShutdownCorrect`, and `NoAbort`, which assumes sync mode and nothing of the
  flag vectors or of how workers leave: whatever ends the process is one of the
  failures that `AbortsExplained` names. With the code's empty vectors that is
  the first use of a flag.
* `ContentsCorrect` (`ServerContentProof`): `Contents` is inductive in sync
  mode, given `Accounting`. It says what every buffer holds, as a function of
  who is counted. Once the copy of a round has been taken from the queue, the
  buffer is the sum of the counted workers whose pushes are not queued any
  more; until then all their pushes are queued, the copy before the others, and
  the buffer is the last finished sum (`OrderInv`, `ContentInv`). While the
  engine closes a round the merged tensor is the buffer or a copy of it
  (`ClosedInv`); otherwise an answer is built over the last finished sum, or
  over contributions of counted workers (`AnswerInv`); and round 0 is never
  pushed as a gradient (`StartedInv`). The `ELSE` of `ContentInv` is what makes
  it inductive: `COPY_FIRST` replaces the buffer, which is right only because
  no sum of its round was taken before it.
* From it: `SumCompleteCorrect`, `AnswerCorrect`, which is `ElementOfOneRound`,
  and `AllReduceImplemented`, the refinement for an element, in which an answer
  may be overtaken by the next round: the handler's push is `Contribute`, a
  worker's receipt of an answer is `Answer`, and every other step (the
  engine's, the flags', the shutdown's) stutters. They assume sync mode; in
  async mode there is no round to agree on. Nothing follows from them about two
  elements of one answer.
* `EngineLoadCorrect` and `AsyncPushesKept` (`ServerProof`): the balance of the
  threads, inductive by itself, in both modes; and in async mode that what an
  acknowledged push of a key without a compressor has added stays in the
  buffer, because the engine threads have nothing to do and the request list
  holds no gradient (`AsyncInv`).
* `PipelineInvariant` (`WorkerPipelineProof`): `IInv` is inductive, for any
  number of devices and switches, any tensors, partitions, priorities and
  credits, and whatever order signals, NCCL groups, copies and calls interleave
  in. For each device `Once` says that a task is at the head of its
  `queue_list` and nowhere else, and that no NCCL group holds a task twice;
  `Balance`, that the credits which are missing are those of REDUCE calls in a
  group; and `Progress`, that a tensor is either called back with all its
  partitions finished or in exactly one step, with `counter_ptr` the number of
  its finished partitions. `Progress` is needed for `Once`: only because
  `EnqueueTensor` finds every partition finished does it put none in a queue
  that it is still in. `Announced` relates the messages of a signal root to the
  group a device puts together: no DO_GROUP arrives before a task of its group,
  so no group is launched empty, without which `RunSyncNcclOnce` would read the
  first task of nothing.
* From it: `TypeCorrect`, `HeldOnceCorrect`, `CreditsCorrect`.
* `SignalsCorrect` (`WorkerSignalsProof`): `SInv` is inductive, given `IInv`,
  for any machine. It counts the rounds of a task at a stage: `Done`, how often
  the device has passed the stage, and `Used`, how often it has taken the task
  for it; both follow from the step of the tensor, the head of `queue_list` and
  the queues. A sender has `Signalled` a table in as many rounds as it has done
  at the stage whose end is the signal, less the one it still owes. `Lowers`
  says that a device uses no signal before it is sent, and `CountsKept` that
  the count of a table, with the signals on their way, is the number of
  `Outstanding` senders, plus what a compression has put back for the push
  (`Restored`). That a sender is never two rounds ahead of the receiver
  (`Upper`) is derived: the next signal of a sender comes after a stage for
  which it needs a signal of the receiver, or is told a task by it. `Followed`
  relates the signal root of a switch to the others: they have taken what it
  has taken, but for the tasks in their messages, each announced once.
* `AbortsNever` (`WorkerSignalsProof`): from both, `NeverAborts` on every
  machine with `reset_returns`. A count is below its bound when a signal
  arrives, because the signal's sender is outstanding and not in the count; and
  a device that is told a task has it in its queue, because its signal root
  took it after all had signalled, and nothing lies between a device's signal
  and the queue of that call. A machine without `reset_returns` stops at its
  first compression.
* `NcclOrderCorrect` (`WorkerSignalsProof`): `NcclOrder` on every machine. No
  variable holds what a signal root has announced so far, so the invariant
  `Journals` says that there is such a sequence: `Marks` are the ends of its
  groups, and every device of the switch has launched its first groups,
  together with a part of the next, and has just the rest in its messages
  (`Reads`). Each step of NCCL lengthens the sequence or moves one device in it.
  Two devices at the same group have therefore ends of the same tasks; that the
  steps of the tensor agree comes from `SInv`, because a device that has taken a
  task has used as many rounds as its signal root.
* `DataCorrect` (`WorkerDataProof`): `DInv` is inductive, given `IInv` and
  `SInv`. It says what each buffer holds by `Done` alone: a front switch's
  buffer the last copy of its devices; the back switch's the copy, then, once
  its device has reduced, the sum of the switches, then, once the root has
  pulled, the answer, encoded until it is decompressed; what was pushed, the
  sum of the last push; and, with one switch, a device's slice, the last
  global sum. It is inductive only with what `SInv` says of the rounds, which
  `Chained` puts in one line: a device has copied to its memory what the root
  has, the root what it has pulled, it has pulled what it has pushed, and
  pushes only what all devices have copied and reduced; and a device copies
  the next step only after it has copied the last answer to its memory. So
  whoever writes a buffer finds that those who had to write it before are
  done, and, with one switch, those who had to read it. `DInv` is for one or
  two PCIe switches: the reducers add the first switch's buffer to theirs and
  no other, as the comment of `core_loops.cc:552` admits, and with three the
  sum lacks one.
* From it: `PushStableCorrect`, for one or two switches, and `CallbackCorrect`.
  A device that calls a tensor back has used the rounds that its signal root
  has, each other device of the switch has signalled them after its copy, and
  the answer in its slice is that of this step (`Outputs`). What the second
  switch's devices find is not in it; `CallbackIsCompleteAcrossPcie` fails.
* `LoopsLive` (`LifecycleProof`): in every manner, no loop uses a deleted
  queue. The invariant `Live` says that a thread that has a task, or
  synchronizes a group, has not ended, and that no thread runs when the queues
  are deleted.
* `ReleasedStay` (`LifecycleProof`), which no run checks: for a framework that
  waits, `results_` holds nothing but the handle it waits for. The invariant
  `Handles` adds that a task under way carries just that handle, which is not
  yet done, so that its callback inserts no other.
* `TypeCorrect` (`LifecycleProof`): its type invariant, in every manner.
* `CoherenceCorrect`, and from it `WaitingIsEnough` and `PushesOfAll`
  (`LifecycleProof`): for a framework that waits. The invariant `Coherent`
  counts, for each process, the steps of its life that it has signalled,
  launched, asked to push, copied, signalled for the broadcast and begun to
  broadcast, and those the root has taken (`Apart`): they are at most one step
  apart, a message at its sender or in a socket stands for each difference (and
  is there once), and a ready count, with the signal that a listener has just
  received, is the number of devices whose signal has arrived and is not used
  (`ReduceCounted`, `BcastCounted`, and `PushCounted`, where a compression
  gives the count back to the push). A process that is not up has done all its
  steps (`Orderly`), so when either side is, the numbers are equal and nothing
  is in transit: this is why no signal reaches the next life, and why no join,
  receive or count of the root fails. `SameLife` says that all processes have
  passed `ncclCommInitRank` as often, `IdsMeet` where an id may be when all
  resume together. Two failures remain, as in `WaitingSuffices`: a signal
  before the root's tables exist, and an id that reaches a process which has
  not left, if processes resume alone.
* `NumbersDistinct` (`KeyAssignmentProof`): the tensors of a process have
  different numbers in all epochs, because all are below `next_key_`
  (`Numbers`). `PartsTile`: the partitions of a tensor cover it, end to end,
  none of them empty or longer than the bound. `PartitionKeys` has both in it:
  all partitions of a process have different keys, if no tensor has more than
  2^16.
* `MixedAborts` (`KeyAssignmentProof`): with at least two workers, and from one
  server for each of them up to the bound of mixed mode (`MixedAsIntended`),
  mixed mode ends a process only as its message says. The arithmetic of the
  quotient is one lemma; that a process that a check has ended stays in the
  epoch of its cluster is the invariant `Epochs`.
* `TypeCorrect` (`KeyAssignmentProof`): the type invariant of a job whose
  processes leave and come back, by the invariant `Typed`, which relates
  `_declared_tensors`, the contexts, the key cache and the progress of a
  process.
* `KeysAgreeCorrect`: by `Ordered`. A process's i-th declared tensor is the
  i-th of the programs, and has the number i - 1, also after a resume. It
  assumes `OneOrder`, that the programs name the same tensors at the same
  positions (one may be a part of another); the comment of `operations.cc:124`
  and the barrier of `InitTensor` assume it too, and the run's programs satisfy
  it.
* `TasksCorrect`, without any such assumption: by `Announced`, which says how
  much of a tensor a process has already told the servers.
* `PushesMeetCorrect`: by `Meeting`. The key of a push determines the tensor,
  the part, the server, the offset and the length. Besides `OneOrder` it
  assumes that all machines round the bound to one (`OneBound`), that the hash
  function does not read a destroyed string (`OneHash`), and that no tensor has
  more than 2^16 partitions (`FewParts`). The code checks none of the three;
  the hazards say what meets without them.
* `CommandOfPair`, `CommandsRead` (`CompressionProof`): the server's square
  root undoes the pairing of `GetCommandType`, for all natural numbers.
* `LengthsSent`, `FixedSizesAlwaysFit` (`CompressionProof`): from the invariant
  `Sizes`, which relates the cached lengths to the message at each stage. They
  assume that the code of dithering is a sequence (`BitsCounted`): it is built
  by recursion over the data, whose induction is beyond the prover.

Only model-checked: the queue; that the parts of a tensor implement `Server`
(`ImplementsServer`), and `WholeUnlessOvertaken`; `ReduceRootsAgree`; and what
compression does to values (`NothingLost`, `ReadNear`, `AnswersRead`).
`ReduceRootsAgree` needs that a hash is a word, and `NothingLost` and
`ReadNear` what a compressor computes: those are inductions over recursive
functions, which are beyond the prover, as is liveness under fairness.

## Not modelled

The components with status `not_modelled` in `PROJECT.json`: they wrap system
calls, format text or start processes.

* Of the server: blocking mode (dead code), the start of the engine threads, a
  search of `compressor_map_` during an insertion, and the restart of a worker:
  the server keeps no state for it and takes its init push for a gradient
  (`server.cc:298`), and what ps-lite would send again is not in the
  repository.
* Of the worker's machine: `BYTEPS_REDUCE_ROOTS`' own NCCL calls, several NCCL
  rings, `NcclManagerExpr`, tensors whose data is already on the host,
  sampling, tracing and profiling, NUMA binding.
* Of a machine's life: a call of `EnqueueTensor` during a shutdown returns OK
  and never calls back (`operations.cc:213`). `Enqueue` of `Lifecycle` has the
  early return, but `CallsReturn` is about frameworks that do not make such a
  call.
* Of Init and declaration: that a resumed process initialises a tensor before
  it has declared it again with the settings of its compressor, which
  `ReDeclareTensor` does not restore (`global.cc:443`, `:486`); the `built_in`
  hash function; a second `byteps_init` without a shutdown, which starts every
  loop twice; a thread pool that was not created; and a second *order* of
  declaration: a process that shuts down, inits for a program with another
  order and then resumes declares in the older order, because
  `_declared_tensors` survives (`global.cc:439`), and a new process does not.
* Of compression: floating-point rounding, the generator of random numbers, the
  parsing of hyper-parameters, and every element type but 32-bit floats: with
  half precision the scale is two words (`SizeOf`), and the count of bits and
  the index of a pair have 16 bits and wrap (`topk.cc:58`, `randomk.cc:58`);
  with double precision the scale is half a word, and `BitReader::Get` shifts
  an `int` beyond its width (`utils.h:166`). A code of dithering that is longer
  than `_buf` overwrites what lies behind it before `core_loops.cc:590` finds
  it too long; the model has only the check.
* Lengths and offsets have no width, so tensors of 4 GiB are not covered.

CUDA, NCCL, sockets and shared memory are external.

## Plan

Done: `Server`, `AllReduce`, `ServerTensor`, `PriorityQueue`, `WorkerPipeline`,
`KeyAssignment`, `Lifecycle`, `Compression`, with the proofs above. What would
come next:

1. An abstract specification of the pipeline (every task passes its stages in
   order, a callback fires once per step) that it implements.
2. A proof that `ServerTensor` implements `Server`, for any number of parts.
3. `ServerRecovery`: a worker that restarts and pushes its init value again,
   once ps-lite's side of it is at hand.
