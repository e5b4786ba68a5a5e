# A verification project for RL-VLA³'s asynchronous training pipeline

RL-VLA³ (a fork of RLinf) trains vision-language-action policies with simulators,
a policy and a trainer that run at the same time. Three groups of Ray workers,
environments ("Simulator"), rollout ("Generator") and actor ("Trainer"), exchange
observations, actions and trajectories over keyed FIFO channels. This directory
holds TLA+ modules of that exchange and of what it rests on (channels, connections,
locks, the dynamic scheduler of the token pipeline), the TLC configurations that
check them, and proofs. Paths below are relative to `src/rlinf/`.

## 1. Inventory

`EmbodiedRunner.run` (runners/embodied_runner.py) repeats: update the weights,
start `env.interact`, `rollout.generate` and the actor's loop, and wait for them.
Nobody but the channels connects the three groups in between:

    env manager --(observation, per slot)--> channel "Env" --> puller -> pending -> router
         ^                                                                     |
         |                                                              slot queue
         |                                                                     v
    channel "Rollout" <--(action / epoch_done)-- slot handler <--> batching engine
                                                     |
                             (trajectory, cut per actor) -> channel "Actor" -> trainers

    every channel:  thread -> Channel -> remote call  ----> ChannelWorker (queues)
                                     \-> point-to-point --/   (collective group)

| Component | State it keeps | Operations | What is hard | What makes it correct |
|---|---|---|---|---|
| Flexible per-env pipeline: workers/env/per_env_async/flexible_per_env_async_worker.py, workers/rollout/hf/flexible_per_env_async_rollout_worker.py | a manager's epoch and step; pending table, slot queues, in-flight flags, done frontiers, the router's turn; a handler's epoch, step and trajectory lists | a manager's loop; puller; three routers; slot handler; start and end of generate() | one thread per manager, handler, puller and router; two kinds of messages under one key; frontier and flag written by other threads than read them; state that survives into the next generate() | every observation is served once, in order, and answered; nothing is left over; nobody starves |
| Per-env pipeline without slots, and aggregated: true_per_env_async_worker.py, per_env_async_rollout_worker.py, aggregated_per_env_async_*.py | an environment's epoch and step; a handler's epoch, step, buffer; the engine's queue | interact, generate, evaluate | one thread per environment and per slot; requests of different epochs and steps in one batch; rewards and final observations that become whole one step later | replies belong to the last observation; trajectories are aligned and shared out evenly |
| Embodied workers, runners, SAC: workers/env/env_worker.py, async_env_worker.py, workers/rollout/hf/huggingface_worker.py, async_huggingface_worker.py, runners/*embodied_runner.py, workers/actor/*sac_policy_worker.py, data/replay_buffer.py | cursors of epoch, step and stage on both sides; trajectory lists; replay buffers; evaluation beside training | collect, train and evaluate by three programs; stop() | a blocking get inside an event loop; stop() as two calls; each rank's own view of its buffer; several stages | both sides count alike; nothing recorded is lost; training ends |
| Trainer: workers/actor/fsdp_actor_worker.py | message and sample counters, a partial target batch, gradients not reduced yet | three asynchronous loops, drain, optimizer step | every actor decides from its own counters when to enter a collective | all actors reach the same collectives; each sample is trained on once per pass; nothing is left over |
| Flexible plan: workers/per_env_flex_plan.py, config.py | the plan | normalize, number managers, cut batches into slots | every worker builds it for itself | one consistent numbering that covers each batch |
| Batching engine: workers/rollout/hf/per_env_async_rollout_worker.py and the flexible rollout worker | request queue, futures by request id, should_stop, thread handle | start, stop, submit_request, inference loop | handlers, inference thread and main thread share them without a lock; join with a timeout | no request is lost, a stopped engine can be started again, waiters are released |
| Channel queues: scheduler/channel/channel_worker.py | a bounded queue per key, waiting getters and putters | put, put_many, get, get_any, get_batch, each with its nowait form | coroutines that interleave at every await; one wakeup per item; polling | no lost or doubled item, put_many seen whole, calls return |
| Channel client: scheduler/channel/channel.py, scheduler/collective/async_work.py, the serialized wrappers | futures by query id, calls under way per channel key, the connection's queue | put, put_many, get, get_any, their asynchronous, nowait and timeout forms | calls and their data travel apart; answers come in another order than queries; one connection for all threads of a process | an answer goes to its query; items stay in order |
| Collective communication: scheduler/collective/ | rendezvous by name, two work queues per peer | send, recv, send_tensor, recv_tensor of tensors, lists, dictionaries, objects | the receiver derives each next piece from those before; CPU and accelerator groups in two directions | both ends mean the same piece; objects arrive whole, in order |
| Device and port locks: scheduler/manager/lock_manager.py, scheduler/worker/lock.py | owner and waiters per device, owner per port | acquire, release, clean-up of dead owners | several devices acquired at once, wakeups, a daemon that looks at names outside its lock | exclusion, no deadlock, order of arrival, ports come back |
| Dynamic scheduler: scheduler/dynamic_scheduler/, the elastic part of the token workers | instances and GPUs of rollout, inference, actor; groups running, done, migrating | report, migrate, release, allocate | handshakes over queues; groups in transit; a ledger kept by counting messages | no group is lost; the books agree with the instances; a step ends |
| Worker, groups, managers, cluster, placement, configuration | registries, static assignments | | | |
| Reasoning, agent, coding, SFT; Megatron; models, simulators, algorithms | | | numerical or driven by external engines | |

`PROJECT.json` lists each component with its files and status, and the hazards
with the line where each one bites and the properties aimed at it.

## 2. Modules

| Module | What it is |
|---|---|
| `FlexRouting` | the flexible per-environment pipeline over two FIFO channels, all routers |
| `LockStep` | what the pipeline promises, without channels, threads or routers |
| `FlexPlan` | construction of the plan, as functions of the configuration |
| `PerEnvPipeline` | the pipelines without flexible slots, one slot per environment or several |
| `EmbodiedPipeline` | the three programs that step all simulators of a stage at once |
| `ActorTraining` | shipping of trajectories, the trainers' three loops, their collectives |
| `BatchingEngine` | generate() around the engine's start() and stop(), inference thread, handlers |
| `ChannelQueue` | the queue actor behind a channel, coroutine by coroutine |
| `ChannelClient` | the calls of several processes down to that actor |
| `CollectiveGroup` | rendezvous and pieces of objects between two workers |
| `LockManager` | device locks and port locks |
| `DynamicScheduler` | GPUs and sequence groups on the move during a global step |
| `MC...` | instances for TLC, one per module that has runs; `FlexPlan` is checked through `MCFlexRouting` |
| `FlexOrder` | the inductive invariants behind the theorems about `FlexRouting` |
| `FlexRoutingProofs` | theorems about `FlexRouting`: types, order of messages; routers, `LockStep`, trajectories |
| `ActorTrainingProofs`, `BatchingEngineProofs`, `LockManagerProofs`, `PerEnvPipelineProofs`, `EmbodiedPipelineProofs` | theorems about those components |
| `CoordinationProofs` | theorems about `ChannelQueue` and about `DynamicScheduler`, whose parties answer each other over such queues |
| `Selections` | the members of a sequence that are in a set, in its order; for `PerEnvPipeline` and `EmbodiedPipeline` |
| `SetSeqLemmas` | a least element for finite sets of numbers; sequences without repetition: what appending, cutting and removing do to their members and their order; remainders, multiples and sums of equal parts |

How they compose. From the bottom: `CollectiveGroup` justifies the connections of
`ChannelClient` (in order, whole), `ChannelQueue` its queues (nothing lost or
doubled, one put_many seen as a whole); together they justify the channels of the
pipelines, FIFO per key. `BatchingEngine` justifies `Infer` of `FlexRouting` and the
engine of `PerEnvPipeline`: every submitted observation is answered. `FlexPlan`
produces the slots, environments and ranks that are constants of `FlexRouting`
(`MCFlexRouting` extends both and checks that they are), and the batch sizes that are
part of `Configs` in `ActorTraining`. `ActorTraining` has the training
that an actor of `EmbodiedPipeline` only counts messages for. `LockStep` is
implemented by `FlexRouting` under a refinement mapping.

A choice of the configuration file that no step changes (router, prefetching,
pipeline mode; trainer loop and sizes; the program each client runs) is a
variable that `Init` sets and every action leaves alone, so that one run covers them
all.

### FlexRouting

`envPc, envEpoch, envStep, awaited` are the locals of a manager's loop: `SendInit`
is the reset and its put_many, `RecvAction` one receive, `EnvStep` the simulators'
step with what follows it (send, next step, next epoch or end), `RecvAck` the wait
for epoch_done. `inq` and `actq` are the keys of the channels "Env" and "Rollout".
On a worker, `Pull` is the multiplexing puller; `RouteRoundRobin`, `RouteGreedy` and
`RouteEnvGroup` are one hold of the router's lock, including the branch that drops
a stale head; `HandlerRecv` .. `HandlerEndEpoch` are the handler's steps up to the
points where another thread can see a difference: the action is visible before the
frontier is advanced. `StartGenerate` resets what generate() resets and nothing
else. A message carries `it`, the training step it belongs to, for the properties
only. The puller lives from `StartGenerate` to `EndGenerate`; a puller that outlives
its generate() (hazard at line 1285) is not part of the model.

### FlexPlan

build_flex_plan as operators on a record of tables, good or bad: normalization of
each list, numbering of managers, cutting of batches into slots. `ServesOrRefuses`
states what a plan has to be; about 4900 configurations are compared.

### PerEnvPipeline

One loop per environment (`EnvNext`), one handler per slot (`HandlerNext`), one engine per
rollout worker (`WorkerNext`), which answers any prefix of its queue, so that
requests of different epochs, steps and environments meet in a batch. In training a
handler receives through the serialized receiver, and `Submit` takes what lies under the
slot's key. In evaluation it calls Channel.get as it is, from one thread per environment,
and the receive of such a call takes whatever the channel sends to the worker next. So the get
is taken apart (`link`, per worker): `Ask` starts the remote call, `Serve` is the channel
that answers it from the queue of its key, `Post` the receive that takes the next answer or
queues for it, and `EvalSubmit` goes on when the handler's own remote call has
returned and its receive has got something, whoever asked for it. An observation, and what
is computed from it, carries its slot, epoch and step. What a batch
does to its members is modelled where it differs: final observations and bootstrap
values are merged over the batch. The buffers are those of EmbodiedRolloutResult;
tensors are tags of the observation they stem from.

### EmbodiedPipeline

`Runner` walks through the calls of the runner's program ("sync", "async",
"stream"). An environment worker has a cursor of epoch, step and stage (`envAt`), a
rollout worker its own (`rolAt`), and nothing but their agreement matches an
observation to an action. Evaluation (`envEval`, `rolEval`) runs beside a stream; a
stream ends by `EnvStop` and `RolloutStop`, which reach the workers apart. A record
goes to the lists of a rollout (`buf`), in a stream to a queue that the task
`BufferSend` empties. `Train` is a SAC training step: every rank asks its own `ring`
whether it is ready before it enters the collectives. `added` is history.

### ActorTraining

A trajectory is counted in samples. `Ship` cuts it with split_num and torch.chunk,
`Arrive` delivers a piece after any delay, in order per piece. An actor's
counters are those of the three loops; `Barrier`, `Slice`, `OptimizerStep` and
`LastStep` happen when all actors stand at the same collective. `unreduced` counts
gradients that were computed under no_sync and never reduced.

### BatchingEngine

`mainPc` follows generate() and stop(): flag, sentinel, join, draining the queue,
clearing the futures one by one with done() and set_exception as two steps.
`enginePc` follows the inference loop; popping a future and completing it are two
steps. A handler registers its future and queues its request in two steps. The
join returns when the thread is over, when an inference outlasts it, or when the
thread blocks in a get() nothing wakes. Inference may fail. The main thread's
InvalidStateError (`mainPc = "broken"`) and the same error in the inference thread
(`TooLate`) are modelled.

### ChannelQueue

One action per stretch of a coroutine between two awaits. `ready` is the event
loop's queue; `getters` and `putters` are asyncio's waiter lists, external code
modelled from its use: a wakeup moves the first waiter to `ready` and promises
nothing, since another call may run first. No call is cancelled.

### ChannelClient

A call is two things: a remote call, in a coroutine per process and channel key, and
a message or an answer on the process's ordered connection. `RunPut` takes the next
message of the process, whoever sent it; an answer goes to whoever receives next,
and finds its asynchronous call by query id. A get that finds nothing waits at the
actor. Locks of the serialized sender and receiver are steps of their own, so that
what a thread polled outside the lock may be stale inside. The scenarios have no two threads
that get without that lock; evaluation does (see `PerEnvPipeline`).

### CollectiveGroup

`Launch`, `FindGroup`, `GetPort`, `Join` are the rendezvous over registry and port. A
call becomes a list of pieces, computed by sender and receiver each from what it
knows; `Exchange` hands over a piece when the heads of two lists stand in the same
process group. That two threads share such a group, or ends that disagree, violates
`PiecesMatch` or blocks both.

### LockManager

`RunTask` runs the event loop's next task to its next await. A release leaves the lock
unlocked until the woken waiter's task runs. `ahead` is history: for each worker, those
whose requests arrived before its own and wait still. `Daemon` is the cleaner of ports in its
three stages: copy of the names, look-up outside the lock, release under it.

### DynamicScheduler

`Schedule` is the scheduler's process with its pc; `Rollout(i)` and `Serving(i)` are the
two coroutines of an instance; `FinishSequence` is the generation engine, external;
`Actor` and `Inference` take their parts of the handshakes; `NextStep` is the runner.
`at`, `state`, `left` say where a sequence group is and how much of it is unfinished.
The scheduler's ledger is kept as it counts it, and compared with the instances.

## 3. Runs

All passing runs check deadlock, except `channel_programs` and `embodied`, in which a
call, a stopped stream or an actor may rightly wait for ever.

| Run | Question and properties | Bounds | States |
|---|---|---|---|
| `flex_cross` | Do observations, actions and acks stay in order and apart when each of two managers spans both workers? `TypeOK InOrder ActionFitsStep OneInFlight QuietAtEnd` | 4 slots, 2 epochs, 1 step, 2 training steps, round-robin, all four ways to end an epoch | 0.94 M |
| `flex_pair` | The same under each router, a manager with two slots on one worker: is every trajectory complete, every router's order kept, `LockStep` implemented, liveness included? And is every plan one consistent numbering? `PlansServeOrRefuse TrajectoriesComplete RouterOrder ImplementsLockStep` | 3 slots, 2 epochs, 2 steps, 2 training steps; some 4900 plans | 0.25 M |
| `per_env` | Do replies and trajectories fit whatever the engine batches together? `SlotsAgree SharesAreEven EveryCallReturns` | 3 environments on 2 workers; one in three slots; two with a slot on both of two workers; episodes that end at different steps; evaluation on workers of their own and on a shared one; 2 epochs of 2 steps | 0.33 M |
| `embodied` | Do the three programs exchange what fits, lose no record, and end? `MessagesFit TrajectoriesFit PiecesAccounted WaitsEnd` | 11 shapes of up to 2 environments, 3 rollout workers, 2 actors, 2 stages; 2 training steps; streams of up to 3 epochs; buffers of 3 and 5 pieces | 56 k |
| `actors` | Do all actors meet at the same collectives and train on everything? `CollectivesMatch StepsSeparate ReducedBeforeStep TrainingEnds` | 2 slots to 4 actors, 4 slots to 2; all loops; 2 epochs, 2 training steps | 0.20 M |
| `actor_last_step` | violation, see findings | | |
| `engine_shutdown` | Is a request lost, and does stop() leave an engine that can be started? `NoRequestLost QuietStop NobodyIsLeftWaiting` | 3 handlers (2, 1, 1 samples), target 3, 2 requests each, 2 calls | 0.28 M |
| `channel_programs` | Is an item or a call lost? `PutManyAtomic ExactlyOnce BatchIsMaximal EveryCallReturns` | five programs of six calls, two keys, queues of one place or unbounded | 69 k |
| `channel_client` | Does each answer go to its query although calls and data travel apart? `EachItemOnceInOrder AnswersFit AllCallsReturn` | two processes of up to two threads or tasks, four keys, four scenarios as the workers use a channel | 0.15 M |
| `collective` | Do both ends agree on every piece? `ObjectsMatch EverythingArrives` | two workers, on one, two or shared devices, five scenarios of up to five calls a side, every object kind | 3 k |
| `locks` | Exclusion, order and progress of device and port locks? `LocksHold PortsExclusive FirstCome NothingIsKept` | 3 workers, 3 devices taken twice, in opposite orders and in a ring; 2 ports, workers that die | 46 k |
| `dynamic_scheduler` | Are groups and GPUs conserved while they move, and does a step end? `NothingLeftBehind BooksAreTrue GpusExclusiveIfWaiting AllStepsEnd` | six placements of 2 or 3 instances, 2 to 8 groups, both policies, up to 2 global steps | 0.43 M |

Properties that bundle what belongs together, by their parts: `StepsSeparate` is
that every sample is trained on and nothing is left over; `NobodyIsLeftWaiting` that
generate() ends and its waiters are released; `BooksAreTrue` that no assertion of the
scheduler fails and that its ledger agrees with the instances; `LocksHold` exclusion
and no lock error; `NothingIsKept` that everyone enters and ports come back;
`AnswersFit` that an asynchronous answer goes to its query and one thread receives at
a time; `ObjectsMatch` that pieces agree and objects arrive whole; `SlotsAgree` that
replies, lists and bootstrap values are about the same observations, of which one at a time
is under way (`RepliesFit`, `TrajectoryMatches`, `BootstrapOnlyAtEnds`, `NoBacklog`). The
replies are claimed of slots that get what lies under their own key (`GetsItsOwn`): all of
them in training, in evaluation those that have a rollout worker to themselves (see
findings). `NoBacklog` and `EveryCallReturns` of the run `per_env` hold of all of them: an
exchange of observations in evaluation leaves nothing behind and keeps nobody waiting. A
call may raise instead of returning, but only in training with a value head and
auto-reset, where a batch may mix observations with and without a final one.

`WaitsEnd` says that training ends or runs into one of five named situations, that these
are for ever, and that no training in one of them ends (`KnownHang`). The code has these
hangs and the model reaches each, so the property does not rule them out: what it shows is that there
are no others. They are:
messages that do not add up between actors (`SharesDiffer`), ranks that disagree on
whether their buffer is ready (`RanksDisagree`), a stop() that reaches environment and
rollout worker in different epochs (`StopsApart`), a stage whose task waits for a record
that will not come (`LateBuffer`), and an evaluation that waits for an environment which
cannot begin (`EvaluateApart`). `GpusExclusiveIfWaiting` and `PortsExclusive` bound their
claims likewise: the first to use_wait_before_last_iter_policy, the second to
workers that Ray knows.

Why the bounds are enough to be of interest. Two epochs are the least with an
epoch that is not the last (an ack, a prefetched start) and one that is. One step
already has all message kinds; two steps have a step that is neither first nor last,
which the trajectory's lists distinguish. Two training steps show leftovers and
missing resets. Two managers on two workers are the least with a cycle of waiting. The flexible pipeline is checked on them for safety and deadlock (`flex_cross`), and
for liveness on one worker (`flex_pair`). On two workers without prefetching, for one training step,
TLC has found `ImplementsLockStep` to hold as well (69 k states); this takes a longer run with
prefetching, and is none of the runs above. In `per_env` two environments with a slot on
each of two workers are such a cycle, liveness included.
Two slots of one manager on one worker are the least group. For the engine, sizes
2, 1, 1 against a target of 3 give batches that fill exactly, overshoot or time out.
The trainer's targets do not divide its messages, so slices straddle messages,
passes and epochs. Six calls let each waiter list hold two calls while a third
interferes. Three workers and devices are the least ring. Three instances leave two
to migrate to; eight groups against limits of one running request make instances
that are full, empty and half done at once. Replay buffers of three pieces wrap
around; eleven shapes divide environments, rollout workers and actors in both directions.

`Scheduler.cfg` has an action constraint, `InOrderOfAlikes`: of two groups that
nothing tells apart the first one moves first. The other orders rename groups that
were alike, and no property names a group.

Fairness. Threads of a worker are OS threads, coroutines are run by an event loop that
serves what is ready, remote calls arrive: weak fairness of each thread's or
coroutine's next step. The puller's keys rotate (`rr`), hence weak fairness per key.
A collective takes place when all have entered it. An inference ends, with a result
or an exception. Strong fairness has two places. In `ChannelClient` a thread that
finds a lock taken gets it in the end, because its holder sleeps between two
attempts. In `EmbodiedPipeline` the calls stop() and evaluate(), and the coroutine that
yielded to them, wait for an event loop that is free again and again but not all the
time; it serves its ready queue in order; and an actor that trains between two
receives takes the next piece. Nothing assumes that a refused call is retried.

Each property of a passing run has a mutant in `PROJECT.json`, a plausible slip in
a definition of the model (a missing reset, a count off by one, a skipped wakeup)
under which TLC finds the property violated. Definitions no action uses
(`WakeUpAll`, `AnyTask`, `NewEnvId` and the like) are such slips.

## 4. Findings

`actor_last_step`: when samples are no multiple of the target batch, the accumulating
loop ends with an optimizer step on gradients that were never reduced; the
streaming loop has a fix for this, the accumulating one has not.

Met while modelling, without a run of their own. Where the model reaches it, the
run's configurations or a property's premise leave it out.

Trainer and plan:
* A manager's batch that its rollout ranks do not divide makes unequal messages;
  trainers count messages, and two of them arrive at different collectives.
* `total % world % stages` associates to the left: a total of 6 on two ranks with two
  stages passes, and two environments belong to no slot.
* A streaming loop with grouped advantages whose last messages leave an incomplete
  group steps on gradients of earlier slices that were not reduced.
* recv_single_epoch_batch may mix epochs of different slots in one batch although its
  docstring speaks of a single epoch. torch.chunk may give fewer chunks than asked.

Per-env pipelines:
* The evaluation handlers of a rollout worker receive by `input_channel.get` from one thread
  each (per_env_async_rollout_worker.py:1276). Channel.get drops the query id of the answer
  (channel.py:512), so that with two environments on a worker one may be sent the action
  for the other's observation. generate() guards against exactly this, lines 858-860:
  "Uses SerializedChannelReceiver to avoid race condition where multiple threads calling
  Channel.get() with different keys can receive each other's messages" (again at 952);
  evaluate() does not. In the configuration `SharedWorker` TLC reaches a handler that
  holds another slot's observation in six states. The calls return all the same.
* A handler that submits after stop() cleared the futures waits for ever; done() and
  set_exception are two steps, so either side may meet InvalidStateError.
* The router waits two seconds for its puller; one that outlives generate() takes a
  message of the next (flexible_per_env_async_rollout_worker.py:1285).
* Every generate() leaves one `__done__` item under a key nobody reads.
* A batch of several requests drops bootstrap values that each would have had alone
  (per_env_async_rollout_worker.py:1015); one that mixes requests with and without
  final observations may raise IndexError; q_head keeps one transition an epoch; the
  aggregated rollout worker sends without the serialized senders.

Embodied workers and SAC:
* The five situations of `KnownHang`. The actor's message key has no stage
  (huggingface_worker.py:548), hence `SharesDiffer`.
* Done flags of epoch n lag n + 1 observations in a stream (io_struct.py:1495).
* enable_offload with stop() kills the simulator of a stream that goes on; the nested
  truncation without a capacity is a TypeError; merging environments' outputs drops
  final observations that are None; batches are split by chunk in one place and by
  slices in another; the queue of previous values is never read; a failed attempt
  repeats an evaluation.

Channels, collectives, locks:
* A get_batch that peeks, finds the item too heavy and returns has used up the wakeup
  of the put; another getter may sleep beside a non-empty queue
  (channel_worker.py:637).
* put and put_many of one process share a connection, not a key; mixed, a handler may
  take the other kind's message (channel.py:396).
* Questions for the peer's device use the group of the other direction, which
  another thread may be using (collective_group.py:884).
* The port daemon frees ports of live processes that Ray knows no actor of
  (lock_manager.py:181). The device lock is reentrant without counting; an
  owner that dies keeps it.

Token pipeline:
* Without use_wait_before_last_iter_policy the actor may grow onto GPUs of rollout
  instances that were not released (dynamic_scheduler/manager.py:762 and 832). Defaults of
  use_pre_process_policy differ (scheduler_worker.py:56, utils/placement.py:226).
* An instance that starts late trips the assertion that groups come after its
  rollout() (sglang_worker.py:413); the vLLM worker clears a set and then removes from
  it (KeyError).
* The rank mapping for a disaggregated placement compares with `>` where ranks start
  at 0 (workers/rollout/utils.py:246).

## 5. Theorems

Each theorem holds for every value of the constants that the module's named
assumption admits, hence for every number of slots, workers, calls, devices and so
on, and for every configuration. A theorem of a temporal property is put together
from three facts, Init implies the invariant, a step keeps it, it implies the
property; the step has a lemma per action or thread. Each invariant below was
checked by TLC before it was proved.

### FlexRouting (assumption `FlexRoutingAssumption`)

| Theorem | Property | Rests on |
|---|---|---|
| `FlexRoutingProofs!TypeCorrect` | `TypeOK` | `TypeInv` |
| `FlexRoutingProofs!HandlersInOrder` | `InOrder` | `OrderInv` |
| `FlexRoutingProofs!ManagersNeverFail` | `ActionFitsStep` | `OrderInv` |
| `FlexRoutingProofs!QueuesStayShort` | `OneInFlight` | `OrderInv` |
| `FlexRoutingProofs!StepsLeaveNothing` | `QuietAtEnd` | `OrderInv` |
| `FlexRoutingProofs!RoutersKeepOrder` | `RouterOrder` | `TurnInv`, `GroupInv` |
| `FlexRoutingProofs!ServiceInLockStep` | safety part of `ImplementsLockStep` | `OrderInv` |
| `FlexRoutingProofs!ShippedComplete` | `TrajectoriesComplete` | `ShipInv` |

`TypeOK` is not inductive: that a manager's epoch stays below the number of epochs
needs that acks are awaited before the last epoch only (`AckEpochs`), that a
handler's step stays in range needs that only a step of the loop is marked
(`MarkSteps`). `TypeInv` adds both.

`InOrder` says nothing about what is still on the way, so it is far from
inductive. `OrderInv` gives a slot two positions in the stream of observations of a
training step, how far its manager has sent and how far its handler has taken.
`LineUp`: channel, pending table and slot queue hold exactly the observations between
the two, in order. `Collecting`, `Acking`, `Resting` say, by where the manager stands,
how far the positions may be apart and what the slot's key of the action channel holds:
one observation is unanswered while an action is awaited, two with prefetching at the
first step, and none once the answer is there. `Flight` ties the slot's queue to the
in-flight flag, which the round-robin router ignores: what keeps it to one message
there is `LineUp`. `AtFront` says which
observation the done frontier names, so that a router finds the one after it ready
and drops none; `Phase` and `InStep` carry this over the ends of epochs and of
generate(). `ActionFitsStep`, `OneInFlight` and `QuietAtEnd` are read off it.
A position is an epoch and a count, so that no proof multiplies two variables.

`TurnInv` says that under round-robin the environments before the turn have had one
dispatch more than the others, `GroupInv` that the slots an environment has on a
worker are dispatched together; both are inductive relative to `OrderInv`.

For the refinement, emitted and served of `LockStep` are defined on the positions.
`LineUp` makes them a ledger: what a manager has emitted is what was served plus what
is unanswered. With it each step of the pipeline maps to a step of `LockStep` or to a
stutter, and the theorem is `Spec => Abstract!Init /\ [][Abstract!Next]_(Abstract!vars)`.
`ShipInv` has the lengths of all lists of a trajectory from the handler's position,
and the trajectories shipped so far from the training step.

TLC checked these invariants on three slots of two managers, 3 epochs, 2 steps and 2
training steps in all twelve configurations (2.4 million states).

### ActorTraining (`ActorTrainingAssumption`, `EveryChunkExists`)

| Theorem | Property | Of which configurations | Rests on |
|---|---|---|---|
| `NothingDrained` | `NoLeftovers` | all | `CountInv` |
| `CollectivesAlwaysMatch` | `CollectivesMatch` | `EvenlyCut` | `Together` |
| `StepsAlwaysSeparate` | `StepsSeparate` | `EvenlyCut` | `SampleInv` |
| `AlwaysReducedBeforeStep` | `ReducedBeforeStep` | `EvenlyCut`, `WholeBatches` | `ReduceInv` |

`NoLeftovers` compares two computations that share nothing, the number of messages
an actor counts on and the keys under which slots put their pieces, and it speaks of the
moment when a loop is over. `CountInv` says where each message of a training step is
(`PlaceAt`: on its way or arrived, in the order of its slot's epochs) and counts the
arrived ones: `Arrived(w)` is the set of the (slot, piece, epoch) that have reached
actor `w`, and an actor has received as many as are in it and not in its queue. It never
exceeds `PerCall` because lcm makes the number of pieces a multiple of the number of
actors, so that the pieces meant for one actor are as many as for the next
(`SourcesCount`, by an injection from one residue class to another).

`EvenlyCut` says that all pieces of all slots have one size. The code does not check it,
and it is needed: with slots of 2 and 3 environments and two actors TLC finds an actor that
has ended its training step while the other waits for it in an update. Every configuration of the run `actors` is
evenly cut. Under it an actor's samples are its messages times a constant, and
`Together` says that the actors gather a round each at its own pace, train in
lockstep with equal counters (offset, pass, accumulated), or end one after the other;
in each phase a counter of one actor is the counter of all. `SampleInv` is the account:
samples applied and accumulated, and those of the current pass still to go
through, make up the passes over all samples received, so that slices that straddle
messages, passes and epochs lose none.

`WholeBatches` says that what an actor trains on in a training step is a multiple of the target batch
(accumulating loop), or of the group (streaming loop). The violation run
`actor_last_step` has a configuration that is evenly cut and not of whole
batches: there the last update is not reduced. In the streaming loop the target may be
anything, since the last slice of the last message is forced to reduce; `ReduceInv` says that
this slice is the one before the last update, for which the last message must leave no incomplete group.

TLC checked these invariants on the configurations of `MCActorTraining` and the streaming and
accumulating ones with remainders before they were proved.

### BatchingEngine (`BatchingEngineAssumption`)

`NothingLost`: `NoRequestLost`. `EngineInv` adds that registered and popped futures
are pending (`FuturesPending`; else the thread might die on one that is already
completed and drop the rest of its batch), that a popped future is registered no
more and only one is out at a time (`PoppedOnce`), that the engine holds only
requests that were queued, so that it never pops the future of one that is about to
be (`QueuedBefore`, `Registered`, `Asked`), and that its loop starts a new batch only
from an empty one (`StartsEmpty`).

`StopsQuietly`: `QuietStop`. `ServeInv` says that a request is in one place only and that
the one registered future of a handler is the one it blocks on; so, when gather()
returns, the engine holds nothing. `StopInv` follows stop() from there: the queue is
empty or holds the sentinel alone, or the loop has taken it and is on its way out.

### ChannelQueue (`ChannelQueueAssumption`)

`TypeCorrect`; `ItemsExactlyOnce`: `ExactlyOnce`; `PutManyIsAtomic`: `PutManyAtomic`;
`BatchesAreMaximal`: `BatchIsMaximal`. The assumption includes that items are told
apart (`ItemsDiffer`): an item is put by one call at one place. `LoopInv`
says where every call is: one that may run is once among the ready ones, one that
waits is once among the waiters of the queue it waits for. Without that a wakeup
might move a call that waits elsewhere, or run one twice. `PlaceInv` divides the items
that were put among queues and calls, `RoomInv` and `BatchInv` are the limits.

### LockManager (`LockManagerAssumption`)

`TypeCorrect`; `DevicesExclusive`: `LocksHold`; `FirstComeFirstServed`: `FirstCome`;
`PortsAreExclusive`: `PortsExclusive`. `LockInv` says for each worker and device, by the
worker's program counter, whether it has the device, and otherwise where its
request is: its task is ready or it is among the waiters, never both; a woken waiter
is the first waiter of an unlocked device. `LocksHold` alone fails to be inductive at
the release of one device of several and at the wakeup. `TurnInv` adds that a request
that is ahead of another is ahead of it among the ready tasks, among the waiters and
between the two. `PortInv` says that the daemon never takes for dead a live worker
that Ray knows, although it looks names up outside the lock.

### DynamicScheduler (`DynamicSchedulerAssumption`)

`GpusAreExclusive`: `GpusExclusiveIfWaiting`; `LedgerStaysTrue`: `LedgerIsTrue`, half of
`BooksAreTrue`. That the actor's world and an instance are disjoint now does not keep the
scheduler from telling the actor of a larger world while the instance still runs. So
`SchedInv` bounds the world by what is left of all GPUs when the instances not counted as
released and inference are taken away (`WorldInv`), which moves only if the count
moves; `LedgerInv` has what can be handed out, and that where the actor waits inference, which lies
behind rollout, is only released after all of it. `OffloadInv` makes the count true: an instance answers
that it has offloaded once, after which it has, and the scheduler has not counted it before
it takes that answer. `ActorInv` has the handshake in all its positions, of which one is
possible at a time: the size the actor is on its way to is the one the scheduler believes
in. In pre_process the same equation holds with the actor's GPUs in the hands of rollout
(`PreInv`), at the end of a step because all instances are released (`AskedInv`). A step of
an instance is seen by the others as at most one more response (`Seen`), which is all the
proof needs to know of it. The actor's sizes come from `Usable`, the largest valid
size that is reached (`UsableIs`); sums over instances are integers by the recursion
of MapThenSumSet (`SumsExist`, `SumsAreInts`). TLC checked `SchedInv` on the six configurations
of the run `dynamic_scheduler` (428 187 states).

### PerEnvPipeline (`PerEnvAssumption`)

`SlotsAlwaysAgree`: `SlotsAgree`; `LoopsNeverRaise` and `QueuesNeverGrow` are read off the
same invariant, `PerEnvInv` (`QueuesNeverGrow` is `NoBacklog`). That a reply fits says nothing about the replies still to
come, and that a trajectory is whole nothing about one that is being collected, so
neither is inductive. `OpenIn` says, by the record of an environment's loop alone,
whether it has sent for a slot and not read the answer. If so, exactly one thing is
under way for the slot (`Outstanding`): the observation in its queue, a handler or the
engine at work on it, or the answer; else both queues are empty and `IdleIn` says
where the handler waits. The invariant is one for training and evaluation. In evaluation an
observation may also be an answer of the channel that nobody has received, or in the hands of
another handler of the worker, so what is under way for a slot is told by the call of its handler (`Asked`): until the
channel has answered it, the observation is in the slot's queue, and a handler whose call is open
does not go on, whatever it was given. `LinkInv` has a receive posted for exactly the handlers that wait
empty-handed. Therefore a slot's queues never hold more than one message in evaluation either. That a handler holds its own observation follows where `GetsItsOwn`
does (`OwnGet`), and only there replies are claimed. `EnvInv` bounds epoch and step by where the loop stands: an
acknowledgement is only awaited after the last step of an epoch that is not the last.
`TrajectoryOf` has every list as a prefix of the sequence of all tags, as long
as the handler's own position says (`RecordsFit`, `AreTags`); between the submission of
the last observation of an epoch and its answer the values are one behind. `RequestInv` (an engine's
queue holds each slot that waits for it once) is what makes a batch one of handlers that
wait. TLC checked `PerEnvInv` on the configurations of the run `per_env` (0.33 million states).

`SharesAlwaysEven`: `SharesAreEven`. An actor counts on a fixed number of pieces, but who gets a
piece is decided by a counter of each slot (aggregated) or by rank, stage and piece, so that the
property is one of sums. `SharesInv` says it piece by piece (`QueueHolds`): an actor's queue
has exactly the pieces that the handlers' positions say were shipped, in the synchronous
pipeline those of the calls that have returned, and each once. How many of them are one actor's
is then a count of numbers in one residue class (`CountedOff`) or of pairs dealt out in turn (`DealtOut`),
which is even because lcm makes the number of pieces a multiple of the number of actors. TLC checked
`SharesInv` on the same configurations.

### EmbodiedPipeline (`EmbodiedAssumption`)

`LinksStayInStep`: `MessagesFit`. That what is on a link is what its reader expects
says nothing about what the writer will send, so it is not inductive. `Line` says what a
link holds in full: one message for each position from the one the reader waits for up
to the one the writer comes to next, which `Emits` and `Replies` give by where the writer
stands. `TrainInv` says so of both directions of all links while a step is on, `EvalInv` of
`evaluate()`, whose environment sends no observation after the last step. Since positions
grow along a line, one that ends where it begins is empty, and two lines in opposite
directions cannot both hold something for a reader that waits. That is why nothing is
left once both ends are through their epochs, and why the next call may count from zero.
`RunnerInv` says which program is where; without a stream, evaluation begins only when all rollout
workers have returned, and the next step when the environments have. TLC checked the
invariant on the eleven configurations of the run `embodied` (56 478 states).

`ListsStaySideBySide`: `TrajectoriesFit`. That two lists fit says nothing of what is appended
next, so `RecordInv` has every list of a buffer in full: it is a stretch of the sequence of all
steps, or of all observations, of its stage. Where it ends follows from the rollout
worker's position, `Counts`; the turn of a stage moves its own counts and no other's, also over
the end of an epoch. Where it begins depends on what has left: nothing ("sync"), the epochs before
("async"), or what the buffer's task sent ("stream"), and a stream drops as many
observations as steps, which fixes the flag a record leaves with (it is its own in the first epoch, and an earlier one
from the second on). `RecordInv` builds on the first
invariant, which knows where the workers stand when training begins; TLC checked it on the
same configurations.

`PiecesAlwaysAccounted`: `PiecesAccounted`. That all pieces differ says nothing of the next one,
so `StockInv` says which there are. Pieces lie in piles, the queues and the hands of the actors, each
piece in one place (`Spread`); an actor moves the head of a pile to the end of another. A
stream's buffer has sent the steps up to the first one still in its list of inputs
(`SentInv`), each in `SplitNum` parts, and what it sends next is the step after those. In the other
programs the pieces queued and received in this training step are the trajectories of
the epochs that are over (`Current`), with the weights every worker has loaded before any
ships (`WeightInv`); everything older carries an earlier training step. Nothing is left in
a queue when training starts because the actors count on as many pieces, together, as
the workers make (`NeedIs`, which holds by the choice of `SplitNum`): all have theirs only
when all that is made is in their hands (`NothingQueued`). The replay buffer is arithmetic modulo its capacity: a
batch shorter than the buffer, inserted past its end in two parts, leaves the last pieces
given in their places (`Inserted`). It builds on both invariants before it.

### Model-checked only

* Liveness, which needs fairness and ENABLED: the liveness part of
  `ImplementsLockStep`, `NobodyIsLeftWaiting`, `EveryCallReturns` (of both modules), `NothingIsKept`,
  `TrainingEnds`, `AllStepsEnd`, `AllCallsReturn`, `EverythingArrives`, `WaitsEnd`.
* What a fold or a recursion computes for every input, which would need
  induction over data: `PlansServeOrRefuse`. (A sum over a finite set whose
  parts are equal, and a concatenation by FlattenSeq, are within reach: `EqualParts` and
  `Flattened` in `SetSeqLemmas`. SelectSeq and SetToSortSeq are not.)
* What holds of the programs of a scenario and not of all programs that the constants
  could name: `AnswersFit` and `EachItemOnceInOrder` of `ChannelClient`, `ObjectsMatch` of
  `CollectiveGroup`. Calls that share a connection or a group in other ways than the code's
  do may mix up their answers (see the hazards without a property). The scenarios are the
  ways of training: their gets go through the serialized receivers, the puller or one event loop. The
  evaluation handlers' unguarded gets, to which `AnswersFit` does not extend, are in `PerEnvPipeline`.
* Not proved so far, though in reach: of `DynamicScheduler` the assertions (the other half of
  `BooksAreTrue`) and `NothingLeftBehind`.

## 6. Not modelled

Tensors, losses, models, simulators and logging: about half of the source lines are
model definitions, simulators and their tasks, and another large part is numerical
code over FSDP, Megatron and inference engines. None of it has a protocol of its own, so
the share of lines that the map covers stays small (about a ninth). In the files of
the per-env pipelines, the channel actor, the locks and the scheduler it is half and
more; the rest there is logging, metrics, set-up and tensor handling.

Crashes of pipeline workers: a Ray actor that dies ends the job, nothing is persisted
between training steps but checkpoints, and no code recovers. (A worker that dies
holding a port is modelled, since the port daemon handles it.)

Weight transfer is an instantaneous load per worker in `EmbodiedPipeline` and left out
elsewhere, as are off-loading, checkpoints, metrics, demonstrations, interventions and
the synchronous PPO loop of the trainer. The rest of the reasoning pipeline
hands batches from one channel to the next; its scheduling is in `DynamicScheduler`. Of
the channel client, forms used outside a worker and get_batch are left out. The
components with status `not_modelled` in `PROJECT.json` are listed with reasons.

## 7. Plan

Proofs, in this order:

1. `DynamicScheduler`: the assertions of `BooksAreTrue`, from the requests and groups under way.
2. `CollectiveGroup`: a condition on programs under which `ObjectsMatch` holds, and the proof.

Models left to add: the two rank mappers against a reference definition; a puller
that outlives its generate(); the late submission composed with the handlers; the
message flow of the reasoning runner.
