--------------------------- MODULE DynamicScheduler ---------------------------
(***************************************************************************)
(* The dynamic scheduler of the token pipeline: GPUs move from rollout and *)
(* inference to the actor while a global step runs.                        *)
(*                                                                         *)
(* Four parties exchange messages over per-instance queues.  A rollout     *)
(* instance is two coroutines of one event loop: rollout(), which waits    *)
(* for the tasks of its sequence groups, delivers what is complete and     *)
(* sleeps when nothing runs until it is notified; and the main_loop of     *)
(* RolloutScalingScheduler, which serves the scheduler's requests.  The    *)
(* actor asks for resources after every training step.  Inference signals  *)
(* once, when it has offloaded.  The scheduler counts instances and GPUs   *)
(* and believes what it counted.                                           *)
(*                                                                         *)
(* Sources: scheduler/dynamic_scheduler/*.py, RunningStatusManager in      *)
(* workers/rollout/utils.py, rollout() in workers/rollout/sglang/          *)
(* sglang_worker.py (vllm_worker.py is the same), the elastic part of      *)
(* workers/actor/megatron_actor_worker.py, utils/placement.py (AUTO) and   *)
(* one iteration of runners/reasoning_runner.py.  Tokens, weights and the  *)
(* reward worker, which passes results on, are left out.                   *)
(***************************************************************************)
EXTENDS Integers, Sequences, FiniteSets, SequencesExt, FiniteSetsExt, TLC

CONSTANTS
  Configs     \* configurations Init may choose: records of type Config

\* instances: rollout instances, mp: GPUs of each; actor: the actor's first
\* data parallel size, amp: GPUs per size; infer: GPUs of inference; groups:
\* sequence groups of a step, size: sequences of each; iters: n_minibatches;
\* maxRunning: max_running_requests; pre, wait: the two policies; steps: a bound on
\* the global steps.
Config ==
  [instances : Nat \ {0}, mp : Nat \ {0}, actor : Nat \ {0}, amp : Nat \ {0}, infer : Nat,
   groups : Nat \ {0}, size : Nat \ {0}, iters : Nat \ {0}, maxRunning : Nat \ {0},
   pre : BOOLEAN, wait : BOOLEAN, steps : Nat \ {0}]

\* placement.py, AUTO: actor, rollout, inference side by side on all GPUs; with
\* the pre-process policy rollout begins on the actor's GPUs.
ActorGpus(c) == c.actor * c.amp
RolloutBase(c) == IF c.pre THEN 0 ELSE ActorGpus(c)
TotalGpus(c) == RolloutBase(c) + c.instances * c.mp + c.infer

\* get_valid_dp_sizes: sizes that divide the samples of a training step by groups.
ValidDpSizes(c) ==
  LET iterBatch == (c.groups * c.size) \div c.iters
  IN {d \in 1 .. (TotalGpus(c) \div c.amp) : iterBatch % (d * c.size) = 0}

\* The assertions on the configuration: the batch divides into training steps, the
\* largest size of the actor takes the whole cluster, its first size is valid, the
\* actor's GPUs are whole instances that can be migrated out.
WellFormed(c) ==
  /\ c \in Config
  /\ c.groups >= c.instances /\ (c.groups * c.size) % c.iters = 0
  /\ c.actor \in ValidDpSizes(c) /\ ActorGpus(c) < TotalGpus(c)
  /\ Max(ValidDpSizes(c)) * c.amp = TotalGpus(c)
  /\ c.pre => ActorGpus(c) % c.mp = 0 /\ ActorGpus(c) \div c.mp < c.instances
  /\ c.pre => c.groups * c.size > 1

ASSUME DynamicSchedulerAssumption == \A c \in Configs : WellFormed(c)

VARIABLES
  cfg,        \* the configuration, never changed
  step,       \* global step
  started,    \* requests of the dataloader channel that were taken
  rolloutPc,  \* instance: its rollout(): "idle", "loop", "wait", "offload", "done"
  servePc,    \* instance: its scheduler coroutine: "idle", "drain", "finish"
  event,      \* instance: exit_rollout_iter
  at,         \* group: the instance that keeps it, or 0
  state,      \* group: where in its life it is
  left,       \* group: sequences that are not complete
  aborted,    \* instance: _aborted_seq_group
  requests,   \* instance: its request queue
  responses,  \* instance: its response queue
  pc,         \* scheduler: where its coroutine is
  iter,       \* scheduler: train_iter, -1 during pre_process
  asked,      \* scheduler: instances it waits for
  reports,    \* scheduler: last report of each instance
  offset,     \* scheduler: current_instance_offset of rollout
  inferCur,   \* scheduler: GPUs of inference
  actorCur,   \* scheduler: current_instance_num of the actor
  available,  \* scheduler: available_gpu_num
  output,     \* results in the rollout channel, ever
  inferred,   \* results inference has passed on
  inferPc,    \* inference: "run" or "offloaded"
  actorPc,    \* actor: "pre", "train", "sync", "done"
  trained,    \* actor: training steps done
  world,      \* actor: its world size
  scale,      \* actor: its request queue
  updates     \* actor: items in its response queue

groupVars == <<at, state, left, aborted>>
instVars == <<started, rolloutPc, servePc, event>>
schedVars == <<pc, iter, asked, reports, offset, inferCur, actorCur, available>>
actorVars == <<actorPc, trained, world>>
inferVars == <<inferred, inferPc>>
allVars ==
  <<cfg, step, instVars, groupVars, requests, responses, schedVars, output, inferVars, actorVars,
    scale, updates>>

Instances == 1 .. cfg.instances
Groups == 1 .. cfg.groups

\* split_list without enforce_divisible_batch: the groups of the k-th request.
Share(c, k) ==
  LET q == c.groups \div c.instances
      m == c.groups % c.instances
      Before(j) == j * q + Min({j, m})
  IN (Before(k - 1) + 1) .. Before(k)

\* RunningStatusManager: what an instance counts as running.
RunningGroups(i) == {g \in Groups : at[g] = i /\ state[g] \in {"running", "returned", "put"}}
RunningOnly(i) == RunningGroups(i)
Counted(i) == {g \in Groups : at[g] = i /\ state[g] \in {"running", "returned", "put", "done"}}
SeqRunning(i) ==
  MapThenSumSet(LAMBDA g : left[g], {g \in Groups : at[g] = i /\ state[g] = "running"})
Report(i) == [total |-> Cardinality(Counted(i)) * cfg.size, running |-> SeqRunning(i)]

Request(a, d) == [act |-> a, data |-> d]
Response(a, r, d) == [act |-> a, report |-> r, data |-> d]
NoReport == [total |-> 0, running |-> 0]

\* What a new global step finds after weights were synchronized.
StepStart(c) ==
  [rolloutPc |-> [i \in 1 .. c.instances |-> "idle"],
   at |-> [g \in 1 .. c.groups |-> 0],
   state |-> [g \in 1 .. c.groups |-> "input"],
   left |-> [g \in 1 .. c.groups |-> c.size],
   actorPc |-> IF c.pre THEN "pre" ELSE "train"]

SchedulerInit ==
  /\ cfg \in Configs
  /\ step = 1 /\ started = 0
  /\ rolloutPc = StepStart(cfg).rolloutPc
  /\ servePc = [i \in Instances |-> "idle"]
  /\ event = [i \in Instances |-> FALSE]
  /\ at = StepStart(cfg).at /\ state = StepStart(cfg).state /\ left = StepStart(cfg).left
  /\ aborted = [i \in Instances |-> <<>>]
  /\ requests = [i \in Instances |-> <<>>] /\ responses = [i \in Instances |-> <<>>]
  /\ pc = "start" /\ iter = -1 /\ asked = {}
  /\ reports = [i \in Instances |-> NoReport]
  /\ offset = 0 /\ inferCur = cfg.infer /\ actorCur = cfg.actor /\ available = 0
  /\ output = 0 /\ inferred = 0 /\ inferPc = IF cfg.infer = 0 THEN "offloaded" ELSE "run"
  /\ actorPc = StepStart(cfg).actorPc /\ trained = 0 /\ world = ActorGpus(cfg)
  /\ scale = <<>> /\ updates = 0

-----------------------------------------------------------------------------
(***************************************************************************)
(* A rollout instance: rollout().                                          *)
(***************************************************************************)

\* Takes the next request, asserts that no group is left from before, and starts
\* a task for each group.
Vacant(i) == Counted(i) = {} /\ aborted[i] = <<>>
StartRollout(i) ==
  /\ rolloutPc[i] = "idle" /\ Vacant(i)
  /\ started' = started + 1
  /\ rolloutPc' = [rolloutPc EXCEPT ![i] = "loop"]
  /\ LET new == Share(cfg, started + 1)
     IN /\ at' = [g \in Groups |-> IF g \in new THEN i ELSE at[g]]
        /\ state' = [g \in Groups |-> IF g \in new THEN "running" ELSE state[g]]
  /\ UNCHANGED <<cfg, step, servePc, event, left, aborted, requests, responses, schedVars,
                 output, inferVars, actorVars, scale, updates>>

\* One sequence stops or reaches its length; with the last one the task is over.
\* The engine generates without the coroutines.
FinishSequence(g) ==
  /\ state[g] = "running"
  /\ left' = [left EXCEPT ![g] = @ - 1]
  /\ state' = [state EXCEPT ![g] = IF left'[g] = 0 THEN "returned" ELSE @]
  /\ UNCHANGED <<cfg, step, instVars, at, aborted, requests, responses, schedVars, output,
                 inferVars, actorVars, scale, updates>>

\* After a group left the running ones: with none left rollout() waits for a
\* notification, since groups may still migrate in.
LoopOrWait(i, g) == IF RunningGroups(i) = {g} THEN "wait" ELSE "loop"

\* A complete group is put into the output channel, which takes a while ...
Deliver(i, g) ==
  /\ rolloutPc[i] = "loop" /\ at[g] = i /\ state[g] = "returned" /\ left[g] = 0
  /\ \A h \in Groups : at[h] = i => state[h] # "put"
  /\ state' = [state EXCEPT ![g] = "put"]
  /\ output' = output + 1
  /\ UNCHANGED <<cfg, step, instVars, at, left, aborted, requests, responses, schedVars,
                 inferVars, actorVars, scale, updates>>

\* ... then marked done.
MarkDone(i, g) ==
  /\ rolloutPc[i] = "loop" /\ at[g] = i /\ state[g] = "put"
  /\ state' = [state EXCEPT ![g] = "done"]
  /\ rolloutPc' = [rolloutPc EXCEPT ![i] = LoopOrWait(i, g)]
  /\ UNCHANGED <<cfg, step, started, servePc, event, at, left, aborted, requests, responses,
                 schedVars, output, inferVars, actorVars, scale, updates>>

\* A task that was aborted leaves the running ones, and is kept for the hand-over.
MarkAborted(i, g) ==
  /\ rolloutPc[i] = "loop" /\ at[g] = i /\ state[g] = "returned" /\ left[g] > 0
  /\ \A h \in Groups : at[h] = i => state[h] # "put"
  /\ state' = [state EXCEPT ![g] = "aborted"]
  /\ aborted' = [aborted EXCEPT ![i] = Append(@, g)]
  /\ rolloutPc' = [rolloutPc EXCEPT ![i] = LoopOrWait(i, g)]
  /\ UNCHANGED <<cfg, step, started, servePc, event, at, left, requests, responses,
                 schedVars, output, inferVars, actorVars, scale, updates>>

AfterWait(i) == FALSE

\* The notification: on to the groups that migrated in, or out of the loop.
\* status_manager.clear() forgets what the instance still holds, and the event.
Notified(i) ==
  /\ rolloutPc[i] = "wait" /\ event[i]
  /\ IF RunningGroups(i) # {}
     THEN /\ rolloutPc' = [rolloutPc EXCEPT ![i] = "loop"]
          /\ event' = [event EXCEPT ![i] = AfterWait(i)]
          /\ UNCHANGED <<at, state, aborted>>
     ELSE /\ rolloutPc' = [rolloutPc EXCEPT ![i] = "offload"]
          /\ event' = [event EXCEPT ![i] = FALSE]
          /\ at' = [g \in Groups |-> IF at[g] = i THEN 0 ELSE at[g]]
          /\ state' = [g \in Groups |-> IF at[g] = i /\ state[g] # "done" THEN "lost" ELSE state[g]]
          /\ aborted' = [aborted EXCEPT ![i] = <<>>]
  /\ UNCHANGED <<cfg, step, started, servePc, left, requests, responses, schedVars, output,
                 inferVars, actorVars, scale, updates>>

\* offload_engine(), then report_offloaded() and the end of rollout().
Offload(i) ==
  /\ rolloutPc[i] = "offload"
  /\ rolloutPc' = [rolloutPc EXCEPT ![i] = "done"]
  /\ responses' = [responses EXCEPT ![i] = Append(@, Response("Offloaded", NoReport, <<>>))]
  /\ UNCHANGED <<cfg, step, started, servePc, event, groupVars, requests, schedVars, output,
                 inferVars, actorVars, scale, updates>>

-----------------------------------------------------------------------------
(***************************************************************************)
(* A rollout instance: RolloutScalingScheduler.main_loop().                *)
(***************************************************************************)

\* _migrate_in wakes rollout() only if nothing runs.
AlwaysNotify(i) == TRUE
NeedsNotify(i) == RunningGroups(i) = {}

Serve(i) ==
  /\ servePc[i] = "idle" /\ requests[i] # <<>>
  /\ requests' = [requests EXCEPT ![i] = Tail(@)]
  /\ LET r == Head(requests[i])
         moved == ToSet(r.data)
     IN \/ /\ r.act = "Report"
           /\ responses' = [responses EXCEPT ![i] = Append(@, Response("Report", Report(i), <<>>))]
           /\ UNCHANGED <<servePc, event, at, state>>
        \/ /\ r.act = "MigrateIn"
           /\ event' = [event EXCEPT ![i] = @ \/ NeedsNotify(i)]
           /\ at' = [g \in Groups |-> IF g \in moved THEN i ELSE at[g]]
           /\ state' = [g \in Groups |-> IF g \in moved THEN "running" ELSE state[g]]
           /\ UNCHANGED <<servePc, responses>>
        \/ /\ r.act = "MigrateOut"
           /\ state' = [g \in Groups |-> IF at[g] = i /\ state[g] = "running" THEN "returned"
                                         ELSE state[g]]
           /\ servePc' = [servePc EXCEPT ![i] = "drain"]
           /\ UNCHANGED <<responses, event, at>>
        \/ /\ r.act = "Finish"
           /\ servePc' = [servePc EXCEPT ![i] = "finish"]
           /\ UNCHANGED <<responses, event, at, state>>
  /\ UNCHANGED <<cfg, step, started, rolloutPc, left, aborted, schedVars, output, inferVars,
                 actorVars, scale, updates>>

\* _wait_until_no_running_task, which polls.
Quiet(i) == RunningGroups(i) = {}

\* The end of _migrate_out: the aborted groups leave by value.
HandOver(i) ==
  /\ servePc[i] = "drain" /\ Quiet(i)
  /\ servePc' = [servePc EXCEPT ![i] = "idle"]
  /\ responses' = [responses EXCEPT ![i] = Append(@, Response("Data", NoReport, aborted[i]))]
  /\ at' = [g \in Groups |-> IF g \in ToSet(aborted[i]) THEN 0 ELSE at[g]]
  /\ state' = [g \in Groups |-> IF g \in ToSet(aborted[i]) THEN "moving" ELSE state[g]]
  /\ UNCHANGED <<cfg, step, started, rolloutPc, event, left, aborted, requests, schedVars,
                 output, inferVars, actorVars, scale, updates>>

\* The end of _wait_for_finish.
NotifyFinish(i) ==
  /\ servePc[i] = "finish" /\ Quiet(i)
  /\ servePc' = [servePc EXCEPT ![i] = "idle"]
  /\ event' = [event EXCEPT ![i] = TRUE]
  /\ UNCHANGED <<cfg, step, started, rolloutPc, groupVars, requests, responses, schedVars,
                 output, inferVars, actorVars, scale, updates>>

-----------------------------------------------------------------------------
(***************************************************************************)
(* Decisions of the managers.                                              *)
(***************************************************************************)

Ceil(a, b) == (a + b - 1) \div b
Alive == (offset + 1) .. cfg.instances
RolloutCur == cfg.instances - offset
TotalRunning == MapThenSumSet(LAMBDA i : reports[i].running, Alive)
TotalTasks == MapThenSumSet(LAMBDA i : reports[i].total, Alive)

\* The GPUs the actor can use of so many: up to the largest valid size they reach.
Usable(gpus) ==
  LET reach == {d \in ValidDpSizes(cfg) : d >= actorCur /\ (d - actorCur) * cfg.amp <= gpus}
  IN (Max(reach) - actorCur) * cfg.amp

\* migrate_policy and find_release_instance_num_needed.
MigratePolicy ==
  LET most == Max({0, RolloutCur - Ceil(TotalRunning, cfg.maxRunning)})
  IN IF RolloutCur <= 1 \/ most = 0 THEN 0 ELSE Ceil(Usable(most * cfg.mp), cfg.mp)

\* try_allocate.
TryAllocate == IF available < cfg.amp THEN 0 ELSE Usable(available)

\* pre_process gives up as many instances as fill the actor's GPUs.
PreInstances == ActorGpus(cfg) \div cfg.mp
PreThreshold == (cfg.groups * cfg.size) \div 2

\* _assign_sequences_sequential: each instance but the last takes groups until it
\* has its share of the running tasks, the last one takes the rest.
Assign(batch, to) ==
  LET expected == TotalRunning \div Cardinality(to)
      Fill(acc, i) ==
        LET after == [n \in 0 .. Len(acc.rest) |->
                        reports[i].running
                          + FoldLeft(LAMBDA s, g : s + left[g], 0, SubSeq(acc.rest, 1, n))]
            n == Min({m \in DOMAIN after : after[m] >= expected \/ m = Len(acc.rest)})
            take == IF i = Max(to) THEN Len(acc.rest) ELSE n
        IN [rest |-> SubSeq(acc.rest, take + 1, Len(acc.rest)),
            got |-> acc.got @@ (i :> SubSeq(acc.rest, 1, take))]
  IN FoldLeft(Fill, [rest |-> batch, got |-> <<>>], SetToSortSeq(to, <)).got

-----------------------------------------------------------------------------
(***************************************************************************)
(* The scheduler: schedule(), pre_process() and main_loop().               *)
(***************************************************************************)
ledger == <<offset, inferCur, actorCur, available>>
others == <<cfg, step, instVars, groupVars, output, inferVars, actorVars>>

\* _scatter_requests, and from then on the scheduler waits for the instances.
Scatter(ids, r) ==
  requests' = [i \in Instances |-> IF i \in ids THEN Append(requests[i], r) ELSE requests[i]]

\* _gather_responses: one response of each instance.
Answered(kind) == \A i \in asked : responses[i] # <<>> /\ Head(responses[i]).act = kind
TakeResponses ==
  responses' = [i \in Instances |-> IF i \in asked THEN Tail(responses[i]) ELSE responses[i]]

\* pre_process of rollout: all instances are current again.
Start ==
  /\ pc = "start"
  /\ offset' = 0
  /\ iter' = -1
  /\ pc' = IF cfg.pre THEN "report" ELSE "prepare"
  /\ UNCHANGED <<others, requests, responses, asked, reports, inferCur, actorCur, available,
                 scale, updates>>

AskReports ==
  /\ pc = "report"
  /\ Scatter(Alive, Request("Report", <<>>))
  /\ asked' = Alive
  /\ pc' = "reports"
  /\ UNCHANGED <<others, responses, iter, reports, ledger, scale, updates>>

\* What the reports lead to: in pre_process to another report a second later until
\* every task was started and enough are over; else to the end of rollout, to a
\* migration or to nothing.
AllStarted == cfg.groups * cfg.size = TotalTasks'
Decision ==
  IF iter = -1
  THEN IF AllStarted /\ TotalRunning' <= PreThreshold THEN "migrate" ELSE "report"
  ELSE IF TotalRunning' = 0 \/ (cfg.wait /\ iter = cfg.iters - 2) THEN "finish"
  ELSE IF MigratePolicy' = 0 THEN "inference" ELSE "migrate"

TakeReports ==
  /\ pc = "reports" /\ Answered("Report")
  /\ reports' = [i \in Instances |-> IF i \in asked THEN Head(responses[i]).report ELSE reports[i]]
  /\ TakeResponses
  /\ asked' = {}
  /\ UNCHANGED <<others, requests, iter, ledger, scale, updates>>
  /\ pc' = Decision

\* migrate(): the first instances, never all, hand their groups over ...
MigrationSize == IF iter = -1 THEN PreInstances ELSE MigratePolicy
MigrateOut ==
  /\ pc = "migrate"
  /\ MigrationSize < RolloutCur
  /\ asked' = (offset + 1) .. (offset + MigrationSize)
  /\ Scatter(asked', Request("MigrateOut", <<>>))
  /\ pc' = "handover"
  /\ UNCHANGED <<others, responses, iter, reports, ledger, scale, updates>>

\* ... which go to the remaining ones; then they are told to finish.
MigrateIn ==
  /\ pc = "handover" /\ Answered("Data")
  /\ LET ids == SetToSortSeq(asked, <)
         batch == FlattenSeq([k \in 1 .. Len(ids) |-> Head(responses[ids[k]]).data])
         to == Alive \ asked
         plan == Assign(batch, to)
     IN requests' = [i \in Instances |->
                       IF i \in asked THEN Append(requests[i], Request("Finish", <<>>))
                       ELSE IF i \in to /\ plan[i] # <<>>
                            THEN Append(requests[i], Request("MigrateIn", plan[i]))
                            ELSE requests[i]]
  /\ TakeResponses
  /\ pc' = "finishing"
  /\ UNCHANGED <<others, iter, asked, reports, ledger, scale, updates>>

Finish ==
  /\ pc = "finish"
  /\ asked' = Alive
  /\ Scatter(Alive, Request("Finish", <<>>))
  /\ pc' = "finishing"
  /\ UNCHANGED <<others, responses, iter, reports, ledger, scale, updates>>

InstancesAsGpus(ids) == Cardinality(ids)
Gpus(ids) == Cardinality(ids) * cfg.mp

\* finish() returns when the instances have offloaded; only release_resource()
\* hands their GPUs to the scheduler's account.
Offloaded ==
  /\ pc = "finishing" /\ Answered("Offloaded")
  /\ TakeResponses
  /\ offset' = offset + Cardinality(asked)
  /\ available' = IF iter \in {-1, cfg.iters - 1} THEN available
                  ELSE available + Gpus(asked)
  /\ asked' = {}
  /\ pc' = IF iter = -1 THEN "prepare" ELSE "inference"
  /\ UNCHANGED <<others, requests, iter, reports, inferCur, actorCur, scale, updates>>

\* pre_process of the other managers and the reset of the scheduler's state.
Prepare ==
  /\ pc = "prepare"
  /\ inferCur' = cfg.infer /\ actorCur' = cfg.actor /\ available' = 0
  /\ scale' = IF cfg.pre THEN Append(scale, 0) ELSE scale
  /\ iter' = 0
  /\ pc' = "await"
  /\ UNCHANGED <<others, requests, responses, asked, reports, offset, updates>>

\* wait_for_actor_update(), then rollout's turn.
ActorReady ==
  /\ pc = "await" /\ updates > 0
  /\ updates' = updates - 1
  /\ pc' = IF RolloutCur = 0 THEN "inference" ELSE IF iter = cfg.iters - 1 THEN "finish" ELSE "report"
  /\ UNCHANGED <<others, requests, responses, iter, asked, reports, ledger, scale>>

\* Inference has offloaded, and its signal may have arrived or not.
BeforeOffload == inferred = cfg.groups
InferenceOver == inferPc = "offloaded"
MustWait == iter = cfg.iters - 1 \/ (cfg.wait /\ (iter = cfg.iters - 2 \/ RolloutCur = 0))

ReleaseInference ==
  /\ pc = "inference"
  /\ pc' = "allocate"
  /\ IF cfg.infer = 0 \/ (inferCur = 0 /\ iter < cfg.iters - 1)
     THEN UNCHANGED <<inferCur, available>>
     ELSE \/ /\ InferenceOver
             /\ iter < cfg.iters - 1 => MustWait \/ ~cfg.wait
             /\ IF iter = cfg.iters - 1 THEN UNCHANGED <<inferCur, available>>
                ELSE inferCur' = 0 /\ available' = available + inferCur
          \/ ~MustWait /\ UNCHANGED <<inferCur, available>>
  /\ UNCHANGED <<others, requests, responses, iter, asked, reports, offset, actorCur, scale,
                 updates>>

\* The actor's turn: it grows by what it can use, or returns to its first size
\* after the last training step.  0 stands for None, no change.
NextSize == IF iter = cfg.iters - 1 THEN cfg.actor ELSE actorCur + TryAllocate \div cfg.amp

CanGrow == iter < cfg.iters - 1 /\ available >= cfg.amp => actorCur < Max(ValidDpSizes(cfg))

Allocate ==
  /\ pc = "allocate" /\ CanGrow
  /\ scale' = Append(scale, IF NextSize = actorCur THEN 0 ELSE NextSize * cfg.amp)
  /\ actorCur' = NextSize
  /\ available' = IF iter = cfg.iters - 1 THEN available ELSE available - TryAllocate
  /\ IF iter = cfg.iters - 1 THEN pc' = "over" /\ UNCHANGED iter
     ELSE pc' = "await" /\ iter' = iter + 1
  /\ UNCHANGED <<others, requests, responses, asked, reports, offset, inferCur, updates>>

-----------------------------------------------------------------------------
(***************************************************************************)
(* Inference, the actor and the runner.                                    *)
(***************************************************************************)

Infer ==
  /\ inferPc = "run" /\ inferred < output
  /\ inferred' = inferred + 1
  /\ inferPc' = IF inferred' = cfg.groups THEN "offload" ELSE "run"
  /\ UNCHANGED <<cfg, step, instVars, groupVars, requests, responses, schedVars, output,
                 actorVars, scale, updates>>

\* scheduler_offload_sync: offload, then signal.
OffloadInference ==
  /\ inferPc = "offload"
  /\ inferPc' = "offloaded"
  /\ UNCHANGED <<cfg, step, instVars, groupVars, requests, responses, schedVars, output,
                 inferred, actorVars, scale, updates>>

\* scheduler_pre_process: the actor's GPUs belong to rollout until then.
ActorStart ==
  /\ actorPc = "pre" /\ scale # <<>>
  /\ scale' = Tail(scale)
  /\ actorPc' = "train"
  /\ UNCHANGED <<cfg, step, instVars, groupVars, requests, responses, schedVars, output,
                 inferVars, trained, world, updates>>

\* A training step on its share of the results; then rank 0 asks the scheduler.
\* Nothing makes rollout() start on every instance before that; it is assumed.
Results == IF cfg.infer = 0 THEN output ELSE inferred
Train ==
  /\ actorPc = "train"
  /\ Results * cfg.iters >= (trained + 1) * cfg.groups
  /\ \A i \in Instances : rolloutPc[i] # "idle"
  /\ actorPc' = "sync"
  /\ trained' = trained + 1
  /\ updates' = updates + 1
  /\ UNCHANGED <<cfg, step, instVars, groupVars, requests, responses, schedVars, output,
                 inferVars, world, scale>>

\* scheduler_scale_sync: apply_parallel_strategy unless the answer is None.
ApplyScale ==
  /\ actorPc = "sync" /\ scale # <<>>
  /\ scale' = Tail(scale)
  /\ world' = IF Head(scale) = 0 THEN world ELSE Head(scale)
  /\ actorPc' = IF trained = cfg.iters THEN "done" ELSE "train"
  /\ UNCHANGED <<cfg, step, instVars, groupVars, requests, responses, schedVars, output,
                 inferVars, trained, updates>>

\* The runner waits for the actor and the scheduler, synchronizes the weights, which
\* waits for rollout() and inference to be over, and starts the next global step.
StepOver ==
  /\ actorPc = "done" /\ pc = "over"
  /\ \A i \in Instances : rolloutPc[i] = "done"
  /\ inferPc = "offloaded"

NextStep ==
  /\ StepOver /\ step < cfg.steps
  /\ step' = step + 1
  /\ started' = 0 /\ output' = 0 /\ inferred' = 0 /\ trained' = 0
  /\ rolloutPc' = StepStart(cfg).rolloutPc /\ actorPc' = StepStart(cfg).actorPc
  /\ at' = StepStart(cfg).at /\ state' = StepStart(cfg).state /\ left' = StepStart(cfg).left
  /\ inferPc' = IF cfg.infer = 0 THEN "offloaded" ELSE "run"
  /\ pc' = "start"
  /\ UNCHANGED <<cfg, servePc, event, aborted, requests, responses, iter, asked, reports,
                 ledger, world, scale, updates>>

Terminated == StepOver /\ step = cfg.steps /\ UNCHANGED allVars

Rollout(i) ==
  \/ StartRollout(i) \/ Notified(i) \/ Offload(i)
  \/ \E g \in Groups : Deliver(i, g) \/ MarkDone(i, g) \/ MarkAborted(i, g)
Serving(i) == Serve(i) \/ HandOver(i) \/ NotifyFinish(i)
Schedule ==
  \/ Start \/ AskReports \/ TakeReports \/ MigrateOut \/ MigrateIn \/ Finish \/ Offloaded
  \/ Prepare \/ ActorReady \/ ReleaseInference \/ Allocate
Inference == Infer \/ OffloadInference
Actor == ActorStart \/ Train \/ ApplyScale

SchedulerNext ==
  \/ \E i \in Instances : Rollout(i) \/ Serving(i)
  \/ \E g \in Groups : FinishSequence(g)
  \/ Schedule \/ Inference \/ Actor \/ NextStep \/ Terminated

SchedulerSpec == SchedulerInit /\ [][SchedulerNext]_allVars

\* Every coroutine, process and generation goes on; the signal of inference is
\* seen at last.
SchedulerFairness ==
  /\ \A i \in 1 .. Max({c.instances : c \in Configs}) :
       WF_allVars(i \in Instances /\ Rollout(i)) /\ WF_allVars(i \in Instances /\ Serving(i))
  /\ WF_allVars(\E g \in Groups : FinishSequence(g))
  /\ WF_allVars(Schedule) /\ WF_allVars(Inference) /\ WF_allVars(Actor) /\ WF_allVars(NextStep)
FairSchedulerSpec == SchedulerSpec /\ SchedulerFairness

-----------------------------------------------------------------------------
(***************************************************************************)
(* Properties.                                                             *)
(***************************************************************************)

\* No assertion of the scheduler, of its managers or of rollout() fails: a response
\* is of the kind that was asked for, an instance is kept back from every migration,
\* the actor is never offered GPUs it has no size for, and no group waits in an
\* instance before its rollout() starts.
Expected == [reports |-> "Report", handover |-> "Data", finishing |-> "Offloaded"]
AssertionsHold ==
  /\ pc \in DOMAIN Expected =>
       \A i \in asked : responses[i] # <<>> => Head(responses[i]).act = Expected[pc]
  /\ pc = "migrate" => MigrationSize < RolloutCur
  /\ pc = "allocate" => CanGrow
  /\ \A i \in Instances : rolloutPc[i] = "idle" => Vacant(i)

\* However often its group was aborted and migrated, no sequence is dropped; a global
\* step ends with each group delivered once and nothing left in a queue, an event or
\* an instance for the next step to find.
NothingLeftBehind ==
  /\ \A g \in Groups : state[g] # "lost"
  /\ StepOver =>
       /\ output = cfg.groups /\ \A g \in Groups : state[g] = "done" /\ left[g] = 0
       /\ \A i \in Instances : requests[i] = <<>> /\ responses[i] = <<>> /\ ~event[i] /\ aborted[i] = <<>>
       /\ scale = <<>> /\ updates = 0 /\ world = ActorGpus(cfg)

\* The scheduler's account of the main loop: what the components hold and what is
\* available are all GPUs, and an instance or size it counts as released is released.
LedgerIsTrue ==
  /\ pc \in {"await", "report", "reports", "migrate", "handover", "finish"} /\ iter >= 0 =>
       RolloutCur * cfg.mp + inferCur + actorCur * cfg.amp + available = TotalGpus(cfg)
  /\ pc # "start" => \A i \in 1 .. offset : rolloutPc[i] = "done"

\* The scheduler's picture of the cluster is true.
BooksAreTrue == AssertionsHold /\ LedgerIsTrue

\* The GPUs each party computes on.  The actor is on the first ones.
ActorUses == IF actorPc \in {"train", "sync"} THEN 0 .. world - 1 ELSE {}
RolloutUses(i) ==
  IF rolloutPc[i] = "done" THEN {}
  ELSE LET first == RolloutBase(cfg) + (i - 1) * cfg.mp IN first .. first + cfg.mp - 1
InferUses ==
  IF inferPc = "offloaded" THEN {} ELSE (TotalGpus(cfg) - cfg.infer) .. (TotalGpus(cfg) - 1)

\* No GPU is used by two components at a time ("each component has its own dedicated
\* set of GPUs"): the actor grows only over instances that have offloaded.
GpusExclusive ==
  /\ ActorUses \cap InferUses = {}
  /\ \A i \in Instances : RolloutUses(i) \cap (ActorUses \cup InferUses) = {}

\* The same where the actor waits for rollout and inference before the last step;
\* without that policy inference may be released before rollout, which lies between.
GpusExclusiveIfWaiting == cfg.wait => GpusExclusive

\* All global steps end: the handshakes of four parties never wait for each other.
AllStepsEnd == <>(step = cfg.steps /\ StepOver)
=============================================================================
