--------------------------- MODULE EmbodiedPipeline ---------------------------
(***************************************************************************)
(* The embodied pipeline without per-environment slots: an environment     *)
(* worker steps all simulators of a stage at once, a rollout worker        *)
(* answers every observation in the order it expects, and the actors train *)
(* on the trajectories.  Three programs share the two loops:               *)
(*   "sync"   EmbodiedRunner._run_sync: collect, train, evaluate           *)
(*   "async"  EmbodiedRunner._run_async: trajectories leave per epoch      *)
(*   "stream" AsyncEmbodiedRunner: generation never pauses, records go to  *)
(*            replay buffers, and stop() ends it                           *)
(*                                                                         *)
(* Sources: workers/env/env_worker.py, async_env_worker.py,                *)
(* workers/rollout/hf/huggingface_worker.py, async_huggingface_worker.py,  *)
(* runners/embodied_runner.py, async_embodied_runner.py, the SAC policy    *)
(* workers, data/replay_buffer.py, EmbodiedRolloutResult and               *)
(* AsyncEmbodiedRolloutBuffer of data/io_struct.py.  An observation is the *)
(* step it was made at; simulators, models, losses, demonstrations and     *)
(* off-loading are left out.  The training of the "async" program is in    *)
(* ActorTraining; here an actor only counts its messages.                  *)
(***************************************************************************)
EXTENDS Integers, Sequences, FiniteSets, FiniteSetsExt, SequencesExt, Selections

CONSTANTS
  NumEpochs,    \* algorithm.rollout_epoch
  NumEvalSteps, \* n_chunk_steps of evaluation, of one epoch
  NumIters,     \* runner.max_steps
  Configs       \* the configurations considered, each a member of Config

Positive == Nat \ {0}

(***************************************************************************)
(* steps     n_chunk_steps of training                                     *)
(* maxEpochs bound: a stop reaches an environment before it ends so many   *)
(*           epochs of a stream                                            *)
(* sac       trained from replay buffers of capacity pieces that must hold *)
(*           minSize of them (min_buffer_size / world size)                *)
(* eval      evaluation after (stream: before) every training step         *)
(* stages    rollout.pipeline_stage_num                                    *)
(***************************************************************************)
Config == [kind : {"sync", "async", "stream"}, sac : BOOLEAN, eval : BOOLEAN, envs : Positive, rollouts : Positive,
           actors : Positive, stages : Positive, steps : Positive, minSize : Nat, capacity : Positive,
           maxEpochs : Positive]

Lcm(a, b) == Min({n \in 1 .. a * b : n % a = 0 /\ n % b = 0})
ComputeSplitNum(num, splitNum) == Lcm(num, splitNum) \div splitNum

\* The asserts on world sizes, and what each program is run with.  A batch as
\* large as a replay buffer is not modelled (truncate_nested_dict_by_capacity
\* is called without its capacity and raises).
ASSUME EmbodiedAssumption ==
  /\ NumEpochs \in Positive /\ NumEvalSteps \in Positive /\ NumIters \in Positive
  /\ \A c \in Configs :
       /\ c \in Config
       /\ c.envs % c.rollouts = 0 \/ c.rollouts % c.envs = 0
       /\ c.kind = "stream" => c.sac
       /\ c.kind = "async" => ~c.sac
       /\ c.sac => c.capacity > ComputeSplitNum(c.rollouts * c.stages, c.actors)

VARIABLES
  conf,       \* the configuration of this execution; no step changes it
  pc,         \* the runner: the call it waits for
  it,         \* training steps completed
  evals,      \* evaluations begun, counted modulo 2
  version,    \* actors: optimizer_steps
  loaded,     \* rollout workers that have the weights of the current sync_weights
  rolVersion, \* rollout worker: behavior_policy_version
  envPc,      \* environment worker: "idle", "start", "yield", "recv", "exit"
  envAt,      \* environment worker: epoch, step and stage of the action it needs next
  envStop,    \* environment worker: {} or the epoch in which stop() reached it
  rolPc,      \* rollout worker: "idle", "recv", "exit"
  rolAt,      \* rollout worker: epoch, step and stage of the observation it needs next
  rolStop,    \* rollout worker: {} or the epoch in which stop() reached it
  envEval,    \* environment worker's evaluate(): {}, {Called} or {its cursor}
  rolEval,    \* rollout worker's evaluate(): {} or {its cursor}
  obs,        \* channel "Env", by link and mode
  act,        \* channel "Rollout", by link and mode
  buf,        \* <<rollout worker, stage>> -> lists or queues of the trajectory
  task,       \* <<rollout worker, stage>> -> "off", "run", "done": buffer.run
  q,          \* channels "Actor", "ReplayBuffer": key -> queue
  acPc,       \* actor: "idle", "collect", "have"
  got,        \* actor: messages of the batch it is collecting
  ring,       \* actor: SACReplayBuffer
  added,      \* history: pieces added to the replay buffer, oldest first
  dec         \* actor in run_training: "none", "skip", "train", "joined"

runnerVars  == <<conf, it, evals, version>>
weightVars  == <<loaded, rolVersion>>
envVars     == <<envPc, envAt, envStop>>
rolVars     == <<rolPc, rolAt, rolStop, buf, task>>
evalVars    == <<envEval, rolEval>>
actorVars   == <<acPc, got, ring, added, dec>>
vars == <<runnerVars, pc, weightVars, envVars, rolVars, evalVars, obs, act, q, actorVars>>

Envs     == 0 .. conf.envs - 1
Rollouts == 0 .. conf.rollouts - 1
Actors   == 0 .. conf.actors - 1
Stages   == 0 .. conf.stages - 1
Buffers  == Rollouts \X Stages
Modes    == {"train", "eval"}
Stream   == conf.kind = "stream"
NumSteps == conf.steps

\* gather_num and scatter_num: an environment worker serves several rollout
\* workers or several of them share one; a link is a channel key.
Links ==
  IF conf.rollouts >= conf.envs
  THEN {<<r \div (conf.rollouts \div conf.envs), r>> : r \in Rollouts}
  ELSE {<<e, e \div (conf.envs \div conf.rollouts)>> : e \in Envs}
LinksOfEnv(e)     == {l \in Links : l[1] = e}
LinksOfRollout(r) == {l \in Links : l[2] = r}

\* get_actor_split_num: pieces of a trajectory; and the messages an actor counts on.
SplitNum == ComputeSplitNum(conf.actors, conf.rollouts * conf.stages)
Total    == conf.rollouts * conf.stages * SplitNum
MessagesPerEpoch(a) == Total \div conf.actors + (IF a < Total % conf.actors THEN 1 ELSE 0)
Need(a) ==
  IF conf.kind = "async" THEN NumEpochs * MessagesPerEpoch(a)
  ELSE ComputeSplitNum(conf.rollouts * conf.stages, conf.actors)

DefaultKey == -1
\* send_rollout_batch: the stage has no part in the key.
TargetKey(r, k) == (r * SplitNum + k) % conf.actors
KeyOf(a)        == IF conf.kind = "async" THEN a ELSE DefaultKey

\* _setup_rollout_weight_dst_ranks; the rollout worker expects its weights
\* from actor_weight_src_rank.
WeightDstRounded(a) ==
  {n * conf.actors + a : n \in 0 .. conf.rollouts \div conf.actors - 1} \cap Rollouts
WeightDst(a) ==
  {n * conf.actors + a : n \in 0 .. (conf.rollouts + conf.actors - 1) \div conf.actors - 1} \cap Rollouts
WeightSrc(r) == r % conf.actors

\* A position in the nested loops over epochs, steps and stages, the one after
\* it, and whether it is the last of its epoch.
Cursor(ep, st, stage) == [ep |-> ep, st |-> st, stage |-> stage]
Start  == Cursor(0, 0, 0)
Called == Cursor(-1, 0, 0)   \* evaluate() has been called and has not begun
EndsEpoch(c, lastStep) == c.st = lastStep /\ c.stage = conf.stages - 1
After(c, lastStep) ==
  IF c.stage < conf.stages - 1 THEN [c EXCEPT !.stage = @ + 1]
  ELSE IF c.st < lastStep THEN Cursor(c.ep, c.st + 1, 0)
  ELSE Cursor(c.ep + 1, 0, 0)

\* What travels on a link: the call it belongs to and a position.
Round(mode) == IF mode = "train" THEN (IF Stream THEN 0 ELSE it) ELSE evals
Msg(mode, c) == [round |-> Round(mode), at |-> c]

\* Puts and gets on the links of a worker.
PutAll(ch, links, mode, msgs) ==
  [x \in DOMAIN ch |-> IF x[1] \in links /\ x[2] = mode THEN ch[x] \o msgs ELSE ch[x]]
TakeAll(ch, links, mode) ==
  [x \in DOMAIN ch |-> IF x[1] \in links /\ x[2] = mode THEN Tail(ch[x]) ELSE ch[x]]
Waiting(ch, links, mode) == \A l \in links : ch[<<l, mode>>] # <<>>

NoTrajectory ==
  [logprobs |-> <<>>, values |-> <<>>, dones |-> <<>>, rewards |-> <<>>, inputs |-> <<>>, transitions |-> <<>>]

Init ==
  /\ conf \in Configs
  /\ pc = "load" /\ it = 0 /\ evals = 0 /\ version = 0
  /\ loaded = {} /\ rolVersion = [r \in Rollouts |-> 0]
  /\ envPc = [e \in Envs |-> "idle"] /\ envAt = [e \in Envs |-> Start] /\ envStop = [e \in Envs |-> {}]
  /\ rolPc = [r \in Rollouts |-> "idle"] /\ rolAt = [r \in Rollouts |-> Start] /\ rolStop = [r \in Rollouts |-> {}]
  /\ envEval = [e \in Envs |-> {}] /\ rolEval = [r \in Rollouts |-> {}]
  /\ obs = [x \in Links \X Modes |-> <<>>] /\ act = [x \in Links \X Modes |-> <<>>]
  /\ buf = [b \in Buffers |-> NoTrajectory] /\ task = [b \in Buffers |-> "off"]
  /\ q = [k \in Actors \cup {DefaultKey} |-> <<>>]
  /\ acPc = [a \in Actors |-> "idle"] /\ got = [a \in Actors |-> <<>>]
  /\ ring = [a \in Actors |-> [pos |-> 0, size |-> 0, slots |-> [n \in 0 .. conf.capacity - 1 |-> <<>>]]]
  /\ added = [a \in Actors |-> <<>>] /\ dec = [a \in Actors |-> "none"]

-----------------------------------------------------------------------------
(***************************************************************************)
(* Environment workers: interact() and evaluate().                         *)
(***************************************************************************)

\* The observations an epoch starts with, one for each stage.
Opening(mode, ep) == [i \in 1 .. conf.stages |-> Msg(mode, Cursor(ep, 0, i - 1))]

\* A new epoch, unless a stream was stopped: the simulators are reset (or go
\* on from where they are) and every stage's observation is sent.
EnvBegin(e) ==
  /\ envPc[e] = "start"
  /\ IF envStop[e] # {}
     THEN /\ envPc' = [envPc EXCEPT ![e] = "exit"]
          /\ UNCHANGED obs
     ELSE /\ envPc' = [envPc EXCEPT ![e] = IF Stream THEN "yield" ELSE "recv"]
          /\ obs' = PutAll(obs, LinksOfEnv(e), "train", Opening("train", envAt[e].ep))
  /\ UNCHANGED <<runnerVars, pc, weightVars, envAt, envStop, rolVars, evalVars, act, q, actorVars>>

\* AsyncEnvWorker yields once before every action; the get that follows blocks
\* the worker's event loop, so that no other call of it is served.
EnvYield(e) ==
  /\ envPc[e] = "yield"
  /\ envEval[e] \in {{}, {Called}}
  /\ envAt[e].ep = conf.maxEpochs - 1 /\ EndsEpoch(envAt[e], NumSteps - 1) => envStop[e] # {}
  /\ envPc' = [envPc EXCEPT ![e] = "recv"]
  /\ UNCHANGED <<runnerVars, pc, weightVars, envAt, envStop, rolVars, evalVars, obs, act, q, actorVars>>

\* All parts of a stage's actions are there: step, and send the observation.
EnvStep(e) ==
  LET c == envAt[e]
      ends == EndsEpoch(c, NumSteps - 1)
  IN /\ envPc[e] = "recv"
     /\ Waiting(act, LinksOfEnv(e), "train")
     /\ act' = TakeAll(act, LinksOfEnv(e), "train")
     /\ obs' = PutAll(obs, LinksOfEnv(e), "train", <<Msg("train", [c EXCEPT !.st = @ + 1])>>)
     /\ envAt' = [envAt EXCEPT ![e] = After(c, NumSteps - 1)]
     /\ envPc' = [envPc EXCEPT ![e] =
                    IF ends THEN IF Stream \/ c.ep < NumEpochs - 1 THEN "start" ELSE "idle"
                    ELSE IF Stream THEN "yield" ELSE "recv"]
     /\ UNCHANGED <<runnerVars, pc, weightVars, envStop, rolVars, evalVars, q, actorVars>>

\* stop() of an environment worker runs when interact() yields.
EnvStop(e) ==
  /\ pc = "stopEnv"
  /\ envPc[e] = "yield" /\ envStop[e] = {}
  /\ envStop' = [envStop EXCEPT ![e] = {envAt[e].ep}]
  /\ UNCHANGED <<runnerVars, pc, weightVars, envPc, envAt, rolVars, evalVars, obs, act, q, actorVars>>

\* evaluate() keeps the worker until it returns; it starts when interact() has
\* returned or yields.
EnvEvalBegin(e) ==
  /\ envEval[e] = {Called}
  /\ envPc[e] \in {"idle", "yield"}
  /\ obs' = PutAll(obs, LinksOfEnv(e), "eval", Opening("eval", 0))
  /\ envEval' = [envEval EXCEPT ![e] = {Start}]
  /\ UNCHANGED <<runnerVars, pc, weightVars, envVars, rolVars, rolEval, act, q, actorVars>>

EverySends(c) == TRUE
\* The observation after the last step of an evaluation is not sent.
EvalSends(c) == c.st < NumEvalSteps - 1

EnvEvalStep(e) ==
  \E c \in envEval[e] \ {Called} :
    /\ Waiting(act, LinksOfEnv(e), "eval")
    /\ act' = TakeAll(act, LinksOfEnv(e), "eval")
    /\ obs' = IF EvalSends(c)
              THEN PutAll(obs, LinksOfEnv(e), "eval", <<Msg("eval", [c EXCEPT !.st = @ + 1])>>)
              ELSE obs
    /\ envEval' = [envEval EXCEPT ![e] =
                     IF EndsEpoch(c, NumEvalSteps - 1) THEN {} ELSE {After(c, NumEvalSteps - 1)}]
    /\ UNCHANGED <<runnerVars, pc, weightVars, envVars, rolVars, rolEval, q, actorVars>>

-----------------------------------------------------------------------------
(***************************************************************************)
(* Rollout workers: generate(), evaluate() and the buffers.                *)
(***************************************************************************)

AppendIf(list, cond, x) == IF cond THEN Append(list, x) ELSE list

InputsEverywhere(c) == TRUE
\* last_forward_inputs is there: the action of the step before was recorded.
HasInputs(c) == c.st > 0

\* EmbodiedRolloutResult: append_result, and the lists the final observation
\* of an epoch adds to.
AppendResult(b, c) ==
  LET here == <<c.ep, c.st>>  before == <<c.ep, c.st - 1>>
  IN [logprobs    |-> AppendIf(b.logprobs, c.st < NumSteps, here),
      values      |-> Append(b.values, here),
      dones       |-> Append(b.dones, here),
      rewards     |-> AppendIf(b.rewards, c.st > 0, here),
      inputs      |-> AppendIf(b.inputs, HasInputs(c), before),
      transitions |-> AppendIf(b.transitions, conf.sac /\ c.st > 0, before)]

\* AsyncEmbodiedRolloutBuffer: a result is added with the observation that
\* follows it.  Its queue of values is never read and left out.
AddResult(b, c) ==
  LET here == <<c.ep, c.st>>  before == <<c.ep, c.st - 1>>
  IN [b EXCEPT !.dones = Append(@, here),
               !.rewards = AppendIf(@, c.st > 0, here),
               !.logprobs = AppendIf(@, HasInputs(c), before),
               !.inputs = AppendIf(@, HasInputs(c), before),
               !.transitions = AppendIf(@, c.st > 0, before)]

\* The "async" program has new buffers every epoch.
Recorded(r, c) ==
  LET b == IF conf.kind = "async" /\ c.st = 0 THEN NoTrajectory ELSE buf[<<r, c.stage>>]
  IN IF Stream THEN AddResult(b, c) ELSE AppendResult(b, c)

\* One of the SplitNum parts a trajectory or a record of a buffer is cut into.
Piece(r, i, k, at, done) ==
  [round |-> Round("train"), rank |-> r, stage |-> i, k |-> k, at |-> at, done |-> done, version |-> rolVersion[r]]

PutPieces(r, pieces) ==
  IF conf.kind = "async"
  THEN [key \in DOMAIN q |-> q[key] \o Those(pieces, {p \in ToSet(pieces) : TargetKey(r, p.k) = key})]
  ELSE [q EXCEPT ![DefaultKey] = @ \o pieces]

\* send_rollout_batch for all stages.
Trajectories(r, ep) ==
  FlattenSeq([i \in 1 .. conf.stages |->
    [k \in 1 .. SplitNum |-> Piece(r, i - 1, k - 1, <<ep, 0>>, <<ep, 0>>)]])

Ships(c) ==
  /\ EndsEpoch(c, NumSteps)
  /\ \/ conf.kind = "async"
     \/ conf.kind = "sync" /\ c.ep = NumEpochs - 1

\* The turn of one stage: receive, record, answer.  The observation after the
\* last step of an epoch is only recorded.
RolloutStep(r) ==
  LET c == rolAt[r]
  IN /\ rolPc[r] = "recv"
     /\ Waiting(obs, LinksOfRollout(r), "train")
     /\ obs' = TakeAll(obs, LinksOfRollout(r), "train")
     /\ act' = IF c.st < NumSteps
               THEN PutAll(act, LinksOfRollout(r), "train", <<Msg("train", c)>>) ELSE act
     /\ buf' = [buf EXCEPT ![<<r, c.stage>>] = Recorded(r, c)]
     /\ q' = IF Ships(c) THEN PutPieces(r, Trajectories(r, c.ep)) ELSE q
     /\ rolAt' = [rolAt EXCEPT ![r] = After(c, NumSteps)]
     /\ rolPc' = [rolPc EXCEPT ![r] =
                    IF ~EndsEpoch(c, NumSteps) THEN "recv"
                    ELSE IF Stream THEN IF rolStop[r] # {} THEN "exit" ELSE "recv"
                    ELSE IF c.ep < NumEpochs - 1 THEN "recv" ELSE "idle"]
     /\ UNCHANGED <<runnerVars, pc, weightVars, envVars, rolStop, task, evalVars, actorVars>>

\* send_data of a buffer's task: one item of every queue, then should_stop.
BufferSend(r, i) ==
  LET b == buf[<<r, i>>]
  IN /\ task[<<r, i>>] = "run"
     /\ \A list \in {b.logprobs, b.dones, b.rewards, b.transitions, b.inputs} : list # <<>>
     /\ q' = PutPieces(r, [k \in 1 .. SplitNum |-> Piece(r, i, k - 1, Head(b.inputs), Head(b.dones))])
     /\ buf' = [buf EXCEPT ![<<r, i>>] =
                  [f \in DOMAIN b |-> IF f = "values" THEN b[f] ELSE Tail(b[f])]]
     /\ task' = [task EXCEPT ![<<r, i>>] = IF rolStop[r] # {} THEN "done" ELSE "run"]
     /\ UNCHANGED <<runnerVars, pc, weightVars, envVars, rolPc, rolAt, rolStop, evalVars, obs, act, actorVars>>

\* stop() of a rollout worker runs while generate() waits for an observation.
RolloutStop(r) ==
  /\ pc = "stopRollout"
  /\ rolPc[r] = "recv" /\ rolStop[r] = {}
  /\ rolStop' = [rolStop EXCEPT ![r] = {rolAt[r].ep}]
  /\ UNCHANGED <<runnerVars, pc, weightVars, envVars, rolPc, rolAt, buf, task, evalVars, obs, act, q, actorVars>>

RolloutEvalStep(r) ==
  \E c \in rolEval[r] :
    /\ Waiting(obs, LinksOfRollout(r), "eval")
    /\ obs' = TakeAll(obs, LinksOfRollout(r), "eval")
    /\ act' = PutAll(act, LinksOfRollout(r), "eval", <<Msg("eval", c)>>)
    /\ rolEval' = [rolEval EXCEPT ![r] =
                     IF EndsEpoch(c, NumEvalSteps - 1) THEN {} ELSE {After(c, NumEvalSteps - 1)}]
    /\ UNCHANGED <<runnerVars, pc, weightVars, envVars, rolVars, envEval, q, actorVars>>

\* sync_model_from_actor: the weights of one rollout worker arrive.
LoadWeights(r) ==
  /\ pc \in {"load", "reload", "evalLoad"}
  /\ r \notin loaded
  /\ r \in WeightDst(WeightSrc(r))
  /\ loaded' = loaded \cup {r}
  /\ rolVersion' = [rolVersion EXCEPT ![r] = version]
  /\ UNCHANGED <<runnerVars, pc, envVars, rolVars, evalVars, obs, act, q, actorVars>>

-----------------------------------------------------------------------------
(***************************************************************************)
(* Actors: recv_rollout_batch or the replay buffer's task, and training.   *)
(***************************************************************************)

RingUnmoved(rb, batch) ==
  [rb EXCEPT !.size = Min({@ + Len(batch), conf.capacity}),
             !.slots = [n \in DOMAIN @ |-> IF n < Len(batch) THEN batch[n + 1] ELSE @[n]]]
\* add_rollout_batch: circular insertion from pos on.
RingInsert(rb, batch) ==
  LET offset(n) == (n - rb.pos) % conf.capacity
  IN [pos |-> (rb.pos + Len(batch)) % conf.capacity,
      size |-> Min({rb.size + Len(batch), conf.capacity}),
      slots |-> [n \in DOMAIN rb.slots |->
                  IF offset(n) < Len(batch) THEN batch[offset(n) + 1] ELSE rb.slots[n]]]

\* One message of the batch; with the last one the batch goes to the replay
\* buffer, and a stream's task starts the next batch.  A rank that has joined a
\* collective operation takes none.
TakePiece(a) ==
  LET batch == Append(got[a], Head(q[KeyOf(a)]))
      full == Len(batch) = Need(a)
  IN /\ acPc[a] = "collect" /\ dec[a] # "joined"
     /\ q[KeyOf(a)] # <<>>
     /\ q' = [q EXCEPT ![KeyOf(a)] = Tail(@)]
     /\ got' = [got EXCEPT ![a] = IF full /\ Stream THEN <<>> ELSE batch]
     /\ acPc' = [acPc EXCEPT ![a] = IF full /\ ~Stream THEN "have" ELSE "collect"]
     /\ IF full /\ conf.sac
        THEN /\ ring' = [ring EXCEPT ![a] = RingInsert(@, batch)]
             /\ added' = [added EXCEPT ![a] = @ \o batch]
        ELSE UNCHANGED <<ring, added>>
     /\ UNCHANGED <<runnerVars, pc, weightVars, envVars, rolVars, evalVars, obs, act, dec>>

\* run_training of a SAC rank: it looks at its own replay buffer only.
Decide(a) ==
  /\ pc = "train" /\ conf.sac
  /\ dec[a] = "none"
  /\ dec' = [dec EXCEPT ![a] = IF ring[a].size >= conf.minSize THEN "train" ELSE "skip"]
  /\ UNCHANGED <<runnerVars, pc, weightVars, envVars, rolVars, evalVars, obs, act, q, acPc, got, ring, added>>

\* The first collective operation of an update blocks the rank (in a stream,
\* its event loop).
Join(a) ==
  /\ dec[a] = "train"
  /\ dec' = [dec EXCEPT ![a] = "joined"]
  /\ UNCHANGED <<runnerVars, pc, weightVars, envVars, rolVars, evalVars, obs, act, q, acPc, got, ring, added>>

-----------------------------------------------------------------------------
(***************************************************************************)
(* The runner.                                                             *)
(***************************************************************************)

\* The weights are in place: interact(), generate() and the actors' side of
\* the transfer are called.
StartStep ==
  /\ pc = "load" /\ loaded = Rollouts
  /\ loaded' = {}
  /\ envPc' = [e \in Envs |-> "start"] /\ envAt' = [e \in Envs |-> Start]
  /\ rolPc' = [r \in Rollouts |-> "recv"] /\ rolAt' = [r \in Rollouts |-> Start]
  /\ buf' = [b \in Buffers |-> NoTrajectory]
  /\ task' = [b \in Buffers |-> IF Stream THEN "run" ELSE "off"]
  /\ acPc' = [a \in Actors |-> "collect"] /\ got' = [a \in Actors |-> <<>>]
  /\ pc' = IF Stream THEN "loop" ELSE "collect"
  /\ UNCHANGED <<runnerVars, rolVersion, envStop, rolStop, evalVars, obs, act, q, ring, added, dec>>

\* recv_rollout_batch() (or async_train_loop()) and generate() have returned.
Collected ==
  /\ pc = "collect"
  /\ \A a \in Actors : acPc[a] = "have"
  /\ \A r \in Rollouts : rolPc[r] = "idle"
  /\ pc' = "train"
  /\ UNCHANGED <<runnerVars, weightVars, envVars, rolVars, evalVars, obs, act, q, actorVars>>

\* What follows a training step.
AfterTraining(updated) ==
  IF Stream THEN IF updated THEN "reload" ELSE "loop"
  ELSE IF conf.eval THEN "evalLoad" ELSE "waitEnv"

TrainOnPolicy ==
  /\ pc = "train" /\ ~conf.sac
  /\ version' = version + 1
  /\ it' = it + 1
  /\ pc' = AfterTraining(TRUE)
  /\ UNCHANGED <<conf, evals, weightVars, envVars, rolVars, evalVars, obs, act, q, actorVars>>

\* run_training of all SAC ranks has returned: all trained, or all skipped,
\* which the stream's runner does not count as a step.
Trained ==
  /\ pc = "train" /\ conf.sac
  /\ \E d \in {"joined", "skip"} :
       /\ \A a \in Actors : dec[a] = d
       /\ version' = IF d = "joined" THEN version + 1 ELSE version
       /\ it' = IF d = "joined" \/ ~Stream THEN it + 1 ELSE it
       /\ pc' = AfterTraining(d = "joined")
  /\ dec' = [a \in Actors |-> "none"]
  /\ UNCHANGED <<conf, evals, weightVars, envVars, rolVars, evalVars, obs, act, q, acPc, got, ring, added>>

\* The head of the stream's loop.
Loop ==
  \/ /\ pc = "loop"
     /\ pc' = IF it = NumIters THEN "stopEnv" ELSE IF conf.eval THEN "evalLoad" ELSE "train"
     /\ UNCHANGED <<runnerVars, weightVars, envVars, rolVars, evalVars, obs, act, q, actorVars>>
  \/ /\ pc = "reload" /\ loaded = Rollouts
     /\ pc' = "loop" /\ loaded' = {}
     /\ UNCHANGED <<runnerVars, rolVersion, envVars, rolVars, evalVars, obs, act, q, actorVars>>

EvalStart ==
  /\ pc = "evalLoad" /\ loaded = Rollouts
  /\ loaded' = {}
  /\ evals' = (evals + 1) % 2
  /\ envEval' = [e \in Envs |-> {Called}] /\ rolEval' = [r \in Rollouts |-> {Start}]
  /\ pc' = "eval"
  /\ UNCHANGED <<conf, it, version, rolVersion, envVars, rolVars, obs, act, q, actorVars>>

EvalEnd ==
  /\ pc = "eval"
  /\ \A e \in Envs : envEval[e] = {}
  /\ \A r \in Rollouts : rolEval[r] = {}
  /\ pc' = IF Stream THEN "train" ELSE "waitEnv"
  /\ UNCHANGED <<runnerVars, weightVars, envVars, rolVars, evalVars, obs, act, q, actorVars>>

\* interact() has returned everywhere: the end of a step of the other programs.
StepEnd ==
  /\ pc = "waitEnv" /\ ~Stream
  /\ \A e \in Envs : envPc[e] = "idle"
  /\ pc' = IF it < NumIters THEN "load" ELSE "done"
  /\ UNCHANGED <<runnerVars, weightVars, envVars, rolVars, evalVars, obs, act, q, actorVars>>

\* The stream's shutdown: stop() of the environments, then of the rollout
\* workers, which also waits for their buffers, then the two loops.
Shutdown ==
  /\ \/ pc = "stopEnv" /\ (\A e \in Envs : envStop[e] # {}) /\ pc' = "stopRollout"
     \/ /\ pc = "stopRollout"
        /\ \A r \in Rollouts : rolStop[r] # {}
        /\ \A b \in Buffers : task[b] = "done"
        /\ pc' = "waitEnv"
     \/ /\ pc = "waitEnv" /\ Stream
        /\ \A e \in Envs : envPc[e] = "exit"
        /\ \A r \in Rollouts : rolPc[r] = "exit"
        /\ pc' = "done"
  /\ UNCHANGED <<runnerVars, weightVars, envVars, rolVars, evalVars, obs, act, q, actorVars>>

-----------------------------------------------------------------------------
Runner ==
  StartStep \/ Collected \/ TrainOnPolicy \/ Trained \/ Loop \/ EvalStart \/ EvalEnd \/ StepEnd \/ Shutdown

EnvWork(e)     == EnvBegin(e) \/ EnvYield(e) \/ EnvStep(e) \/ EnvEvalStep(e)
\* What a rollout worker does between the calls that end it; in a stream, generate.
RolloutWork(r) == RolloutStep(r) \/ RolloutEvalStep(r) \/ LoadWeights(r)
Train(a)       == Decide(a) \/ Join(a)

Next ==
  \/ Runner
  \/ \E e \in Envs : EnvWork(e) \/ EnvStop(e) \/ EnvEvalBegin(e)
  \/ \E r \in Rollouts : RolloutWork(r) \/ RolloutStop(r)
  \/ \E b \in Buffers : BufferSend(b[1], b[2])
  \/ \E a \in Actors : TakePiece(a) \/ Train(a)

Spec == Init /\ [][Next]_vars

\* Everyone goes on.  What waits for a worker's event loop (a call, or the loop
\* that yielded to one) gets its turn when the worker is free again and again; so
\* does an actor's replay buffer when messages keep coming.
FairSpec ==
  /\ Spec
  /\ WF_vars(Runner)
  /\ \A e \in 0 .. Max({c.envs : c \in Configs}) - 1 :
       /\ WF_vars(e \in Envs /\ EnvWork(e))
       /\ SF_vars(e \in Envs /\ EnvYield(e))
       /\ SF_vars(e \in Envs /\ EnvStop(e))
       /\ SF_vars(e \in Envs /\ EnvEvalBegin(e))
  /\ \A r \in 0 .. Max({c.rollouts : c \in Configs}) - 1 :
       /\ WF_vars(r \in Rollouts /\ RolloutStep(r))
       /\ WF_vars(r \in Rollouts /\ RolloutEvalStep(r))
       /\ WF_vars(r \in Rollouts /\ LoadWeights(r))
       /\ WF_vars(r \in Rollouts /\ RolloutStop(r))
       /\ \A i \in 0 .. Max({c.stages : c \in Configs}) - 1 :
            WF_vars(<<r, i>> \in Buffers /\ BufferSend(r, i))
  /\ \A a \in 0 .. Max({c.actors : c \in Configs}) - 1 :
       /\ WF_vars(a \in Actors /\ Train(a))
       /\ SF_vars(a \in Actors /\ TakePiece(a))

-----------------------------------------------------------------------------
(***************************************************************************)
(* Properties.                                                             *)
(***************************************************************************)

\* The messages of the positions from c on, in order.
InStep(queue, mode, c, lastStep) ==
  \A k \in DOMAIN queue :
    queue[k] = Msg(mode, IF k = 1 THEN c ELSE After(queue[k - 1].at, lastStep))

\* Nothing a worker receives says which step or stage it is for: both ends
\* only count.  Every observation under way is one the rollout worker expects,
\* in its order, every action one its environment worker expects, of this call
\* and not of an earlier one, and nothing is left when a call has returned
\* (send_env_batch, recv_env_output, send_chunk_actions, recv_chunk_actions).
MessagesFit ==
  \A l \in Links :
    LET e == l[1]  r == l[2]
    IN /\ InStep(obs[<<l, "train">>], "train", rolAt[r], NumSteps)
       /\ InStep(act[<<l, "train">>], "train", envAt[e], NumSteps - 1)
       /\ rolPc[r] = "idle" => obs[<<l, "train">>] = <<>>
       /\ envPc[e] = "idle" => act[<<l, "train">>] = <<>>
       /\ \A c \in rolEval[r] : InStep(obs[<<l, "eval">>], "eval", c, NumEvalSteps - 1)
       /\ \A c \in envEval[e] \ {Called} : InStep(act[<<l, "eval">>], "eval", c, NumEvalSteps - 1)
       /\ rolEval[r] = {} => obs[<<l, "eval">>] = <<>>
       /\ envEval[e] = {} => act[<<l, "eval">>] = <<>>

\* The n-th observation of a stage.
Observation(n) == <<n \div (NumSteps + 1), n % (NumSteps + 1)>>

\* The lists of a trajectory grow at different places of generate() and are
\* read side by side.  Rewards are those of the actions they stand beside, a
\* whole trajectory has one observation more than actions in each epoch, and in
\* a stream, where the observation an epoch starts with has a flag but no
\* record, the record of step st in epoch ep leaves with the flag of ep + 1
\* observations before the one that follows it (EmbodiedRolloutResult,
\* AsyncEmbodiedRolloutBuffer.send_data).
TrajectoriesFit ==
  /\ \A x \in Buffers :
       LET b == buf[x]
           epochs == IF conf.kind = "sync" THEN NumEpochs ELSE 1
           base == IF conf.kind = "sync" THEN 0 ELSE NumEpochs - 1
       IN /\ Len(b.rewards) = Len(b.inputs)
          /\ \A k \in DOMAIN b.inputs :
               /\ b.rewards[k] = <<b.inputs[k][1], b.inputs[k][2] + 1>>
               /\ b.logprobs[k] = b.inputs[k]
          /\ b.transitions = IF conf.sac THEN b.inputs ELSE <<>>
          /\ ~Stream /\ rolPc[x[1]] = "idle" /\ pc = "train" =>
               /\ Len(b.inputs) = epochs * NumSteps
               /\ b.values = b.dones
               /\ b.dones = [n \in 1 .. epochs * (NumSteps + 1) |->
                             Observation(base * (NumSteps + 1) + n - 1)]
  /\ Stream => \A k \in DOMAIN q : \A n \in DOMAIN q[k] :
       LET p == q[k][n] IN p.done = Observation(p.at[1] * NumSteps + p.at[2])

\* Every piece actor a has taken.
Taken(a) ==
  IF ~conf.sac THEN got[a]
  ELSE added[a] \o (IF acPc[a] = "have" THEN <<>> ELSE got[a])
\* All pieces there are, pile by pile: the queues, and what each actor has taken.
Pile(n) == IF n <= conf.actors + 1 THEN q[n - 2] ELSE Taken(n - conf.actors - 2)
Pieces  == FlattenSeq([n \in 1 .. 2 * conf.actors + 1 |-> Pile(n)])

\* The steps of a stage recorded by rollout worker r.
StepsRecorded(r, i) ==
  LET c == rolAt[r]
      seen == c.st + (IF i < c.stage THEN 1 ELSE 0)
  IN {<<ep, st>> : ep \in 0 .. c.ep - 1, st \in 0 .. NumSteps - 1} \cup {<<c.ep, st>> : st \in 0 .. seen - 2}

\* A replay buffer holds the pieces added last, as many as it can.
HoldsLatest(a) ==
  LET count == Len(added[a])  rb == ring[a]
  IN /\ rb.size = Min({count, conf.capacity})
     /\ \A n \in 0 .. rb.size - 1 : rb.slots[(rb.pos - 1 - n) % conf.capacity] = added[a][count - n]

\* The pieces a training step needs: of this step, with the weights that are
\* trained, and of every epoch or, when all epochs are one trajectory, of the last.
StepPiece(x, k, ep) ==
  [round |-> it, rank |-> x[1], stage |-> x[2], k |-> k, at |-> <<ep, 0>>, done |-> <<ep, 0>>, version |-> version]
StepEpochs == IF conf.kind = "sync" THEN {NumEpochs - 1} ELSE 0 .. NumEpochs - 1
StepPieces == {StepPiece(x, k, ep) : x \in Buffers, k \in 0 .. SplitNum - 1, ep \in StepEpochs}

\* Of what the rollout workers recorded nothing is lost and nothing is there
\* twice: in a stream each step waits in a buffer or has been sent, in all its
\* pieces; in the other programs training starts with exactly the pieces of
\* this step's trajectories, made with the weights that are being trained
\* (send_rollout_batch, recv_rollout_batch, add_rollout_batch).
PiecesAccounted ==
  /\ IsInjective(Pieces)
  /\ \A a \in Actors : HoldsLatest(a)
  /\ Stream => \A x \in Buffers :
       LET sent == {p \in Range(Pieces) : p.rank = x[1] /\ p.stage = x[2]}
           steps == {p.at : p \in sent}
       IN /\ Cardinality(sent) = SplitNum * Cardinality(steps)
          /\ steps \cap Range(buf[x].inputs) = {}
          /\ rolPc[x[1]] # "idle" => steps \cup Range(buf[x].inputs) = StepsRecorded(x[1], x[2])
  /\ ~Stream /\ pc = "train" =>
       /\ \A k \in DOMAIN q : q[k] = <<>>
       /\ {[p EXCEPT !.done = p.at] : p \in UNION {Range(got[a]) : a \in Actors}} = StepPieces

\* The executions in which somebody waits for ever.
\* The messages sent to an actor are not as many as it counts on.
SharesDiffer ==
  /\ conf.kind = "async"
  /\ \E a \in Actors :
       Cardinality({x \in Buffers \X (0 .. SplitNum - 1) : TargetKey(x[1][1], x[2]) = a}) # MessagesPerEpoch(a)
\* One rank skips the training step another has begun.
RanksDisagree ==
  /\ Stream /\ pc = "train"
  /\ \E a, b \in Actors : dec[a] = "skip" /\ dec[b] \in {"train", "joined"}
\* stop() finds two workers that belong together in different epochs.
StopsApart ==
  \E l \in Links : \E k \in envStop[l[1]] :
    \/ rolPc[l[2]] = "recv" /\ rolAt[l[2]].ep > k
    \/ rolStop[l[2]] \notin {{}, {k}}
    \/ \E m \in LinksOfRollout(l[2]) : envPc[m[1]] \in {"yield", "recv"} /\ envAt[m[1]].ep > k
\* stop() finds a stage whose last record has left, and its buffer waits for another.
LateBuffer ==
  \E x \in Buffers : \E k \in rolStop[x[1]] :
    /\ task[x] = "run" /\ buf[x].inputs = <<>>
    /\ \/ rolAt[x[1]].ep > k
       \/ rolAt[x[1]].st = NumSteps /\ rolAt[x[1]].stage > x[2]
\* An environment evaluates, and another one of its rollout worker waits in
\* interact(), unable to begin, for an action that needs the first one's step.
EvaluateApart ==
  \E l, m \in Links :
    /\ l[2] = m[2] /\ rolPc[l[2]] = "recv"
    /\ envEval[l[1]] = {Start} /\ obs[<<l, "train">>] = <<>>
    /\ envEval[m[1]] = {Called} /\ envPc[m[1]] = "recv" /\ act[<<m, "train">>] = <<>>
KnownHang == SharesDiffer \/ RanksDisagree \/ StopsApart \/ LateBuffer \/ EvaluateApart

\* The training of every program comes to its end, unless it runs into one of
\* the five situations above; those are for ever, and no training that is in
\* one of them ends (run, _run_sync, _run_async, stop).
WaitsEnd ==
  /\ <>(pc = "done" \/ KnownHang)
  /\ [](KnownHang => pc # "done")
  /\ [][KnownHang => KnownHang']_vars
=============================================================================
