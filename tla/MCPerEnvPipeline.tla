-------------------------- MODULE MCPerEnvPipeline --------------------------
(***************************************************************************)
(* Configurations of PerEnvPipeline.                                       *)
(***************************************************************************)
EXTENDS PerEnvPipeline

Conf(envs, k, rollouts, actors, batch, mode, pipeline, reset, head, ends) ==
  [envs |-> envs, aggregate |-> k, rollouts |-> rollouts, actors |-> actors, maxBatch |-> batch,
   mode |-> mode, pipeline |-> pipeline, autoReset |-> reset, valueHead |-> head, ends |-> ends]

\* Three environments over two rollout workers, one of which serves two of
\* them; two actors share three slots.
ThreeEnvs == {Conf(3, 1, 2, 2, 2, "train", "async", FALSE, TRUE, {<<0, 0, 0>>})}

\* Evaluation of two environments on workers of their own.
OwnWorkers == {Conf(2, 1, 2, 2, 2, "eval", "async", TRUE, TRUE, {<<0, 0, 0>>})}

\* Evaluation of two environments on one worker, whose handlers receive at the
\* same time.
SharedWorker == {Conf(2, 1, 1, 2, 2, "eval", "async", TRUE, TRUE, {<<0, 0, 0>>})}

\* One environment cut into three slots, on different workers; two of them
\* share a worker.  Two actors, four actors.
Aggregated == {
  Conf(1, 3, 2, 2, 2, "train", "async", TRUE, FALSE, {<<1, 0, 1>>}),
  Conf(1, 3, 2, 4, 2, "train", "sync", FALSE, TRUE, {<<1, 0, 1>>})}

\* Two environments with a slot each on each of two workers: both loops wait for
\* both workers, whose engines serve both.
Crossed == {Conf(2, 2, 2, 2, 2, "train", "async", FALSE, FALSE, {<<1, 0, 1>>})}

\* Two environments on one worker, with auto-reset and a value head; episodes
\* end in one of them, or in both at the same step.
MixedEnds == {
  Conf(2, 1, 1, 2, 2, "train", "async", TRUE, TRUE, {<<0, 0, 0>>}),
  Conf(2, 1, 1, 3, 2, "train", "sync", TRUE, TRUE, {<<0, 0, 1>>, <<1, 0, 1>>})}

AllConfigs ==
  ThreeEnvs \cup OwnWorkers \cup SharedWorker \cup Aggregated \cup Crossed \cup MixedEnds
=============================================================================
