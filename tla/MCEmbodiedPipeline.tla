-------------------------- MODULE MCEmbodiedPipeline --------------------------
(* Small instances of the embodied pipeline. *)
EXTENDS EmbodiedPipeline

\* A shape: environments, rollout workers, actors, stages, steps.
Collect(kind, sac, eval, shape) ==
  [kind |-> kind, sac |-> sac, eval |-> eval, envs |-> shape[1], rollouts |-> shape[2], actors |-> shape[3],
   stages |-> shape[4], steps |-> shape[5], minSize |-> 1, capacity |-> 5, maxEpochs |-> 1]

Generation(eval, shape, minSize, maxEpochs) ==
  [Collect("stream", TRUE, eval, shape) EXCEPT !.minSize = minSize, !.capacity = 3, !.maxEpochs = maxEpochs]

\* Two environments for one rollout worker, several rollout workers for one
\* environment, stages, more actors than rollout workers and fewer, and replay
\* buffers that wrap around.
Embodied_Configs ==
  { Collect("sync", TRUE, TRUE, <<1, 2, 2, 2, 2>>),
    Collect("sync", FALSE, TRUE, <<2, 1, 1, 1, 2>>),
    Collect("sync", TRUE, FALSE, <<1, 3, 1, 1, 1>>),
    Collect("async", FALSE, TRUE, <<1, 1, 2, 1, 2>>),
    Collect("async", FALSE, FALSE, <<1, 1, 2, 2, 1>>),
    Collect("async", FALSE, FALSE, <<2, 1, 1, 2, 1>>),
    Generation(TRUE, <<1, 1, 1, 1, 2>>, 2, 3),
    Generation(FALSE, <<1, 1, 1, 2, 1>>, 1, 2),
    Generation(TRUE, <<2, 1, 1, 1, 2>>, 1, 2),
    Generation(FALSE, <<1, 1, 2, 1, 1>>, 1, 3),
    Generation(FALSE, <<1, 2, 1, 1, 1>>, 1, 2) }
=============================================================================
