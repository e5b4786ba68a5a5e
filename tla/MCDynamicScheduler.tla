-------------------------- MODULE MCDynamicScheduler --------------------------
(***************************************************************************)
(* Configurations of DynamicScheduler.                                     *)
(***************************************************************************)
EXTENDS DynamicScheduler

\* Two instances, one of them on the actor's GPUs until pre_process gives it up.
Shared == [instances |-> 2, mp |-> 2, actor |-> 1, amp |-> 2, infer |-> 0, groups |-> 4, size |-> 1,
           iters |-> 2, maxRunning |-> 1, pre |-> TRUE, wait |-> FALSE, steps |-> 1]

\* Groups that migrate with one of two sequences complete; two global steps.
Pairs == [Shared EXCEPT !.mp = 1, !.amp = 1, !.groups = 2, !.size = 2, !.iters = 1, !.steps = 2]

\* Two instances are left to migrate to.
Three == [Shared EXCEPT !.mp = 1, !.amp = 1, !.instances = 3, !.groups = 3, !.iters = 1]

\* Rollout beside an actor that grows by one instance, then by the rest.
Apart == [Shared EXCEPT !.mp = 1, !.amp = 1, !.pre = FALSE, !.infer = 1, !.groups = 8]

\* Two instances of rollout and one GPU of inference; the actor needs all three.
WithInference == [Shared EXCEPT !.mp = 1, !.pre = FALSE, !.amp = 3, !.infer = 1, !.steps = 2]

Waiting(c) == [c EXCEPT !.wait = TRUE]

Elastic == { Shared, Pairs, Three, Apart, Waiting(Apart), Waiting(WithInference) }

\* Groups of one instance that nothing tells apart move in their order; the other
\* orders only rename them.
GroupOf(g) == <<at[g], state[g], left[g]>>
InOrderOfAlikes ==
  \A g, h \in Groups :
    g < h /\ GroupOf(g) = GroupOf(h) /\ GroupOf(h)' # GroupOf(h) => GroupOf(g)' # GroupOf(g)
=============================================================================
