--------------------------- MODULE MCFlexRouting ---------------------------
(***************************************************************************)
(* Small instances of FlexRouting, whose slots are those FlexPlan builds:  *)
(* two environment managers and two rollout workers.  "Cross": every       *)
(* manager has one slot on each worker, so that a manager waits for both   *)
(* workers and a worker serves both managers.  "Pair": one manager has two *)
(* slots on one worker (a group of more than one slot) and the other       *)
(* shares that worker.  The plan itself is checked over PlanInputs.        *)
(***************************************************************************)
EXTENDS FlexRouting, FlexPlan, TLC

CrossSlots  == 0 .. 3
CrossEnvOf  == <<0, 1, 1>> @@ (0 :> 0)
CrossRankOf == <<1, 0, 1>> @@ (0 :> 0)

PairSlots  == 0 .. 2
PairEnvOf  == <<0, 1>> @@ (0 :> 0)
PairRankOf == <<0, 0>> @@ (0 :> 0)

\* Cross: round-robin routers, every way to end an epoch.
CrossConfigs == {c \in Config : c.mode = "round_robin"}

\* Pair: one configuration per router, both ways to end an epoch, with and
\* without prefetching.
PairConfigs ==
  {[mode |-> "round_robin", prefetch |-> FALSE, pipeline |-> "async"],
   [mode |-> "greedy", prefetch |-> TRUE, pipeline |-> "async"],
   [mode |-> "env_group_greedy", prefetch |-> FALSE, pipeline |-> "sync"]}

-----------------------------------------------------------------------------
\* Ranks with one, two and three managers, and lists that are refused.
BatchChoices == {<<3, 2>>, <<2>>, <<2, 2, 4>>, <<>>, <<2, 0>>}
\* One rank, two in any order, a repeated one; too many, none, an unknown one.
RankChoices ==
  {<<<<0>>>>, <<<<1, 0>>, <<1, 1>>>>, <<<<0>>, <<0, 1, 0>>>>,
   <<<<1>>, <<0, 1>>, <<0, 1, 0>>>>, <<<<0>>, <<>>>>, <<<<2>>>>}
\* Splits of some managers; a sum that does not fit, a zero.
SplitChoices ==
  {<<<<>>>>, <<<<2>>>>, <<<<>>, <<>>>>, <<<<2, 1>>, <<1, 1>>>>, <<<<2, 0>>, <<>>>>, <<<<2>>, <<1, 1>>, <<1, 1, 2>>>>}

\* Each kind of table varied on its own and against the tables it must fit.
PlanInputs ==
  LET tables(S) == {NotGiven} \cup {<<x, y>> : x \in S, y \in S} \cup {<<x>> : x \in S}
      input(b, t, s) == [envs |-> 2, rollouts |-> 2, stages |-> 2, batch |-> 3,
                         batches |-> b, ranks |-> t, splits |-> s]
  IN {input(b, t, NotGiven) : b \in tables(BatchChoices), t \in tables(RankChoices)}
     \cup {input(b, t, s) : b \in {<<<<3, 2>>, <<2>>>>, <<<<2, 2, 4>>, <<3, 2>>>>},
                            t \in tables(RankChoices), s \in tables(SplitChoices)}

\* The plans of the two instances above.
CrossInput == [envs |-> 2, rollouts |-> 2, stages |-> 1, batch |-> 2,
               batches |-> NotGiven, ranks |-> NotGiven, splits |-> NotGiven]
PairInput == [envs |-> 2, rollouts |-> 1, stages |-> 1, batch |-> 2,
              batches |-> NotGiven, ranks |-> <<<<<<0, 0>>>>, <<<<0>>>>>>, splits |-> NotGiven]

PlanGives(c, slots, envOf, rankOf) ==
  {<<s.slot_id, s.global_env_id, s.rollout_rank>> : s \in SpecsIn(FlexPlanOf(c))}
    = {<<s, envOf[s], rankOf[s]>> : s \in slots}

\* Every worker builds the plan for itself from lists a user writes: whatever
\* the lists, the plan is refused or is one consistent numbering of slots.
\* FlexRouting's instances are plans it builds.  The plan is made once, when
\* the workers start.
PlansServeOrRefuse ==
  Init =>
    /\ \A c \in PlanInputs : ServesOrRefuses(c)
    /\ PlanGives(CrossInput, CrossSlots, CrossEnvOf, CrossRankOf)
    /\ PlanGives(PairInput, PairSlots, PairEnvOf, PairRankOf)
=============================================================================
