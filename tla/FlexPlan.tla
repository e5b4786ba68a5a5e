------------------------------- MODULE FlexPlan -------------------------------
(***************************************************************************)
(* build_flex_plan: which slot serves which part of which environment      *)
(* manager's batch on which rollout worker.  Environment, rollout and      *)
(* actor workers build the plan each for themselves from the same          *)
(* configuration and never exchange it.                                    *)
(*                                                                         *)
(* A configuration c gives every environment rank its managers' batch      *)
(* sizes (or one size for c.stages managers each), every manager the       *)
(* rollout ranks that serve it, and perhaps how its batch is split over    *)
(* them.  The plan numbers the managers (global_env_id) manager index      *)
(* first, then cuts every batch into slots.  A pure algorithm: the loops   *)
(* of workers/per_env_flex_plan.py are folds.  Ranks and manager indices   *)
(* count from 0 in the code and in the plan, from 1 in the lists here.     *)
(***************************************************************************)
EXTENDS Integers, Sequences, FiniteSets, FiniteSetsExt, SequencesExt

\* A table, or a manager's split, that the configuration leaves out (None); an
\* empty list, which the checks on lengths refuse, is not among the inputs.
NotGiven == <<>>

SumOf(list) == FoldLeft(LAMBDA x, y : x + y, 0, list)
AllPositive(list) == \A i \in DOMAIN list : list[i] > 0

(***************************************************************************)
(* The three _normalize functions: the tables with their defaults, and     *)
(* when they raise ValueError.                                             *)
(***************************************************************************)
BatchesOf(c) ==
  IF c.batches # NotGiven THEN c.batches
  ELSE [e \in 1 .. c.envs |-> [i \in 1 .. c.stages |-> c.batch]]

\* Without a configured table a manager is served by all rollout ranks.
RanksOf(c) ==
  IF c.ranks # NotGiven THEN c.ranks
  ELSE [e \in DOMAIN BatchesOf(c) |->
         [m \in DOMAIN BatchesOf(c)[e] |-> [r \in 1 .. c.rollouts |-> r - 1]]]

SplitsOf(c) ==
  IF c.splits # NotGiven THEN c.splits
  ELSE [e \in DOMAIN BatchesOf(c) |-> [m \in DOMAIN BatchesOf(c)[e] |-> NotGiven]]

ValidBatches(c) ==
  c.batches # NotGiven =>
    /\ Len(c.batches) = c.envs
    /\ \A e \in DOMAIN c.batches : c.batches[e] # <<>> /\ AllPositive(c.batches[e])

ValidRanks(c) ==
  LET b == BatchesOf(c)  t == RanksOf(c)
  IN /\ Len(t) = Len(b)
     /\ \A e \in DOMAIN t :
          /\ Len(t[e]) = Len(b[e])
          /\ \A m \in DOMAIN t[e] :
               t[e][m] # <<>> /\ \A i \in DOMAIN t[e][m] : t[e][m][i] \in 0 .. c.rollouts - 1

ValidSplits(c) ==
  LET b == BatchesOf(c)  t == SplitsOf(c)
  IN /\ Len(t) = Len(b)
     /\ \A e \in DOMAIN t :
          /\ Len(t[e]) = Len(b[e])
          /\ \A m \in DOMAIN t[e] : t[e][m] # NotGiven =>
               /\ Len(t[e][m]) = Len(RanksOf(c)[e][m])
               /\ AllPositive(t[e][m])
               /\ SumOf(t[e][m]) = b[e][m]

(***************************************************************************)
(* global_env_id_by_env_rank.                                              *)
(***************************************************************************)
\* All <<environment rank, manager>> in the order the loops reach them:
\* manager index outside for the ids, environment rank outside for the slots.
ManagerThenRank(b) ==
  LET most == Max({Len(b[e]) : e \in DOMAIN b})
  IN FlattenSeq([m \in 1 .. most |-> [e \in DOMAIN b |-> <<e, m>>]])
RankThenManager(b) ==
  FlattenSeq([e \in DOMAIN b |-> [m \in DOMAIN b[e] |-> <<e, m>>]])

UniformEnvId(b, ids, p) == (p[2] - 1) * Len(b) + p[1] - 1
\* next_env_id: as many as have been allotted, on all ranks.
NewEnvId(b, ids, p) == SumOf([e \in DOMAIN b |-> Len(ids[e])])

EnvIds(b) ==
  FoldLeft(LAMBDA ids, p :
             IF p[2] > Len(b[p[1]]) THEN ids
             ELSE [ids EXCEPT ![p[1]] = Append(@, NewEnvId(b, ids, p))],
           [e \in DOMAIN b |-> <<>>], ManagerThenRank(b))

(***************************************************************************)
(* slot_specs_by_global_env_id, slot_specs_by_rollout_rank.                *)
(***************************************************************************)
SplitRoundedUp(n, k) ==
  [i \in 1 .. k |-> n \div k + (IF i - 1 <= n % k THEN 1 ELSE 0)]
\* The default split: as even as possible, the larger parts first.
DefaultSplit(n, k) ==
  [i \in 1 .. k |-> n \div k + (IF i - 1 < n % k THEN 1 ELSE 0)]

SplitFor(c, p) ==
  LET given == SplitsOf(c)[p[1]][p[2]]
  IN IF given # NotGiven THEN given
     ELSE DefaultSplit(BatchesOf(c)[p[1]][p[2]], Len(RanksOf(c)[p[1]][p[2]]))

ZeroAllowed(c, p) == FALSE
TooSmall(c, p) == \E i \in DOMAIN SplitFor(c, p) : SplitFor(c, p)[i] = 0

SlotIdOfManager(plan, i) == i - 1
NewSlotId(plan, i) == plan.count + i - 1

\* SlotSpec, one for each rollout rank that serves manager p.
SpecsFor(c, plan, p) ==
  [i \in DOMAIN RanksOf(c)[p[1]][p[2]] |->
    [slot_id |-> NewSlotId(plan, i), local_slot_index |-> i - 1,
     env_rank |-> p[1] - 1, local_manager_idx |-> p[2] - 1,
     global_env_id |-> EnvIds(BatchesOf(c))[p[1]][p[2]],
     rollout_rank |-> RanksOf(c)[p[1]][p[2]][i], batch_size |-> SplitFor(c, p)[i]]]

\* One turn of the inner loop: the slots of one manager.
AllotSlots(c, plan, p) ==
  LET specs == SpecsFor(c, plan, p)
      env == specs[1].global_env_id
  IN IF plan.failed \/ TooSmall(c, p) THEN [plan EXCEPT !.failed = TRUE]
     ELSE [failed |-> FALSE, count |-> plan.count + Len(specs),
           byEnv |-> [x \in DOMAIN plan.byEnv \cup {env} |-> IF x = env THEN specs ELSE plan.byEnv[x]],
           byRank |-> [r \in DOMAIN plan.byRank |->
                        plan.byRank[r] \o SelectSeq(specs, LAMBDA s : s.rollout_rank = r)]]

NoSlots(c) ==
  [failed |-> FALSE, count |-> 0, byEnv |-> <<>>, byRank |-> [r \in 0 .. c.rollouts - 1 |-> <<>>]]

FlexPlanOf(c) ==
  IF ~(ValidBatches(c) /\ ValidRanks(c) /\ ValidSplits(c)) THEN [NoSlots(c) EXCEPT !.failed = TRUE]
  ELSE FoldLeft(LAMBDA plan, p : AllotSlots(c, plan, p), NoSlots(c), RankThenManager(BatchesOf(c)))

-----------------------------------------------------------------------------
(***************************************************************************)
(* What a plan promises, stated without the loops.                         *)
(***************************************************************************)
ManagersIn(c) == UNION {{e} \X DOMAIN BatchesOf(c)[e] : e \in DOMAIN BatchesOf(c)}
SpecsIn(plan) == UNION {ToSet(plan.byEnv[x]) : x \in DOMAIN plan.byEnv}

\* The configuration can be served: the tables have the same shape, ranks
\* exist, splits fit, and a batch has a sample for each of its ranks.
Servable(c) ==
  LET b == BatchesOf(c)  ranks == RanksOf(c)  splits == SplitsOf(c)
  IN /\ {Len(b), Len(ranks), Len(splits)} = {c.envs}
     /\ \A e \in 1 .. c.envs :
          /\ b[e] # <<>> /\ {Len(ranks[e]), Len(splits[e])} = {Len(b[e])}
          /\ \A m \in DOMAIN b[e] :
               /\ b[e][m] > 0 /\ ranks[e][m] # <<>> /\ ToSet(ranks[e][m]) \subseteq 0 .. c.rollouts - 1
               /\ IF splits[e][m] = NotGiven THEN b[e][m] >= Len(ranks[e][m])
                  ELSE /\ Len(splits[e][m]) = Len(ranks[e][m]) /\ AllPositive(splits[e][m])
                       /\ SumOf(splits[e][m]) = b[e][m]

\* global_env_ids number the managers densely, all managers 0 before all
\* managers 1, whatever the number of managers of a rank: the order in which
\* the routers on all rollout workers serve environments.
IdsManagerFirst(c) ==
  LET ids == EnvIds(BatchesOf(c))
      before(p, o) == p[2] < o[2] \/ (p[2] = o[2] /\ p[1] < o[1])
  IN \A p \in ManagersIn(c) :
       ids[p[1]][p[2]] = Cardinality({o \in ManagersIn(c) : before(o, p)})

\* Every manager's batch is cut exactly: consecutive slots in the order of the
\* configured ranks whose sizes add up to the batch.
BatchesCovered(c, plan) ==
  \A p \in ManagersIn(c) :
    LET specs == plan.byEnv[EnvIds(BatchesOf(c))[p[1]][p[2]]]
    IN /\ SumOf([i \in DOMAIN specs |-> specs[i].batch_size]) = BatchesOf(c)[p[1]][p[2]]
       /\ \A i \in DOMAIN specs :
            /\ specs[i].batch_size > 0
            /\ specs[i].slot_id = specs[1].slot_id + i - 1
            /\ specs[i].rollout_rank = RanksOf(c)[p[1]][p[2]][i]
            /\ <<specs[i].env_rank + 1, specs[i].local_manager_idx + 1>> = p

\* Slot ids are dense and unique, and a rollout worker's table holds exactly
\* the slots of the environments' table with its rank, in the order of ids.
TablesAgree(plan) ==
  /\ {s.slot_id : s \in SpecsIn(plan)} = 0 .. plan.count - 1
  /\ Cardinality(SpecsIn(plan)) = plan.count
  /\ \A r \in DOMAIN plan.byRank :
       /\ ToSet(plan.byRank[r]) = {s \in SpecsIn(plan) : s.rollout_rank = r}
       /\ \A i, j \in DOMAIN plan.byRank[r] : i < j => plan.byRank[r][i].slot_id < plan.byRank[r][j].slot_id

\* A configuration is refused exactly when it cannot be served, and otherwise
\* the plan numbers and cuts as promised.
ServesOrRefuses(c) ==
  LET plan == FlexPlanOf(c)
  IN /\ plan.failed <=> ~Servable(c)
     /\ Servable(c) => IdsManagerFirst(c) /\ BatchesCovered(c, plan) /\ TablesAgree(plan)
=============================================================================
