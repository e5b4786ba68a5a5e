----------------------------- MODULE FlexRouting -----------------------------
(***************************************************************************)
(* The flexible per-environment rollout pipeline of RL-VLA3.               *)
(*                                                                         *)
(* An environment manager (one thread per global_env_id) steps a batch of  *)
(* simulators.  Its batch is cut into slots; slot s belongs to manager     *)
(* EnvOf[s] and is served by rollout worker RankOf[s].  For every epoch    *)
(* the manager sends an initial observation (step -1), then NumSteps times *)
(* waits for the actions of all its slots, steps, and sends the result.    *)
(* On a rollout worker one puller thread moves observations from the       *)
(* channel to a table of pending messages, one router thread dispatches    *)
(* them to the slots' queues in one of three orders, and one handler       *)
(* thread per slot runs the inference, returns the action and, at the end  *)
(* of an epoch, ships the slot's trajectory to the trainer.                *)
(*                                                                         *)
(* Sources: workers/env/per_env_async/flexible_per_env_async_worker.py,    *)
(* workers/rollout/hf/flexible_per_env_async_rollout_worker.py and the     *)
(* async loop of runners/embodied_runner.py.  Logging, timing and tensor   *)
(* contents are left out; an observation is named by its epoch and step.   *)
(***************************************************************************)
EXTENDS Integers, Sequences, FiniteSets, FiniteSetsExt

CONSTANTS
  Slots,       \* slot ids, numbers, in the order build_flex_plan allots them
  EnvOf,       \* slot -> global_env_id of its environment manager
  RankOf,      \* slot -> rank of the rollout worker that serves it
  NumEpochs,   \* cfg.algorithm.rollout_epoch
  NumSteps,    \* n_chunk_steps
  NumIters,    \* bound: iterations of the runner's training loop
  Configs      \* the configurations considered, each a member of Config

Envs  == {EnvOf[s] : s \in Slots}
Ranks == {RankOf[s] : s \in Slots}

\* What the configuration file chooses: the router, whether an environment may
\* start an epoch before the last one is acked (rollout.per_env_async.flex.
\* epoch_prefetch_enabled), and cfg.algorithm.pipeline_mode.
Config == [mode : {"round_robin", "greedy", "env_group_greedy"},
           prefetch : BOOLEAN,
           pipeline : {"sync", "async"}]

\* _EPOCH_COMPLETE_MARKER: the frontier's step once an epoch is complete.
EpochComplete == 999999

ASSUME FlexRoutingAssumption ==
  /\ Slots \subseteq Nat /\ IsFiniteSet(Slots) /\ Slots # {}
  /\ EnvOf  \in [Slots -> Nat]
  /\ RankOf \in [Slots -> Nat]
  /\ NumEpochs \in Nat \ {0}
  /\ NumSteps \in 1 .. (EpochComplete - 1)
  /\ NumIters \in Nat \ {0}
  /\ Configs \subseteq Config

SlotsOfEnv(e)    == {s \in Slots : EnvOf[s] = e}
SlotsOfRank(r)   == {s \in Slots : RankOf[s] = r}
EnvsOfRank(r)    == {EnvOf[s] : s \in SlotsOfRank(r)}
LocalSlots(r, e) == {s \in Slots : RankOf[s] = r /\ EnvOf[s] = e}

VARIABLES
  conf,      \* the configuration of this execution; no step changes it
  iter,      \* index of the runner's current training step
  envPc,     \* manager thread: "idle", "reset", "act", "ack", "done", "failed"
  envEpoch,  \* manager: epoch of its loop
  envStep,   \* manager: step of its loop
  awaited,   \* manager: slots whose action or ack it still waits for
  inq,       \* channel "Env", key perenv_rollout_input_{rank}_{slot}
  actq,      \* channel "Rollout", key perenv_slot_{env}_{local slot}
  gen,       \* rollout worker: "idle", "running", "done" (the call of generate)
  pending,   \* observations pulled from the channel and not yet dispatched
  slotq,     \* _slot_queue_map
  inflight,  \* _slot_inflight
  frontier,  \* _slot_done_frontier: {} (None) or {<<epoch, step>>}
  turn,      \* the environment next_env_idx (env_rr) of the router points at
  hPc,       \* handler thread: "off", "recv", "infer", "reply", "mark", "end", "done"
  hEpoch,    \* handler: epoch_idx
  hStep,     \* handler: step_idx, NumSteps for the final receive
  hMsg,      \* handler: the observation it works on
  buf,       \* slot_buffer_map: lengths of the lists of the trajectory
  sent,      \* trajectories put into the actor channel, per slot
  doneMsgs   \* {"__done__"} items put under key rollout_{rank}

envVars     == <<envPc, envEpoch, envStep, awaited>>
routerVars  == <<gen, pending, inflight, frontier, turn>>
handlerVars == <<hPc, hEpoch, hStep, hMsg>>
dataVars    == <<buf, sent, doneMsgs>>
Mode     == conf.mode
Prefetch == conf.prefetch
Pipeline == conf.pipeline

vars == <<conf, iter, envVars, inq, actq, routerVars, slotq, handlerVars, dataVars>>

-----------------------------------------------------------------------------
(***************************************************************************)
(* Messages.  "it" is the training step a message belongs to: the code     *)
(* does not send it, and no guard below reads it.                          *)
(***************************************************************************)
Obs(i, e, t)    == [it |-> i, epoch |-> e, step |-> t]
Action(i, e, t) == [kind |-> "action", it |-> i, epoch |-> e, step |-> t]
Ack(i, e)       == [kind |-> "ack", it |-> i, epoch |-> e, step |-> NumSteps]

ObsMsg == [it : 0 .. NumIters - 1, epoch : 0 .. NumEpochs - 1, step : -1 .. NumSteps - 1]
ActMsg == [kind : {"action", "ack"}, it : 0 .. NumIters - 1,
           epoch : 0 .. NumEpochs - 1, step : 0 .. NumSteps]

BufType == [dones : Nat, rewards : Nat, inputs : Nat, values : Nat, logprobs : Nat]
EmptyBuf == [dones |-> 0, rewards |-> 0, inputs |-> 0, values |-> 0, logprobs |-> 0]

\* Both sides read the same configuration entry, each by itself.
AlwaysSkips == TRUE
EnvSkipsAck == Prefetch
RolloutSkipsAck == Prefetch

\* range(rollout_epoch), on both sides.
OneEpochMore(k) == k = NumEpochs
LastEpoch(k) == k = NumEpochs - 1

\* The observation the router may dispatch next for a slot.
Expected(s) ==
  IF frontier[s] = {} THEN <<0, -1>>
  ELSE LET f == CHOOSE x \in frontier[s] : TRUE
       IN IF f[2] = EpochComplete THEN <<f[1] + 1, -1>> ELSE <<f[1], f[2] + 1>>

Init ==
  /\ conf \in Configs
  /\ iter = 0
  /\ envPc = [e \in Envs |-> "idle"]
  /\ envEpoch = [e \in Envs |-> 0]
  /\ envStep = [e \in Envs |-> 0]
  /\ awaited = [e \in Envs |-> {}]
  /\ inq = [s \in Slots |-> <<>>]
  /\ actq = [s \in Slots |-> <<>>]
  /\ gen = [r \in Ranks |-> "idle"]
  /\ pending = [s \in Slots |-> <<>>]
  /\ slotq = [s \in Slots |-> <<>>]
  /\ inflight = [s \in Slots |-> FALSE]
  /\ frontier = [s \in Slots |-> {}]
  /\ turn = [r \in Ranks |-> Min(EnvsOfRank(r))]
  /\ hPc = [s \in Slots |-> "off"]
  /\ hEpoch = [s \in Slots |-> 0]
  /\ hStep = [s \in Slots |-> 0]
  /\ hMsg = [s \in Slots |-> Obs(0, 0, -1)]
  /\ buf = [s \in Slots |-> EmptyBuf]
  /\ sent = [s \in Slots |-> <<>>]
  /\ doneMsgs = [r \in Ranks |-> 0]

-----------------------------------------------------------------------------
(***************************************************************************)
(* The environment manager's thread.                                       *)
(***************************************************************************)

\* One put_many: the observation of every slot of the manager.
SendSlotOutputs(e, step) ==
  inq' = [s \in Slots |-> IF EnvOf[s] = e
                          THEN Append(inq[s], Obs(iter, envEpoch[e], step))
                          ELSE inq[s]]

\* interact() submits the manager's loop.
StartInteract(e) ==
  /\ envPc[e] = "idle"
  /\ envPc' = [envPc EXCEPT ![e] = "reset"]
  /\ envEpoch' = [envEpoch EXCEPT ![e] = 0]
  /\ UNCHANGED <<conf, iter, envStep, awaited, inq, actq, routerVars, slotq, handlerVars, dataVars>>

\* Reset (or carry over the last observation) and send it as step -1.
SendInit(e) ==
  /\ envPc[e] = "reset"
  /\ SendSlotOutputs(e, -1)
  /\ envPc' = [envPc EXCEPT ![e] = "act"]
  /\ envStep' = [envStep EXCEPT ![e] = 0]
  /\ awaited' = [awaited EXCEPT ![e] = SlotsOfEnv(e)]
  /\ UNCHANGED <<conf, iter, envEpoch, actq, routerVars, slotq, handlerVars, dataVars>>

\* One item of SerializedChannelReceiver.get_many; an ack is no action and
\* makes the step raise.
RecvAction(e, s) ==
  /\ envPc[e] = "act"
  /\ s \in awaited[e]
  /\ actq[s] # <<>>
  /\ actq' = [actq EXCEPT ![s] = Tail(@)]
  /\ awaited' = [awaited EXCEPT ![e] = @ \ {s}]
  /\ envPc' = [envPc EXCEPT ![e] = IF Head(actq[s]).kind = "action" THEN "act" ELSE "failed"]
  /\ UNCHANGED <<conf, iter, envEpoch, envStep, inq, routerVars, slotq, handlerVars, dataVars>>

SomeActionsIn(e) == awaited[e] # SlotsOfEnv(e)
AllActionsIn(e) == awaited[e] = {}

\* All actions are there: step the simulators and send what they return.
\* The last step of an epoch also ends it: the last epoch ends the loop, an
\* earlier one waits for the acks unless epochs are prefetched.
EnvStep(e) ==
  /\ envPc[e] = "act"
  /\ AllActionsIn(e)
  /\ SendSlotOutputs(e, envStep[e])
  /\ IF envStep[e] < NumSteps - 1
     THEN /\ envStep' = [envStep EXCEPT ![e] = @ + 1]
          /\ awaited' = [awaited EXCEPT ![e] = SlotsOfEnv(e)]
          /\ UNCHANGED <<envPc, envEpoch>>
     ELSE /\ UNCHANGED envStep
          /\ IF LastEpoch(envEpoch[e])
             THEN /\ envPc' = [envPc EXCEPT ![e] = "done"]
                  /\ UNCHANGED <<envEpoch, awaited>>
             ELSE IF EnvSkipsAck
             THEN /\ envPc' = [envPc EXCEPT ![e] = "reset"]
                  /\ envEpoch' = [envEpoch EXCEPT ![e] = @ + 1]
                  /\ UNCHANGED awaited
             ELSE /\ envPc' = [envPc EXCEPT ![e] = "ack"]
                  /\ awaited' = [awaited EXCEPT ![e] = SlotsOfEnv(e)]
                  /\ UNCHANGED envEpoch
  /\ UNCHANGED <<conf, iter, actq, routerVars, slotq, handlerVars, dataVars>>

\* The acks are read slot by slot, in order; anything else raises.
RecvAck(e) ==
  /\ envPc[e] = "ack"
  /\ LET s == Min(awaited[e])
         isAck == Head(actq[s]).kind = "ack"
         last == awaited[e] = {s}
     IN /\ actq[s] # <<>>
        /\ actq' = [actq EXCEPT ![s] = Tail(@)]
        /\ awaited' = [awaited EXCEPT ![e] = @ \ {s}]
        /\ envPc' = [envPc EXCEPT ![e] = IF ~isAck THEN "failed"
                                         ELSE IF last THEN "reset" ELSE "ack"]
        /\ envEpoch' = [envEpoch EXCEPT ![e] = IF isAck /\ last THEN @ + 1 ELSE @]
  /\ UNCHANGED <<conf, iter, envStep, inq, routerVars, slotq, handlerVars, dataVars>>

-----------------------------------------------------------------------------
(***************************************************************************)
(* The rollout worker: generate(), its puller and its router.              *)
(***************************************************************************)

FreshFrontier(r) == [s \in Slots |-> IF RankOf[s] = r THEN {} ELSE frontier[s]]

\* generate() up to the start of the threads: buffers and routing state are
\* reset, the pending table is new, the slots' queues are the old ones.
StartGenerate(r) ==
  /\ gen[r] = "idle"
  /\ gen' = [gen EXCEPT ![r] = "running"]
  /\ frontier' = FreshFrontier(r)
  /\ inflight' = [s \in Slots |-> IF RankOf[s] = r THEN FALSE ELSE inflight[s]]
  /\ pending' = [s \in Slots |-> IF RankOf[s] = r THEN <<>> ELSE pending[s]]
  /\ turn' = [turn EXCEPT ![r] = Min(EnvsOfRank(r))]
  /\ buf' = [s \in Slots |-> IF RankOf[s] = r THEN EmptyBuf ELSE buf[s]]
  /\ hPc' = [s \in Slots |-> IF RankOf[s] = r THEN "recv" ELSE hPc[s]]
  /\ hEpoch' = [s \in Slots |-> IF RankOf[s] = r THEN 0 ELSE hEpoch[s]]
  /\ hStep' = [s \in Slots |-> IF RankOf[s] = r THEN 0 ELSE hStep[s]]
  /\ UNCHANGED <<conf, iter, envVars, inq, actq, slotq, hMsg, sent, doneMsgs>>

\* The single puller thread of the worker takes one message of any key.
Pull(s) ==
  /\ gen[RankOf[s]] = "running"
  /\ inq[s] # <<>>
  /\ inq' = [inq EXCEPT ![s] = Tail(@)]
  /\ pending' = [pending EXCEPT ![s] = Append(@, Head(inq[s]))]
  /\ UNCHANGED <<conf, iter, envVars, actq, gen, inflight, frontier, turn, slotq, handlerVars, dataVars>>

HeadObs(s) == <<Head(pending[s]).epoch, Head(pending[s]).step>>

\* The greedy routers skip a slot that has a message in flight; the
\* round-robin router relies on the frontier alone.
Free(s) == Mode = "round_robin" \/ ~inflight[s]

ReadyByEpoch(s) == Free(s) /\ pending[s] # <<>> /\ HeadObs(s)[1] = Expected(s)[1]
Ready(s) == Free(s) /\ pending[s] # <<>> /\ HeadObs(s) = Expected(s)
Stale(s) == Free(s) /\ pending[s] # <<>> /\ HeadObs(s)[1] < Expected(s)[1]

SameEnv(r, e) == e

\* The environment after e in the worker's cyclic order of global_env_id.
EnvAfter(r, e) ==
  LET above == {x \in EnvsOfRank(r) : x > e}
  IN Min(IF above # {} THEN above ELSE EnvsOfRank(r))

DispatchReadyOnes(r, group, nextTurn) ==
  LET ready == {s \in group : Ready(s)}
  IN /\ ready # {}
     /\ pending' = [s \in Slots |-> IF s \in ready THEN Tail(pending[s]) ELSE pending[s]]
     /\ slotq' = [s \in Slots |-> IF s \in ready THEN Append(slotq[s], Head(pending[s])) ELSE slotq[s]]
     /\ inflight' = [s \in Slots |-> s \in ready \/ inflight[s]]
     /\ turn' = [turn EXCEPT ![r] = nextTurn]
     /\ UNCHANGED <<conf, iter, envVars, inq, actq, gen, frontier, handlerVars, dataVars>>

\* The router examines a group of slots in order up to the first that is not
\* ready.  If there is none it dispatches the whole group; if that one's head
\* is of an epoch before the expected one, it drops the head.
RouteGroup(r, group, nextTurn) ==
  LET blocked == {s \in group : ~Ready(s)}
      popped  == IF blocked = {} THEN group ELSE {Min(blocked)}
  IN /\ blocked # {} => Stale(Min(blocked))
     /\ pending' = [s \in Slots |-> IF s \in popped THEN Tail(pending[s]) ELSE pending[s]]
     /\ slotq' = [s \in Slots |-> IF blocked = {} /\ s \in group
                                  THEN Append(slotq[s], Head(pending[s])) ELSE slotq[s]]
     /\ inflight' = [s \in Slots |-> IF blocked = {} /\ s \in group THEN TRUE ELSE inflight[s]]
     /\ turn' = [turn EXCEPT ![r] = IF blocked = {} THEN nextTurn ELSE @]
     /\ UNCHANGED <<conf, iter, envVars, inq, actq, gen, frontier, handlerVars, dataVars>>

\* Fixed order of environments; the router waits for the one whose turn it is.
RouteRoundRobin(r) ==
  /\ Mode = "round_robin"
  /\ gen[r] = "running"
  /\ RouteGroup(r, LocalSlots(r, turn[r]), EnvAfter(r, turn[r]))

\* Each slot by itself (one lock hold serves many slots, independently).
RouteGreedy(r) ==
  /\ Mode = "greedy"
  /\ gen[r] = "running"
  /\ \E s \in SlotsOfRank(r) : RouteGroup(r, {s}, turn[r])

\* The first environment, from env_rr on, all of whose local slots are ready
\* (a stale head met on the way is dropped).
ScannedBefore(r, e) ==
  IF turn[r] <= e THEN {x \in EnvsOfRank(r) : turn[r] <= x /\ x < e}
                  ELSE {x \in EnvsOfRank(r) : turn[r] <= x \/ x < e}

RouteEnvGroup(r) ==
  /\ Mode = "env_group_greedy"
  /\ gen[r] = "running"
  /\ \E e \in EnvsOfRank(r) :
       /\ \A x \in ScannedBefore(r, e) : \E s \in LocalSlots(r, x) : ~Ready(s)
       /\ RouteGroup(r, LocalSlots(r, e), EnvAfter(r, e))

Route(r) == RouteRoundRobin(r) \/ RouteGreedy(r) \/ RouteEnvGroup(r)

-----------------------------------------------------------------------------
(***************************************************************************)
(* The slot handler's thread.                                              *)
(***************************************************************************)

\* Receive an observation from the slot's queue and submit it for inference.
HandlerRecv(s) ==
  /\ hPc[s] = "recv"
  /\ slotq[s] # <<>>
  /\ hMsg' = [hMsg EXCEPT ![s] = Head(slotq[s])]
  /\ slotq' = [slotq EXCEPT ![s] = Tail(@)]
  /\ hPc' = [hPc EXCEPT ![s] = "infer"]
  /\ UNCHANGED <<conf, iter, envVars, inq, actq, routerVars, hEpoch, hStep, dataVars>>

\* The batching engine completes the future.
Infer(s) ==
  /\ hPc[s] = "infer"
  /\ hPc' = [hPc EXCEPT ![s] = "reply"]
  /\ UNCHANGED <<conf, iter, envVars, inq, actq, routerVars, slotq, hEpoch, hStep, hMsg, dataVars>>

RecordedWithReward(b, msg, step) ==
  [dones    |-> b.dones + 1,
   rewards  |-> b.rewards + 1,
   inputs   |-> b.inputs + (IF step = 0 THEN 0 ELSE 1),
   values   |-> b.values + 1,
   logprobs |-> b.logprobs + (IF step = NumSteps THEN 0 ELSE 1)]

\* What an answered observation adds to the trajectory: rewards only if it has
\* some (an initial one has none), the inputs of the step before if there was
\* one in this epoch, logprobs unless it is the epoch's last.
Recorded(b, msg, step) ==
  [dones    |-> b.dones + 1,
   rewards  |-> b.rewards + (IF msg.step = -1 THEN 0 ELSE 1),
   inputs   |-> b.inputs + (IF step = 0 THEN 0 ELSE 1),
   values   |-> b.values + 1,
   logprobs |-> b.logprobs + (IF step = NumSteps THEN 0 ELSE 1)]

\* Record the step and put the action under the slot's key.
HandlerReply(s) ==
  /\ hPc[s] = "reply"
  /\ hStep[s] < NumSteps
  /\ buf' = [buf EXCEPT ![s] = Recorded(@, hMsg[s], hStep[s])]
  /\ actq' = [actq EXCEPT ![s] = Append(@, Action(iter, hEpoch[s], hStep[s]))]
  /\ hPc' = [hPc EXCEPT ![s] = "mark"]
  /\ UNCHANGED <<conf, iter, envVars, inq, routerVars, slotq, hEpoch, hStep, hMsg, sent, doneMsgs>>

MarkWithoutFinal(s) ==
  /\ hPc[s] = "mark"
  /\ frontier' = [frontier EXCEPT ![s] = {<<hMsg[s].epoch, hMsg[s].step>>}]
  /\ inflight' = [inflight EXCEPT ![s] = FALSE]
  /\ hStep' = [hStep EXCEPT ![s] = @ + 1]
  /\ hPc' = [hPc EXCEPT ![s] = IF hStep[s] = NumSteps - 1 THEN "end" ELSE "recv"]
  /\ UNCHANGED <<conf, iter, envVars, inq, actq, gen, pending, turn, slotq, hEpoch, hMsg, dataVars>>

\* _mark_slot_msg_done after an action, under the router's lock.
HandlerMark(s) ==
  /\ hPc[s] = "mark"
  /\ frontier' = [frontier EXCEPT ![s] = {<<hMsg[s].epoch, hMsg[s].step>>}]
  /\ inflight' = [inflight EXCEPT ![s] = FALSE]
  /\ hStep' = [hStep EXCEPT ![s] = @ + 1]
  /\ hPc' = [hPc EXCEPT ![s] = "recv"]
  /\ UNCHANGED <<conf, iter, envVars, inq, actq, gen, pending, turn, slotq, hEpoch, hMsg, dataVars>>

\* The bootstrap value of the final observation is recorded and the epoch is
\* marked complete; no action is sent.
HandlerFinal(s) ==
  /\ hPc[s] = "reply"
  /\ hStep[s] = NumSteps
  /\ buf' = [buf EXCEPT ![s] = Recorded(@, hMsg[s], hStep[s])]
  /\ frontier' = [frontier EXCEPT ![s] = {<<hMsg[s].epoch, EpochComplete>>}]
  /\ inflight' = [inflight EXCEPT ![s] = FALSE]
  /\ hPc' = [hPc EXCEPT ![s] = "end"]
  /\ UNCHANGED <<conf, iter, envVars, inq, actq, gen, pending, turn, slotq, hEpoch, hStep, hMsg, sent, doneMsgs>>

AckAlways(k) == ~RolloutSkipsAck
AckDue(k) == ~LastEpoch(k) /\ ~RolloutSkipsAck

\* The epoch's end: in async mode ship the trajectory and start a new one; ack
\* the environment unless epochs are prefetched or this was the last.
HandlerEndEpoch(s) ==
  LET lastEpoch == LastEpoch(hEpoch[s])
      ships     == Pipeline = "async"
  IN /\ hPc[s] = "end"
     /\ sent' = [sent EXCEPT ![s] =
                  IF ships THEN Append(@, [it |-> iter, epoch |-> hEpoch[s], data |-> buf[s]]) ELSE @]
     /\ actq' = [actq EXCEPT ![s] = IF AckDue(hEpoch[s]) THEN Append(@, Ack(iter, hEpoch[s])) ELSE @]
     /\ buf' = [buf EXCEPT ![s] = IF ships /\ ~lastEpoch THEN EmptyBuf ELSE @]
     /\ hPc' = [hPc EXCEPT ![s] = IF lastEpoch THEN "done" ELSE "recv"]
     /\ hEpoch' = [hEpoch EXCEPT ![s] = IF lastEpoch THEN @ ELSE @ + 1]
     /\ hStep' = [hStep EXCEPT ![s] = IF lastEpoch THEN @ ELSE 0]
     /\ UNCHANGED <<conf, iter, envVars, inq, routerVars, slotq, hMsg, doneMsgs>>

\* All handlers of the worker returned: ship everything (sync) or announce the
\* end (async), stop the engine and the router.
EndGenerate(r) ==
  /\ gen[r] = "running"
  /\ \A s \in SlotsOfRank(r) : hPc[s] = "done"
  /\ gen' = [gen EXCEPT ![r] = "done"]
  /\ sent' = [s \in Slots |->
               IF RankOf[s] = r /\ Pipeline = "sync"
               THEN Append(sent[s], [it |-> iter, epoch |-> NumEpochs - 1, data |-> buf[s]])
               ELSE sent[s]]
  /\ doneMsgs' = [doneMsgs EXCEPT ![r] = IF Pipeline = "async" THEN @ + 1 ELSE @]
  /\ UNCHANGED <<conf, iter, envVars, inq, actq, pending, slotq, inflight, frontier, turn, handlerVars, buf>>

-----------------------------------------------------------------------------
(***************************************************************************)
(* The runner: waits for both groups, then starts the next training step.  *)
(***************************************************************************)
AllDone == /\ \A e \in Envs : envPc[e] = "done"
           /\ \A r \in Ranks : gen[r] = "done"

NextIteration ==
  /\ AllDone
  /\ iter < NumIters - 1
  /\ iter' = iter + 1
  /\ envPc' = [e \in Envs |-> "idle"]
  /\ gen' = [r \in Ranks |-> "idle"]
  /\ UNCHANGED <<conf, envEpoch, envStep, awaited, inq, actq, pending, slotq, inflight,
                 frontier, turn, handlerVars, dataVars>>

Finished == AllDone /\ iter = NumIters - 1 /\ UNCHANGED vars

EnvNext(e) ==
  \/ StartInteract(e) \/ SendInit(e) \/ EnvStep(e) \/ RecvAck(e)
  \/ \E s \in Slots : RecvAction(e, s)

HandlerNext(s) ==
  \/ HandlerRecv(s) \/ Infer(s) \/ HandlerReply(s) \/ HandlerMark(s)
  \/ HandlerFinal(s) \/ HandlerEndEpoch(s)

WorkerNext(r) == StartGenerate(r) \/ Route(r) \/ EndGenerate(r)

Next ==
  \/ \E e \in Envs : EnvNext(e)
  \/ \E r \in Ranks : WorkerNext(r)
  \/ \E s \in Slots : Pull(s) \/ HandlerNext(s)
  \/ NextIteration
  \/ Finished

Spec == Init /\ [][Next]_vars

\* Every thread keeps running; the puller serves its keys round robin.
Fairness ==
  /\ \A e \in Envs : WF_vars(EnvNext(e))
  /\ \A r \in Ranks : WF_vars(WorkerNext(r))
  /\ \A s \in Slots : WF_vars(Pull(s)) /\ WF_vars(HandlerNext(s))
  /\ WF_vars(NextIteration)

FairSpec == Spec /\ Fairness

-----------------------------------------------------------------------------
(***************************************************************************)
(* Properties.                                                             *)
(***************************************************************************)

EnvTypeOK ==
  /\ envPc \in [Envs -> {"idle", "reset", "act", "ack", "done", "failed"}]
  /\ envEpoch \in [Envs -> 0 .. NumEpochs - 1]
  /\ envStep \in [Envs -> 0 .. NumSteps - 1]
  /\ awaited \in [Envs -> SUBSET Slots]

Frontiers == (0 .. NumEpochs - 1) \X ((-1 .. NumSteps - 1) \cup {EpochComplete})
FrontierType == {{}} \cup {{f} : f \in Frontiers}

RouterTypeOK ==
  /\ gen \in [Ranks -> {"idle", "running", "done"}]
  /\ pending \in [Slots -> Seq(ObsMsg)]
  /\ inflight \in [Slots -> BOOLEAN]
  /\ frontier \in [Slots -> FrontierType]
  /\ turn \in [Ranks -> Envs]

HandlerTypeOK ==
  /\ hPc \in [Slots -> {"off", "recv", "infer", "reply", "mark", "end", "done"}]
  /\ hEpoch \in [Slots -> 0 .. NumEpochs - 1]
  /\ hStep \in [Slots -> 0 .. NumSteps]
  /\ hMsg \in [Slots -> ObsMsg]

Trajectory == [it : 0 .. NumIters - 1, epoch : 0 .. NumEpochs - 1, data : BufType]

DataTypeOK ==
  /\ buf \in [Slots -> BufType]
  /\ sent \in [Slots -> Seq(Trajectory)]
  /\ doneMsgs \in [Ranks -> Nat]

\* Types and ranges of all the state of the pipeline.
TypeOK ==
  /\ conf \in Configs
  /\ iter \in 0 .. NumIters - 1
  /\ inq \in [Slots -> Seq(ObsMsg)]
  /\ actq \in [Slots -> Seq(ActMsg)]
  /\ slotq \in [Slots -> Seq(ObsMsg)]
  /\ EnvTypeOK
  /\ RouterTypeOK
  /\ HandlerTypeOK
  /\ DataTypeOK

\* The observation a handler works on is the one its loop counters stand for:
\* step_idx 0 handles the initial observation of the epoch, step_idx t the
\* outcome of step t - 1, and none is of an earlier generate().  The handler
\* never checks this itself (it only logs _debug_step_idx).
InOrder ==
  \A s \in Slots : hPc[s] \in {"infer", "reply", "mark"} =>
    hMsg[s] = Obs(iter, hEpoch[s], hStep[s] - 1)

\* What waits under a slot's action key is what the manager expects there: an
\* action for the observation it sent last while it collects actions, an
\* epoch_done ack while it collects acks.  Neither kind is ever read as the
\* other, so the manager's loop never raises.
ActionFitsStep ==
  \A s \in Slots : LET e == EnvOf[s] IN
    /\ envPc[e] # "failed"
    /\ actq[s] # <<>> =>
         /\ Len(actq[s]) = 1
         /\ s \in awaited[e]
         /\ \/ envPc[e] = "act" /\ Head(actq[s]) = Action(iter, envEpoch[e], envStep[e])
            \/ envPc[e] = "ack" /\ Head(actq[s]) = Ack(iter, envEpoch[e])

\* At most one observation of a slot is between the router and the end of its
\* handling, although the round-robin router does not look at _slot_inflight;
\* the in-flight flag says exactly whether there is one.  A manager is never
\* more than one unanswered observation ahead of a slot, or two with
\* prefetching: the unbounded queues on the way stay that short.
OneInFlight ==
  \A s \in Slots :
    LET busy == hPc[s] \in {"infer", "reply", "mark"}
    IN /\ Len(slotq[s]) <= 1
       /\ slotq[s] # <<>> => ~busy
       /\ inflight[s] <=> (slotq[s] # <<>> \/ busy)
       /\ Len(inq[s]) + Len(pending[s]) + (IF inflight[s] /\ hPc[s] # "mark" THEN 1 ELSE 0)
            <= (IF Prefetch THEN 2 ELSE 1)

\* When a training step is over nothing is left anywhere in the pipeline that
\* the next one could mistake for its own.
QuietAtEnd ==
  AllDone => \A s \in Slots :
    inq[s] = <<>> /\ actq[s] = <<>> /\ pending[s] = <<>> /\ slotq[s] = <<>>

\* Every trajectory handed to the trainer is complete: per epoch NumSteps
\* rewards, actions' inputs and logprobs, NumSteps + 1 dones and values; and
\* the trajectories of a slot are those of all its epochs, in order.
TrajectoriesComplete ==
  \A s \in Slots :
    LET k == IF Pipeline = "async" THEN 1 ELSE NumEpochs
        perIter == IF Pipeline = "async" THEN NumEpochs ELSE 1
    IN \A i \in 1 .. Len(sent[s]) :
         /\ sent[s][i].data = [dones |-> k * (NumSteps + 1), rewards |-> k * NumSteps,
                               inputs |-> k * NumSteps, values |-> k * (NumSteps + 1),
                               logprobs |-> k * NumSteps]
         /\ sent[s][i].it = (i - 1) \div perIter
         /\ Pipeline = "async" => sent[s][i].epoch = (i - 1) % perIter

\* Number of observations of this training step dispatched to a slot.
Dispatched(s) ==
  IF gen[RankOf[s]] # "running" THEN 0
  ELSE hEpoch[s] * (NumSteps + 1) + hStep[s]
       + Len(slotq[s])
       + (IF hPc[s] \in {"infer", "reply", "mark", "end", "done"} THEN 1 ELSE 0)

\* The order each router promises.  The round-robin router serves environments
\* in one fixed order, the same on all workers: on a worker, an environment is
\* never more than one observation ahead of another, and never behind a later
\* one.  With a group router the slots an environment has on one worker move
\* as one.  And no router drops an observation: its branch for a message of an
\* epoch before the expected one ("this shouldn't happen") is never taken, also
\* across generate() calls, because the frontier is reset in time.
RouterOrder ==
  \A s, t \in Slots : RankOf[s] = RankOf[t] =>
    /\ Mode = "round_robin" /\ EnvOf[s] <= EnvOf[t] =>
         Dispatched(t) <= Dispatched(s) /\ Dispatched(s) <= Dispatched(t) + 1
    /\ Mode # "greedy" /\ EnvOf[s] = EnvOf[t] => Dispatched(s) = Dispatched(t)
    /\ gen[RankOf[s]] = "running" => ~Stale(s)

\* The pipeline implements lock-step service, fairness included: no slot
\* starves, no manager, handler or router waits forever, every training step
\* is completed and the next one starts only then.  An observation counts as served
\* when its action is sent or, for the last of an epoch, when the epoch is
\* marked complete.
PerIter == NumEpochs * (NumSteps + 1)

emittedBar ==
  [e \in Envs |-> iter * PerIter +
     CASE envPc[e] = "idle" -> 0
       [] envPc[e] = "reset" -> envEpoch[e] * (NumSteps + 1)
       [] envPc[e] = "act" -> envEpoch[e] * (NumSteps + 1) + envStep[e] + 1
       [] OTHER -> (envEpoch[e] + 1) * (NumSteps + 1)]

servedBar ==
  [s \in Slots |-> iter * PerIter +
     IF gen[RankOf[s]] = "idle" THEN 0
     ELSE hEpoch[s] * (NumSteps + 1) + hStep[s]
          + (IF hPc[s] \in {"mark", "end", "done"} THEN 1 ELSE 0)]

Abstract == INSTANCE LockStep WITH emitted <- emittedBar, served <- servedBar, prefetch <- Prefetch

ImplementsLockStep == Abstract!Spec
=============================================================================
