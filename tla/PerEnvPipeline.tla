--------------------------- MODULE PerEnvPipeline ---------------------------
(***************************************************************************)
(* The per-env pipeline without flexible slots: every environment loop and *)
(* every rollout handler is a thread of its own, paired through one key of *)
(* the channels "Env" and "Rollout" per slot.                              *)
(*                                                                         *)
(* An environment is stepped as a whole but cut into `aggregate' slots     *)
(* (one, outside the aggregated mode); slot s is served by the handler of  *)
(* rollout worker s mod rollouts.  A handler asks the batching engine of   *)
(* its worker for an action to every observation, records the trajectory,  *)
(* ships it in pieces to the actors and acknowledges the epoch, without    *)
(* which the environment does not start the next one.                      *)
(*                                                                         *)
(* In training a handler receives through SerializedChannelReceiver and    *)
(* gets what lies under its own key.  In evaluation the handlers of a      *)
(* worker call Channel.get from several threads at once; its receive takes *)
(* the next message that the channel sends to this worker, which may be    *)
(* the answer to another handler's call.                                   *)
(*                                                                         *)
(* Sources: true_per_env_async_worker.py, per_env_async_rollout_worker.py, *)
(* aggregated_per_env_async_worker.py, aggregated_per_env_async_rollout_   *)
(* worker.py, EmbodiedRolloutResult.  A channel is a FIFO queue per key    *)
(* (ChannelClient shows why), and its connection with a worker hands one   *)
(* answer after the other to one receive after the other.  The engine's    *)
(* thread is the one of BatchingEngine seen from outside: it answers any   *)
(* prefix of its queue.                                                    *)
(* Tensors are tags of the observation they stem from; metrics, timing,    *)
(* videos and interventions are left out.                                  *)
(***************************************************************************)
EXTENDS Integers, Sequences, FiniteSets, FiniteSetsExt, SequencesExt, Selections

CONSTANTS
  NumEpochs,  \* cfg.algorithm.rollout_epoch, and eval_rollout_epoch
  NumSteps,   \* n_chunk_steps
  Configs     \* the configurations considered, each a member of Config

Positive == Nat \ {0}

(***************************************************************************)
(* envs       env_world_size * pipeline_stage_num, the environment loops   *)
(* aggregate  aggregate_slots_per_env                                      *)
(* rollouts   world size of the rollout group                              *)
(* actors     world size of the actor group                                *)
(* maxBatch   per_env_async.max_batch_size                                 *)
(* mode       interact and generate, or evaluate                           *)
(* pipeline   algorithm.pipeline_mode                                      *)
(* autoReset  env.train.auto_reset                                         *)
(* valueHead  the model has a value head                                   *)
(* ends       <<slot, epoch, step>> with an episode ending in that slot    *)
(***************************************************************************)
Config == [envs : Positive, aggregate : Positive, rollouts : Positive, actors : Positive,
           maxBatch : Positive, mode : {"train", "eval"}, pipeline : {"sync", "async"},
           autoReset : BOOLEAN, valueHead : BOOLEAN,
           ends : SUBSET (Nat \X (0 .. NumEpochs - 1) \X (0 .. NumSteps - 1))]

\* evaluate() of the aggregated workers raises NotImplementedError.
ASSUME PerEnvAssumption ==
  /\ NumEpochs \in Positive /\ NumSteps \in Positive
  /\ \A c \in Configs : c \in Config /\ (c.mode = "eval" => c.aggregate = 1)

VARIABLES
  conf,      \* the configuration of this execution; no step changes it
  env,       \* environment loop: where it is, and the replies it holds
  obsQ,      \* slot -> queue of its key in the channel of observations
  replyQ,    \* slot -> queue of its key in the channel of actions
  link,      \* rollout worker -> evaluation's gets under way: calls that the
             \* channel has not answered, receives posted, answers not received
  handler,   \* slot -> its handler: where it is, and its local variables
  buffer,    \* slot -> EnvRolloutBuffer.buffer
  boosted,   \* <<slot, epoch, step>> whose reward tensor holds a bootstrap value
  requests,  \* rollout worker -> request_queue of its engine, as slots
  generate,  \* rollout worker -> "running", "ended" or "raised"
  actorQ     \* key of the actor channel -> queue; key -1 is default_queue

vars == <<conf, env, obsQ, replyQ, link, handler, buffer, boosted, requests, generate, actorQ>>

Envs     == 0 .. conf.envs - 1
Slots    == 0 .. conf.envs * conf.aggregate - 1
Rollouts == 0 .. conf.rollouts - 1
Actors   == 0 .. conf.actors - 1
Training == conf.mode = "train"

SlotId(e, k) == e * conf.aggregate + k
EnvOf(s) == s \div conf.aggregate

\* _compute_my_env_ids, _compute_my_slot_ids
RolloutOf(s) == s % conf.rollouts
MySlots(r) == {s \in Slots : RolloutOf(s) = r}

\* compute_split_num(actors, slots) = lcm(actors, slots) // slots
SplitNum ==
  Min({n \in 1 .. conf.actors : (n * Cardinality(Slots)) % conf.actors = 0})

EmptyBuffer == [values |-> <<>>, dones |-> <<>>, rewards |-> <<>>, inputs |-> <<>>]
None == <<>>
NoGets == [calls |-> {}, receives |-> <<>>, answers |-> <<>>]

Init ==
  /\ conf \in Configs
  /\ env = [e \in Envs |-> [pc |-> "send", epoch |-> 0, step |-> -1, k |-> 0, taken |-> <<>>]]
  /\ obsQ = [s \in Slots |-> <<>>]
  /\ replyQ = [s \in Slots |-> <<>>]
  /\ link = [r \in Rollouts |-> NoGets]
  /\ handler = [s \in Slots |->
                 [pc |-> "recv", epoch |-> 0, step |-> 0, obs |-> None, last |-> None]]
  /\ buffer = [s \in Slots |-> EmptyBuffer]
  /\ boosted = {}
  /\ requests = [r \in Rollouts |-> <<>>]
  /\ generate = [r \in Rollouts |-> "running"]
  /\ actorQ = [a \in Actors \cup {-1} |-> <<>>]

-----------------------------------------------------------------------------
(***************************************************************************)
(* An environment loop.                                                    *)
(***************************************************************************)

Ends(s, epoch, step) == <<s, epoch, step>> \in conf.ends

\* Auto-reset of one row keeps a final observation of all rows.
HasFinalObs(e, epoch, step) ==
  conf.autoReset /\ \E k \in 0 .. conf.aggregate - 1 : Ends(SlotId(e, k), epoch, step)

(***************************************************************************)
(* The part of slot s of what the environment returned for step `step' of  *)
(* an epoch, or of the observation that starts the epoch (step -1): under  *)
(* auto-reset that is the last one of the epoch before, with its dones but *)
(* without rewards and final observation.                                  *)
(***************************************************************************)
Observation(s, epoch, step) ==
  [slot |-> s, epoch |-> epoch, step |-> step, rewarded |-> Training /\ step >= 0,
   done |-> Training /\ IF step >= 0 THEN Ends(s, epoch, step)
                        ELSE conf.autoReset /\ Ends(s, epoch - 1, NumSteps - 1),
   final |-> step >= 0 /\ HasFinalObs(EnvOf(s), epoch, step)]

\* Whether the loop waits for acknowledgements between this epoch and the next.
StartsAtOnce(e) == FALSE
AwaitsAck(e) == env[e].epoch < NumEpochs - 1

LastSlot(e) == env[e].k = conf.aggregate - 1

NextEpoch(e) == [env[e] EXCEPT !.pc = "send", !.epoch = @ + 1, !.step = -1, !.k = 0, !.taken = <<>>]

\* Where the loop is when the last slot's output is sent, in training.
AfterSend(e) ==
  [env[e] EXCEPT !.k = 0, !.taken = <<>>,
     !.pc = IF env[e].step < NumSteps - 1 \/ ~Training THEN "recv"
            ELSE IF AwaitsAck(e) THEN "ack"
            ELSE IF env[e].epoch < NumEpochs - 1 THEN "next" ELSE "over"]

\* _send_env_output, of one slot after the other.
SendOutput(e) ==
  /\ env[e].pc = "send"
  /\ LET s == SlotId(e, env[e].k)
     IN obsQ' = [obsQ EXCEPT ![s] = Append(@, Observation(s, env[e].epoch, env[e].step))]
  /\ env' = [env EXCEPT ![e] =
              IF LastSlot(e) THEN AfterSend(e) ELSE [env[e] EXCEPT !.k = env[e].k + 1]]
  /\ UNCHANGED <<conf, replyQ, link, handler, buffer, boosted, requests, generate, actorQ>>

\* SerializedChannelReceiver.get under the key of slot k, then of slot k + 1:
\* an action while the loop waits for actions, an acknowledgement (or the loop
\* raises) while it waits for those.
TakeReply(e) ==
  LET s == SlotId(e, env[e].k)
      taken == Append(env[e].taken, Head(replyQ[s]))
      expected == IF env[e].pc = "recv" THEN "action" ELSE "ack"
      then == IF env[e].pc = "recv" THEN "step" ELSE "next"
  IN /\ env[e].pc \in {"recv", "ack"}
     /\ replyQ[s] # <<>>
     /\ replyQ' = [replyQ EXCEPT ![s] = Tail(@)]
     /\ env' = [env EXCEPT ![e] =
                 [env[e] EXCEPT !.taken = taken,
                   !.k = IF LastSlot(e) THEN 0 ELSE env[e].k + 1,
                   !.pc = IF Last(taken).kind # expected THEN "raised"
                          ELSE IF LastSlot(e) THEN then ELSE env[e].pc]]
     /\ UNCHANGED <<conf, obsQ, link, handler, buffer, boosted, requests, generate, actorQ>>

\* chunk_step with the actions of all slots.  evaluate() does not send the
\* observation the last action leads to.
EnvStep(e) ==
  /\ env[e].pc = "step"
  /\ env' = [env EXCEPT ![e] =
              [env[e] EXCEPT !.step = env[e].step + 1, !.taken = <<>>,
                 !.pc = IF Training \/ env[e].step + 1 < NumSteps - 1 THEN "send"
                        ELSE IF env[e].epoch < NumEpochs - 1 THEN "next" ELSE "over"]]
  /\ UNCHANGED <<conf, obsQ, replyQ, link, handler, buffer, boosted, requests, generate, actorQ>>

\* update_reset_state_ids, reset without auto-reset: the next epoch begins.
BeginEpoch(e) ==
  /\ env[e].pc = "next"
  /\ env' = [env EXCEPT ![e] = NextEpoch(e)]
  /\ UNCHANGED <<conf, obsQ, replyQ, link, handler, buffer, boosted, requests, generate, actorQ>>

-----------------------------------------------------------------------------
(***************************************************************************)
(* A handler.                                                              *)
(***************************************************************************)

Tag(s) ==
  [slot |-> handler[s].obs.slot, epoch |-> handler[s].obs.epoch, step |-> handler[s].obs.step]

FinalStep(s) == Training /\ handler[s].step = NumSteps

\* dones, rewards and the forward inputs of the inference before, if any.
Recorded(b, m, last) ==
  LET tag == [slot |-> m.slot, epoch |-> m.epoch, step |-> m.step]
  IN [b EXCEPT !.dones = Append(@, tag),
               !.rewards = IF m.rewarded THEN Append(@, tag) ELSE @,
               !.inputs = IF last # None THEN Append(@, last) ELSE @]

\* In training the observation under the slot's own key is received and handed to
\* the engine; the last one of an epoch is recorded before, the others when the
\* answer is there.
Submit(s) ==
  LET m == Head(obsQ[s])
  IN /\ handler[s].pc = "recv" /\ Training
     /\ generate[RolloutOf(s)] = "running"
     /\ obsQ[s] # <<>>
     /\ obsQ' = [obsQ EXCEPT ![s] = Tail(@)]
     /\ handler' = [handler EXCEPT ![s] = [handler[s] EXCEPT !.pc = "infer", !.obs = m]]
     /\ buffer' = IF FinalStep(s)
                  THEN [buffer EXCEPT ![s] = Recorded(buffer[s], m, handler[s].last)] ELSE buffer
     /\ requests' = [requests EXCEPT ![RolloutOf(s)] = Append(@, s)]
     /\ UNCHANGED <<conf, env, replyQ, link, boosted, generate, actorQ>>

(***************************************************************************)
(* Evaluation's Channel.get: the remote call starts, then the receive is   *)
(* posted, and it takes the next answer to this worker whoever asked.  The *)
(* handler goes on when its own remote call has returned and its receive   *)
(* has got something.                                                      *)
(***************************************************************************)
Ask(s) ==
  /\ handler[s].pc = "recv" /\ ~Training
  /\ generate[RolloutOf(s)] = "running"
  /\ link' = [link EXCEPT ![RolloutOf(s)].calls = @ \cup {s}]
  /\ handler' = [handler EXCEPT ![s].pc = "post"]
  /\ UNCHANGED <<conf, env, obsQ, replyQ, buffer, boosted, requests, generate, actorQ>>

Post(s) ==
  LET r == RolloutOf(s)
  IN /\ handler[s].pc = "post"
     /\ generate[r] = "running"
     /\ IF link[r].answers = <<>>
        THEN /\ link' = [link EXCEPT ![r].receives = Append(@, s)]
             /\ handler' = [handler EXCEPT ![s].pc = "wait"]
        ELSE /\ link' = [link EXCEPT ![r].answers = Tail(@)]
             /\ handler' = [handler EXCEPT ![s].pc = "wait", ![s].obs = Head(link[r].answers)]
     /\ UNCHANGED <<conf, env, obsQ, replyQ, buffer, boosted, requests, generate, actorQ>>

\* The channel takes the item that a call asks for and sends it to the worker.
Serve(s) ==
  LET r == RolloutOf(s)
      m == Head(obsQ[s])
  IN /\ s \in link[r].calls
     /\ obsQ[s] # <<>>
     /\ obsQ' = [obsQ EXCEPT ![s] = Tail(@)]
     /\ IF link[r].receives = <<>>
        THEN /\ link' = [link EXCEPT ![r].calls = @ \ {s}, ![r].answers = Append(@, m)]
             /\ UNCHANGED handler
        ELSE /\ link' = [link EXCEPT ![r].calls = @ \ {s}, ![r].receives = Tail(@)]
             /\ handler' = [handler EXCEPT ![Head(link[r].receives)].obs = m]
     /\ UNCHANGED <<conf, env, replyQ, buffer, boosted, requests, generate, actorQ>>

EvalSubmitAtOnce(s) ==
  /\ handler[s].pc = "wait" /\ handler[s].obs # None
  /\ generate[RolloutOf(s)] = "running"
  /\ handler' = [handler EXCEPT ![s].pc = "infer"]
  /\ requests' = [requests EXCEPT ![RolloutOf(s)] = Append(@, s)]
  /\ UNCHANGED <<conf, env, obsQ, replyQ, link, buffer, boosted, generate, actorQ>>

EvalSubmit(s) ==
  /\ handler[s].pc = "wait" /\ handler[s].obs # None
  /\ s \notin link[RolloutOf(s)].calls
  /\ generate[RolloutOf(s)] = "running"
  /\ handler' = [handler EXCEPT ![s].pc = "infer"]
  /\ requests' = [requests EXCEPT ![RolloutOf(s)] = Append(@, s)]
  /\ UNCHANGED <<conf, env, obsQ, replyQ, link, buffer, boosted, generate, actorQ>>

Reply(s, kind) ==
  [kind |-> kind, slot |-> handler[s].obs.slot, epoch |-> handler[s].obs.epoch,
   step |-> handler[s].obs.step]

\* Where the handler goes on after an action has been sent.
AfterAction(s) ==
  IF Training \/ handler[s].step < NumSteps - 1
  THEN [handler[s] EXCEPT !.pc = "recv", !.step = @ + 1, !.obs = None, !.last = Tag(s)]
  ELSE IF handler[s].epoch < NumEpochs - 1
  THEN [handler[s] EXCEPT !.pc = "recv", !.epoch = @ + 1, !.step = 0, !.obs = None]
  ELSE [handler[s] EXCEPT !.pc = "over", !.obs = None]

\* The answer to an observation that is not the last: it is recorded, and the
\* action sent back.
Act(s) ==
  /\ handler[s].pc = "answered"
  /\ generate[RolloutOf(s)] = "running"
  /\ ~FinalStep(s)
  /\ buffer' = IF ~Training THEN buffer
               ELSE [buffer EXCEPT ![s] =
                      Recorded([buffer[s] EXCEPT !.values = Append(buffer[s].values, Tag(s))],
                               handler[s].obs, handler[s].last)]
  /\ replyQ' = [replyQ EXCEPT ![s] = Append(@, Reply(s, "action"))]
  /\ handler' = [handler EXCEPT ![s] = AfterAction(s)]
  /\ UNCHANGED <<conf, env, obsQ, link, boosted, requests, generate, actorQ>>

\* The answer to the last observation of an epoch, its bootstrap value.
Bootstrap(s) ==
  /\ handler[s].pc = "answered"
  /\ generate[RolloutOf(s)] = "running"
  /\ FinalStep(s)
  /\ buffer' = [buffer EXCEPT ![s].values = Append(@, Tag(s))]
  /\ handler' = [handler EXCEPT ![s].pc = IF conf.pipeline = "async" THEN "ship" ELSE "ack"]
  /\ UNCHANGED <<conf, env, obsQ, replyQ, link, boosted, requests, generate, actorQ>>

TargetOfSlot(s, i) == s % conf.actors
TargetActor(s, i) == (s * SplitNum + i) % conf.actors

Piece(s, i) == [slot |-> s, part |-> i, epoch |-> handler[s].epoch]
Pieces(s) == [i \in 1 .. SplitNum |-> Piece(s, i - 1)]
PiecesTo(s, a) == {p \in ToSet(Pieces(s)) : TargetActor(s, p.part) = a}

\* _send_rollout_batch with keys, at the end of an epoch of the asynchronous
\* pipeline.  No two pieces of a slot go to the same actor.
Ship(s) ==
  /\ handler[s].pc = "ship"
  /\ generate[RolloutOf(s)] = "running"
  /\ actorQ' = [a \in DOMAIN actorQ |-> actorQ[a] \o Those(Pieces(s), PiecesTo(s, a))]
  /\ handler' = [handler EXCEPT ![s].pc = "ack"]
  /\ UNCHANGED <<conf, env, obsQ, replyQ, link, buffer, boosted, requests, generate>>

OneEpochShort(s) == handler[s].epoch < NumEpochs - 2
SendsAck(s) == handler[s].epoch < NumEpochs - 1

\* The asynchronous pipeline collects every epoch into a new buffer.
StaleBuffer(s) == buffer[s]
NextBuffer(s) == IF conf.pipeline = "async" THEN EmptyBuffer ELSE buffer[s]

\* The acknowledgement of an epoch, and the beginning of the next one.
Acknowledge(s) ==
  LET goesOn == handler[s].epoch < NumEpochs - 1
  IN /\ handler[s].pc = "ack"
     /\ generate[RolloutOf(s)] = "running"
     /\ replyQ' = IF SendsAck(s) THEN [replyQ EXCEPT ![s] = Append(@, Reply(s, "ack"))] ELSE replyQ
     /\ buffer' = [buffer EXCEPT ![s] = IF goesOn THEN NextBuffer(s) ELSE @]
     /\ handler' = [handler EXCEPT ![s] =
                     IF goesOn THEN [pc |-> "recv", epoch |-> handler[s].epoch + 1, step |-> 0,
                                     obs |-> None, last |-> None]
                     ELSE [handler[s] EXCEPT !.pc = "over", !.obs = None]]
     /\ UNCHANGED <<conf, env, obsQ, link, boosted, requests, generate, actorQ>>

-----------------------------------------------------------------------------
(***************************************************************************)
(* The engine of a rollout worker.                                         *)
(***************************************************************************)

(***************************************************************************)
(* _get_dones_and_rewards of a batch: with a value head, auto-reset and an *)
(* episode that ended, the values of the final observations are added to   *)
(* the rewards.  The batch's final observations are those of the           *)
(* environments that have one, all others are missing in them; the         *)
(* indexing with the dones of the whole batch then raises.                 *)
(***************************************************************************)
AddsValues(batch) ==
  /\ conf.valueHead /\ conf.autoReset
  /\ \E s \in batch : handler[s].obs.rewarded
  /\ \E s \in batch : handler[s].obs.done
  /\ \E s \in batch : handler[s].obs.final

Ragged(batch) == AddsValues(batch) /\ \E s \in batch : ~handler[s].obs.final

(***************************************************************************)
(* The rewards changed are those of the batch: for one request they are    *)
(* the tensor its handler records, for several a concatenated copy whose   *)
(* parts no handler reads.                                                 *)
(***************************************************************************)
Boosted(batch) ==
  IF AddsValues(batch) /\ Cardinality(batch) = 1
  THEN {<<s, handler[s].obs.epoch, handler[s].obs.step>> : s \in batch} ELSE {}

Infer(r) ==
  /\ generate[r] = "running"
  /\ \E n \in 1 .. Min({conf.maxBatch, Len(requests[r])}) :
       LET batch == ToSet(SubSeq(requests[r], 1, n))
       IN /\ requests' = [requests EXCEPT ![r] = SubSeq(@, n + 1, Len(@))]
          /\ handler' = [s \in Slots |->
               IF s \in batch
               THEN [handler[s] EXCEPT !.pc = IF Ragged(batch) THEN "failed" ELSE "answered"]
               ELSE handler[s]]
          /\ boosted' = boosted \cup Boosted(batch)
  /\ UNCHANGED <<conf, env, obsQ, replyQ, link, buffer, generate, actorQ>>

-----------------------------------------------------------------------------
(***************************************************************************)
(* generate() and evaluate() of a rollout worker.                          *)
(***************************************************************************)

\* gather() raises the first exception of a handler; the engine is stopped.
Raise(r) ==
  /\ generate[r] = "running"
  /\ \E s \in MySlots(r) : handler[s].pc = "failed"
  /\ generate' = [generate EXCEPT ![r] = "raised"]
  /\ UNCHANGED <<conf, env, obsQ, replyQ, link, handler, buffer, boosted, requests, actorQ>>

MySlotSeq(r) == Those([i \in 1 .. Cardinality(Slots) |-> i - 1], MySlots(r))

\* All handlers are done.  The synchronous pipeline ships everything now, to
\* whichever actor comes first; the asynchronous one puts its end marker under
\* rollout_{rank}, which no actor reads.
End(r) ==
  /\ generate[r] = "running"
  /\ \A s \in MySlots(r) : handler[s].pc = "over"
  /\ generate' = [generate EXCEPT ![r] = "ended"]
  /\ actorQ' = IF Training /\ conf.pipeline = "sync"
               THEN [actorQ EXCEPT ![-1] = @ \o FlattenSeq([i \in DOMAIN MySlotSeq(r) |->
                                                              Pieces(MySlotSeq(r)[i])])]
               ELSE actorQ
  /\ UNCHANGED <<conf, env, obsQ, replyQ, link, handler, buffer, boosted, requests>>

AllOver == /\ \A e \in Envs : env[e].pc = "over"
           /\ \A r \in Rollouts : generate[r] = "ended"

SomeRaised == \E r \in Rollouts : generate[r] = "raised"

EnvNext(e) == SendOutput(e) \/ TakeReply(e) \/ EnvStep(e) \/ BeginEpoch(e)
HandlerNext(s) ==
  \/ Submit(s) \/ Ask(s) \/ Post(s) \/ EvalSubmit(s)
  \/ Act(s) \/ Bootstrap(s) \/ Ship(s) \/ Acknowledge(s)
WorkerNext(r) == Infer(r) \/ Raise(r) \/ End(r)

\* The calls have returned, or one has raised and the job is given up.
Finished == (AllOver \/ SomeRaised) /\ UNCHANGED vars

Next ==
  \/ \E e \in Envs : EnvNext(e)
  \/ \E s \in Slots : HandlerNext(s) \/ Serve(s)
  \/ \E r \in Rollouts : WorkerNext(r)
  \/ Finished

Spec == Init /\ [][Next]_vars

AnyEnv == UNION {0 .. c.envs - 1 : c \in Configs}
AnySlot == UNION {0 .. c.envs * c.aggregate - 1 : c \in Configs}
AnyRollout == UNION {0 .. c.rollouts - 1 : c \in Configs}

\* Every thread runs on when it can, and the channel answers what it can.
Fairness ==
  /\ \A e \in AnyEnv : WF_vars(e \in Envs /\ EnvNext(e))
  /\ \A s \in AnySlot : WF_vars(s \in Slots /\ HandlerNext(s)) /\ WF_vars(s \in Slots /\ Serve(s))
  /\ \A r \in AnyRollout : WF_vars(r \in Rollouts /\ WorkerNext(r))

FairSpec == Spec /\ Fairness

-----------------------------------------------------------------------------
(***************************************************************************)
(* Properties.                                                             *)
(***************************************************************************)

\* Whether the handler of a slot gets what lies under its own key: in training
\* through the serialized receiver, in evaluation if its worker has no other.
GetsItsOwn(s) == Training \/ MySlots(RolloutOf(s)) = {s}

\* What an environment loop receives is about the observation it sent last:
\* an action for every slot computed from that very observation, and at the
\* end of an epoch the acknowledgement of this epoch, whatever epochs and
\* steps the batches that answered them were mixed from.
RepliesFit ==
  \A e \in Envs : \A i \in DOMAIN env[e].taken :
    LET reply == env[e].taken[i]
    IN GetsItsOwn(SlotId(e, i - 1)) =>
         /\ reply.slot = SlotId(e, i - 1)
         /\ reply.epoch = env[e].epoch /\ reply.step = env[e].step
         /\ reply.kind = IF Training /\ env[e].step = NumSteps - 1 THEN "ack" ELSE "action"

\* The tags of the first n observations of a slot, in epochs of len observations
\* each, which number them from `from' on.
Tags(s, first, from, len, n) ==
  [i \in 1 .. n |->
    [slot |-> s, epoch |-> first + (i - 1) \div len, step |-> from + ((i - 1) % len)]]

\* The epochs a buffer holds when an epoch is complete, as one sequence of tags.
FirstEpoch(s) == IF conf.pipeline = "async" THEN handler[s].epoch ELSE 0
Collected(s, from, len) ==
  Tags(s, FirstEpoch(s), from, len, (handler[s].epoch - FirstEpoch(s) + 1) * len)

\* A completed trajectory is that of its slot: per epoch a done and a value for
\* the initial and every later observation, a reward for every step, and at the
\* place of that reward the forward inputs of the inference that chose the
\* action, so that the actor trains on matching entries.
TrajectoryMatches ==
  \A s \in Slots :
    Training /\ handler[s].pc \in {"ship", "ack", "over"} =>
      /\ buffer[s].dones = Collected(s, -1, NumSteps + 1)
      /\ buffer[s].values = Collected(s, -1, NumSteps + 1)
      /\ buffer[s].rewards = Collected(s, 0, NumSteps)
      /\ buffer[s].inputs = Collected(s, -1, NumSteps)

\* get_messages_per_epoch: slots * split / actors, which leaves no remainder.
Share == (Cardinality(Slots) * SplitNum) \div conf.actors

PiecesOf(epoch, a) == {n \in DOMAIN actorQ[a] : actorQ[a][n].epoch = epoch}

\* Actors that count on an equal share of every epoch get it: never more, and
\* when generate has returned not less; no piece is shipped twice.
SharesAreEven ==
  /\ \A a \in DOMAIN actorQ : IsInjective(actorQ[a])
  /\ \A a \in Actors, epoch \in 0 .. NumEpochs - 1 : Cardinality(PiecesOf(epoch, a)) <= Share
  /\ AllOver /\ Training =>
       IF conf.pipeline = "sync" THEN Len(actorQ[-1]) = Share * conf.actors
       ELSE \A a \in Actors, epoch \in 0 .. NumEpochs - 1 : Cardinality(PiecesOf(epoch, a)) = Share

\* Nothing piles up between a loop and its handler: of the two queues of a slot
\* one is empty, and the other holds no more than one entry.  In evaluation too,
\* where handlers exchange observations: one that has been given another slot's
\* answers only when its own call has returned, which empties its slot's queue.
NoBacklog == \A s \in Slots : Len(obsQ[s]) + Len(replyQ[s]) <= 1

\* A reward holds the value of a final observation only where an episode ended
\* under auto-reset.  It may lack it there: a handler records the rewards it sent
\* to the engine, which a batch of several requests has copied.
BootstrapOnlyAtEnds == boosted # {} => conf.autoReset /\ conf.valueHead /\ boosted \subseteq conf.ends

\* What an environment loop, a handler and the engine hold of a slot is about
\* the same observations: the replies, the lists of the trajectory, the
\* bootstrap values; and one observation at a time is under way.  (In evaluation of slots that share a worker a handler may
\* be given another slot's observation, and RepliesFit claims nothing of them.)
SlotsAgree == RepliesFit /\ NoBacklog /\ TrajectoryMatches /\ BootstrapOnlyAtEnds

\* Every call returns: no environment, handler or engine waits for another for
\* ever.  Or a rollout worker's call raises, but only in training with a value
\* head and auto-reset, where a batch may mix observations with and without a
\* final one.
BatchMayBeRagged == Training /\ conf.valueHead /\ conf.autoReset
EveryCallReturns == <>(AllOver \/ (BatchMayBeRagged /\ SomeRaised))
=============================================================================
