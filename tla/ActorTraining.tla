---------------------------- MODULE ActorTraining ----------------------------
(***************************************************************************)
(* The trainer's side of the asynchronous pipeline.                        *)
(*                                                                         *)
(* Every epoch a slot's handler cuts the trajectory it collected into      *)
(* SplitNum pieces and puts piece i under the key of actor                 *)
(* (slot * SplitNum + i) mod NumActors.  An actor counts on a fixed number *)
(* of messages per epoch and trains in one of three loops: one epoch at a  *)
(* time ("epoch"), slices that fill a target batch across epochs           *)
(* ("accumulate"), or the same after every message ("stream").  All actors *)
(* hold shards of one FSDP model, so that a barrier, the forward and       *)
(* backward pass of a micro-batch and an optimizer step are collectives:   *)
(* they take place when all actors reach the same one.                     *)
(*                                                                         *)
(* Sources: workers/actor/fsdp_actor_worker.py, the shipping of            *)
(* workers/rollout/hf/flexible_per_env_async_rollout_worker.py and the     *)
(* async loop of runners/embodied_runner.py.  A slot's batch is counted in *)
(* environments, one sample each (n_chunk_steps = 1); fsdp_config          *)
(* .enable_gradient_accumulation is on, as in the shipped configurations.  *)
(* Losses, metrics and the FSDP off-loading are left out.                  *)
(***************************************************************************)
EXTENDS Integers, Sequences, FiniteSets, FiniteSetsExt, SequencesExt

CONSTANTS
  NumEpochs,   \* cfg.algorithm.rollout_epoch
  NumIters,    \* bound: steps of the runner's training loop
  Configs      \* the configurations considered, each a member of Config

Positive == Nat \ {0}

(***************************************************************************)
(* loop    the trainer's loop                                              *)
(* slots   flex_plan.total_slot_count                                      *)
(* actors  world size of the actor group                                   *)
(* split   get_actor_split_num: pieces a slot's trajectory is cut into     *)
(* batch   number of environments of every slot, slot 0 first              *)
(* target  actor.global_batch_size / actor world size                      *)
(* micro   actor.micro_batch_size                                          *)
(* passes  algorithm.update_epoch                                          *)
(* group   algorithm.group_size if advantages are grouped, else 1          *)
(***************************************************************************)
Config == [loop : {"epoch", "accumulate", "stream"}, slots : Positive, actors : Positive,
           split : Positive, batch : Seq(Positive), target : Positive, micro : Positive, passes : Positive, group : Positive]

\* math.lcm of two positive numbers.
Lcm(a, b) == Min({n \in 1 .. a * b : n % a = 0 /\ n % b = 0})

ComputeSplitNum(num, splitNum) == Lcm(num, splitNum) \div splitNum


CeilDiv(n, k) == (n + k - 1) \div k

\* torch.chunk: chunks of ceil(n / k), the last of them smaller, or missing.
ChunkSize(n, k, i) == Min({CeilDiv(n, k), n - i * CeilDiv(n, k)})

ASSUME ActorTrainingAssumption ==
  /\ NumEpochs \in Positive /\ NumIters \in Positive
  /\ \A c \in Configs :
       c \in Config /\ Len(c.batch) = c.slots /\ c.split = ComputeSplitNum(c.actors, c.slots)

\* split_dict_to_chunk raises when a chunk is missing.
ASSUME EveryChunkExists ==
  \A c \in Configs : \A s \in 1 .. c.slots, i \in 0 .. c.split - 1 :
    ChunkSize(c.batch[s], c.split, i) > 0

VARIABLES
  conf,      \* the configuration of this execution; no step changes it
  iter,      \* training step of the runner
  shipped,   \* slot -> epochs whose trajectory its handler has shipped
  outbox,    \* <<slot, piece>> -> puts that have not reached the channel
  q,         \* actor -> queue of key actor_{rank} of the channel "Actor"
  pc,        \* actor: "idle", "recv", "barrier", "slice", "step", "last", "drain", "done"
  batch,     \* actor: messages received and not yet trained on
  msgs,      \* actor: messages received in this call of the loop
  size,      \* actor: combined_size, the samples it trains on now
  off,       \* actor: offset into them
  upd,       \* actor: update_idx
  acc,       \* actor: accumulated_samples
  unreduced, \* actor: samples whose gradient no reduce-scatter has included
  trained,   \* actor: samples applied by optimizer steps in this call
  drained    \* actor: messages thrown away at the end of a call

rolloutVars == <<shipped, outbox>>
trainVars == <<size, off, upd, acc, unreduced, trained>>
Loop        == conf.loop
NumSlots    == conf.slots
NumActors   == conf.actors
Slots       == 0 .. NumSlots - 1
Actors      == 0 .. NumActors - 1
SplitNum    == conf.split
Pieces      == 0 .. SplitNum - 1
Batch(s)    == conf.batch[s + 1]
TargetBatch == conf.target
MicroBatch  == conf.micro
UpdateEpoch == conf.passes
GroupSize   == conf.group

vars == <<conf, iter, rolloutVars, q, pc, batch, msgs, trainVars, drained>>

Message(s, i) ==
  [it |-> iter, epoch |-> shipped[s], slot |-> s, n |-> ChunkSize(Batch(s), SplitNum, i)]

TargetActor(s, i) == (s * SplitNum + i) % NumActors

Samples(b) == FoldLeft(LAMBDA sum, m : sum + m.n, 0, b)

GenerousMessagesPerEpoch(w) ==
  LET total == NumSlots * SplitNum
  IN total \div NumActors + (IF w <= total % NumActors THEN 1 ELSE 0)

\* get_messages_per_epoch, which recv_single_epoch_batch repeats.
MessagesPerEpoch(w) ==
  LET total == NumSlots * SplitNum
  IN total \div NumActors + (IF w < total % NumActors THEN 1 ELSE 0)

Init ==
  /\ conf \in Configs
  /\ iter = 0
  /\ shipped = [s \in Slots |-> 0]
  /\ outbox = [p \in Slots \X Pieces |-> <<>>]
  /\ q = [w \in Actors |-> <<>>]
  /\ pc = [w \in Actors |-> "idle"]
  /\ batch = [w \in Actors |-> <<>>]
  /\ msgs = [w \in Actors |-> 0]
  /\ size = [w \in Actors |-> 0]
  /\ off = [w \in Actors |-> 0]
  /\ upd = [w \in Actors |-> 0]
  /\ acc = [w \in Actors |-> 0]
  /\ unreduced = [w \in Actors |-> 0]
  /\ trained = [w \in Actors |-> 0]
  /\ drained = [w \in Actors |-> 0]

-----------------------------------------------------------------------------
(***************************************************************************)
(* The rollout side.                                                       *)
(***************************************************************************)

\* The end of an epoch in a slot's handler: one asynchronous put per piece.
Ship(s) ==
  /\ shipped[s] < NumEpochs
  /\ shipped' = [shipped EXCEPT ![s] = @ + 1]
  /\ outbox' = [p \in Slots \X Pieces |->
                 IF p[1] = s THEN Append(outbox[p], Message(s, p[2])) ELSE outbox[p]]
  /\ UNCHANGED <<conf, iter, q, pc, batch, msgs, trainVars, drained>>

\* A put takes effect; puts under different keys keep no order.
Arrive(s, i) ==
  /\ outbox[<<s, i>>] # <<>>
  /\ outbox' = [outbox EXCEPT ![<<s, i>>] = Tail(@)]
  /\ q' = [q EXCEPT ![TargetActor(s, i)] = Append(@, Head(outbox[<<s, i>>]))]
  /\ UNCHANGED <<conf, iter, shipped, pc, batch, msgs, trainVars, drained>>

-----------------------------------------------------------------------------
(***************************************************************************)
(* An actor between two collectives.                                       *)
(***************************************************************************)

\* async_train_loop is called: counters at zero, gradients cleared.
StartLoop(w) ==
  /\ pc[w] = "idle"
  /\ pc' = [pc EXCEPT ![w] = "recv"]
  /\ msgs' = [msgs EXCEPT ![w] = 0]
  /\ acc' = [acc EXCEPT ![w] = 0]
  /\ unreduced' = [unreduced EXCEPT ![w] = 0]
  /\ trained' = [trained EXCEPT ![w] = 0]
  /\ UNCHANGED <<conf, iter, rolloutVars, q, batch, size, off, upd, drained>>

RoundLength(w) == IF Loop = "stream" THEN 1 ELSE MessagesPerEpoch(w)
TotalMessages(w) == NumEpochs * MessagesPerEpoch(w)

\* recv_single_message, or one turn of recv_single_epoch_batch.
Receive(w) ==
  /\ pc[w] = "recv"
  /\ q[w] # <<>>
  /\ q' = [q EXCEPT ![w] = Tail(@)]
  /\ batch' = [batch EXCEPT ![w] = Append(@, Head(q[w]))]
  /\ msgs' = [msgs EXCEPT ![w] = @ + 1]
  /\ pc' = [pc EXCEPT ![w] = IF (msgs[w] + 1) % RoundLength(w) = 0 THEN "barrier" ELSE "recv"]
  /\ UNCHANGED <<conf, iter, rolloutVars, trainVars, drained>>

\* _drain_actor_rollout_messages, after the group buffer was given up.
Drain(w) ==
  /\ pc[w] = "drain"
  /\ pc' = [pc EXCEPT ![w] = "done"]
  /\ drained' = [drained EXCEPT ![w] = @ + Len(q[w])]
  /\ q' = [q EXCEPT ![w] = <<>>]
  /\ batch' = [batch EXCEPT ![w] = <<>>]
  /\ UNCHANGED <<conf, iter, rolloutVars, msgs, trainVars>>

-----------------------------------------------------------------------------
(***************************************************************************)
(* Collectives.                                                            *)
(***************************************************************************)

\* The samples that make an optimizer step due.  The per-epoch loop takes the
\* whole epoch as one batch if it is no multiple of the target.
StepSize(w) ==
  IF Loop = "epoch" /\ size[w] % TargetBatch # 0 THEN size[w] ELSE TargetBatch

SliceSize(w) == Min({StepSize(w) - acc[w], size[w] - off[w]})

StepDue(w) == acc[w] + SliceSize(w) >= StepSize(w)

NoForcedReduce(w) == FALSE

\* The last slice of the last message, in the streaming loop only.
ForcedReduce(w) ==
  /\ Loop = "stream"
  /\ msgs[w] >= TotalMessages(w)
  /\ upd[w] = UpdateEpoch - 1
  /\ off[w] + SliceSize(w) >= size[w]

\* is_last_slice_before_update: the slice ends with a reduce-scatter.
Reduces(w) == StepDue(w) \/ ForcedReduce(w)

\* The collective an actor stands at, with what all actors must agree on.
None == <<>>
Collective(w) ==
  CASE pc[w] = "slice" -> <<"slice", CeilDiv(SliceSize(w), MicroBatch), Reduces(w)>>
    [] pc[w] \in {"barrier", "step", "last"} -> <<pc[w]>>
    [] OTHER -> None

AllAt(point) ==
  /\ \A w \in Actors : pc[w] = point
  /\ \A v, w \in Actors : Collective(v) = Collective(w)

\* Where a loop goes on after a round, with a samples accumulated.
AfterRoundNoFlush(w, a) == IF msgs[w] < TotalMessages(w) THEN "recv" ELSE "drain"
AfterRound(w, a) ==
  IF msgs[w] < TotalMessages(w) THEN "recv"
  ELSE IF a > 0 /\ Loop # "epoch" THEN "last" ELSE "drain"

\* The streaming loop trains once its buffer holds whole groups.
WholeGroups(w) == Loop # "stream" \/ Samples(batch[w]) % GroupSize = 0

BufferKept(w) == batch[w]
BufferAfter(w) == IF WholeGroups(w) THEN <<>> ELSE batch[w]

\* The barrier, and all an actor does up to its next collective.
Barrier ==
  /\ AllAt("barrier")
  /\ pc' = [w \in Actors |-> IF WholeGroups(w) THEN "slice" ELSE AfterRound(w, acc[w])]
  /\ size' = [w \in Actors |-> IF WholeGroups(w) THEN Samples(batch[w]) ELSE size[w]]
  /\ batch' = [w \in Actors |-> BufferAfter(w)]
  /\ off' = [w \in Actors |-> 0]
  /\ upd' = [w \in Actors |-> 0]
  /\ UNCHANGED <<conf, iter, rolloutVars, q, msgs, acc, unreduced, trained, drained>>

PassOverLate(w, o) == o > size[w]
PassOver(w, o) == o >= size[w]
LastPass(w) == upd[w] = UpdateEpoch - 1

\* Where an actor goes on with offset o and a samples accumulated: the next
\* slice, the next pass over the same samples, or the end of the round.
GoesOn(w, o, a) == IF PassOver(w, o) /\ LastPass(w) THEN AfterRound(w, a) ELSE "slice"
NextPass(w, o) == IF PassOver(w, o) /\ ~LastPass(w) THEN upd[w] + 1 ELSE upd[w]
NextOff(w, o) == IF PassOver(w, o) THEN 0 ELSE o

\* _train_batch_slice_accumulate, on all actors.
Slice ==
  /\ AllAt("slice")
  /\ acc' = [w \in Actors |-> acc[w] + SliceSize(w)]
  /\ unreduced' = [w \in Actors |-> IF Reduces(w) THEN 0 ELSE unreduced[w] + SliceSize(w)]
  /\ LET end(w) == off[w] + SliceSize(w)
     IN /\ pc' = [w \in Actors |-> IF StepDue(w) THEN "step" ELSE GoesOn(w, end(w), acc[w] + SliceSize(w))]
        /\ off' = [w \in Actors |-> IF StepDue(w) THEN end(w) ELSE NextOff(w, end(w))]
        /\ upd' = [w \in Actors |-> IF StepDue(w) THEN upd[w] ELSE NextPass(w, end(w))]
  /\ UNCHANGED <<conf, iter, rolloutVars, q, batch, msgs, size, trained, drained>>

\* optimizer_step, zero_grad and the reduction of the metrics.
OptimizerStep ==
  /\ AllAt("step")
  /\ trained' = [w \in Actors |-> trained[w] + acc[w]]
  /\ acc' = [w \in Actors |-> 0]
  /\ unreduced' = [w \in Actors |-> 0]
  /\ pc' = [w \in Actors |-> GoesOn(w, off[w], 0)]
  /\ off' = [w \in Actors |-> NextOff(w, off[w])]
  /\ upd' = [w \in Actors |-> NextPass(w, off[w])]
  /\ UNCHANGED <<conf, iter, rolloutVars, q, batch, msgs, size, drained>>

\* The update with what is left when the loop is over.
LastStep ==
  /\ AllAt("last")
  /\ trained' = [w \in Actors |-> trained[w] + acc[w]]
  /\ acc' = [w \in Actors |-> 0]
  /\ unreduced' = [w \in Actors |-> 0]
  /\ pc' = [w \in Actors |-> "drain"]
  /\ UNCHANGED <<conf, iter, rolloutVars, q, batch, msgs, size, off, upd, drained>>

-----------------------------------------------------------------------------
RolloutDone == \A s \in Slots : shipped[s] = NumEpochs
ActorsDone == \A w \in Actors : pc[w] = "done"

StepOver == RolloutDone /\ ActorsDone

\* The runner waits for rollout and actors and starts the next training step.
NextIteration ==
  /\ StepOver
  /\ iter < NumIters - 1
  /\ iter' = iter + 1
  /\ shipped' = [s \in Slots |-> 0]
  /\ pc' = [w \in Actors |-> "idle"]
  /\ UNCHANGED <<conf, outbox, q, batch, msgs, trainVars, drained>>

Finished == StepOver /\ iter = NumIters - 1 /\ UNCHANGED vars

RolloutNext(s) == Ship(s) \/ \E i \in Pieces : Arrive(s, i)
ActorNext(w) == StartLoop(w) \/ Receive(w) \/ Drain(w)
CollectiveNext == Barrier \/ Slice \/ OptimizerStep \/ LastStep

Next ==
  \/ \E s \in Slots : RolloutNext(s)
  \/ \E w \in Actors : ActorNext(w)
  \/ CollectiveNext
  \/ NextIteration
  \/ Finished

Spec == Init /\ [][Next]_vars

\* What the slots, pieces and actors of some configuration are.
AnySlot  == UNION {0 .. c.slots - 1 : c \in Configs}
AnyActor == UNION {0 .. c.actors - 1 : c \in Configs}
AnyPiece == UNION {0 .. c.split - 1 : c \in Configs}

\* Handlers run on, puts complete, actors run and collectives complete.
Fairness ==
  /\ \A s \in AnySlot :
       /\ WF_vars(s \in Slots /\ Ship(s))
       /\ \A i \in AnyPiece : WF_vars(s \in Slots /\ i \in Pieces /\ Arrive(s, i))
  /\ \A w \in AnyActor : WF_vars(w \in Actors /\ ActorNext(w))
  /\ WF_vars(CollectiveNext)
  /\ WF_vars(NextIteration)

FairSpec == Spec /\ Fairness

-----------------------------------------------------------------------------
(***************************************************************************)
(* Properties.                                                             *)
(***************************************************************************)

\* Two actors that stand at a collective stand at the same one, with the same
\* number of micro-batches and the same decision to reduce: the actors, each
\* of which counts its own messages and samples, never run apart.
CollectivesMatch ==
  \A v, w \in Actors :
    Collective(v) # None /\ Collective(w) # None => Collective(v) = Collective(w)

\* The gradient of every sample an optimizer step applies has been part of a
\* reduce-scatter; no step runs on gradients a shard has only for itself.
ReducedBeforeStep ==
  \A w \in Actors : pc[w] \in {"step", "last"} => unreduced[w] = 0

\* What the plan sends to an actor in a training step, in samples.
SentTo(w) ==
  NumEpochs * MapThenSumSet(LAMBDA p : ChunkSize(Batch(p[1]), SplitNum, p[2]),
                            {p \in Slots \X Pieces : TargetActor(p[1], p[2]) = w})

\* When an actor's loop is over each sample that was sent to it has been part
\* of an optimizer step once per update epoch, except those of an incomplete
\* group: splitting across messages and epochs loses and repeats none.
AllSamplesTrained ==
  \A w \in Actors : pc[w] = "drain" =>
    trained[w] + UpdateEpoch * Samples(batch[w]) = UpdateEpoch * SentTo(w)

\* An actor's count of messages is what the slots send to it: the drain at the
\* end of a training step finds nothing, and no message is of another step.
NoLeftovers ==
  \A w \in Actors :
    /\ drained[w] = 0
    /\ pc[w] = "done" => q[w] = <<>> /\ \A p \in DOMAIN outbox :
                           TargetActor(p[1], p[2]) = w => outbox[p] = <<>>
    /\ \A m \in ToSet(q[w]) \cup ToSet(batch[w]) : m.it = iter

\* What is sent to an actor in a training step is trained on in that step.
StepsSeparate == AllSamplesTrained /\ NoLeftovers

\* Every training step is completed: no actor waits for a message that is not
\* sent, or in a collective its peers never reach.
TrainingEnds == <>(iter = NumIters - 1 /\ ActorsDone)
=============================================================================
