------------------------ MODULE PerEnvPipelineProofs ------------------------
(***************************************************************************)
(* Theorems about PerEnvPipeline: whatever the engines batch together,     *)
(* replies, lists and bootstrap values are about the same observations;    *)
(* for any number of environments, slots, workers, epochs and steps.       *)
(*                                                                         *)
(* A slot and its handler have at most one thing under way: an observation *)
(* sent, worked on, or answered and not read.  OpenIn says when that is so *)
(* by the environment's loop alone, Outstanding where the thing is;        *)
(* otherwise both keys are empty and the handler stands where IdleIn says. *)
(* In evaluation what is under way for a slot is in its queues until the   *)
(* channel has answered the call of its handler (Asked), whatever the      *)
(* handler's receive gets; LinkInv has a receive posted for every handler  *)
(* that waits without an observation, and by OwnGet a handler alone on its *)
(* worker gets what its own call asked for.                                *)
(* TrajectoryOf has the lists of a handler as prefixes of the sequence of  *)
(* all observations, as long as the handler's own position says.           *)
(* QueueHolds has in the queue of an actor exactly the pieces that the     *)
(* handlers have shipped to it by their positions, each once.              *)
(***************************************************************************)
EXTENDS PerEnvPipeline, SetSeqLemmas

\* The number of a slot within its environment.
IndexOf(s) == s % conf.aggregate

Results   == [slot : Int, epoch : Nat, step : Int]
ObsOK     == [slot : Int, epoch : Nat, step : Int, rewarded : BOOLEAN, done : BOOLEAN,
              final : BOOLEAN]
Replies   == [kind : {"action", "ack"}, slot : Int, epoch : Nat, step : Int]
EnvPcs    == {"send", "recv", "step", "ack", "next", "over", "raised"}
Engaged   == {"infer", "answered", "failed", "ship", "ack"}
Receiving == {"post", "wait"}
Handlers  == [pc : Engaged \cup Receiving \cup {"recv", "over"},
              epoch : 0 .. NumEpochs - 1, step : 0 .. NumSteps,
              obs : ObsOK \cup {None}, last : Results \cup {None}]
Links     == [calls : SUBSET Slots, receives : Seq(Slots), answers : Seq(ObsOK)]
Lists     == [values : Seq(Results), dones : Seq(Results), rewards : Seq(Results),
              inputs : Seq(Results)]
EnvRecords == [pc : EnvPcs, epoch : 0 .. NumEpochs - 1, step : -1 .. NumSteps - 1,
               k : 0 .. conf.aggregate - 1, taken : Seq(Replies)]

\* The state but for the queues of the actors.
TypeOK ==
  /\ conf \in Configs
  /\ env \in [Envs -> EnvRecords]
  /\ obsQ \in [Slots -> Seq(ObsOK)]
  /\ replyQ \in [Slots -> Seq(Replies)]
  /\ link \in [Rollouts -> Links]
  /\ handler \in [Slots -> Handlers]
  /\ buffer \in [Slots -> Lists]
  /\ requests \in [Rollouts -> Seq(Slots)]
  /\ generate \in [Rollouts -> {"running", "ended", "raised"}]

\* The last observation an environment sends in an epoch, and what it is
\* answered: an acknowledgement, in the last epoch nothing.  Evaluation on a
\* shared worker answers with an action, to whatever observation.
IsLast(n) == n = IF Training THEN NumSteps - 1 ELSE NumSteps - 2
ReplyTo(s, k, n) ==
  [kind |-> IF Training /\ n = NumSteps - 1 THEN "ack" ELSE "action",
   slot |-> s, epoch |-> k, step |-> n]
Fits(s, x, k, n) == x.kind = ReplyTo(s, k, n).kind /\ (GetsItsOwn(s) => x = ReplyTo(s, k, n))
Unanswered(k, n) == Training /\ n = NumSteps - 1 /\ k = NumEpochs - 1
Answered(s, q, k, n) ==
  \/ Unanswered(k, n) /\ q = <<>>
  \/ ~Unanswered(k, n) /\ \E x \in Replies : q = <<x>> /\ Fits(s, x, k, n)

\* A handler has not yet been sent what lies under its key, or it works on it;
\* in evaluation the channel's answer to its call is what tells the two apart.
Asked(s) == s \in link[RolloutOf(s)].calls
Waits(s) == handler[s].pc = "recv" \/ (handler[s].pc \in Receiving /\ Asked(s))
Works(s) == handler[s].pc \in Engaged \/ (handler[s].pc \in Receiving /\ ~Asked(s))

\* A handler waits for observation n of epoch k, is done with it, or works on it.
At(s, k, n) == Waits(s) /\ handler[s].epoch = k /\ handler[s].step = n + 1
After(s, k, n) ==
  IF ~IsLast(n) THEN At(s, k, n + 1)
  ELSE IF k < NumEpochs - 1 THEN At(s, k + 1, -1)
  ELSE handler[s].pc = "over" /\ handler[s].epoch = k /\ (Training => handler[s].step = NumSteps)
Working(s, k, n) ==
  /\ Works(s)
  /\ handler[s].pc \in Engaged /\ GetsItsOwn(s) => handler[s].obs = Observation(s, k, n)
  /\ handler[s].epoch = k /\ handler[s].step = n + 1
  /\ handler[s].pc \in {"ship", "ack"} => Training /\ n = NumSteps - 1

\* The one thing under way for observation n of epoch k.
Outstanding(s, k, n) ==
  \/ obsQ[s] = <<Observation(s, k, n)>> /\ replyQ[s] = <<>> /\ At(s, k, n)
  \/ obsQ[s] = <<>> /\ replyQ[s] = <<>> /\ Working(s, k, n)
  \/ obsQ[s] = <<>> /\ Answered(s, replyQ[s], k, n) /\ After(s, k, n)

\* By its record v, the loop has sent for its j-th slot and not read the answer.
OpenIn(v, j) ==
  \/ v.pc = "send" /\ j < v.k
  \/ v.pc \in {"recv", "ack"} /\ v.k <= j
  \/ v.pc = "over" /\ Training

\* Where the handler of a slot is when nothing is under way.
IdleIn(s, v) ==
  /\ v.pc = "send" => At(s, v.epoch, v.step)
  /\ v.pc \in {"recv", "ack", "step"} => After(s, v.epoch, v.step)
  /\ v.pc = "next" => At(s, v.epoch + 1, -1)
  /\ v.pc = "over" => handler[s].pc = "over"

SlotAs(s, v) ==
  IF OpenIn(v, IndexOf(s)) THEN Outstanding(s, v.epoch, v.step)
  ELSE obsQ[s] = <<>> /\ replyQ[s] = <<>> /\ IdleIn(s, v)
SlotInv(s) == SlotAs(s, env[EnvOf(s)])

\* The replies a loop has taken for the slots before its k-th.
AreReplies(e, q, k, n) == \A i \in DOMAIN q : Fits(SlotId(e, i - 1), q[i], k, n)

EnvInv(e) ==
  LET v == env[e] IN
  /\ v.pc # "raised"
  /\ AreReplies(e, v.taken, v.epoch, v.step)
  /\ v.pc \in {"send", "recv", "ack"} => Len(v.taken) = IF v.pc = "send" THEN 0 ELSE v.k
  /\ v.pc \in {"recv", "step"} => v.step < NumSteps - 1
  /\ v.pc = "send" => Training \/ v.step < NumSteps - 1
  /\ v.pc = "ack" => Training /\ v.step = NumSteps - 1 /\ v.epoch < NumEpochs - 1
  /\ v.pc = "next" => v.epoch < NumEpochs - 1
  /\ v.pc = "over" => v.epoch = NumEpochs - 1 /\ v.step = NumSteps - 1
  /\ v.pc \in {"step", "next", "over"} => v.k = 0

\* The queue of an engine holds each slot whose handler waits for it once.
RequestInv(r) ==
  /\ IsInjective(requests[r])
  /\ \A s \in Slots : s \in ToSet(requests[r]) <=> RolloutOf(s) = r /\ handler[s].pc = "infer"

\* In evaluation no observation has rewards.
Plain(m) == ~Training => ~m.rewarded

\* The gets of a worker: a receive is posted by every handler that waits without
\* an observation.
LinkInv(r) ==
  /\ IsInjective(link[r].receives)
  /\ \A s \in Slots : s \in ToSet(link[r].receives) <=>
                        RolloutOf(s) = r /\ handler[s].pc = "wait" /\ handler[s].obs = None
  /\ \A i \in DOMAIN link[r].answers : Plain(link[r].answers[i])

\* A handler alone on its worker gets what its own call asked for.
OwnGet(s) ==
  LET m == Observation(s, handler[s].epoch, handler[s].step - 1)
      answers == link[RolloutOf(s)].answers
  IN /\ handler[s].pc = "wait" /\ handler[s].obs # None => ~Asked(s) /\ handler[s].obs = m
     /\ answers # <<>> => handler[s].pc = "post" /\ ~Asked(s) /\ answers = <<m>>

GetInv(s) ==
  /\ handler[s].pc \in Receiving => ~Training
  /\ Asked(s) => handler[s].pc \in Receiving
  /\ handler[s].pc \in {"recv", "post"} => handler[s].obs = None
  /\ handler[s].pc \in Engaged => handler[s].obs # None
  /\ handler[s].obs # None => Plain(handler[s].obs)
  /\ GetsItsOwn(s) /\ ~Training => OwnGet(s)

\* Observations of its epoch that a handler has recorded, and its inferences
\* whose values it has.
RecordedCount(h) == IF h.step = NumSteps /\ h.pc # "recv" THEN NumSteps + 1 ELSE h.step
ValueCount(h) == IF h.pc \in {"ship", "ack", "over"} THEN NumSteps + 1 ELSE h.step

\* A list holds the tags of q epochs and of the first n observations of the next.
AreTags(list, s, first, from, len, q, n) == list = Tags(s, first, from, len, q * len + n)
TagAt(s, first, from, q, n) == [slot |-> s, epoch |-> first + q, step |-> from + n]

\* r observations of an epoch recorded make r - 1 steps; the inputs of the next
\* step are those of the inference before.
StepsOf(r) == IF r = 0 THEN 0 ELSE r - 1
LastTag(s, k, r) == IF r = 0 THEN None ELSE [slot |-> s, epoch |-> k, step |-> r - 2]
RecordsFit(b, s, first, q, r) ==
  /\ AreTags(b.dones, s, first, -1, NumSteps + 1, q, r)
  /\ AreTags(b.rewards, s, first, 0, NumSteps, q, StepsOf(r))
  /\ AreTags(b.inputs, s, first, -1, NumSteps, q, StepsOf(r))

\* The lists b of the handler h of slot s, when its buffer begins with epoch `first'.
TrajectoryOf(h, b, s, first) ==
  /\ AreTags(b.values, s, first, -1, NumSteps + 1, h.epoch - first, ValueCount(h))
  /\ RecordsFit(b, s, first, h.epoch - first, RecordedCount(h))
  /\ h.pc \in {"ship", "ack", "over"} => h.step = NumSteps
  /\ h.last = LastTag(s, h.epoch, h.step)

Trajectory(s) == TrajectoryOf(handler[s], buffer[s], s, FirstEpoch(s))
BufferInv(s) == Training => Trajectory(s)

PerEnvInv ==
  /\ TypeOK
  /\ \A s \in Slots : SlotInv(s)
  /\ \A s \in Slots : BufferInv(s)
  /\ \A s \in Slots : GetInv(s)
  /\ \A e \in Envs : EnvInv(e)
  /\ \A r \in Rollouts : RequestInv(r)
  /\ \A r \in Rollouts : LinkInv(r)
  /\ BootstrapOnlyAtEnds

-----------------------------------------------------------------------------
(***************************************************************************)
(* Slots, environments and configurations.                                 *)
(***************************************************************************)

LEMMA Division ==
  ASSUME NEW a \in Positive, NEW n \in Positive
  PROVE  /\ \A s \in 0 .. n * a - 1 :
              /\ s \div a \in 0 .. n - 1 /\ s % a \in 0 .. a - 1
              /\ s = (s \div a) * a + (s % a)
         /\ \A e \in 0 .. n - 1, k \in 0 .. a - 1 :
              /\ e * a + k \in 0 .. n * a - 1
              /\ (e * a + k) \div a = e /\ (e * a + k) % a = k
<1>1. ASSUME NEW s \in 0 .. n * a - 1
      PROVE  s \div a \in 0 .. n - 1 /\ s % a \in 0 .. a - 1 /\ s = (s \div a) * a + (s % a)
  <2>1. PICK q : q = s \div a
    OBVIOUS
  <2>2. PICK r : r = s % a
    OBVIOUS
  <2>3. q \in Nat /\ r \in 0 .. a - 1 /\ s = q * a + r
    <3>1. s \in Nat /\ a \in Nat \ {0}
      BY DEF Positive
    <3>. QED  BY <2>1, <2>2, <3>1
  <2>4. q < n
    <3>1. ASSUME q >= n PROVE FALSE
      <4>1. q * a >= n * a
        BY <2>3, <3>1 DEF Positive
      <4>. QED  BY <2>3, <4>1 DEF Positive
    <3>. QED  BY <2>3, <3>1 DEF Positive
  <2>. QED  BY <2>1, <2>2, <2>3, <2>4 DEF Positive
<1>2. ASSUME NEW e \in 0 .. n - 1, NEW k \in 0 .. a - 1
      PROVE  /\ e * a + k \in 0 .. n * a - 1
             /\ (e * a + k) \div a = e /\ (e * a + k) % a = k
  <2>1. (e + 1) * a <= n * a
    BY DEF Positive
  <2>2. (e + 1) * a = e * a + a
    BY DEF Positive
  <2>3. e * a \in Nat /\ n * a \in Nat
    BY DEF Positive
  <2>4. e * a + k \in 0 .. n * a - 1
    BY <2>1, <2>2, <2>3 DEF Positive
  <2>5. (e * a + k) \div a = e /\ (e * a + k) % a = k
    BY DEF Positive
  <2>. QED  BY <2>4, <2>5
<1>. QED  BY <1>1, <1>2

LEMMA ConfType ==
  ASSUME conf \in Configs
  PROVE  /\ conf.envs \in Positive /\ conf.aggregate \in Positive /\ conf.rollouts \in Positive
         /\ conf.actors \in Positive /\ conf.maxBatch \in Positive
         /\ conf.mode \in {"train", "eval"} /\ conf.pipeline \in {"sync", "async"}
         /\ conf.autoReset \in BOOLEAN /\ conf.valueHead \in BOOLEAN
         /\ NumEpochs \in Positive /\ NumSteps \in Positive
BY PerEnvAssumption DEF Config

LEMMA SlotFacts ==
  ASSUME conf \in Configs
  PROVE  /\ \A s \in Slots : /\ EnvOf(s) \in Envs /\ IndexOf(s) \in 0 .. conf.aggregate - 1
                             /\ s = SlotId(EnvOf(s), IndexOf(s))
                             /\ RolloutOf(s) \in Rollouts /\ s \in Int
         /\ \A e \in Envs, k \in 0 .. conf.aggregate - 1 :
              SlotId(e, k) \in Slots /\ EnvOf(SlotId(e, k)) = e /\ IndexOf(SlotId(e, k)) = k
<1>1. PICK a \in Positive, n \in Positive : a = conf.aggregate /\ n = conf.envs
  BY ConfType
<1>2. PICK m \in Positive : m = conf.rollouts
  BY ConfType
<1>3. \A s \in 0 .. n * a - 1 : s % m \in 0 .. m - 1
  <2>1. n * a \in Nat
    BY DEF Positive
  <2>2. \A s \in Nat : s % m \in 0 .. m - 1
    BY DEF Positive
  <2>. QED  BY <2>1, <2>2
<1>4. \A s \in Slots : s \in Int
  BY DEF Slots
<1>. QED  BY <1>1, <1>2, <1>3, <1>4, Division
          DEF Slots, Envs, Rollouts, EnvOf, IndexOf, SlotId, RolloutOf

LEMMA ConfSame ==
  ASSUME UNCHANGED conf
  PROVE  /\ Envs' = Envs /\ Slots' = Slots /\ Rollouts' = Rollouts /\ (Training' <=> Training)
         /\ \A s : EnvOf(s)' = EnvOf(s) /\ IndexOf(s)' = IndexOf(s) /\ RolloutOf(s)' = RolloutOf(s)
         /\ \A e, j : SlotId(e, j)' = SlotId(e, j)
         /\ \A s : GetsItsOwn(s)' <=> GetsItsOwn(s)
         /\ \A s, k, n : Observation(s, k, n)' = Observation(s, k, n)
         /\ \A s, x, k, n : Fits(s, x, k, n)' <=> Fits(s, x, k, n)
         /\ \A s, q, k, n : Answered(s, q, k, n)' <=> Answered(s, q, k, n)
         /\ \A n : IsLast(n)' <=> IsLast(n)
<1>1. /\ Envs' = Envs /\ Slots' = Slots /\ Rollouts' = Rollouts /\ (Training' <=> Training)
      /\ \A s : EnvOf(s)' = EnvOf(s) /\ IndexOf(s)' = IndexOf(s) /\ RolloutOf(s)' = RolloutOf(s)
      /\ \A e, j : SlotId(e, j)' = SlotId(e, j)
  BY DEF Envs, Slots, Rollouts, Training, EnvOf, IndexOf, RolloutOf, SlotId
<1>2. \A s, k, n : ReplyTo(s, k, n)' = ReplyTo(s, k, n)
  BY <1>1 DEF ReplyTo
<1>3. \A s : GetsItsOwn(s)' <=> GetsItsOwn(s)
  <2> SUFFICES ASSUME NEW s PROVE GetsItsOwn(s)' <=> GetsItsOwn(s)
    OBVIOUS
  <2>1. MySlots(RolloutOf(s))' = MySlots(RolloutOf(s))
    BY <1>1 DEF MySlots, RolloutOf
  <2>. QED  BY <1>1, <2>1 DEF GetsItsOwn
<1>4. \A s, x, k, n : Fits(s, x, k, n)' <=> Fits(s, x, k, n)
  BY <1>2, <1>3 DEF Fits
<1>5. \A s, q, k, n : Answered(s, q, k, n)' <=> Answered(s, q, k, n)
  BY <1>1, <1>4 DEF Answered, Unanswered
<1>6. \A s, k, n : Ends(s, k, n)' <=> Ends(s, k, n)
  BY DEF Ends
<1>7. \A e, k, n : HasFinalObs(e, k, n)' <=> HasFinalObs(e, k, n)
  BY <1>6 DEF HasFinalObs, SlotId, Ends
<1>8. \A s, k, n : Observation(s, k, n)' = Observation(s, k, n)
  BY <1>1, <1>6, <1>7 DEF Observation
<1>9. \A n : IsLast(n)' <=> IsLast(n)
  BY <1>1 DEF IsLast
<1>. QED  BY <1>1, <1>3, <1>4, <1>5, <1>8, <1>9

LEMMA ObservationType ==
  ASSUME conf \in Configs, NEW s \in Slots, NEW k \in Nat, NEW n \in Int
  PROVE  /\ Observation(s, k, n) \in ObsOK
         /\ Observation(s, k, n).slot = s
         /\ Observation(s, k, n).epoch = k /\ Observation(s, k, n).step = n
         /\ Observation(s, k, n) # None
         /\ (Observation(s, k, n).rewarded <=> Training /\ n >= 0)
         /\ Plain(Observation(s, k, n))
<1>1. (Training /\ n >= 0) \in BOOLEAN /\ s \in Int
  BY SlotFacts
<1>2. (Training /\ IF n >= 0 THEN Ends(s, k, n)
                   ELSE conf.autoReset /\ Ends(s, k - 1, NumSteps - 1)) \in BOOLEAN
  OBVIOUS
<1>3. (n >= 0 /\ HasFinalObs(EnvOf(s), k, n)) \in BOOLEAN
  OBVIOUS
<1>4. Observation(s, k, n) \in ObsOK
  BY <1>1, <1>2, <1>3 DEF Observation, ObsOK
<1>5. Observation(s, k, n) # None
  BY <1>4 DEF ObsOK, None
<1>6. Observation(s, k, n).rewarded <=> Training /\ n >= 0
  BY DEF Observation
<1>. QED  BY <1>4, <1>5, <1>6 DEF Observation, Plain

(***************************************************************************)
(* Sequences of tags.                                                      *)
(***************************************************************************)

LEMMA EpochLength ==
  ASSUME NEW len \in Positive, NEW q \in Nat, NEW r \in 0 .. len - 1
  PROVE  (q * len + r) \div len = q /\ (q * len + r) % len = r /\ q * len \in Nat
BY DEF Positive

LEMMA TagsAppend ==
  ASSUME NEW first \in Nat, NEW from \in Int, NEW len \in Positive, NEW q \in Nat,
         NEW r \in 0 .. len - 1, NEW s, NEW list, AreTags(list, s, first, from, len, q, r)
  PROVE  AreTags(Append(list, TagAt(s, first, from, q, r)), s, first, from, len, q, r + 1)
<1>1. PICK n \in Nat : n = q * len + r
  BY DEF Positive
<1> DEFINE T(i) == [slot |-> s, epoch |-> first + (i - 1) \div len, step |-> from + ((i - 1) % len)]
           x == TagAt(s, first, from, q, r)
           t == [i \in 1 .. n + 1 |-> T(i)]
<1>2. list = [i \in 1 .. n |-> T(i)]
  BY <1>1 DEF AreTags, Tags
<1>3. T(n + 1) = x
  <2>1. n + 1 - 1 = n
    BY <1>1
  <2>2. n \div len = q /\ n % len = r
    BY <1>1, EpochLength
  <2>. QED  BY <2>1, <2>2 DEF TagAt
<1>4. Tags(s, first, from, len, q * len + (r + 1)) = t
  <2>1. q * len + (r + 1) = n + 1
    BY <1>1, EpochLength
  <2>. QED  BY <2>1 DEF Tags
<1> HIDE DEF T, x
<1>5. Append(list, x) = t
  <2> DEFINE Z == {T(i) : i \in 1 .. n} \cup {x}
             u == Append(list, x)
  <2>1. list \in Seq(Z) /\ Len(list) = n /\ x \in Z
    BY <1>2
  <2> HIDE DEF Z
  <2>2. u \in Seq(Z) /\ Len(u) = n + 1 /\ u[n + 1] = x /\ \A i \in 1 .. n : u[i] = list[i]
    BY <2>1
  <2> HIDE DEF u
  <2>3. u = [i \in 1 .. n + 1 |-> u[i]]
    BY <2>2
  <2>4. \A i \in 1 .. n + 1 : u[i] = T(i)
    BY <1>2, <1>3, <2>2
  <2>5. u = t
    BY <2>3, <2>4
  <2>. QED  BY <2>5 DEF u
<1>. QED  BY <1>4, <1>5, Zenon DEF AreTags, x

LEMMA TagsOfEpoch ==
  ASSUME NEW first \in Nat, NEW from \in Int, NEW len \in Positive, NEW q \in Nat,
         NEW s, NEW list
  PROVE  AreTags(list, s, first, from, len, q, len) <=> AreTags(list, s, first, from, len, q + 1, 0)
<1>1. (q + 1) * len + 0 = q * len + len
  BY DEF Positive
<1>. QED  BY <1>1 DEF AreTags

LEMMA NoTags ==
  ASSUME NEW first \in Nat, NEW from \in Int, NEW len \in Positive, NEW s
  PROVE  AreTags(<<>>, s, first, from, len, 0, 0)
<1>1. 0 * len + 0 = 0
  BY DEF Positive
<1>2. Tags(s, first, from, len, 0) = <<>>
  BY DEF Tags
<1>. QED  BY <1>1, <1>2 DEF AreTags

(***************************************************************************)
(* What keeps the parts of the invariant.                                  *)
(***************************************************************************)

\* A step leaves a handler where it is as far as its slot's messages go.
Stays(s) ==
  /\ UNCHANGED conf
  /\ Waits(s)' <=> Waits(s)
  /\ Works(s)' <=> Works(s)
  /\ handler'[s].epoch = handler[s].epoch /\ handler'[s].step = handler[s].step
  /\ handler'[s].pc = "over" <=> handler[s].pc = "over"
  /\ handler'[s].pc \in {"ship", "ack"} <=> handler[s].pc \in {"ship", "ack"}
  /\ handler'[s].pc \in Engaged =>
       handler[s].pc \in Engaged /\ handler'[s].obs = handler[s].obs

LEMMA AskedSame ==
  ASSUME UNCHANGED <<conf, link>>
  PROVE  \A s : Asked(s)' <=> Asked(s)
<1>1. \A s : RolloutOf(s)' = RolloutOf(s)
  BY ConfSame
<1>. QED  BY <1>1 DEF Asked

LEMMA StaysPut ==
  ASSUME UNCHANGED conf, NEW s, handler'[s] = handler[s], Asked(s)' <=> Asked(s)
  PROVE  Stays(s)
BY DEF Stays, Waits, Works

LEMMA SamePlace ==
  ASSUME NEW s, Stays(s), obsQ'[s] = obsQ[s], replyQ'[s] = replyQ[s]
  PROVE  \A k, n : /\ At(s, k, n)' <=> At(s, k, n)
                   /\ After(s, k, n)' <=> After(s, k, n)
                   /\ Outstanding(s, k, n) => Outstanding(s, k, n)'
<1>0. UNCHANGED conf
  BY DEF Stays
<1>1. \A k, n : At(s, k, n)' <=> At(s, k, n)
  BY DEF At, Stays
<1>2. \A k, n : After(s, k, n)' <=> After(s, k, n)
  BY <1>0, <1>1, ConfSame DEF After, Stays
<1>3. \A k, n : Working(s, k, n) => Working(s, k, n)'
  BY <1>0, ConfSame DEF Working, Stays
<1>. QED  BY <1>0, <1>1, <1>2, <1>3, ConfSame DEF Outstanding

LEMMA OpenSame ==
  ASSUME UNCHANGED conf
  PROVE  \A v, j : OpenIn(v, j)' <=> OpenIn(v, j)
BY ConfSame DEF OpenIn

\* To be shown of a slot after a step that leaves its loop with record w.
LEMMA SlotIntro ==
  ASSUME UNCHANGED conf, NEW s, NEW w, env'[EnvOf(s)] = w, NEW j, j = IndexOf(s),
         \/ OpenIn(w, j) /\ Outstanding(s, w.epoch, w.step)'
         \/ ~OpenIn(w, j) /\ obsQ'[s] = <<>> /\ replyQ'[s] = <<>> /\ IdleIn(s, w)'
  PROVE  SlotInv(s)'
<1>1. EnvOf(s)' = EnvOf(s) /\ IndexOf(s)' = j /\ env'[EnvOf(s)'] = w
  BY ConfSame
<1>2. OpenIn(w, j)' <=> OpenIn(w, j)
  BY OpenSame
<1>. QED  BY <1>1, <1>2, Zenon DEF SlotInv, SlotAs

LEMMA SlotKept ==
  ASSUME NEW s \in Slots, SlotInv(s), Stays(s), obsQ'[s] = obsQ[s], replyQ'[s] = replyQ[s],
         env'[EnvOf(s)] = env[EnvOf(s)]
  PROVE  SlotInv(s)'
<1>0. UNCHANGED conf
  BY DEF Stays
<1>1. PICK v : v = env[EnvOf(s)]
  OBVIOUS
<1>2. PICK j : j = IndexOf(s)
  OBVIOUS
<1>3. IdleIn(s, v) => IdleIn(s, v)'
  BY SamePlace DEF IdleIn, Stays
<1>4. Outstanding(s, v.epoch, v.step) => Outstanding(s, v.epoch, v.step)'
  BY SamePlace
<1>5. \/ OpenIn(v, j) /\ Outstanding(s, v.epoch, v.step)
      \/ ~OpenIn(v, j) /\ obsQ[s] = <<>> /\ replyQ[s] = <<>> /\ IdleIn(s, v)
  BY <1>1, <1>2, Zenon DEF SlotInv, SlotAs
<1>. QED  BY <1>0, <1>1, <1>2, <1>3, <1>4, <1>5, SlotIntro

LEMMA GetKept ==
  ASSUME UNCHANGED <<conf, link>>, NEW s, GetInv(s), handler'[s] = handler[s]
  PROVE  GetInv(s)'
<1>1. /\ (Training' <=> Training) /\ RolloutOf(s)' = RolloutOf(s)
      /\ GetsItsOwn(s)' <=> GetsItsOwn(s)
      /\ \A k, n : Observation(s, k, n)' = Observation(s, k, n)
  BY ConfSame
<1>2. Asked(s)' <=> Asked(s)
  BY AskedSame
<1>3. \A m : Plain(m)' <=> Plain(m)
  BY <1>1 DEF Plain
<1>4. OwnGet(s)' <=> OwnGet(s)
  BY <1>1, <1>2 DEF OwnGet
<1>. QED  BY <1>1, <1>2, <1>3, <1>4 DEF GetInv

LEMMA LinkKept ==
  ASSUME UNCHANGED <<conf, link>>, NEW r, LinkInv(r),
         \A s \in Slots : handler'[s].pc = "wait" /\ handler'[s].obs = None
                          <=> handler[s].pc = "wait" /\ handler[s].obs = None
  PROVE  LinkInv(r)'
<1>1. (Training' <=> Training) /\ Slots' = Slots /\ \A s : RolloutOf(s)' = RolloutOf(s)
  BY ConfSame
<1>2. \A m : Plain(m)' <=> Plain(m)
  BY <1>1 DEF Plain
<1>. QED  BY <1>1, <1>2 DEF LinkInv

LEMMA BufferKept ==
  ASSUME UNCHANGED conf, NEW s \in Slots, BufferInv(s), handler'[s] = handler[s],
         buffer'[s] = buffer[s]
  PROVE  BufferInv(s)'
<1>1. Training' <=> Training
  BY ConfSame
<1>2. FirstEpoch(s)' = FirstEpoch(s)
  BY DEF FirstEpoch
<1>. QED  BY <1>1, <1>2 DEF BufferInv, Trajectory

LEMMA RepliesSame ==
  ASSUME UNCHANGED conf
  PROVE  \A e, q, k, n : AreReplies(e, q, k, n)' <=> AreReplies(e, q, k, n)
<1>1. \A e, j : SlotId(e, j)' = SlotId(e, j)
  BY ConfSame
<1>2. \A s, x, k, n : Fits(s, x, k, n)' <=> Fits(s, x, k, n)
  BY ConfSame
<1>. QED  BY <1>1, <1>2 DEF AreReplies

LEMMA EnvKept ==
  ASSUME UNCHANGED conf, NEW e, EnvInv(e), env'[e] = env[e]
  PROVE  EnvInv(e)'
BY ConfSame, RepliesSame DEF EnvInv

LEMMA RequestKept ==
  ASSUME UNCHANGED <<conf, requests>>, NEW r, RequestInv(r),
         \A s \in Slots : handler'[s].pc = "infer" <=> handler[s].pc = "infer"
  PROVE  RequestInv(r)'
BY ConfSame DEF RequestInv

LEMMA BoostedKept ==
  ASSUME UNCHANGED <<conf, boosted>>, BootstrapOnlyAtEnds
  PROVE  BootstrapOnlyAtEnds'
BY DEF BootstrapOnlyAtEnds

LEMMA InitPerEnv == Init => PerEnvInv
<1> SUFFICES ASSUME Init PROVE PerEnvInv
  OBVIOUS
<1>0. conf \in Configs
  BY DEF Init
<1>1. /\ 0 \in 0 .. NumEpochs - 1 /\ 0 \in 0 .. NumSteps /\ -1 \in -1 .. NumSteps - 1
      /\ 0 \in 0 .. conf.aggregate - 1 /\ NumSteps \in Nat /\ NumSteps > 0 /\ NumEpochs \in Nat
  BY <1>0, ConfType DEF Positive
<1>2. <<>> \in Seq(Results) /\ <<>> \in Seq(ObsOK) /\ <<>> \in Seq(Replies) /\ <<>> \in Seq(Slots)
  OBVIOUS
<1>3. EmptyBuffer \in Lists /\ NoGets \in Links
  BY <1>2 DEF EmptyBuffer, Lists, NoGets, Links
<1>4. TypeOK
  <2>1. env \in [Envs -> EnvRecords]
    BY <1>1, <1>2 DEF Init, EnvRecords, EnvPcs
  <2>2. handler \in [Slots -> Handlers]
    BY <1>1 DEF Init, Handlers, None
  <2>. QED  BY <1>0, <1>2, <1>3, <2>1, <2>2 DEF Init, TypeOK
<1>5. ASSUME NEW s \in Slots PROVE SlotInv(s)
  <2>1. EnvOf(s) \in Envs /\ IndexOf(s) >= 0 /\ IndexOf(s) \in Int
    BY <1>0, <1>1, SlotFacts, ConfType DEF Positive
  <2>2. env[EnvOf(s)].pc = "send" /\ env[EnvOf(s)].epoch = 0 /\ env[EnvOf(s)].step = -1
        /\ env[EnvOf(s)].k = 0
    BY <2>1 DEF Init
  <2>3. ~OpenIn(env[EnvOf(s)], IndexOf(s))
    BY <2>1, <2>2 DEF OpenIn
  <2>4. IdleIn(s, env[EnvOf(s)])
    BY <2>2 DEF Init, IdleIn, At, Waits
  <2>. QED  BY <2>3, <2>4 DEF SlotInv, SlotAs, Init
<1>6. ASSUME NEW s \in Slots PROVE BufferInv(s)
  <2>1. /\ handler[s].pc = "recv" /\ handler[s].step = 0 /\ handler[s].epoch = 0
        /\ handler[s].last = None /\ buffer[s] = EmptyBuffer
    BY DEF Init
  <2>2. PICK h : h = handler[s]
    OBVIOUS
  <2>3. ValueCount(h) = 0 /\ RecordedCount(h) = 0 /\ StepsOf(0) = 0 /\ FirstEpoch(s) = 0
        /\ h.last = LastTag(s, h.epoch, h.step)
    BY <1>1, <2>1, <2>2 DEF FirstEpoch, ValueCount, RecordedCount, StepsOf, LastTag
  <2>4. NumSteps + 1 \in Positive /\ NumSteps \in Positive /\ 0 \in Int /\ -1 \in Int
    BY <1>1 DEF Positive
  <2>5. /\ buffer[s].values = <<>> /\ buffer[s].dones = <<>> /\ buffer[s].rewards = <<>>
        /\ buffer[s].inputs = <<>> /\ h.epoch - 0 = 0
    BY <2>1, <2>2 DEF EmptyBuffer
  <2>6. TrajectoryOf(h, buffer[s], s, 0)
    BY <2>1, <2>2, <2>3, <2>4, <2>5, NoTags DEF TrajectoryOf, RecordsFit
  <2>. QED  BY <2>2, <2>3, <2>6 DEF BufferInv, Trajectory
<1>7. ASSUME NEW e \in Envs PROVE EnvInv(e)
  <2>1. /\ env[e].pc = "send" /\ env[e].epoch = 0 /\ env[e].step = -1 /\ env[e].k = 0
        /\ env[e].taken = <<>>
    BY DEF Init
  <2>2. AreReplies(e, <<>>, 0, -1) /\ Len(<<>>) = 0
    BY DEF AreReplies
  <2>3. Training \/ -1 < NumSteps - 1
    BY <1>1
  <2>. QED  BY <2>1, <2>2, <2>3 DEF EnvInv
<1>8. ASSUME NEW r \in Rollouts PROVE RequestInv(r)
  BY DEF Init, RequestInv, IsInjective, ToSet
<1>9. BootstrapOnlyAtEnds
  BY DEF Init, BootstrapOnlyAtEnds
<1>10. /\ \A r \in Rollouts : link[r] = NoGets
       /\ \A s \in Slots : /\ handler[s].pc = "recv" /\ handler[s].obs = None
                           /\ RolloutOf(s) \in Rollouts
  BY <1>0, SlotFacts DEF Init
<1>11. ASSUME NEW s \in Slots PROVE GetInv(s)
  <2>1. ~Asked(s) /\ link[RolloutOf(s)].answers = <<>>
    BY <1>10 DEF Asked, NoGets
  <2>. QED  BY <1>10, <2>1 DEF GetInv, OwnGet, Receiving, Engaged
<1>12. ASSUME NEW r \in Rollouts PROVE LinkInv(r)
  BY <1>10 DEF LinkInv, NoGets, IsInjective, ToSet
<1>. QED  BY <1>4, <1>5, <1>6, <1>7, <1>8, <1>9, <1>11, <1>12 DEF PerEnvInv

-----------------------------------------------------------------------------
(***************************************************************************)
(* An environment's loop.                                                  *)
(***************************************************************************)

LEMMA EnvMoves ==
  ASSUME PerEnvInv, NEW e \in Envs, NEW w \in EnvRecords, env' = [env EXCEPT ![e] = w],
         UNCHANGED <<conf, link, handler, buffer, boosted, requests, generate>>,
         obsQ' \in [Slots -> Seq(ObsOK)], replyQ' \in [Slots -> Seq(Replies)],
         \A t \in Slots : EnvOf(t) # e => obsQ'[t] = obsQ[t] /\ replyQ'[t] = replyQ[t],
         EnvInv(e)',
         \A t \in Slots : EnvOf(t) = e => SlotInv(t)'
  PROVE  PerEnvInv'
<1>1. conf \in Configs /\ env \in [Envs -> EnvRecords] /\ TypeOK
  BY DEF PerEnvInv, TypeOK
<1>2. Envs' = Envs /\ Slots' = Slots /\ Rollouts' = Rollouts
  BY ConfSame
<1>3. env' \in [Envs -> EnvRecords]
  BY <1>1
<1>4. EnvRecords' = EnvRecords /\ Links' = Links
  BY <1>2 DEF EnvRecords, Links
<1>5. TypeOK'
  BY <1>1, <1>2, <1>3, <1>4 DEF TypeOK
<1>6. \A t \in Slots : SlotInv(t)'
  <2> SUFFICES ASSUME NEW t \in Slots PROVE SlotInv(t)'
    OBVIOUS
  <2>1. CASE EnvOf(t) = e
    BY <2>1
  <2>2. CASE EnvOf(t) # e
    <3>1. EnvOf(t) \in Envs
      BY <1>1, SlotFacts
    <3>2. env'[EnvOf(t)] = env[EnvOf(t)]
      BY <1>1, <2>2, <3>1
    <3>3. SlotInv(t) /\ Stays(t)
      BY AskedSame, StaysPut DEF PerEnvInv
    <3>. QED  BY <2>2, <3>2, <3>3, SlotKept
  <2>. QED  BY <2>1, <2>2
<1>7. \A t \in Slots : BufferInv(t)'
  BY BufferKept DEF PerEnvInv
<1>8. \A d \in Envs : EnvInv(d)'
  <2> SUFFICES ASSUME NEW d \in Envs, d # e PROVE EnvInv(d)'
    OBVIOUS
  <2>1. env'[d] = env[d]
    BY <1>1
  <2>2. EnvInv(d)
    BY DEF PerEnvInv
  <2>. QED  BY <2>1, <2>2, EnvKept
<1>9. \A r \in Rollouts : RequestInv(r)'
  BY RequestKept DEF PerEnvInv
<1>10. BootstrapOnlyAtEnds'
  BY BoostedKept DEF PerEnvInv
<1>11. (\A t \in Slots : GetInv(t)') /\ \A r \in Rollouts : LinkInv(r)'
  BY GetKept, LinkKept DEF PerEnvInv
<1>. QED  BY <1>2, <1>5, <1>6, <1>7, <1>8, <1>9, <1>10, <1>11 DEF PerEnvInv

LEMMA EnvFacts ==
  ASSUME PerEnvInv, NEW e \in Envs, NEW v, v = env[e]
  PROVE  /\ v \in EnvRecords /\ v.pc \in EnvPcs \ {"raised"}
         /\ v.epoch \in 0 .. NumEpochs - 1 /\ v.step \in -1 .. NumSteps - 1
         /\ v.k \in 0 .. conf.aggregate - 1
         /\ v.taken \in Seq(Replies) /\ AreReplies(e, v.taken, v.epoch, v.step)
         /\ v.pc \in {"send", "recv", "ack"} => Len(v.taken) = IF v.pc = "send" THEN 0 ELSE v.k
         /\ v.pc \in {"recv", "step"} => v.step < NumSteps - 1
         /\ v.pc = "send" => Training \/ v.step < NumSteps - 1
         /\ v.pc = "ack" => Training /\ v.step = NumSteps - 1 /\ v.epoch < NumEpochs - 1
         /\ v.pc = "next" => v.epoch < NumEpochs - 1
         /\ v.pc = "over" => v.epoch = NumEpochs - 1 /\ v.step = NumSteps - 1
         /\ v.pc \in {"step", "next", "over"} => v.k = 0
         /\ conf \in Configs /\ env \in [Envs -> EnvRecords]
         /\ obsQ \in [Slots -> Seq(ObsOK)] /\ replyQ \in [Slots -> Seq(Replies)]
         /\ NumSteps \in Nat /\ NumSteps > 0 /\ NumEpochs \in Nat /\ NumEpochs > 0
         /\ conf.aggregate \in Nat /\ conf.aggregate > 0
<1>1. v \in EnvRecords /\ conf \in Configs /\ env \in [Envs -> EnvRecords]
      /\ obsQ \in [Slots -> Seq(ObsOK)] /\ replyQ \in [Slots -> Seq(Replies)]
  BY DEF PerEnvInv, TypeOK
<1>2. /\ v.pc # "raised" /\ AreReplies(e, v.taken, v.epoch, v.step)
      /\ v.pc \in {"send", "recv", "ack"} => Len(v.taken) = IF v.pc = "send" THEN 0 ELSE v.k
      /\ v.pc \in {"recv", "step"} => v.step < NumSteps - 1
      /\ v.pc = "send" => Training \/ v.step < NumSteps - 1
      /\ v.pc = "ack" => Training /\ v.step = NumSteps - 1 /\ v.epoch < NumEpochs - 1
      /\ v.pc = "next" => v.epoch < NumEpochs - 1
      /\ v.pc = "over" => v.epoch = NumEpochs - 1 /\ v.step = NumSteps - 1
      /\ v.pc \in {"step", "next", "over"} => v.k = 0
  BY DEF PerEnvInv, EnvInv
<1>3. /\ v.pc \in EnvPcs /\ v.epoch \in 0 .. NumEpochs - 1 /\ v.step \in -1 .. NumSteps - 1
      /\ v.k \in 0 .. conf.aggregate - 1 /\ v.taken \in Seq(Replies)
  BY <1>1 DEF EnvRecords
<1>4. /\ NumSteps \in Nat /\ NumSteps > 0 /\ NumEpochs \in Nat /\ NumEpochs > 0
      /\ conf.aggregate \in Nat /\ conf.aggregate > 0
  BY <1>1, ConfType DEF Positive
<1>. QED  BY <1>1, <1>2, <1>3, <1>4

\* What is to be shown of the loop's new record.
LEMMA EnvNextInv ==
  ASSUME UNCHANGED conf, NEW e, NEW w, w = env'[e],
         w.pc # "raised", AreReplies(e, w.taken, w.epoch, w.step),
         w.pc \in {"send", "recv", "ack"} => Len(w.taken) = IF w.pc = "send" THEN 0 ELSE w.k,
         w.pc \in {"recv", "step"} => w.step < NumSteps - 1,
         w.pc = "send" => Training \/ w.step < NumSteps - 1,
         w.pc = "ack" => Training /\ w.step = NumSteps - 1 /\ w.epoch < NumEpochs - 1,
         w.pc = "next" => w.epoch < NumEpochs - 1,
         w.pc = "over" => w.epoch = NumEpochs - 1 /\ w.step = NumSteps - 1,
         w.pc \in {"step", "next", "over"} => w.k = 0
  PROVE  EnvInv(e)'
<1>1. (Training' <=> Training)
      /\ AreReplies(e, w.taken, w.epoch, w.step)' <=> AreReplies(e, w.taken, w.epoch, w.step)
  BY ConfSame, RepliesSame
<1>. QED  BY <1>1 DEF EnvInv

LEMMA SlotOfEnv ==
  ASSUME PerEnvInv, NEW t \in Slots, NEW v, v = env[EnvOf(t)], NEW j, j = IndexOf(t)
  PROVE  /\ \/ OpenIn(v, j) /\ Outstanding(t, v.epoch, v.step)
            \/ ~OpenIn(v, j) /\ obsQ[t] = <<>> /\ replyQ[t] = <<>> /\ IdleIn(t, v)
         /\ j \in 0 .. conf.aggregate - 1
<1>1. j \in 0 .. conf.aggregate - 1
  BY SlotFacts DEF PerEnvInv, TypeOK
<1>2. SlotInv(t)
  BY DEF PerEnvInv
<1>. QED  BY <1>1, <1>2, Zenon DEF SlotInv, SlotAs

LEMMA SendKeeps ==
  ASSUME PerEnvInv, NEW e \in Envs, SendOutput(e)
  PROVE  PerEnvInv'
<1>1. PICK v : v = env[e]
  OBVIOUS
<1>2. PICK s : s = SlotId(e, v.k)
  OBVIOUS
<1>3. PICK m : m = Observation(s, v.epoch, v.step)
  OBVIOUS
<1>4. PICK w : w = IF LastSlot(e) THEN AfterSend(e) ELSE [env[e] EXCEPT !.k = env[e].k + 1]
  OBVIOUS
<1>5. /\ v.pc = "send" /\ obsQ' = [obsQ EXCEPT ![s] = Append(@, m)]
      /\ env' = [env EXCEPT ![e] = w]
      /\ UNCHANGED <<conf, replyQ, link, handler, buffer, boosted, requests, generate, actorQ>>
  BY <1>1, <1>2, <1>3, <1>4, Zenon DEF SendOutput
<1>6. PICK a \in Nat : a = conf.aggregate /\ a > 0
  BY <1>1, EnvFacts
<1>7. /\ v \in EnvRecords /\ v.epoch \in 0 .. NumEpochs - 1 /\ v.step \in -1 .. NumSteps - 1
      /\ v.k \in 0 .. a - 1 /\ v.taken \in Seq(Replies) /\ Len(v.taken) = 0
      /\ AreReplies(e, v.taken, v.epoch, v.step)
      /\ Training \/ v.step < NumSteps - 1
      /\ conf \in Configs /\ env \in [Envs -> EnvRecords]
      /\ obsQ \in [Slots -> Seq(ObsOK)] /\ replyQ \in [Slots -> Seq(Replies)]
      /\ NumSteps \in Nat /\ NumSteps > 0 /\ NumEpochs \in Nat /\ NumEpochs > 0
  BY <1>1, <1>5, <1>6, EnvFacts
<1>8. s \in Slots /\ EnvOf(s) = e /\ IndexOf(s) = v.k
  BY <1>2, <1>6, <1>7, SlotFacts
<1>9. m \in ObsOK
  <2>1. v.epoch \in Nat /\ v.step \in Int
    BY <1>7
  <2>. QED  BY <1>3, <1>7, <1>8, <2>1, ObservationType
<1>10. \/ /\ v.k = a - 1 /\ w.k = 0 /\ w.taken = <<>> /\ w.epoch = v.epoch /\ w.step = v.step
          /\ w.pc = IF v.step < NumSteps - 1 \/ ~Training THEN "recv"
                    ELSE IF v.epoch < NumEpochs - 1 THEN "ack" ELSE "over"
          /\ w \in [pc : EnvPcs, epoch : {v.epoch}, step : {v.step}, k : {0}, taken : {<<>>}]
       \/ /\ v.k # a - 1 /\ w.k = v.k + 1 /\ w.taken = v.taken /\ w.epoch = v.epoch
          /\ w.step = v.step /\ w.pc = "send"
          /\ w \in [pc : EnvPcs, epoch : {v.epoch}, step : {v.step}, k : {v.k + 1}, taken : {v.taken}]
  <2>1. CASE LastSlot(e)
    <3>1. w = [v EXCEPT !.k = 0, !.taken = <<>>,
                 !.pc = IF v.step < NumSteps - 1 \/ ~Training THEN "recv"
                        ELSE IF v.epoch < NumEpochs - 1 THEN "ack"
                        ELSE IF v.epoch < NumEpochs - 1 THEN "next" ELSE "over"]
      BY <1>1, <1>4, <2>1, Zenon DEF AfterSend, AwaitsAck
    <3>2. v.k = a - 1
      BY <1>1, <1>6, <2>1 DEF LastSlot
    <3>. QED  BY <1>7, <3>1, <3>2 DEF EnvRecords, EnvPcs
  <2>2. CASE ~LastSlot(e)
    <3>1. w = [v EXCEPT !.k = v.k + 1] /\ v.k # a - 1
      BY <1>1, <1>4, <1>6, <2>2 DEF LastSlot
    <3>. QED  BY <1>5, <1>7, <3>1 DEF EnvRecords, EnvPcs
  <2>. QED  BY <2>1, <2>2
<1>11. w \in EnvRecords
  <2>1. <<>> \in Seq(Replies) /\ 0 \in 0 .. a - 1
    BY <1>6
  <2>2. PICK k : k = w.k
    OBVIOUS
  <2>3. PICK q : q = w.taken
    OBVIOUS
  <2>4. w \in [pc : EnvPcs, epoch : {v.epoch}, step : {v.step}, k : {k}, taken : {q}]
    BY <1>10, <2>2, <2>3
  <2>5. k \in 0 .. a - 1
    <3>1. k = 0 \/ (k = v.k + 1 /\ v.k # a - 1)
      BY <1>10, <2>2
    <3>2. v.k \in 0 .. a - 1
      BY <1>7
    <3>. QED  BY <1>6, <3>1, <3>2
  <2>6. q \in Seq(Replies)
    BY <1>7, <1>10, <2>1, <2>3
  <2>. QED  BY <1>6, <1>7, <2>4, <2>5, <2>6 DEF EnvRecords
<1>12. env'[e] = w
  BY <1>5, <1>7
<1>13. EnvInv(e)'
  <2>1. AreReplies(e, <<>>, w.epoch, w.step) /\ Len(<<>>) = 0
    BY DEF AreReplies
  <2>2. AreReplies(e, w.taken, w.epoch, w.step) /\ Len(w.taken) = 0
    <3>1. CASE w.taken = <<>>
      BY <2>1, <3>1
    <3>2. CASE w.taken = v.taken /\ w.epoch = v.epoch /\ w.step = v.step
      BY <1>7, <3>2
    <3>. QED  BY <1>10, <3>1, <3>2
  <2>3. /\ w.pc # "raised"
        /\ w.pc \in {"recv", "step"} => w.step < NumSteps - 1
        /\ w.pc = "send" => Training \/ w.step < NumSteps - 1
        /\ w.pc = "ack" => Training /\ w.step = NumSteps - 1 /\ w.epoch < NumEpochs - 1
        /\ w.pc = "next" => w.epoch < NumEpochs - 1
        /\ w.pc = "over" => w.epoch = NumEpochs - 1 /\ w.step = NumSteps - 1
        /\ w.pc \in {"step", "next", "over"} => w.k = 0
        /\ w.pc \in {"recv", "ack"} => w.k = 0
    <3>1. CASE w.pc = "send" /\ w.step = v.step
      BY <1>7, <3>1
    <3>2. CASE /\ w.k = 0 /\ w.epoch = v.epoch /\ w.step = v.step
               /\ w.pc = IF v.step < NumSteps - 1 \/ ~Training THEN "recv"
                         ELSE IF v.epoch < NumEpochs - 1 THEN "ack" ELSE "over"
      <4>1. CASE v.step < NumSteps - 1 \/ ~Training
        <5>1. w.pc = "recv" /\ v.step < NumSteps - 1
          BY <1>7, <3>2, <4>1
        <5>. QED  BY <3>2, <5>1
      <4>2. CASE ~(v.step < NumSteps - 1 \/ ~Training)
        <5>1. v.step = NumSteps - 1 /\ Training
          BY <1>7, <4>2
        <5>2. \/ w.pc = "ack" /\ v.epoch < NumEpochs - 1
              \/ w.pc = "over" /\ v.epoch = NumEpochs - 1
          BY <1>7, <3>2, <4>2
        <5>. QED  BY <3>2, <5>1, <5>2
      <4>. QED  BY <4>1, <4>2
    <3>. QED  BY <1>10, <3>1, <3>2
  <2>4. UNCHANGED conf
    BY <1>5
  <2>. QED  BY <1>12, <2>2, <2>3, <2>4, EnvNextInv
<1>14. \A t \in Slots : EnvOf(t) = e => SlotInv(t)'
  <2> SUFFICES ASSUME NEW t \in Slots, EnvOf(t) = e PROVE SlotInv(t)'
    OBVIOUS
  <2>1. PICK j : j = IndexOf(t)
    OBVIOUS
  <2>2. /\ \/ OpenIn(v, j) /\ Outstanding(t, v.epoch, v.step)
           \/ ~OpenIn(v, j) /\ obsQ[t] = <<>> /\ replyQ[t] = <<>> /\ IdleIn(t, v)
        /\ j \in 0 .. a - 1
    BY <1>1, <1>6, <2>1, SlotOfEnv
  <2>3. env'[EnvOf(t)] = w /\ UNCHANGED conf
    BY <1>5, <1>12
  <2>4. handler'[t] = handler[t] /\ replyQ'[t] = replyQ[t]
    BY <1>5
  <2>5. w.epoch = v.epoch /\ w.step = v.step
    BY <1>10
  <2>6. CASE t = s
    <3>1. j = v.k
      BY <1>8, <2>1, <2>6
    <3>2. ~OpenIn(v, j)
      BY <1>5, <1>7, <3>1 DEF OpenIn
    <3>3. OpenIn(w, j)
      BY <1>7, <1>10, <3>1 DEF OpenIn
    <3>4. At(t, v.epoch, v.step) /\ obsQ[t] = <<>> /\ replyQ[t] = <<>>
      BY <1>5, <2>2, <3>2 DEF IdleIn
    <3>5. obsQ'[t] = <<m>> /\ replyQ'[t] = <<>>
      BY <1>5, <1>7, <1>8, <2>4, <2>6, <3>4
    <3>6. At(t, v.epoch, v.step)'
      BY <2>3, <2>4, <3>4, AskedSame, <1>5 DEF At, Waits
    <3>7. Observation(t, v.epoch, v.step)' = m
      BY <1>3, <2>3, <2>6, ConfSame
    <3>8. Outstanding(t, v.epoch, v.step)'
      BY <3>5, <3>6, <3>7 DEF Outstanding
    <3>. QED  BY <2>1, <2>3, <2>5, <3>3, <3>8, SlotIntro
  <2>7. CASE t # s
    <3>1. obsQ'[t] = obsQ[t]
      BY <1>5, <1>7, <2>7
    <3>2. j # v.k
      <4>1. t = SlotId(e, j)
        BY <1>7, <2>1, SlotFacts
      <4>. QED  BY <1>2, <2>7, <4>1
    <3>3. OpenIn(w, j) <=> OpenIn(v, j)
      <4>1. v.pc = "send" /\ j \in Int /\ v.k \in Int /\ a \in Int /\ 0 <= j /\ j <= a - 1
        BY <1>5, <1>6, <1>7, <2>2
      <4>2. OpenIn(v, j) <=> j < v.k
        BY <4>1 DEF OpenIn
      <4>3. CASE w.pc = "send" /\ w.k = v.k + 1
        BY <3>2, <4>1, <4>2, <4>3 DEF OpenIn
      <4>4. CASE w.pc # "send"
        <5>1. w.k = 0 /\ v.k = a - 1 /\ (w.pc \in {"recv", "ack"} \/ (w.pc = "over" /\ Training))
          BY <1>10, <4>4
        <5>2. j < v.k
          BY <3>2, <4>1, <5>1
        <5>. QED  BY <4>1, <4>2, <5>1, <5>2 DEF OpenIn
      <4>. QED  BY <1>10, <4>3, <4>4
    <3>0. Stays(t)
      BY <1>5, <2>4, AskedSame, StaysPut
    <3>4. IdleIn(t, v) => IdleIn(t, v)'
      BY <2>3, <2>4, <3>0, <3>1, SamePlace DEF IdleIn
    <3>5. Outstanding(t, v.epoch, v.step) => Outstanding(t, v.epoch, v.step)'
      BY <2>3, <2>4, <3>0, <3>1, SamePlace
    <3>6. CASE OpenIn(v, j)
      BY <2>1, <2>2, <2>3, <2>5, <3>3, <3>5, <3>6, SlotIntro
    <3>7. CASE ~OpenIn(v, j)
      <4>1. w.pc = "send"
        BY <1>5, <1>6, <1>7, <1>10, <2>2, <3>2, <3>7 DEF OpenIn
      <4>2. At(t, v.epoch, v.step)'
        BY <1>5, <2>2, <3>4, <3>7 DEF IdleIn
      <4>3. IdleIn(t, w)'
        BY <2>5, <4>1, <4>2 DEF IdleIn
      <4>4. obsQ'[t] = <<>> /\ replyQ'[t] = <<>>
        BY <2>2, <2>4, <3>1, <3>7
      <4>. QED  BY <2>1, <2>3, <3>3, <3>7, <4>3, <4>4, SlotIntro
    <3>. QED  BY <3>6, <3>7
  <2>. QED  BY <2>6, <2>7
<1>15. obsQ' \in [Slots -> Seq(ObsOK)] /\ replyQ' \in [Slots -> Seq(Replies)]
  BY <1>5, <1>7, <1>8, <1>9
<1>16. \A t \in Slots : EnvOf(t) # e => obsQ'[t] = obsQ[t] /\ replyQ'[t] = replyQ[t]
  BY <1>5, <1>7, <1>8
<1>. QED  BY <1>5, <1>11, <1>13, <1>14, <1>15, <1>16, EnvMoves

LEMMA LastOfAppend ==
  ASSUME NEW S, NEW q \in Seq(S), NEW x \in S
  PROVE  Last(Append(q, x)) = x /\ Append(q, x) \in Seq(S)
<1>1. PICK n \in Nat : n = Len(q)
  OBVIOUS
<1>2. Len(Append(q, x)) = n + 1 /\ Append(q, x)[n + 1] = x
  BY <1>1
<1>. QED  BY <1>2 DEF Last

LEMMA TakeReplyKeeps ==
  ASSUME PerEnvInv, NEW e \in Envs, TakeReply(e)
  PROVE  PerEnvInv'
<1>1. PICK v : v = env[e]
  OBVIOUS
<1>2. PICK s : s = SlotId(e, v.k)
  OBVIOUS
<1>3. PICK rep : rep = Head(replyQ[s])
  OBVIOUS
<1>4. PICK taken : taken = Append(v.taken, Head(replyQ[s]))
  OBVIOUS
<1>5. PICK w : w = [v EXCEPT !.taken = taken,
                    !.k = IF LastSlot(e) THEN 0 ELSE v.k + 1,
                    !.pc = IF Last(taken).kind # (IF v.pc = "recv" THEN "action" ELSE "ack")
                           THEN "raised"
                           ELSE IF LastSlot(e) THEN (IF v.pc = "recv" THEN "step" ELSE "next")
                           ELSE v.pc]
  OBVIOUS
<1>6. /\ v.pc \in {"recv", "ack"} /\ replyQ[s] # <<>>
      /\ replyQ' = [replyQ EXCEPT ![s] = Tail(@)] /\ env' = [env EXCEPT ![e] = w]
      /\ UNCHANGED <<conf, obsQ, link, handler, buffer, boosted, requests, generate, actorQ>>
  BY <1>1, <1>2, <1>4, <1>5, Zenon DEF TakeReply
<1>7. PICK a \in Nat : a = conf.aggregate /\ a > 0
  BY <1>1, EnvFacts
<1>8. /\ v \in EnvRecords /\ v.epoch \in 0 .. NumEpochs - 1 /\ v.step \in -1 .. NumSteps - 1
      /\ v.k \in 0 .. a - 1 /\ v.taken \in Seq(Replies) /\ Len(v.taken) = v.k
      /\ AreReplies(e, v.taken, v.epoch, v.step)
      /\ v.pc = "recv" => v.step < NumSteps - 1
      /\ v.pc = "ack" => Training /\ v.step = NumSteps - 1 /\ v.epoch < NumEpochs - 1
      /\ conf \in Configs /\ env \in [Envs -> EnvRecords]
      /\ replyQ \in [Slots -> Seq(Replies)] /\ obsQ \in [Slots -> Seq(ObsOK)]
      /\ NumSteps \in Nat /\ NumSteps > 0 /\ NumEpochs \in Nat /\ NumEpochs > 0
  BY <1>1, <1>6, <1>7, EnvFacts
<1>9. s \in Slots /\ EnvOf(s) = e /\ IndexOf(s) = v.k
  BY <1>2, <1>7, <1>8, SlotFacts
\* The slot has an answer, which is one to the observation sent last.
<1>10. /\ obsQ[s] = <<>> /\ replyQ[s] = <<rep>> /\ After(s, v.epoch, v.step)
       /\ rep \in Replies /\ Fits(s, rep, v.epoch, v.step)
  <2>1. OpenIn(v, v.k)
    BY <1>6, <1>8 DEF OpenIn
  <2>2. Outstanding(s, v.epoch, v.step)
    BY <1>1, <1>9, <2>1, SlotOfEnv
  <2>3. ~Unanswered(v.epoch, v.step)
    BY <1>6, <1>8 DEF Unanswered
  <2>4. obsQ[s] = <<>> /\ After(s, v.epoch, v.step) /\ Answered(s, replyQ[s], v.epoch, v.step)
    BY <1>6, <2>2 DEF Outstanding
  <2>5. PICK x \in Replies : replyQ[s] = <<x>> /\ Fits(s, x, v.epoch, v.step)
    BY <2>3, <2>4 DEF Answered
  <2>6. rep = x
    BY <1>3, <2>5
  <2>. QED  BY <2>4, <2>5, <2>6
<1>11. rep.kind = IF v.pc = "recv" THEN "action" ELSE "ack"
  <2>1. rep.kind = IF Training /\ v.step = NumSteps - 1 THEN "ack" ELSE "action"
    BY <1>10 DEF Fits, ReplyTo
  <2>. QED  BY <1>6, <1>8, <2>1
<1>12. taken = Append(v.taken, rep) /\ Last(taken) = rep /\ taken \in Seq(Replies)
       /\ AreReplies(e, taken, v.epoch, v.step) /\ Len(taken) = v.k + 1
  <2>1. taken = Append(v.taken, rep)
    BY <1>3, <1>4
  <2>2. Last(taken) = rep /\ taken \in Seq(Replies)
    BY <1>8, <1>10, <2>1, LastOfAppend
  <2>3. PICK q \in Seq(Replies), l \in Nat : q = v.taken /\ l = Len(q) /\ l = v.k
    BY <1>8
  <2>4. /\ Len(Append(q, rep)) = l + 1 /\ Append(q, rep)[l + 1] = rep
        /\ DOMAIN Append(q, rep) = 1 .. l + 1 /\ \A i \in 1 .. l : Append(q, rep)[i] = q[i]
        /\ DOMAIN q = 1 .. l
    <3>1. rep \in Replies /\ l = Len(q)
      BY <1>10, <2>3
    <3>. QED  BY <3>1
  <2>5. ASSUME NEW i \in DOMAIN taken PROVE Fits(SlotId(e, i - 1), taken[i], v.epoch, v.step)
    <3>1. CASE i \in 1 .. l
      <4>1. taken[i] = q[i] /\ i \in DOMAIN q
        BY <2>1, <2>3, <2>4, <3>1
      <4>. QED  BY <1>8, <2>3, <4>1 DEF AreReplies
    <3>2. CASE i = l + 1
      <4>1. i - 1 = v.k /\ taken[i] = rep
        BY <2>1, <2>3, <2>4, <3>2
      <4>. QED  BY <1>2, <1>10, <4>1
    <3>3. i \in 1 .. l + 1
      BY <2>1, <2>3, <2>4, <2>5
    <3>4. i \in 1 .. l \/ i = l + 1
      BY <3>3
    <3>. QED  BY <3>1, <3>2, <3>4
  <2>. QED  BY <2>1, <2>2, <2>3, <2>4, <2>5 DEF AreReplies
<1>13. PICK k : k = IF v.k = a - 1 THEN 0 ELSE v.k + 1
  OBVIOUS
<1>14. PICK p : p = IF v.k = a - 1 THEN (IF v.pc = "recv" THEN "step" ELSE "next") ELSE v.pc
  OBVIOUS
<1>15. w = [v EXCEPT !.taken = taken, !.k = k, !.pc = p]
  <2>1. LastSlot(e) <=> v.k = a - 1
    BY <1>1, <1>7 DEF LastSlot
  <2>2. k = IF LastSlot(e) THEN 0 ELSE v.k + 1
    BY <1>13, <2>1
  <2>3. p = IF LastSlot(e) THEN (IF v.pc = "recv" THEN "step" ELSE "next") ELSE v.pc
    BY <1>14, <2>1
  <2>4. ~(Last(taken).kind # (IF v.pc = "recv" THEN "action" ELSE "ack"))
    BY <1>11, <1>12
  <2>. QED  BY <1>5, <2>2, <2>3, <2>4
<1>16. /\ w.epoch = v.epoch /\ w.step = v.step /\ w.taken = taken /\ w.k = k /\ w.pc = p
       /\ w \in [pc : {p}, epoch : {v.epoch}, step : {v.step}, k : {k}, taken : {taken}]
  BY <1>8, <1>15 DEF EnvRecords
<1>17. p \in EnvPcs /\ k \in 0 .. a - 1
  <2>1. v.k \in 0 .. a - 1
    BY <1>8
  <2>2. k \in 0 .. a - 1
    BY <1>7, <1>13, <2>1
  <2>. QED  BY <1>6, <1>14, <2>2 DEF EnvPcs
<1>18. w \in EnvRecords
  BY <1>7, <1>8, <1>12, <1>16, <1>17 DEF EnvRecords
<1>19. env'[e] = w
  BY <1>6, <1>8
<1>20. EnvInv(e)'
  <2>1. AreReplies(e, w.taken, w.epoch, w.step)
    BY <1>12, <1>16
  <2>2. /\ w.pc # "raised" /\ w.pc # "send"
        /\ w.pc \in {"recv", "ack"} => Len(w.taken) = w.k
        /\ w.pc \in {"recv", "step"} => w.step < NumSteps - 1
        /\ w.pc = "send" => Training \/ w.step < NumSteps - 1
        /\ w.pc = "ack" => Training /\ w.step = NumSteps - 1 /\ w.epoch < NumEpochs - 1
        /\ w.pc = "next" => w.epoch < NumEpochs - 1
        /\ w.pc = "over" => w.epoch = NumEpochs - 1 /\ w.step = NumSteps - 1
        /\ w.pc \in {"step", "next", "over"} => w.k = 0
    BY <1>6, <1>8, <1>12, <1>13, <1>14, <1>16
  <2>3. UNCHANGED conf
    BY <1>6
  <2>. QED  BY <1>19, <2>1, <2>2, <2>3, EnvNextInv
<1>21. \A t \in Slots : EnvOf(t) = e => SlotInv(t)'
  <2> SUFFICES ASSUME NEW t \in Slots, EnvOf(t) = e PROVE SlotInv(t)'
    OBVIOUS
  <2>1. PICK j : j = IndexOf(t)
    OBVIOUS
  <2>2. /\ \/ OpenIn(v, j) /\ Outstanding(t, v.epoch, v.step)
           \/ ~OpenIn(v, j) /\ obsQ[t] = <<>> /\ replyQ[t] = <<>> /\ IdleIn(t, v)
        /\ j \in 0 .. a - 1
    BY <1>1, <1>7, <2>1, SlotOfEnv
  <2>3. env'[EnvOf(t)] = w /\ UNCHANGED conf
    BY <1>6, <1>19
  <2>4. handler'[t] = handler[t] /\ obsQ'[t] = obsQ[t]
    BY <1>6
  <2>5. t # s => j # v.k /\ replyQ'[t] = replyQ[t]
    <3>1. t = SlotId(e, j)
      BY <1>8, <2>1, SlotFacts
    <3>. QED  BY <1>2, <1>6, <1>8, <3>1
  <2>6. t = s => j = v.k
    BY <1>9, <2>1
  <2>9. Stays(t)
    BY <1>6, <2>4, AskedSame, StaysPut
  <2>7. CASE v.k < j
    <3>1. t # s
      BY <1>8, <2>2, <2>6, <2>7
    <3>2. v.k # a - 1 /\ k = v.k + 1 /\ p = v.pc /\ k <= j
      BY <1>7, <1>8, <1>13, <1>14, <2>2, <2>7
    <3>3. OpenIn(v, j) /\ OpenIn(w, j)
      BY <1>6, <1>8, <1>16, <2>2, <2>7, <3>2 DEF OpenIn
    <3>4. Outstanding(t, v.epoch, v.step)'
      BY <2>2, <2>3, <2>4, <2>5, <2>9, <3>1, <3>3, SamePlace
    <3>. QED  BY <1>16, <2>1, <2>3, <3>3, <3>4, SlotIntro
  <2>8. CASE ~(v.k < j)
    <3>1. ~OpenIn(w, j)
      <4>1. CASE v.k = a - 1
        BY <1>6, <1>14, <1>16, <4>1 DEF OpenIn
      <4>2. CASE v.k # a - 1
        <5>1. p = v.pc /\ k = v.k + 1 /\ ~(k <= j)
          BY <1>7, <1>8, <1>13, <1>14, <2>2, <2>8, <4>2
        <5>. QED  BY <1>6, <1>16, <5>1 DEF OpenIn
      <4>. QED  BY <4>1, <4>2
    <3>2. After(t, v.epoch, v.step) /\ obsQ[t] = <<>> /\ replyQ'[t] = <<>>
      <4>1. CASE t = s
        <5>1. replyQ'[t] = Tail(<<rep>>)
          BY <1>6, <1>8, <1>9, <1>10, <4>1
        <5>. QED  BY <1>10, <4>1, <5>1
      <4>2. CASE t # s
        <5>1. ~(v.k <= j)
          BY <1>8, <2>2, <2>5, <2>8, <4>2
        <5>2. ~OpenIn(v, j)
          BY <1>6, <5>1 DEF OpenIn
        <5>. QED  BY <1>6, <2>2, <2>5, <4>2, <5>2 DEF IdleIn
      <4>. QED  BY <4>1, <4>2
    <3>3. p = "next" => At(t, v.epoch + 1, -1)
      <4>1. p = "next" => v.pc = "ack"
        BY <1>6, <1>14
      <4>. QED  BY <1>8, <3>2, <4>1 DEF After, IsLast
    <3>4. IdleIn(t, w)'
      <4>1. After(t, v.epoch, v.step)' /\ (p = "next" => At(t, v.epoch + 1, -1)')
        <5>1. After(t, v.epoch, v.step)'
          BY <2>3, <2>9, <3>2, ConfSame DEF After, At, Stays
        <5>2. p = "next" => At(t, v.epoch + 1, -1)'
          BY <2>9, <3>3 DEF At, Stays
        <5>. QED  BY <5>1, <5>2
      <4>2. p # "send" /\ p # "over"
        BY <1>6, <1>14
      <4>. QED  BY <1>16, <4>1, <4>2 DEF IdleIn
    <3>. QED  BY <2>1, <2>3, <2>4, <3>1, <3>2, <3>4, SlotIntro
  <2>. QED  BY <2>7, <2>8
<1>22. replyQ' \in [Slots -> Seq(Replies)] /\ obsQ' \in [Slots -> Seq(ObsOK)]
  BY <1>6, <1>8, <1>9
<1>23. \A t \in Slots : EnvOf(t) # e => obsQ'[t] = obsQ[t] /\ replyQ'[t] = replyQ[t]
  BY <1>6, <1>8, <1>9
<1>. QED  BY <1>6, <1>18, <1>20, <1>21, <1>22, <1>23, EnvMoves

\* Steps that touch no queue.
LEMMA LoopKeeps ==
  ASSUME PerEnvInv, NEW e \in Envs, EnvStep(e) \/ BeginEpoch(e)
  PROVE  PerEnvInv'
<1>1. PICK v : v = env[e]
  OBVIOUS
<1>2. PICK w : w = env'[e]
  OBVIOUS
<1>3. PICK a \in Nat : a = conf.aggregate /\ a > 0
  BY <1>1, EnvFacts
<1>4. /\ v \in EnvRecords /\ v.epoch \in 0 .. NumEpochs - 1 /\ v.step \in -1 .. NumSteps - 1
      /\ v.pc = "step" => v.step < NumSteps - 1 /\ v.k = 0
      /\ v.pc = "next" => v.epoch < NumEpochs - 1 /\ v.k = 0
      /\ conf \in Configs /\ env \in [Envs -> EnvRecords]
      /\ replyQ \in [Slots -> Seq(Replies)] /\ obsQ \in [Slots -> Seq(ObsOK)]
      /\ NumSteps \in Nat /\ NumSteps > 0 /\ NumEpochs \in Nat /\ NumEpochs > 0
  BY <1>1, EnvFacts
<1>5. /\ env' = [env EXCEPT ![e] = w]
      /\ UNCHANGED <<conf, obsQ, replyQ, link, handler, buffer, boosted, requests, generate, actorQ>>
  <2>1. CASE EnvStep(e)
    BY <1>2, <1>4, <2>1 DEF EnvStep
  <2>2. CASE BeginEpoch(e)
    BY <1>2, <1>4, <2>2 DEF BeginEpoch
  <2>. QED  BY <2>1, <2>2
<1>6. \/ /\ v.pc = "step"
         /\ w = [v EXCEPT !.step = v.step + 1, !.taken = <<>>,
                   !.pc = IF Training \/ v.step + 1 < NumSteps - 1 THEN "send"
                          ELSE IF v.epoch < NumEpochs - 1 THEN "next" ELSE "over"]
      \/ /\ v.pc = "next"
         /\ w = [v EXCEPT !.pc = "send", !.epoch = v.epoch + 1, !.step = -1, !.k = 0, !.taken = <<>>]
  <2>1. CASE EnvStep(e)
    <3>1. v.pc = "step"
      BY <1>1, <2>1 DEF EnvStep
    <3>2. env' = [env EXCEPT ![e] =
                   [v EXCEPT !.step = v.step + 1, !.taken = <<>>,
                      !.pc = IF Training \/ v.step + 1 < NumSteps - 1 THEN "send"
                             ELSE IF v.epoch < NumEpochs - 1 THEN "next" ELSE "over"]]
      BY <1>1, <2>1, Zenon DEF EnvStep
    <3>. QED  BY <1>2, <1>4, <3>1, <3>2
  <2>2. CASE BeginEpoch(e)
    <3>1. v.pc = "next"
      BY <1>1, <2>2 DEF BeginEpoch
    <3>2. NextEpoch(e) = [v EXCEPT !.pc = "send", !.epoch = v.epoch + 1, !.step = -1, !.k = 0,
                                   !.taken = <<>>]
      BY <1>1, <1>4 DEF NextEpoch, EnvRecords
    <3>3. env' = [env EXCEPT ![e] = NextEpoch(e)]
      BY <2>2 DEF BeginEpoch
    <3>. QED  BY <1>2, <1>4, <3>1, <3>2, <3>3
  <2>. QED  BY <2>1, <2>2
<1>7. PICK p, k, n : p = w.pc /\ k = w.epoch /\ n = w.step
  OBVIOUS
<1>8. w \in [pc : {p}, epoch : {k}, step : {n}, k : {0}, taken : {<<>>}]
  BY <1>4, <1>6, <1>7 DEF EnvRecords
<1>9. \/ /\ v.pc = "step" /\ k = v.epoch /\ n = v.step + 1
         /\ p = IF Training \/ v.step + 1 < NumSteps - 1 THEN "send"
                ELSE IF v.epoch < NumEpochs - 1 THEN "next" ELSE "over"
      \/ v.pc = "next" /\ k = v.epoch + 1 /\ n = -1 /\ p = "send"
  BY <1>4, <1>6, <1>7 DEF EnvRecords
<1>10. p \in EnvPcs /\ k \in 0 .. NumEpochs - 1 /\ n \in -1 .. NumSteps - 1
  BY <1>4, <1>9 DEF EnvPcs
<1>11. w \in EnvRecords
  <2>1. <<>> \in Seq(Replies) /\ 0 \in 0 .. a - 1
    BY <1>3
  <2>. QED  BY <1>3, <1>8, <1>10, <2>1 DEF EnvRecords
<1>12. w.k = 0 /\ w.taken = <<>>
  BY <1>8
<1>13. EnvInv(e)'
  <2>1. AreReplies(e, <<>>, w.epoch, w.step) /\ Len(<<>>) = 0
    BY DEF AreReplies
  <2>2. /\ p # "raised" /\ p \notin {"recv", "step", "ack"}
        /\ p = "send" => Training \/ n < NumSteps - 1
        /\ p = "next" => k < NumEpochs - 1
        /\ p = "over" => k = NumEpochs - 1 /\ n = NumSteps - 1
    BY <1>4, <1>9
  <2>3. /\ w.pc # "raised"
        /\ w.pc \in {"recv", "step"} => w.step < NumSteps - 1
        /\ w.pc = "send" => Training \/ w.step < NumSteps - 1
        /\ w.pc = "ack" => Training /\ w.step = NumSteps - 1 /\ w.epoch < NumEpochs - 1
        /\ w.pc = "next" => w.epoch < NumEpochs - 1
        /\ w.pc = "over" => w.epoch = NumEpochs - 1 /\ w.step = NumSteps - 1
        /\ w.pc \in {"step", "next", "over"} => w.k = 0
        /\ AreReplies(e, w.taken, w.epoch, w.step) /\ Len(w.taken) = 0
        /\ w.pc \notin {"recv", "ack"}
    BY <1>7, <1>12, <2>1, <2>2
  <2>4. UNCHANGED conf
    BY <1>5
  <2>. QED  BY <1>2, <2>3, <2>4, EnvNextInv
<1>14. \A t \in Slots : EnvOf(t) = e => SlotInv(t)'
  <2> SUFFICES ASSUME NEW t \in Slots, EnvOf(t) = e PROVE SlotInv(t)'
    OBVIOUS
  <2>1. PICK j : j = IndexOf(t)
    OBVIOUS
  <2>2. /\ \/ OpenIn(v, j) /\ Outstanding(t, v.epoch, v.step)
           \/ ~OpenIn(v, j) /\ obsQ[t] = <<>> /\ replyQ[t] = <<>> /\ IdleIn(t, v)
        /\ j \in 0 .. a - 1
    BY <1>1, <1>3, <2>1, SlotOfEnv
  <2>3. env'[EnvOf(t)] = w /\ UNCHANGED conf
    BY <1>2, <1>5
  <2>4. handler'[t] = handler[t] /\ obsQ'[t] = obsQ[t] /\ replyQ'[t] = replyQ[t]
    BY <1>5
  <2>5. ~OpenIn(v, j)
    BY <1>6 DEF OpenIn
  <2>6. ~OpenIn(w, j)
    <3>1. p = "send" \/ (p \in {"next", "over"} /\ ~Training)
      BY <1>9
    <3>2. ~(j < 0)
      BY <1>3, <2>2
    <3>. QED  BY <1>7, <1>12, <3>1, <3>2 DEF OpenIn
  <2>7. /\ p = "send" => At(t, k, n)
        /\ p = "next" => At(t, k + 1, -1)
        /\ p = "over" => handler[t].pc = "over"
    <3>1. CASE v.pc = "step"
      <4>1. After(t, v.epoch, v.step)
        BY <2>2, <2>5, <3>1 DEF IdleIn
      <4>2. p = "send" <=> ~IsLast(v.step)
        BY <1>4, <1>9, <3>1 DEF IsLast
      <4>3. p \in {"next", "over"} => (p = "next" <=> v.epoch < NumEpochs - 1)
        BY <1>9, <3>1
      <4>. QED  BY <1>9, <3>1, <4>1, <4>2, <4>3 DEF After
    <3>2. CASE v.pc = "next"
      BY <1>9, <2>2, <2>5, <3>2 DEF IdleIn
    <3>. QED  BY <1>6, <3>1, <3>2
  <2>8. /\ p = "send" => At(t, k, n)'
        /\ p = "next" => At(t, k + 1, -1)'
        /\ p = "over" => handler'[t].pc = "over"
    BY <2>3, <2>4, <2>7, <1>5, AskedSame DEF At, Waits
  <2>9. IdleIn(t, w)'
    <3>1. p \in {"send", "next", "over"}
      BY <1>9
    <3>. QED  BY <1>7, <2>8, <3>1 DEF IdleIn
  <2>10. obsQ'[t] = <<>> /\ replyQ'[t] = <<>>
    BY <2>2, <2>4, <2>5
  <2>. QED  BY <2>1, <2>3, <2>6, <2>9, <2>10, SlotIntro
<1>15. replyQ' \in [Slots -> Seq(Replies)] /\ obsQ' \in [Slots -> Seq(ObsOK)]
  BY <1>4, <1>5
<1>16. \A t \in Slots : EnvOf(t) # e => obsQ'[t] = obsQ[t] /\ replyQ'[t] = replyQ[t]
  BY <1>5
<1>. QED  BY <1>5, <1>11, <1>13, <1>14, <1>15, <1>16, EnvMoves

-----------------------------------------------------------------------------
(***************************************************************************)
(* A handler.                                                              *)
(***************************************************************************)

LEMMA HandlerMoves ==
  ASSUME PerEnvInv, NEW s \in Slots, NEW h \in Handlers, handler' = [handler EXCEPT ![s] = h],
         UNCHANGED <<conf, env, link, boosted, generate>>,
         obsQ' \in [Slots -> Seq(ObsOK)], replyQ' \in [Slots -> Seq(Replies)],
         buffer' \in [Slots -> Lists], requests' \in [Rollouts -> Seq(Slots)],
         \A t \in Slots \ {s} : /\ obsQ'[t] = obsQ[t] /\ replyQ'[t] = replyQ[t]
                                /\ buffer'[t] = buffer[t],
         NEW k, NEW n, k = env[EnvOf(s)].epoch, n = env[EnvOf(s)].step,
         OpenIn(env[EnvOf(s)], IndexOf(s)), Outstanding(s, k, n)',
         BufferInv(s)', \A r \in Rollouts : RequestInv(r)',
         \A t \in Slots : GetInv(t)', \A r \in Rollouts : LinkInv(r)'
  PROVE  PerEnvInv'
<1>1. TypeOK /\ handler \in [Slots -> Handlers]
  BY DEF PerEnvInv, TypeOK
<1>2. /\ Envs' = Envs /\ Slots' = Slots /\ Rollouts' = Rollouts /\ EnvRecords' = EnvRecords
      /\ Links' = Links
  BY ConfSame DEF EnvRecords, Links
<1>3. TypeOK'
  BY <1>1, <1>2 DEF TypeOK
<1>4. \A t \in Slots : SlotInv(t)'
  <2> SUFFICES ASSUME NEW t \in Slots PROVE SlotInv(t)'
    OBVIOUS
  <2>1. CASE t = s
    <3>1. PICK v : v = env[EnvOf(s)]
      OBVIOUS
    <3>2. PICK j : j = IndexOf(s)
      OBVIOUS
    <3>3. OpenIn(v, j) /\ env'[EnvOf(s)] = v /\ Outstanding(s, v.epoch, v.step)'
      BY <3>1, <3>2
    <3>. QED  BY <2>1, <3>2, <3>3, SlotIntro
  <2>2. CASE t # s
    <3>1. handler'[t] = handler[t] /\ SlotInv(t)
      BY <1>1, <2>2 DEF PerEnvInv
    <3>2. Stays(t)
      BY <3>1, AskedSame, StaysPut
    <3>. QED  BY <2>2, <3>1, <3>2, SlotKept
  <2>. QED  BY <2>1, <2>2
<1>5. \A t \in Slots : BufferInv(t)'
  <2> SUFFICES ASSUME NEW t \in Slots, t # s PROVE BufferInv(t)'
    OBVIOUS
  <2>1. handler'[t] = handler[t] /\ BufferInv(t)
    BY <1>1 DEF PerEnvInv
  <2>. QED  BY <2>1, BufferKept
<1>6. \A e \in Envs : EnvInv(e)'
  BY EnvKept DEF PerEnvInv
<1>7. BootstrapOnlyAtEnds'
  BY BoostedKept DEF PerEnvInv
<1>. QED  BY <1>2, <1>3, <1>4, <1>5, <1>6, <1>7 DEF PerEnvInv

LEMMA HandlerFacts ==
  ASSUME PerEnvInv, NEW s \in Slots
  PROVE  /\ conf \in Configs /\ handler \in [Slots -> Handlers] /\ buffer \in [Slots -> Lists]
         /\ obsQ \in [Slots -> Seq(ObsOK)] /\ replyQ \in [Slots -> Seq(Replies)]
         /\ requests \in [Rollouts -> Seq(Slots)] /\ link \in [Rollouts -> Links]
         /\ handler[s] \in Handlers /\ buffer[s] \in Lists
         /\ handler[s].epoch \in 0 .. NumEpochs - 1 /\ handler[s].step \in 0 .. NumSteps
         /\ NumSteps \in Nat /\ NumSteps > 0 /\ NumEpochs \in Nat /\ NumEpochs > 0
         /\ RolloutOf(s) \in Rollouts
         /\ Training => Trajectory(s)
<1>1. /\ conf \in Configs /\ handler \in [Slots -> Handlers] /\ buffer \in [Slots -> Lists]
      /\ obsQ \in [Slots -> Seq(ObsOK)] /\ replyQ \in [Slots -> Seq(Replies)]
      /\ requests \in [Rollouts -> Seq(Slots)] /\ link \in [Rollouts -> Links]
  BY DEF PerEnvInv, TypeOK
<1>2. handler[s] \in Handlers /\ buffer[s] \in Lists
  BY <1>1
<1>3. handler[s].epoch \in 0 .. NumEpochs - 1 /\ handler[s].step \in 0 .. NumSteps
  BY <1>2 DEF Handlers
<1>4. NumSteps \in Nat /\ NumSteps > 0 /\ NumEpochs \in Nat /\ NumEpochs > 0
  BY <1>1, ConfType DEF Positive
<1>5. RolloutOf(s) \in Rollouts
  BY <1>1, SlotFacts
<1>6. Training => Trajectory(s)
  BY DEF PerEnvInv, BufferInv
<1>. QED  BY <1>1, <1>2, <1>3, <1>4, <1>5, <1>6

\* A handler that has an observation to receive, or one at hand, has the one
\* its environment sent last.
LEMMA AtWork ==
  ASSUME PerEnvInv, NEW s \in Slots, obsQ[s] # <<>> \/ Works(s)
  PROVE  \E k \in 0 .. NumEpochs - 1, n \in -1 .. NumSteps - 1 :
           /\ k = env[EnvOf(s)].epoch /\ n = env[EnvOf(s)].step
           /\ OpenIn(env[EnvOf(s)], IndexOf(s))
           /\ Training \/ n < NumSteps - 1
           /\ replyQ[s] = <<>>
           /\ \/ obsQ[s] = <<Observation(s, k, n)>> /\ At(s, k, n)
              \/ obsQ[s] = <<>> /\ Working(s, k, n)
<1>1. PICK v : v = env[EnvOf(s)]
  OBVIOUS
<1>2. PICK j : j = IndexOf(s)
  OBVIOUS
<1>3. EnvOf(s) \in Envs
  BY SlotFacts DEF PerEnvInv, TypeOK
<1>4. /\ v.pc \in EnvPcs \ {"raised"}
      /\ v.epoch \in 0 .. NumEpochs - 1 /\ v.step \in -1 .. NumSteps - 1
      /\ v.pc \in {"recv", "step"} => v.step < NumSteps - 1
      /\ v.pc = "send" => Training \/ v.step < NumSteps - 1
      /\ v.pc = "ack" => Training
  BY <1>1, <1>3, EnvFacts
<1>5. \/ OpenIn(v, j) /\ Outstanding(s, v.epoch, v.step)
      \/ ~OpenIn(v, j) /\ obsQ[s] = <<>> /\ replyQ[s] = <<>> /\ IdleIn(s, v)
  BY <1>1, <1>2, SlotOfEnv
<1>6. \A k, n : At(s, k, n) => ~Works(s)
  BY DEF At, Waits, Works, Engaged, Receiving
<1>7. \A k, n : After(s, k, n) => ~Works(s)
  BY <1>6 DEF After, Works, Engaged, Receiving
<1>8. OpenIn(v, j)
  <2>1. ASSUME ~OpenIn(v, j) PROVE FALSE
    <3>1. Works(s) /\ IdleIn(s, v)
      BY <1>5, <2>1
    <3>2. handler[s].pc # "over"
      BY <3>1 DEF Works, Engaged, Receiving
    <3>. QED  BY <1>4, <1>6, <1>7, <3>1, <3>2 DEF IdleIn, EnvPcs
  <2>. QED  BY <2>1
<1>9. Training \/ v.step < NumSteps - 1
  BY <1>4, <1>8 DEF OpenIn
<1>10. ~(obsQ[s] = <<>> /\ After(s, v.epoch, v.step))
  BY <1>7
<1>11. /\ replyQ[s] = <<>>
       /\ \/ obsQ[s] = <<Observation(s, v.epoch, v.step)>> /\ At(s, v.epoch, v.step)
          \/ obsQ[s] = <<>> /\ Working(s, v.epoch, v.step)
  BY <1>5, <1>8, <1>10 DEF Outstanding
<1>. QED  BY <1>1, <1>2, <1>4, <1>8, <1>9, <1>11

LEMMA RequestsStay ==
  ASSUME PerEnvInv, NEW s \in Slots, NEW h, handler' = [handler EXCEPT ![s] = h],
         UNCHANGED <<conf, requests>>, h.pc # "infer", handler[s].pc # "infer"
  PROVE  \A r \in Rollouts : RequestInv(r)'
<1>1. handler \in [Slots -> Handlers]
  BY DEF PerEnvInv, TypeOK
<1>2. \A t \in Slots : handler'[t].pc = "infer" <=> handler[t].pc = "infer"
  <2> SUFFICES ASSUME NEW t \in Slots PROVE handler'[t].pc = "infer" <=> handler[t].pc = "infer"
    OBVIOUS
  <2>1. CASE t = s
    BY <1>1, <2>1
  <2>2. CASE t # s
    BY <1>1, <2>2
  <2>. QED  BY <2>1, <2>2
<1>. QED  BY <1>2, RequestKept DEF PerEnvInv

\* A handler between its gets, whatever it does.
LEMMA GetPassed ==
  ASSUME UNCHANGED <<conf, link>>, NEW s, GetInv(s), NEW h, h = handler'[s],
         \/ handler[s].pc \notin Receiving
         \/ handler[s].pc = "wait" /\ handler[s].obs # None /\ ~Asked(s),
         h.pc \notin Receiving, h.pc = "recv" => h.obs = None,
         h.pc \in Engaged => h.obs # None, h.obs # None => Plain(h.obs)
  PROVE  GetInv(s)'
<1>1. /\ (Training' <=> Training) /\ RolloutOf(s)' = RolloutOf(s)
      /\ GetsItsOwn(s)' <=> GetsItsOwn(s)
  BY ConfSame
<1>2. Asked(s)' <=> Asked(s)
  BY AskedSame
<1>3. ~Asked(s)
  BY DEF GetInv
<1>4. h.obs # None => Plain(h.obs)'
  BY <1>1 DEF Plain
<1>5. ASSUME GetsItsOwn(s), ~Training PROVE OwnGet(s)'
  <2>1. handler[s].pc # "post" /\ h.pc # "wait"
    BY DEF Receiving
  <2>2. link[RolloutOf(s)].answers = <<>>
    BY <1>5, <2>1 DEF GetInv, OwnGet
  <2>. QED  BY <1>1, <2>1, <2>2 DEF OwnGet
<1>. QED  BY <1>1, <1>2, <1>3, <1>4, <1>5 DEF GetInv, Receiving

\* A step between a handler's gets.
LEMMA GetsStay ==
  ASSUME PerEnvInv, NEW s \in Slots, NEW h \in Handlers, handler' = [handler EXCEPT ![s] = h],
         UNCHANGED <<conf, link>>,
         \/ handler[s].pc \notin Receiving
         \/ handler[s].pc = "wait" /\ handler[s].obs # None /\ ~Asked(s),
         h.pc \notin Receiving, h.pc = "recv" => h.obs = None,
         h.pc \in Engaged => h.obs # None, h.obs # None => Plain(h.obs)
  PROVE  (\A t \in Slots : GetInv(t)') /\ \A r \in Rollouts : LinkInv(r)'
<1>1. handler \in [Slots -> Handlers] /\ handler'[s] = h
      /\ \A t \in Slots : GetInv(t) /\ (t # s => handler'[t] = handler[t])
  BY DEF PerEnvInv, TypeOK
<1>2. \A r \in Rollouts : LinkInv(r)'
  <2>1. \A t \in Slots : handler'[t].pc = "wait" /\ handler'[t].obs = None
                         <=> handler[t].pc = "wait" /\ handler[t].obs = None
    <3> SUFFICES ASSUME NEW t \in Slots
                 PROVE  handler'[t].pc = "wait" /\ handler'[t].obs = None
                        <=> handler[t].pc = "wait" /\ handler[t].obs = None
      OBVIOUS
    <3>1. CASE t = s
      BY <1>1, <3>1 DEF Receiving
    <3>2. CASE t # s
      BY <1>1, <3>2
    <3>. QED  BY <3>1, <3>2
  <2>. QED  BY <2>1, LinkKept DEF PerEnvInv
<1>3. GetInv(s)'
  BY <1>1, GetPassed
<1>4. \A t \in Slots : GetInv(t)'
  BY <1>1, <1>3, GetKept
<1>. QED  BY <1>2, <1>4

\* A request joins the queue of its worker's engine.
LEMMA RequestsGrow ==
  ASSUME PerEnvInv, NEW s \in Slots, NEW h, h.pc = "infer",
         handler' = [handler EXCEPT ![s] = h], handler[s].pc # "infer", UNCHANGED conf,
         requests' = [requests EXCEPT ![RolloutOf(s)] = Append(@, s)]
  PROVE  /\ \A r \in Rollouts : RequestInv(r)'
         /\ requests' \in [Rollouts -> Seq(Slots)]
<1>1. handler \in [Slots -> Handlers] /\ requests \in [Rollouts -> Seq(Slots)]
      /\ RolloutOf(s) \in Rollouts
  BY HandlerFacts
<1>2. requests' \in [Rollouts -> Seq(Slots)]
  BY <1>1
<1>3. ASSUME NEW r \in Rollouts PROVE RequestInv(r)'
  <2>1. PICK l : l = requests[r]
    OBVIOUS
  <2>2. /\ IsInjective(l) /\ l \in Seq(Slots)
        /\ \A t \in Slots : t \in ToSet(l) <=> RolloutOf(t) = r /\ handler[t].pc = "infer"
    BY <1>1, <2>1 DEF PerEnvInv, RequestInv
  <2>3. \A t \in Slots : RolloutOf(t)' = RolloutOf(t)
    BY ConfSame
  <2>4. Slots' = Slots
    BY ConfSame
  <2>5. \A t \in Slots : handler'[t].pc = "infer" <=> (t = s \/ handler[t].pc = "infer")
    <3> SUFFICES ASSUME NEW t \in Slots
                 PROVE  handler'[t].pc = "infer" <=> (t = s \/ handler[t].pc = "infer")
      OBVIOUS
    <3>1. handler'[t] = IF t = s THEN h ELSE handler[t]
      BY <1>1
    <3>. QED  BY <3>1
  <2>6. CASE r = RolloutOf(s)
    <3>1. s \notin ToSet(l)
      BY <2>2
    <3>2. IsInjective(Append(l, s)) /\ ToSet(Append(l, s)) = ToSet(l) \cup {s}
      BY <2>2, <3>1, Appended
    <3>3. requests'[r] = Append(l, s)
      BY <1>1, <2>1, <2>6
    <3>4. PICK u : u = requests'[r]
      OBVIOUS
    <3>5. IsInjective(u) /\ ToSet(u) = ToSet(l) \cup {s}
      BY <3>2, <3>3, <3>4, Zenon
    <3>6. \A t \in Slots : t \in ToSet(u) <=> RolloutOf(t) = r /\ handler'[t].pc = "infer"
      BY <2>2, <2>5, <2>6, <3>5
    <3>. QED  BY <2>3, <2>4, <3>4, <3>5, <3>6 DEF RequestInv
  <2>7. CASE r # RolloutOf(s)
    <3>1. requests'[r] = l
      BY <1>1, <2>1, <2>7
    <3>2. \A t \in Slots : t \in ToSet(l) <=> RolloutOf(t) = r /\ handler'[t].pc = "infer"
      BY <2>2, <2>5, <2>7
    <3>. QED  BY <2>2, <2>3, <2>4, <3>1, <3>2 DEF RequestInv
  <2>. QED  BY <2>6, <2>7
<1>. QED  BY <1>2, <1>3

\* Recording observation r - 1 of an epoch: its done flags and, unless it starts
\* the epoch, the reward for and the inputs of the step that led to it.
LEMMA RecordsOne ==
  ASSUME conf \in Configs, Training, NEW s \in Slots, NEW first \in Nat, NEW q \in Nat,
         NEW r \in 0 .. NumSteps, NEW b \in Lists, RecordsFit(b, s, first, q, r)
  PROVE  LET c == Recorded(b, Observation(s, first + q, r - 1), LastTag(s, first + q, r)) IN
         c \in Lists /\ c.values = b.values /\ RecordsFit(c, s, first, q, r + 1)
<1>0. PICK m, last, c, p : /\ m = Observation(s, first + q, r - 1) /\ last = LastTag(s, first + q, r)
                           /\ c = Recorded(b, m, last) /\ p = StepsOf(r)
  OBVIOUS
<1>1. NumSteps \in Nat /\ NumSteps > 0 /\ NumSteps \in Positive /\ NumSteps + 1 \in Positive
  BY ConfType DEF Positive
<1>2. r \in Nat /\ first + q \in Nat /\ r - 1 \in Int /\ s \in Int
  BY <1>1, SlotFacts
<1>3. PICK tag : tag = [slot |-> s, epoch |-> first + q, step |-> r - 1]
  OBVIOUS
<1>4. m.slot = s /\ m.epoch = first + q /\ m.step = r - 1 /\ (m.rewarded <=> r # 0)
  <2>1. Training /\ r - 1 >= 0 <=> r # 0
    BY <1>1, <1>2
  <2>. QED  BY <1>0, <1>2, <2>1, ObservationType
<1>5. c = [b EXCEPT !.dones = Append(b.dones, tag),
                    !.rewards = IF m.rewarded THEN Append(b.rewards, tag) ELSE b.rewards,
                    !.inputs = IF last # None THEN Append(b.inputs, last) ELSE b.inputs]
  BY <1>0, <1>3, <1>4 DEF Recorded
<1>6. last # None <=> r # 0
  <2>1. r # 0 => last # None
    <3> SUFFICES ASSUME r # 0 PROVE last # None
      OBVIOUS
    <3>1. last = [slot |-> s, epoch |-> first + q, step |-> r - 2]
      BY <1>0 DEF LastTag
    <3>. QED  BY <3>1 DEF None
  <2>2. r = 0 => last = None
    BY <1>0 DEF LastTag
  <2>. QED  BY <2>1, <2>2
<1>7. /\ b.values \in Seq(Results) /\ b.dones \in Seq(Results) /\ b.rewards \in Seq(Results)
      /\ b.inputs \in Seq(Results)
      /\ b = [values |-> b.values, dones |-> b.dones, rewards |-> b.rewards, inputs |-> b.inputs]
  BY DEF Lists
<1>8. PICK ds, rs, is : /\ ds = Append(b.dones, tag)
                         /\ rs = (IF r # 0 THEN Append(b.rewards, tag) ELSE b.rewards)
                         /\ is = (IF r # 0 THEN Append(b.inputs, last) ELSE b.inputs)
  OBVIOUS
<1>9. c = [values |-> b.values, dones |-> ds, rewards |-> rs, inputs |-> is]
  <2>1. rs = (IF m.rewarded THEN Append(b.rewards, tag) ELSE b.rewards)
    BY <1>4, <1>8
  <2>2. is = (IF last # None THEN Append(b.inputs, last) ELSE b.inputs)
    BY <1>6, <1>8
  <2>3. c = [b EXCEPT !.dones = ds, !.rewards = rs, !.inputs = is]
    BY <1>5, <1>8, <2>1, <2>2, Zenon
  <2>. QED  BY <1>7, <2>3
<1>10. AreTags(c.dones, s, first, -1, NumSteps + 1, q, r + 1)
  <2>1. tag = TagAt(s, first, -1, q, r)
    BY <1>2, <1>3 DEF TagAt
  <2>2. r \in 0 .. (NumSteps + 1) - 1
    BY <1>1
  <2>3. AreTags(Append(b.dones, tag), s, first, -1, NumSteps + 1, q, r + 1)
    BY <1>1, <2>1, <2>2, TagsAppend DEF RecordsFit
  <2>4. c.dones = ds
    BY <1>9
  <2>. QED  BY <1>8, <2>3, <2>4, Zenon
<1>11. AreTags(c.rewards, s, first, 0, NumSteps, q, r)
  <2>1. CASE r = 0
    <3>1. c.rewards = b.rewards /\ p = r
      BY <1>0, <1>8, <1>9, <2>1 DEF StepsOf
    <3>. QED  BY <1>0, <3>1 DEF RecordsFit
  <2>2. CASE r # 0
    <3>1. p \in 0 .. NumSteps - 1 /\ p + 1 = r /\ tag = TagAt(s, first, 0, q, p)
      BY <1>0, <1>1, <1>2, <1>3, <2>2 DEF TagAt, StepsOf
    <3>2. AreTags(Append(b.rewards, tag), s, first, 0, NumSteps, q, p + 1)
      <4>1. AreTags(b.rewards, s, first, 0, NumSteps, q, p)
        BY <1>0 DEF RecordsFit
      <4>. QED  BY <1>1, <3>1, <4>1, TagsAppend
    <3>3. c.rewards = rs
      BY <1>9
    <3>4. AreTags(rs, s, first, 0, NumSteps, q, p + 1)
      BY <1>8, <2>2, <3>2, Zenon
    <3>. QED  BY <3>1, <3>3, <3>4
  <2>. QED  BY <2>1, <2>2
<1>12. AreTags(c.inputs, s, first, -1, NumSteps, q, r)
  <2>1. CASE r = 0
    <3>1. c.inputs = b.inputs /\ p = r
      BY <1>0, <1>8, <1>9, <2>1 DEF StepsOf
    <3>. QED  BY <1>0, <3>1 DEF RecordsFit
  <2>2. CASE r # 0
    <3>1. p \in 0 .. NumSteps - 1 /\ p + 1 = r /\ last = TagAt(s, first, -1, q, p)
      BY <1>0, <1>1, <1>2, <2>2 DEF TagAt, StepsOf, LastTag
    <3>2. AreTags(Append(b.inputs, last), s, first, -1, NumSteps, q, p + 1)
      <4>1. AreTags(b.inputs, s, first, -1, NumSteps, q, p)
        BY <1>0 DEF RecordsFit
      <4>. QED  BY <1>1, <3>1, <4>1, TagsAppend
    <3>3. c.inputs = is
      BY <1>9
    <3>4. AreTags(is, s, first, -1, NumSteps, q, p + 1)
      BY <1>8, <2>2, <3>2, Zenon
    <3>. QED  BY <3>1, <3>3, <3>4
  <2>. QED  BY <2>1, <2>2
<1>13. c \in Lists
  <2>1. tag \in Results
    BY <1>2, <1>3 DEF Results
  <2>2. r # 0 => last \in Results
    BY <1>0, <1>2 DEF Results, LastTag
  <2>3. Append(b.dones, tag) \in Seq(Results)
    BY <1>7, <2>1
  <2>4. Append(b.rewards, tag) \in Seq(Results)
    BY <1>7, <2>1
  <2>5. r # 0 => Append(b.inputs, last) \in Seq(Results)
    BY <1>7, <2>2
  <2>6. ds \in Seq(Results) /\ rs \in Seq(Results) /\ is \in Seq(Results)
    BY <1>7, <1>8, <2>3, <2>4, <2>5, Zenon
  <2>. QED  BY <1>7, <1>9, <2>6 DEF Lists
<1>14. c.values = b.values
  BY <1>9
<1>15. StepsOf(r + 1) = r
  BY <1>2 DEF StepsOf
<1>16. RecordsFit(c, s, first, q, r + 1)
  BY <1>10, <1>11, <1>12, <1>15 DEF RecordsFit
<1>. QED  BY <1>0, <1>13, <1>14, <1>16, Zenon

LEMMA TrajectoryIntro ==
  ASSUME UNCHANGED conf, NEW s, NEW h, h = handler'[s], NEW b, b = buffer'[s],
         Training => TrajectoryOf(h, b, s, IF conf.pipeline = "async" THEN h.epoch ELSE 0)
  PROVE  BufferInv(s)'
<1>1. Training' <=> Training
  BY ConfSame
<1>2. FirstEpoch(s)' = IF conf.pipeline = "async" THEN h.epoch ELSE 0
  BY DEF FirstEpoch
<1>3. TrajectoryOf(handler[s], buffer[s], s, FirstEpoch(s))' =
        TrajectoryOf(h, b, s, IF conf.pipeline = "async" THEN h.epoch ELSE 0)
  BY <1>2, Zenon
<1>. QED  BY <1>1, <1>3 DEF BufferInv, Trajectory

\* The epoch a buffer begins with, and how many are complete in it.
LEMMA FirstFacts ==
  ASSUME PerEnvInv, NEW s \in Slots
  PROVE  \E first, q \in Nat : /\ first = FirstEpoch(s) /\ q = handler[s].epoch - first
                               /\ first + q = handler[s].epoch
<1>1. PICK k \in Nat : k = handler[s].epoch
  <2>1. handler[s].epoch \in 0 .. NumEpochs - 1 /\ NumEpochs \in Nat
    BY HandlerFacts
  <2>. QED  BY <2>1
<1>2. CASE conf.pipeline = "async"
  <2>1. k = FirstEpoch(s) /\ 0 = handler[s].epoch - k /\ k + 0 = handler[s].epoch
    BY <1>1, <1>2 DEF FirstEpoch
  <2>. QED  BY <2>1
<1>3. CASE conf.pipeline # "async"
  <2>1. 0 = FirstEpoch(s) /\ k = handler[s].epoch - 0 /\ 0 + k = handler[s].epoch
    BY <1>1, <1>3 DEF FirstEpoch
  <2>. QED  BY <2>1
<1>. QED  BY <1>2, <1>3

LEMMA SubmitKeeps ==
  ASSUME PerEnvInv, NEW s \in Slots, Submit(s)
  PROVE  PerEnvInv'
<1>1. /\ handler[s].pc = "recv" /\ obsQ[s] # <<>> /\ Training
      /\ UNCHANGED <<conf, env, replyQ, link, boosted, generate>>
  BY DEF Submit
<1>2. PICK k \in 0 .. NumEpochs - 1, n \in -1 .. NumSteps - 1 :
        /\ k = env[EnvOf(s)].epoch /\ n = env[EnvOf(s)].step
        /\ OpenIn(env[EnvOf(s)], IndexOf(s))
        /\ Training \/ n < NumSteps - 1
        /\ replyQ[s] = <<>>
        /\ obsQ[s] = <<Observation(s, k, n)>> /\ At(s, k, n)
  <2>1. \A k, n : ~Working(s, k, n)
    BY <1>1 DEF Working, Works, Engaged, Receiving
  <2>. QED  BY <1>1, <2>1, AtWork
<1>3. PICK m : m = Observation(s, k, n)
  OBVIOUS
<1>4. PICK g : g = handler[s]
  OBVIOUS
<1>5. PICK h : h = [g EXCEPT !.pc = "infer", !.obs = m]
  OBVIOUS
<1>6. PICK b : b = IF FinalStep(s) THEN Recorded(buffer[s], m, g.last) ELSE buffer[s]
  OBVIOUS
<1>7. /\ handler' = [handler EXCEPT ![s] = h] /\ obsQ' = [obsQ EXCEPT ![s] = Tail(@)]
      /\ requests' = [requests EXCEPT ![RolloutOf(s)] = Append(@, s)]
      /\ buffer' = IF FinalStep(s) THEN [buffer EXCEPT ![s] = b] ELSE buffer
  <2>1. Head(obsQ[s]) = m
    BY <1>2, <1>3
  <2>. QED  BY <1>4, <1>5, <1>6, <2>1, Zenon DEF Submit
<1>8. /\ conf \in Configs /\ handler \in [Slots -> Handlers] /\ buffer \in [Slots -> Lists]
      /\ obsQ \in [Slots -> Seq(ObsOK)] /\ replyQ \in [Slots -> Seq(Replies)]
      /\ requests \in [Rollouts -> Seq(Slots)]
      /\ g \in Handlers /\ buffer[s] \in Lists
      /\ NumSteps \in Nat /\ NumSteps > 0 /\ NumEpochs \in Nat /\ NumEpochs > 0
      /\ RolloutOf(s) \in Rollouts
  BY <1>4, HandlerFacts
<1>9. m \in ObsOK /\ m # None /\ Plain(m)
  <2>1. k \in Nat /\ n \in Int
    BY <1>8
  <2>. QED  BY <1>3, <1>8, <2>1, ObservationType
<1>10. g.pc = "recv" /\ g.epoch = k /\ g.step = n + 1 /\ n + 1 \in 0 .. NumSteps
  <2>1. n + 1 \in 0 .. NumSteps
    BY <1>8
  <2>. QED  BY <1>1, <1>2, <1>4, <2>1 DEF At
<1>11. /\ h.pc = "infer" /\ h.obs = m /\ h.epoch = k /\ h.step = n + 1 /\ h.last = g.last
       /\ h \in Handlers
  <2>1. "infer" \in Engaged
    BY DEF Engaged
  <2>. QED  BY <1>5, <1>8, <1>9, <1>10, <2>1 DEF Handlers
<1>12. handler'[s] = h /\ buffer'[s] = b /\ obsQ'[s] = <<>>
  <2>1. obsQ'[s] = Tail(<<Observation(s, k, n)>>)
    BY <1>2, <1>7, <1>8
  <2>. QED  BY <1>6, <1>7, <1>8, <2>1
<1>13. Outstanding(s, k, n)'
  <2>1. Observation(s, k, n)' = m
    BY <1>1, <1>3, ConfSame
  <2>2. h.pc \in Engaged /\ h.pc \notin {"ship", "ack"}
    BY <1>11 DEF Engaged
  <2>3. Works(s)'
    BY <1>12, <2>2 DEF Works
  <2>4. Working(s, k, n)'
    BY <1>11, <1>12, <2>1, <2>2, <2>3 DEF Working
  <2>. QED  BY <1>1, <1>2, <1>12, <2>4 DEF Outstanding
<1>14. /\ b \in Lists
       /\ Training => TrajectoryOf(h, b, s, FirstEpoch(s))
  <2>1. CASE ~Training
    BY <1>6, <1>8, <2>1 DEF FinalStep
  <2>2. CASE Training
    <3>1. PICK first \in Nat, q \in Nat : first = FirstEpoch(s) /\ q = k - first /\ first + q = k
      BY <1>4, <1>10, FirstFacts
    <3>2. TrajectoryOf(g, buffer[s], s, first)
      BY <1>4, <2>2, <3>1, HandlerFacts DEF Trajectory
    <3>3. PICK r \in 0 .. NumSteps : r = n + 1
      BY <1>10
    <3>4. RecordedCount(g) = r /\ ValueCount(g) = r
      BY <1>8, <1>10, <3>3 DEF RecordedCount, ValueCount
    <3>5. /\ AreTags(buffer[s].values, s, first, -1, NumSteps + 1, q, r)
          /\ RecordsFit(buffer[s], s, first, q, r)
          /\ g.last = LastTag(s, k, r)
      BY <1>10, <3>1, <3>2, <3>3, <3>4, Zenon DEF TrajectoryOf
    <3>7. FinalStep(s) <=> r = NumSteps
      BY <1>4, <1>10, <2>2, <3>3 DEF FinalStep
    <3>8. CASE r = NumSteps
      <4>1. b = Recorded(buffer[s], Observation(s, first + q, r - 1), LastTag(s, first + q, r))
        <5>1. r - 1 = n
          BY <3>3
        <5>. QED  BY <1>3, <1>6, <3>1, <3>5, <3>7, <3>8, <5>1
      <4>2. b \in Lists /\ b.values = buffer[s].values /\ RecordsFit(b, s, first, q, r + 1)
        <5>1. buffer[s] \in Lists /\ RecordsFit(buffer[s], s, first, q, r) /\ conf \in Configs
          BY <1>8, <3>5
        <5>2. LET c == Recorded(buffer[s], Observation(s, first + q, r - 1), LastTag(s, first + q, r)) IN
              c \in Lists /\ c.values = buffer[s].values /\ RecordsFit(c, s, first, q, r + 1)
          BY <2>2, <5>1, RecordsOne
        <5>. QED  BY <4>1, <5>2, Zenon
      <4>3. RecordedCount(h) = r + 1 /\ ValueCount(h) = r
        BY <1>8, <1>11, <3>3, <3>8 DEF RecordedCount, ValueCount
      <4>4. h.epoch - first = q /\ h.pc \notin {"ship", "ack", "over"}
        BY <1>11, <3>1
      <4>5. h.last = LastTag(s, h.epoch, h.step)
        BY <1>11, <3>3, <3>5
      <4>6. AreTags(b.values, s, first, -1, NumSteps + 1, q, r)
        BY <3>5, <4>2
      <4>. QED  BY <3>1, <4>2, <4>3, <4>4, <4>5, <4>6, Zenon DEF TrajectoryOf
    <3>9. CASE r # NumSteps
      <4>1. b = buffer[s]
        BY <1>6, <3>7, <3>9
      <4>2. RecordedCount(h) = r /\ ValueCount(h) = r
        BY <1>8, <1>11, <3>3, <3>9 DEF RecordedCount, ValueCount
      <4>3. h.epoch - first = q /\ h.pc \notin {"ship", "ack", "over"}
        BY <1>11, <3>1
      <4>4. h.last = LastTag(s, h.epoch, h.step)
        BY <1>11, <3>3, <3>5
      <4>5. b \in Lists
        BY <1>8, <4>1
      <4>. QED  BY <3>1, <3>5, <4>1, <4>2, <4>3, <4>4, <4>5, Zenon DEF TrajectoryOf
    <3>. QED  BY <3>8, <3>9
  <2>. QED  BY <2>1, <2>2
<1>15. BufferInv(s)'
  <2>1. FirstEpoch(s) = IF conf.pipeline = "async" THEN h.epoch ELSE 0
    BY <1>4, <1>10, <1>11 DEF FirstEpoch
  <2>. QED  BY <1>1, <1>12, <1>14, <2>1, TrajectoryIntro
<1>16. /\ \A r \in Rollouts : RequestInv(r)'
       /\ requests' \in [Rollouts -> Seq(Slots)]
  BY <1>1, <1>7, <1>11, RequestsGrow
<1>17. buffer' \in [Slots -> Lists] /\ \A t \in Slots \ {s} : buffer'[t] = buffer[t]
  BY <1>7, <1>8, <1>14
<1>18. /\ obsQ' \in [Slots -> Seq(ObsOK)] /\ replyQ' \in [Slots -> Seq(Replies)]
       /\ \A t \in Slots \ {s} : obsQ'[t] = obsQ[t] /\ replyQ'[t] = replyQ[t]
  <2>1. Tail(obsQ[s]) \in Seq(ObsOK)
    BY <1>1, <1>8
  <2>. QED  BY <1>1, <1>7, <1>8, <2>1
<1>19. (\A t \in Slots : GetInv(t)') /\ \A r \in Rollouts : LinkInv(r)'
  <2>1. handler[s].pc \notin Receiving /\ h.pc \notin Receiving
    BY <1>1, <1>11 DEF Receiving
  <2>. QED  BY <1>1, <1>7, <1>9, <1>11, <2>1, GetsStay
<1>. QED  BY <1>1, <1>2, <1>7, <1>11, <1>13, <1>15, <1>16, <1>17, <1>18, <1>19, HandlerMoves

\* A handler at work, between two messages.
LEMMA Engagement ==
  ASSUME PerEnvInv, NEW s \in Slots, NEW g, g = handler[s], g.pc \in Engaged
  PROVE  \E k \in 0 .. NumEpochs - 1, n \in -1 .. NumSteps - 1 :
           /\ k = env[EnvOf(s)].epoch /\ n = env[EnvOf(s)].step
           /\ OpenIn(env[EnvOf(s)], IndexOf(s))
           /\ Training \/ n < NumSteps - 1
           /\ replyQ[s] = <<>> /\ obsQ[s] = <<>>
           /\ g.epoch = k /\ g.step = n + 1 /\ g.obs \in ObsOK /\ Plain(g.obs) /\ g.obs # None
           /\ g.pc \in {"ship", "ack"} => Training /\ n = NumSteps - 1
           /\ GetsItsOwn(s) => /\ g.obs = Observation(s, k, n) /\ g.obs.slot = s
                               /\ g.obs.epoch = k /\ g.obs.step = n
           /\ n + 1 \in 0 .. NumSteps
<1>1. PICK k \in 0 .. NumEpochs - 1, n \in -1 .. NumSteps - 1 :
        /\ k = env[EnvOf(s)].epoch /\ n = env[EnvOf(s)].step
        /\ OpenIn(env[EnvOf(s)], IndexOf(s))
        /\ Training \/ n < NumSteps - 1
        /\ replyQ[s] = <<>>
        /\ obsQ[s] = <<>> /\ Working(s, k, n)
  <2>1. \A k, n : ~At(s, k, n)
    BY DEF At, Waits, Engaged, Receiving
  <2>2. Works(s)
    BY DEF Works
  <2>. QED  BY <2>1, <2>2, AtWork
<1>2. /\ GetsItsOwn(s) => g.obs = Observation(s, k, n)
      /\ g.epoch = k /\ g.step = n + 1
      /\ g.pc \in {"ship", "ack"} => Training /\ n = NumSteps - 1
  BY <1>1 DEF Working
<1>3. NumSteps \in Nat /\ NumEpochs \in Nat /\ conf \in Configs /\ g \in Handlers
  BY HandlerFacts
<1>4. Observation(s, k, n).slot = s /\ Observation(s, k, n).epoch = k /\ Observation(s, k, n).step = n
  <2>1. k \in Nat /\ n \in Int
    BY <1>3
  <2>. QED  BY <1>3, <2>1, ObservationType
<1>5. n + 1 \in 0 .. NumSteps
  BY <1>3
<1>6. g.obs \in ObsOK /\ Plain(g.obs) /\ g.obs # None
  <2>1. g.obs # None /\ Plain(g.obs)
    BY DEF PerEnvInv, GetInv
  <2>. QED  BY <1>3, <2>1 DEF Handlers
<1>. QED  BY <1>1, <1>2, <1>4, <1>5, <1>6

LEMMA ActKeeps ==
  ASSUME PerEnvInv, NEW s \in Slots, Act(s)
  PROVE  PerEnvInv'
<1>1. /\ handler[s].pc = "answered" /\ ~FinalStep(s)
      /\ UNCHANGED <<conf, env, obsQ, link, boosted, requests, generate>>
  BY DEF Act
<1>2. PICK g : g = handler[s]
  OBVIOUS
<1>3. g.pc = "answered" /\ g.pc \in Engaged
  BY <1>1, <1>2 DEF Engaged
<1>4. PICK k \in 0 .. NumEpochs - 1, n \in -1 .. NumSteps - 1 :
        /\ k = env[EnvOf(s)].epoch /\ n = env[EnvOf(s)].step
        /\ OpenIn(env[EnvOf(s)], IndexOf(s))
        /\ Training \/ n < NumSteps - 1
        /\ replyQ[s] = <<>> /\ obsQ[s] = <<>>
        /\ g.epoch = k /\ g.step = n + 1 /\ n + 1 \in 0 .. NumSteps
        /\ g.obs \in ObsOK /\ g.obs # None
        /\ GetsItsOwn(s) => /\ g.obs = Observation(s, k, n) /\ g.obs.slot = s
                            /\ g.obs.epoch = k /\ g.obs.step = n
  BY <1>2, <1>3, Engagement
<1>4a. Training => g.obs = Observation(s, k, n) /\ g.obs.slot = s /\ g.obs.epoch = k /\ g.obs.step = n
  BY <1>4 DEF GetsItsOwn
<1>5. PICK tag : tag = [slot |-> g.obs.slot, epoch |-> g.obs.epoch, step |-> g.obs.step]
  OBVIOUS
<1>5a. Training => tag = [slot |-> s, epoch |-> k, step |-> n]
  BY <1>4a, <1>5
<1>6. PICK h : h = AfterAction(s)
  OBVIOUS
<1>7. PICK b1 : b1 = [buffer[s] EXCEPT !.values = Append(buffer[s].values, tag)]
  OBVIOUS
<1>8. PICK b : b = IF Training THEN Recorded(b1, g.obs, g.last) ELSE buffer[s]
  OBVIOUS
<1>9. Tag(s) = tag
  BY <1>2, <1>5 DEF Tag
<1>10. /\ handler' = [handler EXCEPT ![s] = h]
       /\ replyQ' = [replyQ EXCEPT ![s] = Append(@, Reply(s, "action"))]
       /\ buffer' = IF ~Training THEN buffer ELSE [buffer EXCEPT ![s] = b]
  BY <1>2, <1>6, <1>7, <1>8, <1>9, Zenon DEF Act
<1>11. /\ conf \in Configs /\ handler \in [Slots -> Handlers] /\ buffer \in [Slots -> Lists]
       /\ obsQ \in [Slots -> Seq(ObsOK)] /\ replyQ \in [Slots -> Seq(Replies)]
       /\ requests \in [Rollouts -> Seq(Slots)]
       /\ g \in Handlers /\ buffer[s] \in Lists
       /\ NumSteps \in Nat /\ NumSteps > 0 /\ NumEpochs \in Nat /\ NumEpochs > 0
  BY <1>2, HandlerFacts
<1>12. Training => n + 1 < NumSteps
  <2>1. Training => n + 1 # NumSteps
    BY <1>1, <1>2, <1>4 DEF FinalStep
  <2>. QED  BY <1>4, <1>11, <2>1
<1>13. k \in Nat /\ n \in Int /\ s \in Int /\ tag \in Results
  BY <1>4, <1>5, <1>11, SlotFacts DEF Results, ObsOK
\* The reply, and where the handler goes on.
<1>13a. PICK x : x = Reply(s, "action")
  OBVIOUS
<1>14. x \in Replies /\ ~Unanswered(k, n) /\ Fits(s, x, k, n)
  <2>1. ~(Training /\ n = NumSteps - 1)
    BY <1>11, <1>12
  <2>2. x = [kind |-> "action", slot |-> g.obs.slot, epoch |-> g.obs.epoch, step |-> g.obs.step]
    BY <1>2, <1>13a DEF Reply
  <2>3. ReplyTo(s, k, n) = [kind |-> "action", slot |-> s, epoch |-> k, step |-> n]
    BY <2>1 DEF ReplyTo
  <2>4. x.kind = ReplyTo(s, k, n).kind
    BY <2>2, <2>3
  <2>5. GetsItsOwn(s) => x = ReplyTo(s, k, n)
    BY <1>4, <2>2, <2>3
  <2>6. x \in Replies
    BY <1>4, <2>2 DEF Replies, ObsOK
  <2>. QED  BY <2>1, <2>4, <2>5, <2>6 DEF Fits, Unanswered
<1>15. \/ /\ Training \/ n + 1 < NumSteps - 1
          /\ h = [g EXCEPT !.pc = "recv", !.step = n + 2, !.obs = None, !.last = tag]
       \/ /\ ~Training /\ n + 1 = NumSteps - 1 /\ k < NumEpochs - 1
          /\ h = [g EXCEPT !.pc = "recv", !.epoch = k + 1, !.step = 0, !.obs = None]
       \/ /\ ~Training /\ n + 1 = NumSteps - 1 /\ k = NumEpochs - 1
          /\ h = [g EXCEPT !.pc = "over", !.obs = None]
  <2>1. CASE Training \/ n + 1 < NumSteps - 1
    <3>1. h = [g EXCEPT !.pc = "recv", !.step = g.step + 1, !.obs = None, !.last = tag]
      BY <1>2, <1>4, <1>6, <1>9, <2>1 DEF AfterAction
    <3>2. g.step + 1 = n + 2
      BY <1>4
    <3>. QED  BY <2>1, <3>1, <3>2
  <2>2. CASE ~Training /\ ~(n + 1 < NumSteps - 1)
    <3>1. n + 1 = NumSteps - 1
      BY <1>4, <1>11, <2>2
    <3>2. CASE k < NumEpochs - 1
      BY <1>2, <1>4, <1>6, <2>2, <3>1, <3>2 DEF AfterAction
    <3>3. CASE ~(k < NumEpochs - 1)
      <4>1. k = NumEpochs - 1
        BY <1>11, <3>3
      <4>. QED  BY <1>2, <1>4, <1>6, <2>2, <3>1, <3>3, <4>1 DEF AfterAction
    <3>. QED  BY <3>2, <3>3
  <2>. QED  BY <2>1, <2>2
<1>16. h \in Handlers /\ h.pc \in {"recv", "over"} /\ h.obs = None
  <2>1. n + 1 < NumSteps => n + 2 \in 0 .. NumSteps
    BY <1>11
  <2>2. k < NumEpochs - 1 => k + 1 \in 0 .. NumEpochs - 1
    BY <1>11
  <2>3. 0 \in 0 .. NumSteps
    BY <1>11
  <2>4. n + 1 < NumSteps - 1 => n + 1 < NumSteps
    BY <1>11
  <2>. QED  BY <1>11, <1>12, <1>13, <1>15, <2>1, <2>2, <2>3, <2>4 DEF Handlers
<1>17. handler'[s] = h /\ buffer'[s] = b /\ replyQ'[s] = <<x>>
  BY <1>4, <1>8, <1>10, <1>11, <1>13a
<1>18. Outstanding(s, k, n)'
  <2>1. Fits(s, x, k, n)' /\ (Unanswered(k, n)' <=> Unanswered(k, n))
        /\ \A i : IsLast(i)' <=> IsLast(i)
    BY <1>1, <1>14, ConfSame DEF Unanswered
  <2>2. Training' <=> Training
    BY <1>1, ConfSame
  <2>3. After(s, k, n)'
    <3>1. CASE Training \/ n + 1 < NumSteps - 1
      <4>1. ~IsLast(n)
        BY <1>11, <1>12, <3>1 DEF IsLast
      <4>2. h.pc = "recv" /\ h.epoch = k /\ h.step = (n + 1) + 1
        <5>1. h = [g EXCEPT !.pc = "recv", !.step = n + 2, !.obs = None, !.last = tag]
          BY <1>11, <1>15, <3>1
        <5>2. g \in Handlers /\ g.epoch = k /\ n + 2 = (n + 1) + 1
          BY <1>4, <1>11
        <5>. QED  BY <5>1, <5>2 DEF Handlers
      <4>. QED  BY <1>17, <2>1, <4>1, <4>2 DEF After, At, Waits
    <3>2. CASE ~(Training \/ n + 1 < NumSteps - 1)
      <4>1. IsLast(n)
        BY <1>11, <1>15, <3>2 DEF IsLast
      <4>2. \/ k < NumEpochs - 1 /\ h.pc = "recv" /\ h.epoch = k + 1 /\ h.step = -1 + 1
            \/ ~(k < NumEpochs - 1) /\ h.pc = "over" /\ h.epoch = k
        <5>1. g \in Handlers /\ g.epoch = k /\ -1 + 1 = 0
          BY <1>4, <1>11
        <5>2. CASE k < NumEpochs - 1
          <6>1. h = [g EXCEPT !.pc = "recv", !.epoch = k + 1, !.step = 0, !.obs = None]
            BY <1>11, <1>15, <3>2, <5>2
          <6>. QED  BY <5>1, <5>2, <6>1 DEF Handlers
        <5>3. CASE ~(k < NumEpochs - 1)
          <6>1. h = [g EXCEPT !.pc = "over", !.obs = None]
            BY <1>15, <3>2, <5>3
          <6>. QED  BY <5>1, <5>3, <6>1 DEF Handlers
        <5>. QED  BY <5>2, <5>3
      <4>. QED  BY <1>17, <2>1, <2>2, <3>2, <4>1, <4>2 DEF After, At, Waits
    <3>. QED  BY <3>1, <3>2
  <2>4. Answered(s, replyQ[s], k, n)'
    BY <1>14, <1>17, <2>1 DEF Answered
  <2>. QED  BY <1>1, <1>4, <2>3, <2>4 DEF Outstanding
<1>19. b \in Lists /\ (Training => TrajectoryOf(h, b, s, FirstEpoch(s)) /\ h.epoch = k)
  <2>1. CASE ~Training
    BY <1>8, <1>11, <2>1
  <2>2. CASE Training
    <3>1. PICK first \in Nat, q \in Nat : first = FirstEpoch(s) /\ q = k - first /\ first + q = k
      BY <1>2, <1>4, FirstFacts
    <3>2. TrajectoryOf(g, buffer[s], s, first)
      BY <1>2, <2>2, <3>1, HandlerFacts DEF Trajectory
    <3>3. PICK r \in 0 .. NumSteps : r = n + 1 /\ r < NumSteps
      BY <1>4, <1>12, <2>2
    <3>4. RecordedCount(g) = r /\ ValueCount(g) = r
      BY <1>3, <1>4, <1>11, <3>3 DEF RecordedCount, ValueCount
    <3>5. /\ AreTags(buffer[s].values, s, first, -1, NumSteps + 1, q, r)
          /\ RecordsFit(buffer[s], s, first, q, r)
          /\ g.last = LastTag(s, k, r)
      BY <1>4, <3>1, <3>2, <3>3, <3>4, Zenon DEF TrajectoryOf
    <3>6. PICK vs : vs = Append(buffer[s].values, tag)
      OBVIOUS
    <3>7. vs \in Seq(Results)
      <4>1. buffer[s].values \in Seq(Results)
        BY <1>11 DEF Lists
      <4>2. Append(buffer[s].values, tag) \in Seq(Results)
        BY <1>13, <4>1
      <4>. QED  BY <3>6, <4>2, Zenon
    <3>8. b1 = [buffer[s] EXCEPT !.values = vs]
      BY <1>7, <3>6, Zenon
    <3>9. /\ b1 \in Lists /\ b1.values = vs /\ b1.dones = buffer[s].dones
          /\ b1.rewards = buffer[s].rewards /\ b1.inputs = buffer[s].inputs
      BY <1>11, <3>7, <3>8 DEF Lists
    <3>10. RecordsFit(b1, s, first, q, r)
      BY <3>5, <3>9, Zenon DEF RecordsFit
    <3>11. AreTags(vs, s, first, -1, NumSteps + 1, q, r + 1)
      <4>1. tag = TagAt(s, first, -1, q, r)
        BY <1>5a, <1>13, <2>2, <3>1, <3>3 DEF TagAt
      <4>2. r \in 0 .. (NumSteps + 1) - 1 /\ NumSteps + 1 \in Positive
        BY <1>11, <3>3 DEF Positive
      <4>3. AreTags(Append(buffer[s].values, tag), s, first, -1, NumSteps + 1, q, r + 1)
        BY <3>5, <4>1, <4>2, TagsAppend
      <4>. QED  BY <3>6, <4>3, Zenon
    <3>12. b = Recorded(b1, Observation(s, first + q, r - 1), LastTag(s, first + q, r))
      <4>1. r - 1 = n
        BY <3>3
      <4>. QED  BY <1>4a, <1>8, <2>2, <3>1, <3>5, <4>1
    <3>13. b \in Lists /\ b.values = b1.values /\ RecordsFit(b, s, first, q, r + 1)
      <4>1. LET c == Recorded(b1, Observation(s, first + q, r - 1), LastTag(s, first + q, r)) IN
            c \in Lists /\ c.values = b1.values /\ RecordsFit(c, s, first, q, r + 1)
        BY <1>11, <2>2, <3>9, <3>10, RecordsOne
      <4>. QED  BY <3>12, <4>1, Zenon
    <3>14. h = [g EXCEPT !.pc = "recv", !.step = n + 2, !.obs = None, !.last = tag]
      BY <1>15, <2>2
    <3>15. h.pc = "recv" /\ h.epoch = k /\ h.step = r + 1 /\ h.last = tag
      BY <1>4, <1>11, <3>3, <3>14 DEF Handlers
    <3>16. RecordedCount(h) = r + 1 /\ ValueCount(h) = r + 1
      BY <3>15 DEF RecordedCount, ValueCount
    <3>17. tag = LastTag(s, k, r + 1)
      BY <1>5a, <2>2, <3>3 DEF LastTag
    <3>18. /\ h.epoch - first = q /\ h.pc \notin {"ship", "ack", "over"}
           /\ h.last = LastTag(s, h.epoch, h.step)
      BY <3>1, <3>15, <3>17
    <3>19. AreTags(b.values, s, first, -1, NumSteps + 1, q, r + 1)
      BY <3>9, <3>11, <3>13
    <3>. QED  BY <3>1, <3>13, <3>15, <3>16, <3>18, <3>19, Zenon DEF TrajectoryOf
  <2>. QED  BY <2>1, <2>2
<1>20. BufferInv(s)'
  <2>1. Training => FirstEpoch(s) = IF conf.pipeline = "async" THEN h.epoch ELSE 0
    BY <1>2, <1>4, <1>19 DEF FirstEpoch
  <2>2. Training => TrajectoryOf(h, b, s, IF conf.pipeline = "async" THEN h.epoch ELSE 0)
    BY <1>19, <2>1, Zenon
  <2>. QED  BY <1>1, <1>17, <2>2, TrajectoryIntro
<1>21. \A r \in Rollouts : RequestInv(r)'
  BY <1>1, <1>10, <1>16, RequestsStay
<1>21a. (\A t \in Slots : GetInv(t)') /\ \A r \in Rollouts : LinkInv(r)'
  <2>1. handler[s].pc \notin Receiving /\ h.pc \notin Receiving /\ h.pc \notin Engaged
    BY <1>1, <1>16 DEF Receiving, Engaged
  <2>. QED  BY <1>1, <1>10, <1>16, <2>1, GetsStay
<1>22. buffer' \in [Slots -> Lists] /\ \A t \in Slots \ {s} : buffer'[t] = buffer[t]
  BY <1>10, <1>11, <1>19
<1>23. /\ obsQ' \in [Slots -> Seq(ObsOK)] /\ requests' \in [Rollouts -> Seq(Slots)]
       /\ replyQ' \in [Slots -> Seq(Replies)]
       /\ \A t \in Slots \ {s} : obsQ'[t] = obsQ[t] /\ replyQ'[t] = replyQ[t]
  BY <1>1, <1>10, <1>11, <1>13a, <1>14
<1>. QED  BY <1>1, <1>4, <1>10, <1>16, <1>18, <1>20, <1>21, <1>21a, <1>22, <1>23,
          HandlerMoves

\* Steps that change neither queue of the slot: the handler goes from answered
\* to ship or ack, or from ship to ack.
LEMMA FinishKeeps ==
  ASSUME PerEnvInv, NEW s \in Slots, Bootstrap(s) \/ Ship(s)
  PROVE  PerEnvInv'
<1>1. UNCHANGED <<conf, env, obsQ, replyQ, link, boosted, requests, generate>>
  BY DEF Bootstrap, Ship
<1>2. PICK g : g = handler[s]
  OBVIOUS
<1>3. g.pc \in {"answered", "ship"} /\ g.pc \in Engaged
  BY <1>2 DEF Bootstrap, Ship, Engaged
<1>4. PICK k \in 0 .. NumEpochs - 1, n \in -1 .. NumSteps - 1 :
        /\ k = env[EnvOf(s)].epoch /\ n = env[EnvOf(s)].step
        /\ OpenIn(env[EnvOf(s)], IndexOf(s))
        /\ replyQ[s] = <<>> /\ obsQ[s] = <<>>
        /\ g.epoch = k /\ g.step = n + 1 /\ Plain(g.obs) /\ g.obs # None
        /\ g.pc \in {"ship", "ack"} => Training /\ n = NumSteps - 1
        /\ Training
        /\ g.obs = Observation(s, k, n) /\ g.obs.slot = s
        /\ g.obs.epoch = k /\ g.obs.step = n
  <2>1. PICK k \in 0 .. NumEpochs - 1, n \in -1 .. NumSteps - 1 :
          /\ k = env[EnvOf(s)].epoch /\ n = env[EnvOf(s)].step
          /\ OpenIn(env[EnvOf(s)], IndexOf(s))
          /\ replyQ[s] = <<>> /\ obsQ[s] = <<>>
          /\ g.epoch = k /\ g.step = n + 1 /\ Plain(g.obs) /\ g.obs # None
          /\ g.pc \in {"ship", "ack"} => Training /\ n = NumSteps - 1
          /\ GetsItsOwn(s) => /\ g.obs = Observation(s, k, n) /\ g.obs.slot = s
                              /\ g.obs.epoch = k /\ g.obs.step = n
    BY <1>2, <1>3, Engagement
  <2>2. Training
    BY <1>2, <2>1 DEF Bootstrap, Ship, FinalStep
  <2>3. GetsItsOwn(s)
    BY <2>2 DEF GetsItsOwn
  <2>. QED  BY <2>1, <2>2, <2>3
<1>5. PICK tag : tag = [slot |-> s, epoch |-> k, step |-> n]
  OBVIOUS
<1>6. Tag(s) = tag
  BY <1>2, <1>4, <1>5 DEF Tag
<1>7. PICK b : b = IF g.pc = "ship" THEN buffer[s]
                   ELSE [buffer[s] EXCEPT !.values = Append(buffer[s].values, tag)]
  OBVIOUS
<1>8. /\ conf \in Configs /\ handler \in [Slots -> Handlers] /\ buffer \in [Slots -> Lists]
      /\ obsQ \in [Slots -> Seq(ObsOK)] /\ replyQ \in [Slots -> Seq(Replies)]
      /\ requests \in [Rollouts -> Seq(Slots)]
      /\ g \in Handlers /\ buffer[s] \in Lists
      /\ NumSteps \in Nat /\ NumSteps > 0 /\ NumEpochs \in Nat /\ NumEpochs > 0
  BY <1>2, HandlerFacts
<1>9. PICK h : h = handler'[s]
  OBVIOUS
<1>10. /\ Training /\ n = NumSteps - 1
       /\ h = [g EXCEPT !.pc = h.pc] /\ h.pc \in {"ship", "ack"}
       /\ handler' = [handler EXCEPT ![s] = h]
       /\ buffer' = [buffer EXCEPT ![s] = b]
  <2>1. CASE Bootstrap(s)
    <3>1. g.pc = "answered" /\ Training /\ g.step = NumSteps
      BY <1>2, <2>1 DEF Bootstrap, FinalStep
    <3>2. PICK pc \in {"ship", "ack"} : handler' = [handler EXCEPT ![s].pc = pc]
      BY <2>1 DEF Bootstrap
    <3>3. h = [g EXCEPT !.pc = pc]
      BY <1>2, <1>8, <1>9, <3>2
    <3>4. h.pc = pc
      BY <1>8, <3>3 DEF Handlers
    <3>5. handler' = [handler EXCEPT ![s] = h]
      BY <1>2, <1>8, <3>2, <3>3
    <3>6. buffer' = [buffer EXCEPT ![s].values = Append(@, tag)]
      BY <1>6, <2>1 DEF Bootstrap
    <3>7. b = [buffer[s] EXCEPT !.values = Append(buffer[s].values, tag)]
      BY <1>7, <3>1
    <3>8. buffer' = [buffer EXCEPT ![s] = b]
      BY <3>6, <3>7, Zenon
    <3>9. n = NumSteps - 1
      BY <1>4, <1>8, <3>1
    <3>. QED  BY <3>1, <3>3, <3>4, <3>5, <3>8, <3>9
  <2>2. CASE Ship(s)
    <3>1. g.pc = "ship" /\ handler' = [handler EXCEPT ![s].pc = "ack"] /\ buffer' = buffer
      BY <1>2, <2>2 DEF Ship
    <3>2. h = [g EXCEPT !.pc = "ack"]
      BY <1>2, <1>8, <1>9, <3>1
    <3>3. h.pc = "ack"
      BY <1>8, <3>2 DEF Handlers
    <3>4. handler' = [handler EXCEPT ![s] = h]
      BY <1>2, <1>8, <3>1, <3>2
    <3>5. buffer' = [buffer EXCEPT ![s] = b]
      BY <1>7, <1>8, <3>1
    <3>. QED  BY <1>4, <3>1, <3>2, <3>3, <3>4, <3>5
  <2>. QED  BY <2>1, <2>2
<1>11. /\ h \in Handlers /\ h.epoch = k /\ h.step = n + 1 /\ h.obs = g.obs /\ h.last = g.last
       /\ h.pc \in Engaged
  <2>1. h.pc \in Engaged
    BY <1>10 DEF Engaged
  <2>. QED  BY <1>4, <1>8, <1>10, <2>1 DEF Handlers
<1>12. Outstanding(s, k, n)'
  <2>1. Observation(s, k, n)' = g.obs /\ (Training' <=> Training)
    BY <1>1, <1>4, ConfSame
  <2>2. handler'[s] = h
    BY <1>9
  <2>3. Works(s)'
    BY <1>11, <2>2 DEF Works
  <2>4. Working(s, k, n)'
    BY <1>10, <1>11, <2>1, <2>2, <2>3 DEF Working
  <2>. QED  BY <1>1, <1>4, <2>4 DEF Outstanding
<1>13. PICK first \in Nat, q \in Nat : first = FirstEpoch(s) /\ q = k - first /\ first + q = k
  BY <1>2, <1>4, FirstFacts
<1>14. TrajectoryOf(g, buffer[s], s, first)
  BY <1>2, <1>10, <1>13, HandlerFacts DEF Trajectory
<1>15. g.step = NumSteps /\ h.step = NumSteps /\ h.epoch - first = q /\ g.epoch - first = q
  BY <1>4, <1>8, <1>10, <1>11, <1>13
<1>16. /\ RecordedCount(g) = NumSteps + 1 /\ RecordedCount(h) = NumSteps + 1
       /\ ValueCount(h) = NumSteps + 1
       /\ ValueCount(g) = IF g.pc = "ship" THEN NumSteps + 1 ELSE NumSteps
  BY <1>3, <1>10, <1>15 DEF RecordedCount, ValueCount
<1>17. PICK vs : vs = Append(buffer[s].values, tag)
  OBVIOUS
<1>18. b \in Lists /\ b.dones = buffer[s].dones /\ b.rewards = buffer[s].rewards
       /\ b.inputs = buffer[s].inputs /\ AreTags(b.values, s, first, -1, NumSteps + 1, q, NumSteps + 1)
  <2>1. AreTags(buffer[s].values, s, first, -1, NumSteps + 1, q, ValueCount(g))
    BY <1>14, <1>15, Zenon DEF TrajectoryOf
  <2>2. CASE g.pc = "ship"
    BY <1>7, <1>8, <1>16, <2>1, <2>2
  <2>3. CASE g.pc # "ship"
    <3>1. tag = TagAt(s, first, -1, q, NumSteps)
      BY <1>5, <1>8, <1>10, <1>13 DEF TagAt
    <3>2. NumSteps \in 0 .. (NumSteps + 1) - 1 /\ NumSteps + 1 \in Positive
      BY <1>8 DEF Positive
    <3>3. AreTags(Append(buffer[s].values, tag), s, first, -1, NumSteps + 1, q, NumSteps + 1)
      BY <1>16, <2>1, <2>3, <3>1, <3>2, TagsAppend
    <3>4. AreTags(vs, s, first, -1, NumSteps + 1, q, NumSteps + 1)
      BY <1>17, <3>3, Zenon
    <3>5. vs \in Seq(Results)
      <4>1. buffer[s].values \in Seq(Results)
        BY <1>8 DEF Lists
      <4>2. tag \in Results
        BY <1>5, <1>8, SlotFacts DEF Results
      <4>3. Append(buffer[s].values, tag) \in Seq(Results)
        BY <4>1, <4>2
      <4>. QED  BY <1>17, <4>3, Zenon
    <3>6. b = [buffer[s] EXCEPT !.values = vs]
      BY <1>7, <1>17, <2>3, Zenon
    <3>7. /\ b \in Lists /\ b.values = vs /\ b.dones = buffer[s].dones
          /\ b.rewards = buffer[s].rewards /\ b.inputs = buffer[s].inputs
      BY <1>8, <3>5, <3>6 DEF Lists
    <3>. QED  BY <3>4, <3>7
  <2>. QED  BY <2>2, <2>3
<1>19. RecordsFit(b, s, first, q, NumSteps + 1)
  <2>1. RecordsFit(buffer[s], s, first, q, NumSteps + 1)
    BY <1>14, <1>15, <1>16, Zenon DEF TrajectoryOf
  <2>. QED  BY <1>18, <2>1, Zenon DEF RecordsFit
<1>20. TrajectoryOf(h, b, s, first)
  <2>1. h.last = LastTag(s, h.epoch, h.step)
    BY <1>4, <1>11, <1>14, <1>15 DEF TrajectoryOf
  <2>. QED  BY <1>15, <1>16, <1>18, <1>19, <2>1, Zenon DEF TrajectoryOf
<1>21. BufferInv(s)'
  <2>1. FirstEpoch(s) = IF conf.pipeline = "async" THEN h.epoch ELSE 0
    BY <1>2, <1>4, <1>11 DEF FirstEpoch
  <2>2. handler'[s] = h /\ buffer'[s] = b
    BY <1>8, <1>9, <1>10
  <2>. QED  BY <1>1, <1>13, <1>20, <2>1, <2>2, TrajectoryIntro
<1>22. \A r \in Rollouts : RequestInv(r)'
  <2>1. h.pc # "infer" /\ handler[s].pc # "infer"
    BY <1>2, <1>3, <1>10
  <2>. QED  BY <1>1, <1>10, <2>1, RequestsStay
<1>22a. (\A t \in Slots : GetInv(t)') /\ \A r \in Rollouts : LinkInv(r)'
  <2>1. handler[s].pc \notin Receiving /\ h.pc \notin Receiving /\ h.pc # "recv"
    BY <1>2, <1>3, <1>11 DEF Receiving, Engaged
  <2>. QED  BY <1>1, <1>4, <1>10, <1>11, <2>1, GetsStay
<1>23. /\ buffer' \in [Slots -> Lists] /\ obsQ' \in [Slots -> Seq(ObsOK)]
       /\ requests' \in [Rollouts -> Seq(Slots)] /\ replyQ' \in [Slots -> Seq(Replies)]
       /\ \A t \in Slots \ {s} : /\ obsQ'[t] = obsQ[t] /\ replyQ'[t] = replyQ[t]
                                 /\ buffer'[t] = buffer[t]
  BY <1>1, <1>8, <1>10, <1>18
<1>. QED  BY <1>1, <1>4, <1>10, <1>11, <1>12, <1>21, <1>22, <1>22a, <1>23, HandlerMoves

LEMMA AcknowledgeKeeps ==
  ASSUME PerEnvInv, NEW s \in Slots, Acknowledge(s)
  PROVE  PerEnvInv'
<1>1. UNCHANGED <<conf, env, obsQ, link, boosted, requests, generate>>
  BY DEF Acknowledge
<1>2. PICK g : g = handler[s]
  OBVIOUS
<1>3. g.pc = "ack" /\ g.pc \in Engaged
  BY <1>2 DEF Acknowledge, Engaged
<1>4. PICK k \in 0 .. NumEpochs - 1, n \in -1 .. NumSteps - 1 :
        /\ k = env[EnvOf(s)].epoch /\ n = env[EnvOf(s)].step
        /\ OpenIn(env[EnvOf(s)], IndexOf(s))
        /\ replyQ[s] = <<>> /\ obsQ[s] = <<>>
        /\ g.epoch = k /\ g.step = n + 1
        /\ Training /\ n = NumSteps - 1
        /\ GetsItsOwn(s) => g.obs.slot = s /\ g.obs.epoch = k /\ g.obs.step = n
  BY <1>2, <1>3, Engagement
<1>4a. g.obs.slot = s /\ g.obs.epoch = k /\ g.obs.step = n
  BY <1>4 DEF GetsItsOwn
<1>4b. PICK x : x = ReplyTo(s, k, n)
  OBVIOUS
<1>5. /\ conf \in Configs /\ handler \in [Slots -> Handlers] /\ buffer \in [Slots -> Lists]
      /\ obsQ \in [Slots -> Seq(ObsOK)] /\ replyQ \in [Slots -> Seq(Replies)]
      /\ requests \in [Rollouts -> Seq(Slots)]
      /\ g \in Handlers /\ buffer[s] \in Lists
      /\ NumSteps \in Nat /\ NumSteps > 0 /\ NumEpochs \in Nat /\ NumEpochs > 0
  BY <1>2, HandlerFacts
<1>6. PICK h : h = IF k < NumEpochs - 1
                   THEN [pc |-> "recv", epoch |-> k + 1, step |-> 0, obs |-> None, last |-> None]
                   ELSE [g EXCEPT !.pc = "over", !.obs = None]
  OBVIOUS
<1>7. PICK b : b = IF k < NumEpochs - 1 /\ conf.pipeline = "async" THEN EmptyBuffer ELSE buffer[s]
  OBVIOUS
<1>8. handler' = [handler EXCEPT ![s] = h] /\ buffer' = [buffer EXCEPT ![s] = b]
  <2>1. handler[s].epoch = k
    BY <1>2, <1>4
  <2>2. handler' = [handler EXCEPT ![s] = h]
    BY <1>2, <1>6, <2>1 DEF Acknowledge
  <2>3. b = IF k < NumEpochs - 1 THEN NextBuffer(s) ELSE buffer[s]
    BY <1>7 DEF NextBuffer
  <2>4. buffer' = [buffer EXCEPT ![s] = b]
    BY <2>1, <2>3 DEF Acknowledge
  <2>. QED  BY <2>2, <2>4
<1>9. \/ /\ k < NumEpochs - 1 /\ replyQ'[s] = <<x>>
         /\ h.pc = "recv" /\ h.epoch = k + 1 /\ h.step = 0 /\ h.last = None /\ h.obs = None
      \/ /\ k = NumEpochs - 1 /\ replyQ' = replyQ /\ h.obs = None
         /\ h.pc = "over" /\ h.epoch = k /\ h.step = NumSteps /\ h.last = g.last
  <2>0. handler[s].epoch = k
    BY <1>2, <1>4
  <2>1. CASE k < NumEpochs - 1
    <3>1. SendsAck(s)
      BY <1>2, <1>4, <2>1 DEF SendsAck
    <3>2. Reply(s, "ack") = x
      BY <1>2, <1>4, <1>4a, <1>4b DEF Reply, ReplyTo
    <3>3. replyQ' = [replyQ EXCEPT ![s] = Append(@, x)]
      BY <3>1, <3>2 DEF Acknowledge
    <3>4. replyQ'[s] = Append(<<>>, x)
      BY <1>4, <1>5, <3>3
    <3>5. h = [pc |-> "recv", epoch |-> k + 1, step |-> 0, obs |-> None, last |-> None]
      BY <1>6, <2>1
    <3>. QED  BY <2>1, <3>4, <3>5
  <2>2. CASE ~(k < NumEpochs - 1)
    <3>1. k = NumEpochs - 1 /\ ~SendsAck(s)
      BY <1>5, <2>0, <2>2 DEF SendsAck
    <3>2. replyQ' = replyQ
      BY <3>1 DEF Acknowledge
    <3>3. h = [g EXCEPT !.pc = "over", !.obs = None]
      BY <1>6, <2>2
    <3>4. h.pc = "over" /\ h.epoch = g.epoch /\ h.step = g.step /\ h.last = g.last /\ h.obs = None
      BY <1>5, <3>3 DEF Handlers
    <3>5. g.epoch = k /\ g.step = NumSteps
      <4>1. n + 1 = NumSteps
        BY <1>4, <1>5
      <4>. QED  BY <1>4, <4>1
    <3>. QED  BY <3>1, <3>2, <3>4, <3>5
  <2>. QED  BY <2>1, <2>2
<1>10. h \in Handlers
  <2>1. k < NumEpochs - 1 => k + 1 \in 0 .. NumEpochs - 1
    BY <1>5
  <2>2. 0 \in 0 .. NumSteps
    BY <1>5
  <2>. QED  BY <1>5, <1>6, <2>1, <2>2 DEF Handlers
<1>11. handler'[s] = h /\ buffer'[s] = b
  BY <1>5, <1>8
<1>12. IsLast(n)
  BY <1>4 DEF IsLast
<1>13. Outstanding(s, k, n)'
  <2>1. /\ IsLast(n)' /\ (Training' <=> Training)
        /\ Fits(s, x, k, n)' <=> Fits(s, x, k, n)
    BY <1>1, <1>12, ConfSame
  <2>2. Answered(s, replyQ[s], k, n)'
    <3>1. CASE k < NumEpochs - 1
      <4>1. replyQ'[s] = <<x>> /\ k # NumEpochs - 1
        BY <1>5, <1>9, <3>1
      <4>2. Fits(s, x, k, n) /\ x \in Replies
        <5>1. k \in Nat /\ n \in Int /\ s \in Int
          BY <1>5, SlotFacts
        <5>. QED  BY <1>4b, <5>1 DEF Fits, ReplyTo, Replies
      <4>3. ~Unanswered(k, n)'
        BY <4>1 DEF Unanswered
      <4>. QED  BY <2>1, <4>1, <4>2, <4>3 DEF Answered
    <3>2. CASE k = NumEpochs - 1
      <4>1. replyQ'[s] = <<>>
        BY <1>4, <1>5, <1>9, <3>2
      <4>2. Unanswered(k, n)'
        BY <1>4, <2>1, <3>2 DEF Unanswered
      <4>. QED  BY <4>1, <4>2 DEF Answered
    <3>. QED  BY <1>9, <3>1, <3>2
  <2>3. After(s, k, n)'
    <3>1. -1 + 1 = 0
      OBVIOUS
    <3>. QED  BY <1>5, <1>9, <1>11, <2>1, <3>1 DEF After, At, Waits
  <2>. QED  BY <1>1, <1>4, <2>1, <2>2, <2>3 DEF Outstanding
<1>14. PICK first \in Nat, q \in Nat : first = FirstEpoch(s) /\ q = k - first /\ first + q = k
  BY <1>2, <1>4, FirstFacts
<1>15. TrajectoryOf(g, buffer[s], s, first)
  BY <1>2, <1>4, <1>14, HandlerFacts DEF Trajectory
<1>16. g.step = NumSteps /\ g.epoch - first = q
  BY <1>4, <1>5, <1>14
<1>17. RecordedCount(g) = NumSteps + 1 /\ ValueCount(g) = NumSteps + 1
  BY <1>3, <1>16 DEF RecordedCount, ValueCount
<1>18. /\ AreTags(buffer[s].values, s, first, -1, NumSteps + 1, q, NumSteps + 1)
       /\ RecordsFit(buffer[s], s, first, q, NumSteps + 1)
       /\ g.last = LastTag(s, g.epoch, g.step)
  BY <1>15, <1>16, <1>17, Zenon DEF TrajectoryOf
<1>19. PICK f : f = IF conf.pipeline = "async" THEN h.epoch ELSE 0
  OBVIOUS
<1>20. b \in Lists /\ TrajectoryOf(h, b, s, f)
  <2>0. NumSteps \in Positive /\ NumSteps + 1 \in Positive /\ StepsOf(0) = 0
        /\ StepsOf(NumSteps + 1) = NumSteps /\ 0 \in Int /\ -1 \in Int
    BY <1>5 DEF Positive, StepsOf
  <2>1. CASE k < NumEpochs - 1
    <3>1. /\ h.pc = "recv" /\ h.epoch = k + 1 /\ h.step = 0 /\ h.last = None
      BY <1>9, <2>1
    <3>2. RecordedCount(h) = 0 /\ ValueCount(h) = 0 /\ h.last = LastTag(s, h.epoch, h.step)
          /\ h.pc \notin {"ship", "ack", "over"}
      BY <1>5, <3>1 DEF RecordedCount, ValueCount, LastTag
    <3>3. CASE conf.pipeline = "async"
      <4>1. b = EmptyBuffer /\ f = k + 1 /\ h.epoch - f = 0 /\ f \in Nat
        BY <1>5, <1>7, <1>19, <2>1, <3>1, <3>3
      <4>2. <<>> \in Seq(Results)
        OBVIOUS
      <4>3. /\ b \in Lists /\ b.values = <<>> /\ b.dones = <<>> /\ b.rewards = <<>>
            /\ b.inputs = <<>>
        BY <4>1, <4>2 DEF EmptyBuffer, Lists
      <4>4. RecordsFit(b, s, f, 0, 0) /\ AreTags(b.values, s, f, -1, NumSteps + 1, 0, 0)
        BY <2>0, <4>1, <4>3, NoTags DEF RecordsFit
      <4>. QED  BY <3>2, <4>1, <4>3, <4>4, Zenon DEF TrajectoryOf
    <3>4. CASE conf.pipeline # "async"
      <4>1. b = buffer[s] /\ f = 0 /\ first = 0 /\ h.epoch - f = q + 1
        BY <1>5, <1>7, <1>14, <1>19, <3>1, <3>4 DEF FirstEpoch
      <4>2. AreTags(b.values, s, f, -1, NumSteps + 1, q + 1, 0)
        <5>1. AreTags(b.values, s, first, -1, NumSteps + 1, q, NumSteps + 1)
          BY <1>18, <4>1
        <5>2. AreTags(b.values, s, first, -1, NumSteps + 1, q + 1, 0)
          BY <2>0, <5>1, TagsOfEpoch
        <5>. QED  BY <4>1, <5>2
      <4>3. RecordsFit(b, s, f, q + 1, 0)
        <5>1. /\ AreTags(b.dones, s, first, -1, NumSteps + 1, q, NumSteps + 1)
              /\ AreTags(b.rewards, s, first, 0, NumSteps, q, NumSteps)
              /\ AreTags(b.inputs, s, first, -1, NumSteps, q, NumSteps)
          BY <1>18, <2>0, <4>1, Zenon DEF RecordsFit
        <5>2. /\ AreTags(b.dones, s, first, -1, NumSteps + 1, q + 1, 0)
              /\ AreTags(b.rewards, s, first, 0, NumSteps, q + 1, 0)
              /\ AreTags(b.inputs, s, first, -1, NumSteps, q + 1, 0)
          BY <2>0, <5>1, TagsOfEpoch
        <5>. QED  BY <2>0, <4>1, <5>2, Zenon DEF RecordsFit
      <4>4. b \in Lists
        BY <1>5, <4>1
      <4>. QED  BY <3>2, <4>1, <4>2, <4>3, <4>4, Zenon DEF TrajectoryOf
    <3>. QED  BY <3>3, <3>4
  <2>2. CASE ~(k < NumEpochs - 1)
    <3>1. h.pc = "over" /\ h.epoch = k /\ h.step = NumSteps /\ h.last = g.last /\ b = buffer[s]
      BY <1>7, <1>9, <2>2
    <3>2. f = first /\ h.epoch - f = q
      BY <1>2, <1>4, <1>14, <1>19, <3>1 DEF FirstEpoch
    <3>3. RecordedCount(h) = NumSteps + 1 /\ ValueCount(h) = NumSteps + 1
      BY <3>1 DEF RecordedCount, ValueCount
    <3>4. h.last = LastTag(s, h.epoch, h.step)
      BY <1>4, <1>16, <1>18, <3>1
    <3>5. AreTags(b.values, s, f, -1, NumSteps + 1, q, NumSteps + 1) /\ RecordsFit(b, s, f, q, NumSteps + 1)
      BY <1>18, <3>1, <3>2
    <3>6. b \in Lists
      BY <1>5, <3>1
    <3>. QED  BY <3>1, <3>2, <3>3, <3>4, <3>5, <3>6, Zenon DEF TrajectoryOf
  <2>. QED  BY <2>1, <2>2
<1>21. BufferInv(s)'
  BY <1>1, <1>11, <1>19, <1>20, TrajectoryIntro
<1>22. \A r \in Rollouts : RequestInv(r)'
  <2>1. h.pc # "infer" /\ handler[s].pc # "infer"
    BY <1>2, <1>3, <1>9
  <2>. QED  BY <1>1, <1>8, <2>1, RequestsStay
<1>22a. (\A t \in Slots : GetInv(t)') /\ \A r \in Rollouts : LinkInv(r)'
  <2>1. handler[s].pc \notin Receiving /\ h.pc \notin Receiving /\ h.pc \notin Engaged /\ h.obs = None
    BY <1>2, <1>3, <1>9 DEF Receiving, Engaged
  <2>. QED  BY <1>1, <1>8, <1>10, <2>1, GetsStay
<1>23. replyQ' \in [Slots -> Seq(Replies)] /\ \A t \in Slots \ {s} : replyQ'[t] = replyQ[t]
  <2>1. Reply(s, "ack") \in Replies
    <3>1. k \in Nat /\ n \in Int
      BY <1>5
    <3>2. s \in Int
      BY <1>5, SlotFacts
    <3>. QED  BY <1>2, <1>4a, <3>1, <3>2 DEF Reply, Replies
  <2>2. replyQ' = replyQ \/ replyQ' = [replyQ EXCEPT ![s] = Append(@, Reply(s, "ack"))]
    BY DEF Acknowledge
  <2>3. PICK rep \in Replies : rep = Reply(s, "ack")
    BY <2>1
  <2>4. CASE replyQ' = replyQ
    BY <1>5, <2>4
  <2>5. CASE replyQ' = [replyQ EXCEPT ![s] = Append(@, Reply(s, "ack"))]
    <3>1. replyQ' = [replyQ EXCEPT ![s] = Append(@, rep)]
      BY <2>3, <2>5
    <3>2. replyQ \in [Slots -> Seq(Replies)]
      BY <1>5
    <3>. QED  BY <3>1, <3>2
  <2>. QED  BY <2>2, <2>4, <2>5
<1>24. /\ buffer' \in [Slots -> Lists] /\ obsQ' \in [Slots -> Seq(ObsOK)]
       /\ requests' \in [Rollouts -> Seq(Slots)]
       /\ \A t \in Slots \ {s} : obsQ'[t] = obsQ[t] /\ buffer'[t] = buffer[t]
  BY <1>1, <1>5, <1>8, <1>20
<1>. QED  BY <1>1, <1>4, <1>8, <1>10, <1>13, <1>21, <1>22, <1>22a, <1>23, <1>24,
          HandlerMoves

-----------------------------------------------------------------------------
(***************************************************************************)
(* The engine and the end of a call.                                       *)
(***************************************************************************)

\* A batch is taken from the front of the queue, what is left keeps its order.
LEMMA Served ==
  ASSUME NEW S, NEW q \in Seq(S), IsInjective(q), NEW n \in 1 .. Len(q)
  PROVE  LET a == SubSeq(q, 1, n)
             b == SubSeq(q, n + 1, Len(q))
         IN /\ b \in Seq(S) /\ IsInjective(b) /\ ToSet(a) \subseteq ToSet(q)
            /\ \A x : x \in ToSet(b) <=> x \in ToSet(q) /\ x \notin ToSet(a)
<1>1. PICK l \in Nat : l = Len(q)
  OBVIOUS
<1>2. PICK a : a = SubSeq(q, 1, n)
  OBVIOUS
<1>3. PICK b : b = SubSeq(q, n + 1, l)
  OBVIOUS
<1>4. n \in Nat /\ 1 <= n /\ n <= l
  BY <1>1
<1>5. q \in Seq(S) /\ DOMAIN q = 1 .. l
  BY <1>1
<1>6. DOMAIN a = 1 .. n /\ \A i \in 1 .. n : a[i] = q[i]
  BY <1>1, <1>2, <1>4, <1>5
<1>7. b \in Seq(S) /\ DOMAIN b = 1 .. l - n /\ \A i \in 1 .. l - n : b[i] = q[i + n]
  BY <1>1, <1>3, <1>4, <1>5
<1>8. \A i, j \in 1 .. l : q[i] = q[j] => i = j
  BY <1>5 DEF IsInjective
<1>9. IsInjective(b)
  <2> SUFFICES ASSUME NEW i \in 1 .. l - n, NEW j \in 1 .. l - n, b[i] = b[j] PROVE i = j
    BY <1>7 DEF IsInjective
  <2>1. i + n \in 1 .. l /\ j + n \in 1 .. l
    BY <1>4
  <2>2. q[i + n] = b[i] /\ q[j + n] = b[j]
    BY <1>7
  <2>3. i + n = j + n
    BY <1>8, <2>1, <2>2
  <2>. QED  BY <1>4, <2>3
<1>10. ToSet(a) \subseteq ToSet(q)
  <2> SUFFICES ASSUME NEW i \in 1 .. n PROVE a[i] \in ToSet(q)
    BY <1>6 DEF ToSet
  <2>1. i \in 1 .. l
    BY <1>4
  <2>. QED  BY <1>5, <1>6, <2>1 DEF ToSet
<1>11. ASSUME NEW x, x \in ToSet(b) PROVE x \in ToSet(q) /\ x \notin ToSet(a)
  <2>1. PICK i \in 1 .. l - n : x = b[i]
    BY <1>7, <1>11 DEF ToSet
  <2>2. x = q[i + n] /\ i + n \in 1 .. l
    BY <1>4, <1>7, <2>1
  <2>3. ASSUME NEW j \in 1 .. n, x = a[j] PROVE FALSE
    <3>1. q[j] = q[i + n] /\ j \in 1 .. l
      BY <1>4, <1>6, <2>2, <2>3
    <3>2. j = i + n
      BY <1>8, <2>2, <3>1
    <3>. QED  BY <1>4, <3>2
  <2>. QED  BY <1>5, <1>6, <2>2, <2>3 DEF ToSet
<1>12. ASSUME NEW x, x \in ToSet(q), x \notin ToSet(a) PROVE x \in ToSet(b)
  <2>1. PICK i \in 1 .. l : x = q[i]
    BY <1>5, <1>12 DEF ToSet
  <2>2. ~(i \in 1 .. n)
    BY <1>6, <1>12, <2>1 DEF ToSet
  <2>3. i - n \in 1 .. l - n /\ (i - n) + n = i
    BY <1>1, <1>4, <2>2
  <2>4. x = b[i - n]
    BY <1>7, <2>1, <2>3
  <2>. QED  BY <1>7, <2>3, <2>4 DEF ToSet
<1>13. /\ b \in Seq(S) /\ IsInjective(b) /\ ToSet(a) \subseteq ToSet(q)
       /\ \A x : x \in ToSet(b) <=> x \in ToSet(q) /\ x \notin ToSet(a)
  BY <1>7, <1>9, <1>10, <1>11, <1>12
<1>. QED  BY <1>1, <1>2, <1>3, <1>13, Zenon

\* The bootstrap values of a batch: of several requests none stays, the one of a
\* single request goes where its own episode ended.
LEMMA BoostedFacts ==
  ASSUME PerEnvInv, NEW B, B \subseteq {s \in Slots : handler[s].pc = "infer"}
  PROVE  Boosted(B) # {} =>
           conf.autoReset /\ conf.valueHead /\ Boosted(B) \subseteq conf.ends
<1> SUFFICES ASSUME Boosted(B) # {}
             PROVE  conf.autoReset /\ conf.valueHead /\ Boosted(B) \subseteq conf.ends
  OBVIOUS
<1>1. /\ AddsValues(B) /\ Cardinality(B) = 1
      /\ Boosted(B) = {<<s, handler[s].obs.epoch, handler[s].obs.step>> : s \in B}
  BY DEF Boosted
<1>2. conf \in Configs
  BY DEF PerEnvInv, TypeOK
<1>3. IsFiniteSet(B)
  <2>1. conf.envs * conf.aggregate \in Nat
    BY <1>2, ConfType DEF Positive
  <2>2. IsFiniteSet(0 .. conf.envs * conf.aggregate - 1)
    BY <2>1, FS_Interval
  <2>3. B \subseteq 0 .. conf.envs * conf.aggregate - 1
    BY DEF Slots
  <2>. QED  BY <2>2, <2>3, FS_Subset
<1>4. PICK x : B = {x}
  BY <1>1, <1>3, FS_Singleton
<1>5. x \in Slots /\ handler[x].pc = "infer"
  BY <1>4
<1>6. handler[x].obs.rewarded /\ handler[x].obs.done
  BY <1>1, <1>4 DEF AddsValues
<1>7. PICK k \in 0 .. NumEpochs - 1, n \in -1 .. NumSteps - 1 :
        /\ handler[x].obs = Observation(x, k, n)
        /\ handler[x].obs.epoch = k /\ handler[x].obs.step = n
  <2>1. PICK g : g = handler[x]
    OBVIOUS
  <2>2. g.pc \in Engaged
    BY <1>5, <2>1 DEF Engaged
  <2>3. PICK k \in 0 .. NumEpochs - 1, n \in -1 .. NumSteps - 1 :
          /\ Plain(g.obs)
          /\ GetsItsOwn(x) => /\ g.obs = Observation(x, k, n)
                              /\ g.obs.epoch = k /\ g.obs.step = n
    BY <1>5, <2>1, <2>2, Engagement
  <2>4. Training
    BY <1>6, <2>1, <2>3 DEF Plain
  <2>5. GetsItsOwn(x)
    BY <2>4 DEF GetsItsOwn
  <2>. QED  BY <2>1, <2>3, <2>5
<1>8. n >= 0 /\ Ends(x, k, n)
  <2>1. k \in Nat /\ n \in Int
    BY <1>2, ConfType DEF Positive
  <2>2. Training /\ n >= 0
    BY <1>2, <1>5, <1>6, <1>7, <2>1, ObservationType
  <2>3. Observation(x, k, n).done =
          (Training /\ IF n >= 0 THEN Ends(x, k, n)
                       ELSE conf.autoReset /\ Ends(x, k - 1, NumSteps - 1))
    BY Zenon DEF Observation
  <2>4. Observation(x, k, n).done
    BY <1>6, <1>7
  <2>. QED  BY <2>2, <2>3, <2>4, Zenon
<1>9. <<x, handler[x].obs.epoch, handler[x].obs.step>> \in conf.ends
  BY <1>7, <1>8 DEF Ends
<1>. QED  BY <1>1, <1>4, <1>9 DEF AddsValues

LEMMA InferKeeps ==
  ASSUME PerEnvInv, NEW r \in Rollouts, Infer(r)
  PROVE  PerEnvInv'
<1>1. UNCHANGED <<conf, env, obsQ, replyQ, link, buffer, generate>>
  BY DEF Infer
<1>2. /\ conf \in Configs /\ handler \in [Slots -> Handlers] /\ TypeOK
      /\ requests \in [Rollouts -> Seq(Slots)]
  BY DEF PerEnvInv, TypeOK
<1>3. PICK q : q = requests[r]
  OBVIOUS
<1>4. q \in Seq(Slots) /\ IsInjective(q) /\ Len(q) \in Nat
      /\ \A t \in Slots : t \in ToSet(q) <=> RolloutOf(t) = r /\ handler[t].pc = "infer"
  BY <1>2, <1>3 DEF PerEnvInv, RequestInv
<1>5. PICK n \in 1 .. Min({conf.maxBatch, Len(q)}) : \E B :
        /\ B = ToSet(SubSeq(q, 1, n))
        /\ requests' = [requests EXCEPT ![r] = SubSeq(@, n + 1, Len(@))]
        /\ handler' = [s \in Slots |->
             IF s \in B THEN [handler[s] EXCEPT !.pc = IF Ragged(B) THEN "failed" ELSE "answered"]
             ELSE handler[s]]
        /\ boosted' = boosted \cup Boosted(B)
  BY <1>3 DEF Infer
<1>5a. PICK B :
        /\ B = ToSet(SubSeq(q, 1, n))
        /\ requests' = [requests EXCEPT ![r] = SubSeq(@, n + 1, Len(@))]
        /\ handler' = [s \in Slots |->
             IF s \in B THEN [handler[s] EXCEPT !.pc = IF Ragged(B) THEN "failed" ELSE "answered"]
             ELSE handler[s]]
        /\ boosted' = boosted \cup Boosted(B)
  BY <1>5
<1>6. n \in 1 .. Len(q)
  <2>1. conf.maxBatch \in Nat
    BY <1>2, ConfType DEF Positive
  <2>2. IsFiniteSet({conf.maxBatch, Len(q)})
    <3>1. IsFiniteSet({conf.maxBatch})
      BY FS_Singleton
    <3>2. IsFiniteSet({conf.maxBatch} \cup {Len(q)})
      BY <3>1, FS_AddElement
    <3>3. {conf.maxBatch, Len(q)} = {conf.maxBatch} \cup {Len(q)}
      OBVIOUS
    <3>. QED  BY <3>2, <3>3
  <2>3. {conf.maxBatch, Len(q)} \in SUBSET Nat
    BY <1>4, <2>1
  <2>4. Min({conf.maxBatch, Len(q)}) \in Nat /\ Min({conf.maxBatch, Len(q)}) <= Len(q)
    BY <2>2, <2>3, MinInSet
  <2>. QED  BY <1>4, <1>5, <2>4
<1>7. PICK p \in {"failed", "answered"} :
        handler' = [s \in Slots |-> IF s \in B THEN [handler[s] EXCEPT !.pc = p] ELSE handler[s]]
  BY <1>5a
<1>8. PICK b : b = SubSeq(q, n + 1, Len(q))
  OBVIOUS
<1>9. /\ b \in Seq(Slots) /\ IsInjective(b) /\ B \subseteq ToSet(q)
      /\ \A x : x \in ToSet(b) <=> x \in ToSet(q) /\ x \notin B
  BY <1>4, <1>5a, <1>6, <1>8, Served, Zenon
<1>10. ToSet(q) \subseteq Slots
  BY <1>4 DEF ToSet
<1>11. \A t \in B : t \in Slots /\ RolloutOf(t) = r /\ handler[t].pc = "infer"
  BY <1>4, <1>9, <1>10
<1>12. requests' = [requests EXCEPT ![r] = b]
  BY <1>3, <1>5a, <1>8
<1>13. \A t \in Slots : t \notin B => handler'[t] = handler[t]
  BY <1>7
<1>14. ASSUME NEW t \in B
       PROVE  /\ handler'[t] \in Handlers /\ handler'[t].pc = p
              /\ handler'[t].epoch = handler[t].epoch /\ handler'[t].step = handler[t].step
              /\ handler'[t].obs = handler[t].obs /\ handler'[t].last = handler[t].last
  <2>1. handler[t] \in Handlers /\ handler'[t] = [handler[t] EXCEPT !.pc = p]
    BY <1>2, <1>7, <1>11
  <2>2. p \in Engaged
    BY <1>7 DEF Engaged
  <2>. QED  BY <2>1, <2>2 DEF Handlers
<1>15. handler' \in [Slots -> Handlers]
  <2>1. \A t \in Slots : handler'[t] \in Handlers
    BY <1>2, <1>13, <1>14
  <2>2. handler' = [t \in Slots |-> handler'[t]]
    BY <1>7
  <2>. QED  BY <2>1, <2>2
<1>16. TypeOK'
  <2>1. /\ Envs' = Envs /\ Slots' = Slots /\ Rollouts' = Rollouts /\ EnvRecords' = EnvRecords
        /\ Links' = Links
    BY <1>1, ConfSame DEF EnvRecords, Links
  <2>2. requests' \in [Rollouts -> Seq(Slots)]
    BY <1>2, <1>9, <1>12
  <2>. QED  BY <1>1, <1>2, <1>15, <2>1, <2>2 DEF TypeOK
<1>17. ASSUME NEW t \in Slots PROVE SlotInv(t)' /\ BufferInv(t)' /\ GetInv(t)'
  <2>1. CASE t \notin B
    <3>1. handler'[t] = handler[t] /\ SlotInv(t) /\ BufferInv(t) /\ GetInv(t)
      BY <1>13, <2>1 DEF PerEnvInv
    <3>2. Stays(t)
      BY <1>1, <3>1, AskedSame, StaysPut
    <3>. QED  BY <1>1, <3>1, <3>2, SlotKept, BufferKept, GetKept
  <2>2. CASE t \in B
    <3>1. PICK g, h : g = handler[t] /\ h = handler'[t]
      OBVIOUS
    <3>2. /\ g.pc = "infer" /\ g.pc \in Engaged /\ h.pc = p /\ h.pc \in Engaged
          /\ h.epoch = g.epoch /\ h.step = g.step /\ h.obs = g.obs /\ h.last = g.last
      BY <1>11, <1>14, <2>2, <3>1 DEF Engaged
    <3>3. Stays(t)
      <4>1. h.pc \notin {"ship", "ack", "over"} /\ g.pc \notin {"ship", "ack", "over"}
        BY <1>7, <3>2
      <4>2. Works(t) /\ ~Waits(t)
        BY <3>1, <3>2 DEF Works, Waits, Receiving
      <4>3. Works(t)' /\ ~Waits(t)'
        BY <1>7, <3>1, <3>2 DEF Works, Waits, Receiving
      <4>. QED  BY <1>1, <3>1, <3>2, <4>1, <4>2, <4>3 DEF Stays
    <3>4. SlotInv(t) /\ GetInv(t)
      BY DEF PerEnvInv
    <3>5. SlotInv(t)'
      BY <1>1, <3>3, <3>4, SlotKept
    <3>6. GetInv(t)'
      <4>1. g.pc \notin Receiving /\ h.pc \notin Receiving /\ h.pc # "recv"
        BY <1>7, <3>2 DEF Receiving
      <4>2. h.obs # None /\ Plain(h.obs)
        BY <3>1, <3>2, <3>4 DEF GetInv
      <4>. QED  BY <1>1, <3>1, <3>4, <4>1, <4>2, GetPassed
    <3>7. RecordedCount(h) = RecordedCount(g) /\ ValueCount(h) = ValueCount(g)
          /\ h.pc \notin {"ship", "ack", "over"}
      BY <1>7, <3>2 DEF RecordedCount, ValueCount
    <3>8. Training => TrajectoryOf(g, buffer[t], t, FirstEpoch(t))
      BY <3>1, HandlerFacts DEF Trajectory
    <3>9. Training => TrajectoryOf(h, buffer[t], t, FirstEpoch(t))
      BY <3>2, <3>7, <3>8, Zenon DEF TrajectoryOf
    <3>10. FirstEpoch(t) = IF conf.pipeline = "async" THEN h.epoch ELSE 0
      BY <3>1, <3>2 DEF FirstEpoch
    <3>11. BufferInv(t)'
      BY <1>1, <3>1, <3>9, <3>10, TrajectoryIntro
    <3>. QED  BY <3>5, <3>6, <3>11
  <2>. QED  BY <2>1, <2>2
<1>18. ASSUME NEW o \in Rollouts PROVE RequestInv(o)'
  <2>1. Slots' = Slots /\ \A t \in Slots : RolloutOf(t)' = RolloutOf(t)
    BY <1>1, ConfSame
  <2>2. \A t \in Slots : handler'[t].pc = "infer" <=> handler[t].pc = "infer" /\ t \notin B
    BY <1>7, <1>13, <1>14
  <2>3. PICK u : u = requests'[o]
    OBVIOUS
  <2>4. IsInjective(u)
        /\ \A t \in Slots : t \in ToSet(u) <=> RolloutOf(t) = o /\ handler'[t].pc = "infer"
    <3>1. CASE o = r
      <4>1. u = b
        BY <1>2, <1>12, <2>3, <3>1
      <4>. QED  BY <1>4, <1>9, <2>2, <3>1, <4>1
    <3>2. CASE o # r
      <4>1. u = requests[o]
        BY <1>2, <1>12, <2>3, <3>2
      <4>2. /\ IsInjective(u)
            /\ \A t \in Slots : t \in ToSet(u) <=> RolloutOf(t) = o /\ handler[t].pc = "infer"
        BY <4>1 DEF PerEnvInv, RequestInv
      <4>. QED  BY <1>11, <2>2, <3>2, <4>2
    <3>. QED  BY <3>1, <3>2
  <2>. QED  BY <2>1, <2>3, <2>4 DEF RequestInv
<1>19. \A e \in Envs : EnvInv(e)'
  BY <1>1, EnvKept DEF PerEnvInv
<1>20. BootstrapOnlyAtEnds'
  <2>1. Boosted(B) # {} =>
          conf.autoReset /\ conf.valueHead /\ Boosted(B) \subseteq conf.ends
    BY <1>11, BoostedFacts
  <2>2. boosted # {} => conf.autoReset /\ conf.valueHead /\ boosted \subseteq conf.ends
    BY DEF PerEnvInv, BootstrapOnlyAtEnds
  <2>. QED  BY <1>1, <1>5a, <2>1, <2>2 DEF BootstrapOnlyAtEnds
<1>21. Envs' = Envs /\ Slots' = Slots /\ Rollouts' = Rollouts
  BY <1>1, ConfSame
<1>22. \A o \in Rollouts : LinkInv(o)'
  <2>1. \A t \in Slots : handler'[t].pc = "wait" /\ handler'[t].obs = None
                         <=> handler[t].pc = "wait" /\ handler[t].obs = None
    BY <1>7, <1>11, <1>13, <1>14
  <2>. QED  BY <1>1, <2>1, LinkKept DEF PerEnvInv
<1>. QED  BY <1>16, <1>17, <1>18, <1>19, <1>20, <1>21, <1>22 DEF PerEnvInv

\* The end of a call, and stuttering, change nothing the invariant is about.
LEMMA CallKeeps ==
  ASSUME PerEnvInv, UNCHANGED <<conf, env, obsQ, replyQ, link, handler, buffer, boosted, requests>>,
         generate' \in [Rollouts -> {"running", "ended", "raised"}]
  PROVE  PerEnvInv'
<1>1. /\ Envs' = Envs /\ Slots' = Slots /\ Rollouts' = Rollouts /\ EnvRecords' = EnvRecords
      /\ Links' = Links
  BY ConfSame DEF EnvRecords, Links
<1>2. TypeOK'
  BY <1>1 DEF PerEnvInv, TypeOK
<1>3. \A s \in Slots : SlotInv(s)' /\ BufferInv(s)' /\ GetInv(s)'
  <2>1. \A s \in Slots : Stays(s)
    BY AskedSame, StaysPut
  <2>. QED  BY <2>1, SlotKept, BufferKept, GetKept DEF PerEnvInv
<1>4. \A e \in Envs : EnvInv(e)'
  BY EnvKept DEF PerEnvInv
<1>5. \A r \in Rollouts : RequestInv(r)'
  BY RequestKept DEF PerEnvInv
<1>6. BootstrapOnlyAtEnds'
  BY BoostedKept DEF PerEnvInv
<1>7. \A r \in Rollouts : LinkInv(r)'
  BY LinkKept DEF PerEnvInv
<1>. QED  BY <1>1, <1>2, <1>3, <1>4, <1>5, <1>6, <1>7 DEF PerEnvInv

-----------------------------------------------------------------------------
(***************************************************************************)
(* Evaluation's gets.                                                      *)
(***************************************************************************)

LEMMA LinkMoves ==
  ASSUME PerEnvInv, ~Training,
         UNCHANGED <<conf, env, replyQ, buffer, boosted, requests, generate>>,
         handler' \in [Slots -> Handlers], obsQ' \in [Slots -> Seq(ObsOK)],
         link' \in [Rollouts -> Links],
         \A s \in Slots : handler'[s].pc = "infer" <=> handler[s].pc = "infer",
         \A s \in Slots : SlotInv(s)' /\ GetInv(s)',
         \A r \in Rollouts : LinkInv(r)'
  PROVE  PerEnvInv'
<1>1. /\ Envs' = Envs /\ Slots' = Slots /\ Rollouts' = Rollouts /\ EnvRecords' = EnvRecords
      /\ Links' = Links
  BY ConfSame DEF EnvRecords, Links
<1>2. TypeOK'
  BY <1>1 DEF PerEnvInv, TypeOK
<1>3. \A s \in Slots : BufferInv(s)'
  BY ConfSame DEF BufferInv
<1>4. \A e \in Envs : EnvInv(e)'
  BY EnvKept DEF PerEnvInv
<1>5. \A r \in Rollouts : RequestInv(r)'
  BY RequestKept DEF PerEnvInv
<1>6. BootstrapOnlyAtEnds'
  BY BoostedKept DEF PerEnvInv
<1>. QED  BY <1>1, <1>2, <1>3, <1>4, <1>5, <1>6 DEF PerEnvInv

\* What another slot's get does to a slot: nothing, if that is on another worker
\* (so of slots that are alone), and at most that it gets what the other asked for.
LEMMA GetAside ==
  ASSUME PerEnvInv, ~Training, UNCHANGED conf, NEW s \in Slots, NEW t \in Slots, t # s,
         NEW c, link' = [link EXCEPT ![RolloutOf(s)] = c],
         t \in c.calls <=> t \in link[RolloutOf(s)].calls,
         NEW g, g = handler[t], NEW h, h = handler'[t],
         h.pc = g.pc, h.epoch = g.epoch, h.step = g.step,
         \/ h.obs = g.obs
         \/ RolloutOf(t) = RolloutOf(s) /\ g.pc = "wait" /\ Plain(h.obs)
  PROVE  GetInv(t)' /\ Stays(t)
<1>1. GetInv(t) /\ link \in [Rollouts -> Links] /\ RolloutOf(t) \in Rollouts
      /\ RolloutOf(s) \in Rollouts
  BY HandlerFacts DEF PerEnvInv
<1>2. /\ (Training' <=> Training) /\ RolloutOf(t)' = RolloutOf(t)
      /\ GetsItsOwn(t)' <=> GetsItsOwn(t)
      /\ \A k, n : Observation(t, k, n)' = Observation(t, k, n)
  BY ConfSame
<1>3. Asked(t)' <=> Asked(t)
  <2>1. CASE RolloutOf(t) = RolloutOf(s)
    BY <1>1, <1>2, <2>1 DEF Asked
  <2>2. CASE RolloutOf(t) # RolloutOf(s)
    BY <1>1, <1>2, <2>2 DEF Asked
  <2>. QED  BY <2>1, <2>2
<1>4. Stays(t)
  <2>1. h.pc \in Engaged => h.obs = g.obs
    BY DEF Engaged
  <2>. QED  BY <1>3, <2>1 DEF Stays, Waits, Works
<1>5. ASSUME GetsItsOwn(t) PROVE OwnGet(t)'
  <2>1. RolloutOf(t) # RolloutOf(s)
    <3>1. RolloutOf(t) = RolloutOf(s) => s \in MySlots(RolloutOf(t))
      BY DEF MySlots
    <3>. QED  BY <1>5, <3>1 DEF GetsItsOwn
  <2>2. link'[RolloutOf(t)] = link[RolloutOf(t)] /\ h.obs = g.obs
    BY <1>1, <2>1
  <2>3. OwnGet(t)
    BY <1>1, <1>5 DEF GetInv
  <2>. QED  BY <1>2, <1>3, <2>2, <2>3 DEF OwnGet
<1>6. h.obs # None => Plain(h.obs)'
  BY <1>1, <1>2 DEF GetInv, Plain
<1>7. h.pc \in {"recv", "post"} => h.obs = None
  BY <1>1 DEF GetInv
<1>8. h.pc \in Engaged => h.obs # None
  BY <1>1 DEF GetInv, Engaged
<1>. QED  BY <1>1, <1>2, <1>3, <1>4, <1>5, <1>6, <1>7, <1>8 DEF GetInv

LEMMA LinkAside ==
  ASSUME UNCHANGED conf, NEW o, LinkInv(o), link'[o] = link[o],
         \A t \in Slots : RolloutOf(t) = o =>
           (handler'[t].pc = "wait" /\ handler'[t].obs = None
            <=> handler[t].pc = "wait" /\ handler[t].obs = None)
  PROVE  LinkInv(o)'
<1>1. (Training' <=> Training) /\ Slots' = Slots /\ \A s : RolloutOf(s)' = RolloutOf(s)
  BY ConfSame
<1>2. \A m : Plain(m)' <=> Plain(m)
  BY <1>1 DEF Plain
<1>. QED  BY <1>1, <1>2 DEF LinkInv

LEMMA AskKeeps ==
  ASSUME PerEnvInv, NEW s \in Slots, Ask(s)
  PROVE  PerEnvInv'
<1>1. PICK r : r = RolloutOf(s)
  OBVIOUS
<1>2. PICK g : g = handler[s]
  OBVIOUS
<1>3. PICK h : h = [g EXCEPT !.pc = "post"]
  OBVIOUS
<1>4. PICK c : c = [link[r] EXCEPT !.calls = @ \cup {s}]
  OBVIOUS
<1>5. /\ handler' = [handler EXCEPT ![s] = h] /\ link' = [link EXCEPT ![r] = c]
      /\ g.pc = "recv" /\ ~Training
      /\ UNCHANGED <<conf, env, obsQ, replyQ, buffer, boosted, requests, generate>>
  BY <1>1, <1>2, <1>3, <1>4 DEF Ask
<1>6. /\ conf \in Configs /\ handler \in [Slots -> Handlers] /\ g \in Handlers /\ r \in Rollouts
      /\ link \in [Rollouts -> Links] /\ link[r] \in Links /\ obsQ \in [Slots -> Seq(ObsOK)]
      /\ GetInv(s) /\ SlotInv(s)
  BY <1>1, <1>2, HandlerFacts DEF PerEnvInv
<1>7. /\ h \in Handlers /\ h.pc = "post" /\ h.epoch = g.epoch /\ h.step = g.step
      /\ h.obs = None
  <2>1. g.obs = None
    BY <1>2, <1>5, <1>6 DEF GetInv
  <2>. QED  BY <1>3, <1>6, <2>1 DEF Handlers, Receiving
<1>8. /\ c \in Links /\ c.calls = link[r].calls \cup {s} /\ c.receives = link[r].receives
      /\ c.answers = link[r].answers
  BY <1>4, <1>6 DEF Links
<1>9. /\ handler'[s] = h /\ link'[r] = c /\ handler' \in [Slots -> Handlers]
      /\ link' \in [Rollouts -> Links]
      /\ \A t \in Slots : t # s => handler'[t] = handler[t]
      /\ \A o \in Rollouts : o # r => link'[o] = link[o]
  BY <1>5, <1>6, <1>7, <1>8
<1>10. /\ (Training' <=> Training) /\ RolloutOf(s)' = r
       /\ GetsItsOwn(s)' <=> GetsItsOwn(s)
  BY <1>1, <1>5, ConfSame
<1>11. Asked(s)'
  BY <1>8, <1>9, <1>10 DEF Asked
<1>12. Stays(s)
  <2>1. Waits(s) /\ ~Works(s)
    BY <1>2, <1>5 DEF Waits, Works, Engaged, Receiving
  <2>2. Waits(s)' /\ ~Works(s)'
    BY <1>7, <1>9, <1>11 DEF Waits, Works, Engaged, Receiving
  <2>. QED  BY <1>2, <1>5, <1>7, <1>9, <2>1, <2>2 DEF Stays, Engaged
<1>13. ASSUME NEW t \in Slots PROVE SlotInv(t)' /\ GetInv(t)'
  <2>1. CASE t = s
    <3>1. SlotInv(s)'
      BY <1>5, <1>6, <1>12, SlotKept
    <3>2. GetsItsOwn(s) => OwnGet(s)'
      <4>1. GetsItsOwn(s) => link[r].answers = <<>>
        BY <1>1, <1>2, <1>5, <1>6 DEF GetInv, OwnGet
      <4>. QED  BY <1>7, <1>8, <1>9, <1>10, <4>1 DEF OwnGet
    <3>3. GetInv(s)'
      BY <1>5, <1>7, <1>9, <1>10, <3>2 DEF GetInv, Receiving, Engaged
    <3>. QED  BY <2>1, <3>1, <3>3
  <2>2. CASE t # s
    <3>1. handler'[t] = handler[t] /\ SlotInv(t) /\ (t \in c.calls <=> t \in link[r].calls)
      BY <1>8, <1>9, <2>2 DEF PerEnvInv
    <3>2. GetInv(t)' /\ Stays(t)
      BY <1>1, <1>5, <2>2, <3>1, GetAside
    <3>. QED  BY <1>5, <3>1, <3>2, SlotKept
  <2>. QED  BY <2>1, <2>2
<1>14. ASSUME NEW o \in Rollouts PROVE LinkInv(o)'
  <2>1. LinkInv(o)
    BY DEF PerEnvInv
  <2>2. \A t \in Slots : (handler'[t].pc = "wait" /\ handler'[t].obs = None
                          <=> handler[t].pc = "wait" /\ handler[t].obs = None)
    BY <1>2, <1>5, <1>7, <1>9
  <2>3. CASE o # r
    BY <1>5, <1>9, <2>1, <2>2, <2>3, LinkAside
  <2>4. CASE o = r
    <3>1. link'[o].receives = link[o].receives /\ link'[o].answers = link[o].answers
      BY <1>8, <1>9, <2>4
    <3>2. /\ Slots' = Slots /\ (\A t : RolloutOf(t)' = RolloutOf(t))
          /\ \A m : Plain(m)' <=> Plain(m)
      BY <1>5, ConfSame DEF Plain
    <3>. QED  BY <2>1, <2>2, <3>1, <3>2 DEF LinkInv
  <2>. QED  BY <2>3, <2>4
<1>15. \A t \in Slots : handler'[t].pc = "infer" <=> handler[t].pc = "infer"
  BY <1>2, <1>5, <1>7, <1>9
<1>16. obsQ' \in [Slots -> Seq(ObsOK)]
  BY <1>5, <1>6
<1>. QED  BY <1>5, <1>9, <1>13, <1>14, <1>15, <1>16, LinkMoves

\* Of a queue without its head: what is in it still.
LEMMA TailFacts ==
  ASSUME NEW S, NEW q \in Seq(S), q # <<>>, IsInjective(q)
  PROVE  /\ Tail(q) \in Seq(S) /\ IsInjective(Tail(q)) /\ Head(q) \in S /\ Head(q) \in ToSet(q)
         /\ \A x : x \in ToSet(Tail(q)) <=> x \in ToSet(q) /\ x # Head(q)
<1>1. PICK n \in Nat : n = Len(q) /\ n # 0 /\ DOMAIN q = 1 .. n
  OBVIOUS
<1>2. PICK u : u = Tail(q)
  OBVIOUS
<1>3. u \in Seq(S) /\ DOMAIN u = 1 .. n - 1 /\ \A i \in 1 .. n - 1 : u[i] = q[i + 1]
  BY <1>1, <1>2
<1>4. Head(q) = q[1] /\ 1 \in 1 .. n /\ q[1] \in S
  BY <1>1
<1>5. \A i, j \in 1 .. n : q[i] = q[j] => i = j
  BY <1>1 DEF IsInjective
<1>6. IsInjective(u)
  <2> SUFFICES ASSUME NEW i \in 1 .. n - 1, NEW j \in 1 .. n - 1, u[i] = u[j] PROVE i = j
    BY <1>3 DEF IsInjective
  <2>1. i + 1 \in 1 .. n /\ j + 1 \in 1 .. n /\ q[i + 1] = q[j + 1]
    BY <1>1, <1>3
  <2>2. i + 1 = j + 1
    BY <1>5, <2>1
  <2>. QED  BY <2>2
<1>7. ASSUME NEW x, x \in ToSet(u) PROVE x \in ToSet(q) /\ x # q[1]
  <2>1. PICK i \in 1 .. n - 1 : x = u[i]
    BY <1>3, <1>7 DEF ToSet
  <2>2. i + 1 \in 1 .. n /\ i + 1 # 1 /\ x = q[i + 1]
    BY <1>1, <1>3, <2>1
  <2>. QED  BY <1>1, <1>4, <1>5, <2>2 DEF ToSet
<1>8. ASSUME NEW x, x \in ToSet(q), x # q[1] PROVE x \in ToSet(u)
  <2>1. PICK i \in 1 .. n : x = q[i]
    BY <1>1, <1>8 DEF ToSet
  <2>2. i # 1
    BY <1>8, <2>1
  <2>3. i - 1 \in 1 .. n - 1 /\ (i - 1) + 1 = i
    BY <1>1, <2>2
  <2>4. x = u[i - 1]
    BY <1>3, <2>1, <2>3
  <2>. QED  BY <1>3, <2>3, <2>4 DEF ToSet
<1>9. Head(q) \in ToSet(q)
  BY <1>1, <1>4 DEF ToSet
<1>. QED  BY <1>2, <1>3, <1>4, <1>6, <1>7, <1>8, <1>9, Zenon

LEMMA ObservationIsSome ==
  ASSUME NEW m \in ObsOK
  PROVE  m # None
<1>1. "slot" \in DOMAIN m
  BY DEF ObsOK
<1>2. DOMAIN <<>> = {}
  OBVIOUS
<1>. QED  BY <1>1, <1>2 DEF None

LEMMA PostKeeps ==
  ASSUME PerEnvInv, NEW s \in Slots, Post(s)
  PROVE  PerEnvInv'
<1>1. PICK r : r = RolloutOf(s)
  OBVIOUS
<1>2. PICK g : g = handler[s]
  OBVIOUS
<1>3. PICK l : l = link[r]
  OBVIOUS
<1>4. g.pc = "post" /\ UNCHANGED <<conf, env, obsQ, replyQ, buffer, boosted, requests, generate>>
  BY <1>2 DEF Post
<1>5. /\ conf \in Configs /\ handler \in [Slots -> Handlers] /\ g \in Handlers /\ r \in Rollouts
      /\ link \in [Rollouts -> Links] /\ l \in Links /\ obsQ \in [Slots -> Seq(ObsOK)]
      /\ GetInv(s) /\ SlotInv(s) /\ LinkInv(r)
  BY <1>1, <1>2, <1>3, HandlerFacts DEF PerEnvInv
<1>6. ~Training /\ g.obs = None
  BY <1>2, <1>4, <1>5 DEF GetInv, Receiving
\* The receives with the new one, the first answer and the others.
<1>7. PICK u : u = Append(l.receives, s)
  OBVIOUS
<1>8. PICK m : m = Head(l.answers)
  OBVIOUS
<1>9. PICK q : q = Tail(l.answers)
  OBVIOUS
<1>10. l.calls \in SUBSET Slots /\ l.receives \in Seq(Slots) /\ l.answers \in Seq(ObsOK)
  BY <1>5 DEF Links
<1>11. /\ IsInjective(l.receives) /\ \A i \in DOMAIN l.answers : Plain(l.answers[i])
       /\ \A t \in Slots : t \in ToSet(l.receives) <=>
            RolloutOf(t) = r /\ handler[t].pc = "wait" /\ handler[t].obs = None
  BY <1>3, <1>5 DEF LinkInv
<1>12. u \in Seq(Slots) /\ IsInjective(u) /\ ToSet(u) = ToSet(l.receives) \cup {s}
  <2>1. s \notin ToSet(l.receives)
    BY <1>2, <1>4, <1>11
  <2>2. PICK p : p = l.receives
    OBVIOUS
  <2>3. LET a == Append(p, s)
        IN a \in Seq(Slots) /\ IsInjective(a) /\ ToSet(a) = ToSet(p) \cup {s}
    BY <1>10, <1>11, <2>1, <2>2, Appended
  <2>. QED  BY <1>7, <2>2, <2>3
<1>13. ASSUME l.answers # <<>>
       PROVE  /\ m \in ObsOK /\ m # None /\ Plain(m)
              /\ q \in Seq(ObsOK) /\ \A i \in DOMAIN q : Plain(q[i])
              /\ \A x : l.answers = <<x>> => m = x /\ q = <<>>
  <2>1. m \in ObsOK /\ q \in Seq(ObsOK)
    <3>1. Head(l.answers) \in ObsOK /\ Tail(l.answers) \in Seq(ObsOK)
      BY <1>10, <1>13
    <3>. QED  BY <1>8, <1>9, <3>1
  <2>2. m # None
    BY <2>1, ObservationIsSome
  <2>3. Plain(m)
    <3>1. Head(l.answers) = l.answers[1] /\ 1 \in DOMAIN l.answers
      BY <1>10, <1>13
    <3>. QED  BY <1>8, <1>11, <3>1
  <2>4. \A i \in DOMAIN q : Plain(q[i])
    <3>1. \A i \in DOMAIN Tail(l.answers) : /\ i + 1 \in DOMAIN l.answers
                                            /\ Tail(l.answers)[i] = l.answers[i + 1]
      BY <1>10, <1>13
    <3>. QED  BY <1>9, <1>11, <3>1
  <2>5. ASSUME NEW x, l.answers = <<x>> PROVE m = x /\ q = <<>>
    <3>1. Head(<<x>>) = x /\ Tail(<<x>>) = <<>>
      OBVIOUS
    <3>. QED  BY <1>8, <1>9, <2>5, <3>1
  <2>. QED  BY <2>1, <2>2, <2>3, <2>4, <2>5
\* Either the receive waits, or it takes the first answer.
<1>14. \E h, c :
        /\ handler' = [handler EXCEPT ![s] = h] /\ link' = [link EXCEPT ![r] = c]
        /\ h \in Handlers /\ h.pc = "wait" /\ h.epoch = g.epoch /\ h.step = g.step
        /\ c \in Links /\ c.calls = l.calls
        /\ \/ /\ l.answers = <<>> /\ c.answers = <<>> /\ h.obs = None /\ c.receives = u
           \/ /\ l.answers # <<>> /\ c.answers = q /\ h.obs = m /\ c.receives = l.receives
  <2>1. CASE l.answers = <<>>
    <3>3. PICK h : h = [g EXCEPT !.pc = "wait"]
      OBVIOUS
    <3>4. PICK c : c = [l EXCEPT !.receives = u]
      OBVIOUS
    <3>5. /\ link' = [link EXCEPT ![r].receives = Append(@, s)]
          /\ handler' = [handler EXCEPT ![s].pc = "wait"]
      BY <1>1, <1>3, <2>1 DEF Post
    <3>6. handler' = [handler EXCEPT ![s] = h] /\ link' = [link EXCEPT ![r] = c]
      BY <1>2, <1>3, <1>7, <3>3, <3>4, <3>5
    <3>7. h \in Handlers /\ h.pc = "wait" /\ h.epoch = g.epoch /\ h.step = g.step /\ h.obs = None
      BY <1>5, <1>6, <3>3 DEF Handlers, Receiving
    <3>8. c \in Links /\ c.calls = l.calls /\ c.answers = <<>> /\ c.receives = u
      BY <1>5, <1>12, <2>1, <3>4 DEF Links
    <3>. QED  BY <2>1, <3>6, <3>7, <3>8
  <2>2. CASE l.answers # <<>>
    <3>4. PICK h : h = [g EXCEPT !.pc = "wait", !.obs = m]
      OBVIOUS
    <3>5. PICK c : c = [l EXCEPT !.answers = q]
      OBVIOUS
    <3>6. /\ link' = [link EXCEPT ![r].answers = q]
          /\ handler' = [handler EXCEPT ![s].pc = "wait", ![s].obs = m]
      BY <1>1, <1>3, <1>8, <1>9, <2>2 DEF Post
    <3>7. handler' = [handler EXCEPT ![s] = h] /\ link' = [link EXCEPT ![r] = c]
      BY <1>2, <1>3, <1>5, <3>4, <3>5, <3>6
    <3>8. h \in Handlers /\ h.pc = "wait" /\ h.epoch = g.epoch /\ h.step = g.step /\ h.obs = m
      BY <1>5, <1>13, <2>2, <3>4 DEF Handlers, Receiving
    <3>9. c \in Links /\ c.calls = l.calls /\ c.answers = q /\ c.receives = l.receives
      BY <1>5, <1>13, <2>2, <3>5 DEF Links
    <3>. QED  BY <2>2, <3>7, <3>8, <3>9
  <2>. QED  BY <2>1, <2>2
<1>15. PICK h, c :
        /\ handler' = [handler EXCEPT ![s] = h] /\ link' = [link EXCEPT ![r] = c]
        /\ h \in Handlers /\ h.pc = "wait" /\ h.epoch = g.epoch /\ h.step = g.step
        /\ c \in Links /\ c.calls = l.calls
        /\ \/ /\ l.answers = <<>> /\ c.answers = <<>> /\ h.obs = None /\ c.receives = u
           \/ /\ l.answers # <<>> /\ c.answers = q /\ h.obs = m /\ c.receives = l.receives
  BY <1>14
<1>16. /\ handler'[s] = h /\ link'[r] = c /\ handler' \in [Slots -> Handlers]
       /\ link' \in [Rollouts -> Links]
       /\ \A t \in Slots : t # s => handler'[t] = handler[t]
       /\ \A o \in Rollouts : o # r => link'[o] = link[o]
  BY <1>5, <1>15
<1>17. /\ (Training' <=> Training) /\ RolloutOf(s)' = r
       /\ GetsItsOwn(s)' <=> GetsItsOwn(s)
       /\ \A k, n : Observation(s, k, n)' = Observation(s, k, n)
       /\ Slots' = Slots /\ (\A t : RolloutOf(t)' = RolloutOf(t))
       /\ \A x : Plain(x)' <=> Plain(x)
  BY <1>1, <1>4, ConfSame DEF Plain
<1>18. Asked(s)' <=> Asked(s)
  BY <1>1, <1>3, <1>15, <1>16, <1>17 DEF Asked
<1>19. Stays(s)
  BY <1>2, <1>4, <1>15, <1>16, <1>18 DEF Stays, Waits, Works, Engaged, Receiving
<1>20. h.obs # None => Plain(h.obs)
  BY <1>13, <1>15
<1>21. GetsItsOwn(s) => OwnGet(s)'
  <2> SUFFICES ASSUME GetsItsOwn(s) PROVE OwnGet(s)'
    OBVIOUS
  <2>1. PICK o : o = Observation(s, g.epoch, g.step - 1)
    OBVIOUS
  <2>2. l.answers # <<>> => ~Asked(s) /\ l.answers = <<o>>
    BY <1>1, <1>2, <1>3, <1>5, <1>6, <2>1 DEF GetInv, OwnGet
  <2>3. c.answers = <<>> /\ (h.obs # None => ~Asked(s) /\ h.obs = o)
    BY <1>13, <1>15, <2>2
  <2>. QED  BY <1>15, <1>16, <1>17, <1>18, <2>1, <2>3 DEF OwnGet
<1>22. ASSUME NEW t \in Slots PROVE SlotInv(t)' /\ GetInv(t)'
  <2>1. CASE t = s
    <3>1. SlotInv(s)'
      BY <1>4, <1>5, <1>19, SlotKept
    <3>2. GetInv(s)'
      BY <1>6, <1>15, <1>16, <1>17, <1>20, <1>21 DEF GetInv, Receiving, Engaged
    <3>. QED  BY <2>1, <3>1, <3>2
  <2>2. CASE t # s
    <3>1. handler'[t] = handler[t] /\ SlotInv(t) /\ (t \in c.calls <=> t \in link[r].calls)
      BY <1>3, <1>15, <1>16, <2>2 DEF PerEnvInv
    <3>2. GetInv(t)' /\ Stays(t)
      BY <1>1, <1>4, <1>6, <1>15, <2>2, <3>1, GetAside
    <3>. QED  BY <1>4, <3>1, <3>2, SlotKept
  <2>. QED  BY <2>1, <2>2
<1>23. ASSUME NEW o \in Rollouts PROVE LinkInv(o)'
  <2>1. LinkInv(o)
    BY DEF PerEnvInv
  <2>2. CASE o # r
    <3>1. \A t \in Slots : RolloutOf(t) = o => handler'[t] = handler[t]
      BY <1>1, <1>16, <2>2
    <3>. QED  BY <1>4, <1>16, <2>1, <2>2, <3>1, LinkAside
  <2>3. CASE o = r
    <3>1. IsInjective(c.receives) /\ \A i \in DOMAIN c.answers : Plain(c.answers[i])
      <4>1. IsInjective(c.receives)
        BY <1>11, <1>12, <1>15
      <4>2. DOMAIN <<>> = {}
        OBVIOUS
      <4>. QED  BY <1>13, <1>15, <4>1, <4>2
    <3>2. \A t \in Slots : t \in ToSet(c.receives) <=>
              RolloutOf(t) = r /\ handler'[t].pc = "wait" /\ handler'[t].obs = None
      BY <1>1, <1>2, <1>4, <1>11, <1>12, <1>13, <1>15, <1>16
    <3>. QED  BY <1>16, <1>17, <2>3, <3>1, <3>2 DEF LinkInv
  <2>. QED  BY <2>2, <2>3
<1>24. \A t \in Slots : handler'[t].pc = "infer" <=> handler[t].pc = "infer"
  BY <1>2, <1>4, <1>15, <1>16
<1>25. obsQ' \in [Slots -> Seq(ObsOK)]
  BY <1>4, <1>5
<1>. QED  BY <1>4, <1>6, <1>16, <1>22, <1>23, <1>24, <1>25, LinkMoves

\* A call that is answered, and its item, which is what the slot waits for.
LEMMA ServeFacts ==
  ASSUME PerEnvInv, NEW s \in Slots, Serve(s)
  PROVE  \E k \in 0 .. NumEpochs - 1, n \in -1 .. NumSteps - 1 :
           /\ k = env[EnvOf(s)].epoch /\ n = env[EnvOf(s)].step
           /\ OpenIn(env[EnvOf(s)], IndexOf(s))
           /\ replyQ[s] = <<>> /\ obsQ[s] = <<Observation(s, k, n)>>
           /\ handler[s].epoch = k /\ handler[s].step = n + 1
           /\ Asked(s) /\ handler[s].pc \in Receiving /\ ~Training
<1>1. obsQ[s] # <<>> /\ Asked(s)
  BY DEF Serve, Asked
<1>2. handler[s].pc \in Receiving /\ ~Training
  BY <1>1 DEF PerEnvInv, GetInv
<1>3. \A k, n : ~Working(s, k, n)
  BY <1>1, <1>2 DEF Working, Works, Engaged, Receiving
<1>. QED  BY <1>1, <1>2, <1>3, AtWork DEF At

LEMMA ServedSlot ==
  ASSUME UNCHANGED <<conf, env, replyQ>>, NEW s \in Slots, NEW k, NEW n,
         k = env[EnvOf(s)].epoch, n = env[EnvOf(s)].step,
         OpenIn(env[EnvOf(s)], IndexOf(s)), replyQ[s] = <<>>, obsQ'[s] = <<>>,
         NEW h, h = handler'[s], h.pc \in Receiving, h.epoch = k, h.step = n + 1, ~Asked(s)'
  PROVE  SlotInv(s)'
<1>1. PICK v : v = env[EnvOf(s)]
  OBVIOUS
<1>2. PICK j : j = IndexOf(s)
  OBVIOUS
<1>3. Works(s)'
  BY DEF Works
<1>4. h.pc \notin Engaged /\ h.pc \notin {"ship", "ack"}
  BY DEF Receiving, Engaged
<1>5. Working(s, k, n)'
  BY <1>3, <1>4 DEF Working
<1>6. Outstanding(s, k, n)'
  BY <1>5 DEF Outstanding
<1>7. OpenIn(v, j) /\ env'[EnvOf(s)] = v /\ Outstanding(s, v.epoch, v.step)'
  BY <1>1, <1>2, <1>6
<1>. QED  BY <1>2, <1>7, SlotIntro

LEMMA ServeKeeps ==
  ASSUME PerEnvInv, NEW s \in Slots, Serve(s)
  PROVE  PerEnvInv'
<1>1. PICK r : r = RolloutOf(s)
  OBVIOUS
<1>2. PICK g : g = handler[s]
  OBVIOUS
<1>3. PICK l : l = link[r]
  OBVIOUS
<1>4. PICK k \in 0 .. NumEpochs - 1, n \in -1 .. NumSteps - 1 :
        /\ k = env[EnvOf(s)].epoch /\ n = env[EnvOf(s)].step
        /\ OpenIn(env[EnvOf(s)], IndexOf(s))
        /\ replyQ[s] = <<>> /\ obsQ[s] = <<Observation(s, k, n)>>
        /\ g.epoch = k /\ g.step = n + 1
        /\ Asked(s) /\ g.pc \in Receiving /\ ~Training
  BY <1>2, ServeFacts
<1>5. PICK m : m = Observation(s, k, n)
  OBVIOUS
<1>6. UNCHANGED <<conf, env, replyQ, buffer, boosted, requests, generate>>
  BY DEF Serve
<1>7. /\ conf \in Configs /\ handler \in [Slots -> Handlers] /\ g \in Handlers /\ r \in Rollouts
      /\ link \in [Rollouts -> Links] /\ l \in Links /\ obsQ \in [Slots -> Seq(ObsOK)]
      /\ GetInv(s) /\ SlotInv(s) /\ LinkInv(r) /\ NumEpochs \in Nat /\ NumSteps \in Nat
  BY <1>1, <1>2, <1>3, HandlerFacts DEF PerEnvInv
<1>8. m \in ObsOK /\ m # None /\ Plain(m)
  <2>1. k \in Nat /\ n \in Int
    BY <1>7
  <2>. QED  BY <1>5, <1>7, <2>1, ObservationType
<1>9. obsQ' = [obsQ EXCEPT ![s] = <<>>]
  <2>1. Tail(<<m>>) = <<>>
    OBVIOUS
  <2>2. obsQ' = [obsQ EXCEPT ![s] = Tail(obsQ[s])]
    BY DEF Serve
  <2>. QED  BY <1>4, <1>5, <2>1, <2>2
<1>10. l.calls \in SUBSET Slots /\ l.receives \in Seq(Slots) /\ l.answers \in Seq(ObsOK)
  BY <1>7 DEF Links
<1>11. /\ IsInjective(l.receives) /\ \A i \in DOMAIN l.answers : Plain(l.answers[i])
       /\ \A t \in Slots : t \in ToSet(l.receives) <=>
            RolloutOf(t) = r /\ handler[t].pc = "wait" /\ handler[t].obs = None
  BY <1>3, <1>7 DEF LinkInv
\* The answers with the new one, the first receive and the others.
<1>12. PICK u : u = Append(l.answers, m)
  OBVIOUS
<1>13. PICK w : w = Head(l.receives)
  OBVIOUS
<1>14. PICK q : q = Tail(l.receives)
  OBVIOUS
<1>15. /\ u \in Seq(ObsOK) /\ (\A i \in DOMAIN u : Plain(u[i]))
       /\ l.answers = <<>> => u = <<m>>
  <2>1. u \in Seq(ObsOK)
    <3>1. Append(l.answers, m) \in Seq(ObsOK)
      BY <1>8, <1>10
    <3>. QED  BY <1>12, <3>1
  <2>2. ASSUME NEW i \in DOMAIN u PROVE Plain(u[i])
    <3>1. \A x \in DOMAIN Append(l.answers, m) :
            \/ x \in DOMAIN l.answers /\ Append(l.answers, m)[x] = l.answers[x]
            \/ Append(l.answers, m)[x] = m
      BY <1>8, <1>10
    <3>. QED  BY <1>8, <1>11, <1>12, <2>2, <3>1
  <2>3. l.answers = <<>> => u = <<m>>
    <3>1. Append(<<>>, m) = <<m>>
      OBVIOUS
    <3>. QED  BY <1>12, <3>1
  <2>. QED  BY <2>1, <2>2, <2>3
<1>16. ASSUME l.receives # <<>>
       PROVE  /\ w \in Slots /\ RolloutOf(w) = r /\ handler[w].pc = "wait" /\ handler[w].obs = None
              /\ q \in Seq(Slots) /\ IsInjective(q)
              /\ \A t : t \in ToSet(q) <=> t \in ToSet(l.receives) /\ t # w
  <2>1. PICK p : p = l.receives
    OBVIOUS
  <2>2. /\ Tail(p) \in Seq(Slots) /\ IsInjective(Tail(p)) /\ Head(p) \in Slots /\ Head(p) \in ToSet(p)
        /\ \A x : x \in ToSet(Tail(p)) <=> x \in ToSet(p) /\ x # Head(p)
    BY <1>10, <1>11, <1>16, <2>1, TailFacts
  <2>3. /\ q \in Seq(Slots) /\ IsInjective(q) /\ w \in Slots /\ w \in ToSet(p)
        /\ \A x : x \in ToSet(q) <=> x \in ToSet(p) /\ x # w
    BY <1>13, <1>14, <2>1, <2>2, Zenon
  <2>. QED  BY <1>11, <2>1, <2>3
\* Either the answer waits, or the first receive gets it.
<1>17. \E c :
        /\ link' = [link EXCEPT ![r] = c] /\ c \in Links /\ c.calls = l.calls \ {s}
        /\ handler' \in [Slots -> Handlers]
        /\ \/ /\ l.receives = <<>> /\ c.receives = <<>> /\ c.answers = u /\ handler' = handler
           \/ /\ l.receives # <<>> /\ c.receives = q /\ c.answers = l.answers
              /\ \A t \in Slots \ {w} : handler'[t] = handler[t]
              /\ handler'[w].pc = "wait" /\ handler'[w].epoch = handler[w].epoch
              /\ handler'[w].step = handler[w].step /\ handler'[w].obs = m
  <2>0. Head(obsQ[s]) = m
    BY <1>4, <1>5
  <2>1. CASE l.receives = <<>>
    <3>1. PICK c : c = [l EXCEPT !.calls = l.calls \ {s}, !.answers = u]
      OBVIOUS
    <3>2. /\ link' = [link EXCEPT ![r].calls = @ \ {s}, ![r].answers = Append(@, m)]
          /\ handler' = handler
      BY <1>1, <1>3, <2>0, <2>1 DEF Serve
    <3>3. link' = [link EXCEPT ![r] = c]
      BY <1>3, <1>7, <1>12, <3>1, <3>2
    <3>4. c \in Links /\ c.calls = l.calls \ {s} /\ c.answers = u /\ c.receives = <<>>
      BY <1>7, <1>15, <2>1, <3>1 DEF Links
    <3>. QED  BY <1>7, <2>1, <3>2, <3>3, <3>4
  <2>2. CASE l.receives # <<>>
    <3>1. PICK c : c = [l EXCEPT !.calls = l.calls \ {s}, !.receives = q]
      OBVIOUS
    <3>2. /\ link' = [link EXCEPT ![r].calls = @ \ {s}, ![r].receives = Tail(@)]
          /\ handler' = [handler EXCEPT ![w].obs = m]
      BY <1>1, <1>3, <1>13, <2>0, <2>2 DEF Serve
    <3>3. link' = [link EXCEPT ![r] = c]
      BY <1>3, <1>7, <1>14, <3>1, <3>2
    <3>4. c \in Links /\ c.calls = l.calls \ {s} /\ c.receives = q /\ c.answers = l.answers
      BY <1>7, <1>16, <2>2, <3>1 DEF Links
    <3>5. PICK h : h = [handler[w] EXCEPT !.obs = m]
      OBVIOUS
    <3>6. w \in Slots /\ handler[w] \in Handlers /\ handler[w].pc = "wait"
      BY <1>7, <1>16, <2>2
    <3>7. /\ h \in Handlers /\ h.pc = "wait" /\ h.epoch = handler[w].epoch
          /\ h.step = handler[w].step /\ h.obs = m
      BY <1>8, <3>5, <3>6 DEF Handlers
    <3>8. handler' = [handler EXCEPT ![w] = h]
      BY <3>2, <3>5
    <3>9. /\ handler' \in [Slots -> Handlers] /\ handler'[w] = h
          /\ \A t \in Slots \ {w} : handler'[t] = handler[t]
      BY <1>7, <3>6, <3>7, <3>8
    <3>. QED  BY <2>2, <3>3, <3>4, <3>7, <3>9
  <2>. QED  BY <2>1, <2>2
<1>18. PICK c :
        /\ link' = [link EXCEPT ![r] = c] /\ c \in Links /\ c.calls = l.calls \ {s}
        /\ handler' \in [Slots -> Handlers]
        /\ \/ /\ l.receives = <<>> /\ c.receives = <<>> /\ c.answers = u /\ handler' = handler
           \/ /\ l.receives # <<>> /\ c.receives = q /\ c.answers = l.answers
              /\ \A t \in Slots \ {w} : handler'[t] = handler[t]
              /\ handler'[w].pc = "wait" /\ handler'[w].epoch = handler[w].epoch
              /\ handler'[w].step = handler[w].step /\ handler'[w].obs = m
  BY <1>17
<1>19. /\ link'[r] = c /\ link' \in [Rollouts -> Links]
       /\ \A o \in Rollouts : o # r => link'[o] = link[o]
  BY <1>7, <1>18
<1>20. /\ (Training' <=> Training) /\ RolloutOf(s)' = r
       /\ GetsItsOwn(s)' <=> GetsItsOwn(s)
       /\ \A a, b : Observation(s, a, b)' = Observation(s, a, b)
       /\ Slots' = Slots /\ (\A t : RolloutOf(t)' = RolloutOf(t))
       /\ \A x : Plain(x)' <=> Plain(x)
  BY <1>1, <1>6, ConfSame DEF Plain
\* What a handler keeps, and what may have been received for it.
<1>21. ASSUME NEW t \in Slots
       PROVE  /\ handler'[t].pc = handler[t].pc /\ handler'[t].epoch = handler[t].epoch
              /\ handler'[t].step = handler[t].step
              /\ \/ handler'[t].obs = handler[t].obs
                 \/ RolloutOf(t) = r /\ handler[t].pc = "wait" /\ handler'[t].obs = m
  <2>1. CASE l.receives = <<>>
    BY <1>18, <2>1
  <2>2. CASE l.receives # <<>> /\ t = w
    BY <1>16, <1>18, <2>2
  <2>3. CASE l.receives # <<>> /\ t # w
    BY <1>18, <2>3
  <2>. QED  BY <2>1, <2>2, <2>3
<1>22. ~Asked(s)'
  BY <1>18, <1>19, <1>20 DEF Asked
<1>23. GetsItsOwn(s) => OwnGet(s)'
  <2> SUFFICES ASSUME GetsItsOwn(s) PROVE OwnGet(s)'
    OBVIOUS
  <2>1. OwnGet(s)
    BY <1>4, <1>7 DEF GetInv
  <2>2. l.answers = <<>> /\ (g.pc = "wait" => g.obs = None)
    BY <1>1, <1>2, <1>3, <1>4, <2>1 DEF OwnGet
  <2>3. k = g.epoch /\ n = g.step - 1
    BY <1>4
  <2>4. m = Observation(s, g.epoch, g.step - 1)
    BY <1>5, <2>3
  <2>5. PICK h : h = handler'[s]
    OBVIOUS
  <2>6. h.pc = g.pc /\ h.epoch = g.epoch /\ h.step = g.step
    BY <1>2, <1>21, <2>5
  <2>7. CASE l.receives = <<>>
    <3>1. ToSet(l.receives) = {}
      BY <2>7 DEF ToSet
    <3>2. g.pc = "post"
      BY <1>1, <1>2, <1>4, <1>11, <2>2, <3>1 DEF Receiving
    <3>3. c.answers = <<m>>
      BY <1>15, <1>18, <2>2, <2>7
    <3>. QED  BY <1>19, <1>20, <1>22, <2>4, <2>5, <2>6, <3>2, <3>3 DEF OwnGet
  <2>8. CASE l.receives # <<>>
    <3>1. w \in MySlots(r)
      BY <1>16, <2>8 DEF MySlots
    <3>2. w = s
      BY <1>1, <1>4, <3>1 DEF GetsItsOwn
    <3>3. h.obs = m /\ c.answers = <<>>
      BY <1>18, <2>2, <2>5, <2>8, <3>2
    <3>. QED  BY <1>19, <1>20, <1>22, <2>4, <2>5, <2>6, <3>3 DEF OwnGet
  <2>. QED  BY <2>7, <2>8
<1>24. ASSUME NEW t \in Slots PROVE SlotInv(t)' /\ GetInv(t)'
  <2>1. CASE t = s
    <3>1. PICK h : h = handler'[s]
      OBVIOUS
    <3>2. /\ h.pc = g.pc /\ h.epoch = k /\ h.step = n + 1
          /\ h.obs = g.obs \/ (g.pc = "wait" /\ h.obs = m)
      BY <1>2, <1>4, <1>21, <3>1
    <3>3. obsQ'[s] = <<>>
      BY <1>7, <1>9
    <3>4. SlotInv(s)'
      BY <1>4, <1>6, <1>22, <3>1, <3>2, <3>3, ServedSlot
    <3>5. /\ h.pc = "post" => h.obs = None
          /\ h.obs # None => Plain(h.obs)
      BY <1>2, <1>7, <1>8, <3>2 DEF GetInv
    <3>6. h.pc \in Receiving /\ h.pc # "recv" /\ h.pc \notin Engaged
      BY <1>4, <3>2 DEF Receiving, Engaged
    <3>7. GetInv(s)'
      BY <1>4, <1>20, <1>22, <1>23, <3>1, <3>5, <3>6 DEF GetInv
    <3>. QED  BY <2>1, <3>4, <3>7
  <2>2. CASE t # s
    <3>1. t \in c.calls <=> t \in link[r].calls
      BY <1>3, <1>18, <2>2
    <3>2. GetInv(t)' /\ Stays(t)
      <4>1. PICK f : f = handler[t]
        OBVIOUS
      <4>2. PICK h : h = handler'[t]
        OBVIOUS
      <4>3. /\ h.pc = f.pc /\ h.epoch = f.epoch /\ h.step = f.step
            /\ \/ h.obs = f.obs
               \/ RolloutOf(t) = RolloutOf(s) /\ f.pc = "wait" /\ Plain(h.obs)
        BY <1>1, <1>8, <1>21, <4>1, <4>2
      <4>4. link' = [link EXCEPT ![RolloutOf(s)] = c] /\ (t \in c.calls <=> t \in link[RolloutOf(s)].calls)
        BY <1>1, <1>18, <3>1
      <4>. QED  BY <1>4, <1>6, <2>2, <4>1, <4>2, <4>3, <4>4, GetAside
    <3>3. SlotInv(t) /\ obsQ'[t] = obsQ[t]
      BY <1>7, <1>9, <2>2 DEF PerEnvInv
    <3>. QED  BY <1>6, <3>2, <3>3, SlotKept
  <2>. QED  BY <2>1, <2>2
<1>25. ASSUME NEW o \in Rollouts PROVE LinkInv(o)'
  <2>1. LinkInv(o)
    BY DEF PerEnvInv
  <2>2. CASE o # r
    <3>1. \A t \in Slots : RolloutOf(t) = o => (handler'[t].pc = "wait" /\ handler'[t].obs = None
                                                <=> handler[t].pc = "wait" /\ handler[t].obs = None)
      BY <1>21, <2>2
    <3>. QED  BY <1>6, <1>19, <2>1, <2>2, <3>1, LinkAside
  <2>3. CASE o = r
    <3>1. IsInjective(c.receives) /\ \A i \in DOMAIN c.answers : Plain(c.answers[i])
      BY <1>11, <1>15, <1>16, <1>18
    <3>2. ASSUME NEW t \in Slots
          PROVE  t \in ToSet(c.receives) <=>
                   RolloutOf(t) = r /\ handler'[t].pc = "wait" /\ handler'[t].obs = None
      <4>1. CASE l.receives = <<>>
        BY <1>11, <1>18, <4>1
      <4>2. CASE l.receives # <<>> /\ t = w
        BY <1>8, <1>16, <1>18, <4>2
      <4>3. CASE l.receives # <<>> /\ t # w
        BY <1>11, <1>16, <1>18, <4>3
      <4>. QED  BY <4>1, <4>2, <4>3
    <3>. QED  BY <1>19, <1>20, <2>3, <3>1, <3>2 DEF LinkInv
  <2>. QED  BY <2>2, <2>3
<1>26. \A t \in Slots : handler'[t].pc = "infer" <=> handler[t].pc = "infer"
  BY <1>21
<1>27. obsQ' \in [Slots -> Seq(ObsOK)]
  <2>1. <<>> \in Seq(ObsOK)
    OBVIOUS
  <2>. QED  BY <1>7, <1>9, <2>1
<1>. QED  BY <1>4, <1>6, <1>18, <1>19, <1>24, <1>25, <1>26, <1>27, LinkMoves

LEMMA EvalSubmitKeeps ==
  ASSUME PerEnvInv, NEW s \in Slots, EvalSubmit(s)
  PROVE  PerEnvInv'
<1>1. PICK g : g = handler[s]
  OBVIOUS
<1>2. PICK h : h = [g EXCEPT !.pc = "infer"]
  OBVIOUS
<1>3. /\ g.pc = "wait" /\ g.obs # None /\ ~Asked(s)
      /\ handler' = [handler EXCEPT ![s] = h]
      /\ requests' = [requests EXCEPT ![RolloutOf(s)] = Append(@, s)]
      /\ UNCHANGED <<conf, env, obsQ, replyQ, link, buffer, boosted, generate>>
  BY <1>1, <1>2 DEF EvalSubmit, Asked
<1>4. /\ conf \in Configs /\ handler \in [Slots -> Handlers] /\ buffer \in [Slots -> Lists]
      /\ obsQ \in [Slots -> Seq(ObsOK)] /\ replyQ \in [Slots -> Seq(Replies)]
      /\ g \in Handlers /\ GetInv(s)
  BY <1>1, HandlerFacts DEF PerEnvInv
<1>5. ~Training
  BY <1>1, <1>3, <1>4 DEF GetInv, Receiving
<1>6. PICK k \in 0 .. NumEpochs - 1, n \in -1 .. NumSteps - 1 :
        /\ k = env[EnvOf(s)].epoch /\ n = env[EnvOf(s)].step
        /\ OpenIn(env[EnvOf(s)], IndexOf(s))
        /\ replyQ[s] = <<>> /\ obsQ[s] = <<>> /\ Working(s, k, n)
  <2>1. Works(s)
    BY <1>1, <1>3 DEF Works, Receiving
  <2>2. \A k, n : ~At(s, k, n)
    BY <1>1, <1>3 DEF At, Waits
  <2>. QED  BY <2>1, <2>2, AtWork
<1>7. g.epoch = k /\ g.step = n + 1
  BY <1>1, <1>6 DEF Working
<1>8. /\ h \in Handlers /\ h.pc = "infer" /\ h.epoch = k /\ h.step = n + 1 /\ h.obs = g.obs
  <2>1. "infer" \in Engaged
    BY DEF Engaged
  <2>. QED  BY <1>2, <1>4, <1>7, <2>1 DEF Handlers
<1>9. handler'[s] = h
  BY <1>3, <1>4
<1>10. GetsItsOwn(s) => g.obs = Observation(s, k, n)
  <2>1. g.step - 1 = n
    <3>1. n \in Int
      BY HandlerFacts
    <3>. QED  BY <1>7, <3>1
  <2>. QED  BY <1>1, <1>3, <1>4, <1>5, <1>7, <2>1 DEF GetInv, OwnGet
<1>11. Outstanding(s, k, n)'
  <2>1. h.pc \in Engaged /\ h.pc \notin {"ship", "ack"}
    BY <1>8 DEF Engaged
  <2>2. Works(s)'
    BY <1>9, <2>1 DEF Works
  <2>3. /\ GetsItsOwn(s)' <=> GetsItsOwn(s)
        /\ Observation(s, k, n)' = Observation(s, k, n)
    BY <1>3, ConfSame
  <2>4. Working(s, k, n)'
    BY <1>8, <1>9, <1>10, <2>1, <2>2, <2>3 DEF Working
  <2>. QED  BY <1>3, <1>6, <2>4 DEF Outstanding
<1>12. BufferInv(s)'
  BY <1>3, <1>5, ConfSame DEF BufferInv
<1>13. /\ \A r \in Rollouts : RequestInv(r)'
       /\ requests' \in [Rollouts -> Seq(Slots)]
  BY <1>1, <1>3, <1>8, RequestsGrow
<1>14. (\A t \in Slots : GetInv(t)') /\ \A r \in Rollouts : LinkInv(r)'
  <2>1. h.pc \notin Receiving /\ h.pc # "recv" /\ h.obs # None
    BY <1>3, <1>8 DEF Receiving
  <2>2. Plain(h.obs)
    BY <1>1, <1>3, <1>4, <1>8 DEF GetInv
  <2>. QED  BY <1>1, <1>3, <1>8, <2>1, <2>2, GetsStay
<1>15. /\ obsQ' \in [Slots -> Seq(ObsOK)] /\ replyQ' \in [Slots -> Seq(Replies)]
       /\ buffer' \in [Slots -> Lists]
       /\ \A t \in Slots \ {s} : /\ obsQ'[t] = obsQ[t] /\ replyQ'[t] = replyQ[t]
                                 /\ buffer'[t] = buffer[t]
  BY <1>3, <1>4
<1>. QED  BY <1>3, <1>6, <1>8, <1>11, <1>12, <1>13, <1>14, <1>15, HandlerMoves

-----------------------------------------------------------------------------
(***************************************************************************)
(* Theorems.                                                               *)
(***************************************************************************)

LEMMA PerEnvInductive == PerEnvInv /\ [Next]_vars => PerEnvInv'
<1> SUFFICES ASSUME PerEnvInv, [Next]_vars PROVE PerEnvInv'
  OBVIOUS
<1>1. generate \in [Rollouts -> {"running", "ended", "raised"}]
  BY DEF PerEnvInv, TypeOK
<1>2. ASSUME NEW e \in Envs, EnvNext(e) PROVE PerEnvInv'
  BY <1>2, SendKeeps, TakeReplyKeeps, LoopKeeps DEF EnvNext
<1>3. ASSUME NEW s \in Slots, HandlerNext(s) PROVE PerEnvInv'
  <2>1. CASE Submit(s) \/ Ask(s) \/ Post(s) \/ EvalSubmit(s)
    BY <2>1, SubmitKeeps, AskKeeps, PostKeeps, EvalSubmitKeeps
  <2>2. CASE Act(s) \/ Bootstrap(s) \/ Ship(s) \/ Acknowledge(s)
    BY <2>2, ActKeeps, FinishKeeps, AcknowledgeKeeps
  <2>. QED  BY <1>3, <2>1, <2>2 DEF HandlerNext
<1>4. ASSUME NEW r \in Rollouts, WorkerNext(r) PROVE PerEnvInv'
  <2>1. CASE Infer(r)
    BY <2>1, InferKeeps
  <2>2. CASE Raise(r)
    BY <1>1, <2>2, CallKeeps DEF Raise
  <2>3. CASE End(r)
    <3>1. UNCHANGED <<conf, env, obsQ, replyQ, link, handler, buffer, boosted, requests>>
      BY <2>3 DEF End
    <3>2. generate' = [generate EXCEPT ![r] = "ended"]
      BY <2>3 DEF End
    <3>. QED  BY <1>1, <3>1, <3>2, CallKeeps
  <2>. QED  BY <1>4, <2>1, <2>2, <2>3 DEF WorkerNext
<1>5. CASE UNCHANGED vars
  BY <1>1, <1>5, CallKeeps DEF vars
<1>. QED  BY <1>2, <1>3, <1>4, <1>5, ServeKeeps DEF Next, Finished

\* The lists of a handler that has completed its epochs are whole epochs.
LEMMA CompletedLists ==
  ASSUME PerEnvInv, Training, NEW s \in Slots, handler[s].pc \in {"ship", "ack", "over"}
  PROVE  /\ buffer[s].dones = Collected(s, -1, NumSteps + 1)
         /\ buffer[s].values = Collected(s, -1, NumSteps + 1)
         /\ buffer[s].rewards = Collected(s, 0, NumSteps)
         /\ buffer[s].inputs = Collected(s, -1, NumSteps)
<1>1. PICK g : g = handler[s]
  OBVIOUS
<1>2. PICK first \in Nat, q \in Nat :
        first = FirstEpoch(s) /\ q = g.epoch - first /\ first + q = g.epoch
  BY <1>1, FirstFacts
<1>3. TrajectoryOf(g, buffer[s], s, first) /\ NumSteps \in Nat /\ NumSteps > 0
  BY <1>1, <1>2, HandlerFacts DEF Trajectory
<1>4. g.step = NumSteps /\ g.epoch - first = q
  BY <1>1, <1>2, <1>3 DEF TrajectoryOf
<1>5. RecordedCount(g) = NumSteps + 1 /\ ValueCount(g) = NumSteps + 1
  BY <1>1, <1>4 DEF RecordedCount, ValueCount
<1>6. /\ AreTags(buffer[s].values, s, first, -1, NumSteps + 1, q, NumSteps + 1)
      /\ RecordsFit(buffer[s], s, first, q, NumSteps + 1)
  BY <1>3, <1>4, <1>5, Zenon DEF TrajectoryOf
<1>7. StepsOf(NumSteps + 1) = NumSteps
  BY <1>3 DEF StepsOf
<1>8. /\ AreTags(buffer[s].dones, s, first, -1, NumSteps + 1, q, NumSteps + 1)
      /\ AreTags(buffer[s].rewards, s, first, 0, NumSteps, q, NumSteps)
      /\ AreTags(buffer[s].inputs, s, first, -1, NumSteps, q, NumSteps)
  BY <1>6, <1>7, Zenon DEF RecordsFit
\* q complete epochs and the whole of the next one are q + 1 complete epochs.
<1>9. ASSUME NEW list, NEW from, NEW len \in Nat, AreTags(list, s, first, from, len, q, len)
      PROVE  list = Collected(s, from, len)
  <2>1. (g.epoch - first + 1) * len = q * len + len
    BY <1>2
  <2>2. Collected(s, from, len) = Tags(s, first, from, len, q * len + len)
    BY <1>1, <1>2, <2>1 DEF Collected
  <2>. QED  BY <1>9, <2>2 DEF AreTags
<1>10. NumSteps + 1 \in Nat
  BY <1>3
<1>. QED  BY <1>3, <1>6, <1>8, <1>9, <1>10

\* What is under way for a slot is one thing, so its queues hold one message at most.
LEMMA NothingPilesUp == PerEnvInv => NoBacklog
<1>. SUFFICES ASSUME PerEnvInv, NEW s \in Slots PROVE Len(obsQ[s]) + Len(replyQ[s]) <= 1
  BY DEF NoBacklog
<1>1. PICK v, j : v = env[EnvOf(s)] /\ j = IndexOf(s)
  OBVIOUS
<1>2. \/ Outstanding(s, v.epoch, v.step)
      \/ obsQ[s] = <<>> /\ replyQ[s] = <<>>
  BY <1>1, SlotOfEnv
<1>3. \A k, n : Answered(s, replyQ[s], k, n) => replyQ[s] = <<>> \/ \E x : replyQ[s] = <<x>>
  BY DEF Answered
<1>4. \/ replyQ[s] = <<>> /\ (obsQ[s] = <<>> \/ \E x : obsQ[s] = <<x>>)
      \/ obsQ[s] = <<>> /\ (replyQ[s] = <<>> \/ \E x : replyQ[s] = <<x>>)
  BY <1>2, <1>3 DEF Outstanding
<1>5. PICK m, n \in {0, 1} : m = Len(obsQ[s]) /\ n = Len(replyQ[s]) /\ (m = 0 \/ n = 0)
  BY <1>4
<1>6. m + n <= 1
  <2>1. m \in {0, 1} /\ n \in {0, 1} /\ (m = 0 \/ n = 0)
    BY <1>5
  <2>2. (m = 0 \/ m = 1) /\ (n = 0 \/ n = 1) /\ (m = 0 \/ n = 0)
    BY <2>1
  <2>3. CASE m = 0 /\ n = 0
    BY <2>3
  <2>4. CASE m = 0 /\ n = 1
    BY <2>4
  <2>5. CASE m = 1 /\ n = 0
    BY <2>5
  <2>. QED  BY <2>2, <2>3, <2>4, <2>5
<1>. QED  BY <1>5, <1>6, Zenon

LEMMA PerEnvAgrees == PerEnvInv => SlotsAgree
<1> SUFFICES ASSUME PerEnvInv PROVE SlotsAgree
  OBVIOUS
<1>1. RepliesFit
  <2> SUFFICES ASSUME NEW e \in Envs, NEW i \in DOMAIN env[e].taken, GetsItsOwn(SlotId(e, i - 1))
               PROVE  env[e].taken[i] = ReplyTo(SlotId(e, i - 1), env[e].epoch, env[e].step)
    <3> SUFFICES ASSUME NEW e \in Envs, NEW i \in DOMAIN env[e].taken,
                        env[e].taken[i] = ReplyTo(SlotId(e, i - 1), env[e].epoch, env[e].step)
                 PROVE  /\ env[e].taken[i].slot = SlotId(e, i - 1)
                        /\ env[e].taken[i].epoch = env[e].epoch
                        /\ env[e].taken[i].step = env[e].step
                        /\ env[e].taken[i].kind =
                             IF Training /\ env[e].step = NumSteps - 1 THEN "ack" ELSE "action"
      BY Zenon DEF RepliesFit
    <3>. QED  BY DEF ReplyTo
  <2>1. AreReplies(e, env[e].taken, env[e].epoch, env[e].step)
    BY DEF PerEnvInv, EnvInv
  <2>. QED  BY <2>1 DEF AreReplies, Fits
<1>2. TrajectoryMatches
  BY CompletedLists DEF TrajectoryMatches
<1>3. BootstrapOnlyAtEnds
  BY DEF PerEnvInv
<1>. QED  BY <1>1, <1>2, <1>3, NothingPilesUp DEF SlotsAgree

THEOREM PerEnvInvariant == Spec => []PerEnvInv
<1>. QED  BY InitPerEnv, PerEnvInductive, PTL DEF Spec

\* For any number of environments, slots, workers, epochs and steps, and
\* whatever requests an engine serves together: an environment loop holds only
\* answers to the observation it sent last (in evaluation if its slot is alone on
\* its worker), no message lies beside another in the two queues of a slot, a
\* completed trajectory has its slot's dones, values, rewards and forward inputs
\* at matching places, and a reward holds the value of a final observation only
\* where an episode ended.
THEOREM SlotsAlwaysAgree == Spec => []SlotsAgree
<1>. QED  BY PerEnvInvariant, PerEnvAgrees, PTL

\* No loop ever takes an action for the acknowledgement of an epoch, which makes
\* it raise a RuntimeError, or an acknowledgement for an action.  In evaluation
\* this holds even where handlers receive each other's observations.
NeverRaised == \A e \in Envs : env[e].pc # "raised"
THEOREM LoopsNeverRaise == Spec => []NeverRaised
<1>1. PerEnvInv => NeverRaised
  BY DEF PerEnvInv, EnvInv, NeverRaised
<1>. QED  BY <1>1, PerEnvInvariant, PTL

\* Of the two channels' queues under the key of a slot one is empty, and the other
\* holds no more than one entry, so that neither channel ever needs room for a
\* backlog; in evaluation too, whatever observations its handlers exchange.
THEOREM QueuesNeverGrow == Spec => []NoBacklog
<1>. QED  BY NothingPilesUp, PerEnvInvariant, PTL

-----------------------------------------------------------------------------
(***************************************************************************)
(* The queues of the actors.  QueuesHold says what they contain by the     *)
(* handlers' positions (and, in the synchronous pipeline, by the calls     *)
(* that have returned) alone.                                              *)
(***************************************************************************)

PieceSet == [slot : Slots, part : 0 .. SplitNum - 1, epoch : 0 .. NumEpochs - 1]
KeyFor(p) == IF conf.pipeline = "async" THEN TargetActor(p.slot, p.part) ELSE -1

\* A handler has shipped epoch k.
Done(h, k) == k < h.epoch \/ (k = h.epoch /\ h.pc \in {"ack", "over"})
Sent(p) ==
  IF conf.pipeline = "async" THEN Done(handler[p.slot], p.epoch)
  ELSE generate[RolloutOf(p.slot)] = "ended" /\ p.epoch = NumEpochs - 1

QueueHolds(a) ==
  /\ actorQ[a] \in Seq(PieceSet) /\ IsInjective(actorQ[a])
  /\ \A p \in PieceSet : p \in ToSet(actorQ[a]) <=> Training /\ Sent(p) /\ KeyFor(p) = a

HandlerInv(s) ==
  /\ handler[s].pc = "ship" => conf.pipeline = "async" /\ Training
  /\ handler[s].pc = "over" => handler[s].epoch = NumEpochs - 1
  /\ generate[RolloutOf(s)] = "ended" => handler[s].pc = "over"

SharesInv ==
  /\ PerEnvInv
  /\ DOMAIN actorQ = Actors \cup {-1}
  /\ \A a \in Actors \cup {-1} : QueueHolds(a)
  /\ \A s \in Slots : HandlerInv(s)

LEMMA SharesSame ==
  ASSUME UNCHANGED conf
  PROVE  /\ Actors' = Actors /\ SplitNum' = SplitNum /\ PieceSet' = PieceSet
         /\ \A p : KeyFor(p)' = KeyFor(p)
<1>1. Slots' = Slots /\ Actors' = Actors
  BY ConfSame DEF Actors
<1>2. SplitNum' = SplitNum
  BY <1>1, Zenon DEF SplitNum
<1>3. \A p : KeyFor(p)' = KeyFor(p)
  BY <1>2 DEF KeyFor, TargetActor
<1>. QED  BY <1>1, <1>2, <1>3 DEF PieceSet

\* Every piece shipped is one that was, or not, before.
LEMMA QueuesKept ==
  ASSUME SharesInv, UNCHANGED <<conf, actorQ>>, PerEnvInv', \A s \in Slots : HandlerInv(s)',
         Training => \A p \in PieceSet : Sent(p)' <=> Sent(p)
  PROVE  SharesInv'
<1>1. Actors' = Actors /\ PieceSet' = PieceSet /\ \A p : KeyFor(p)' = KeyFor(p)
  BY SharesSame
<1>2. Slots' = Slots /\ (Training' <=> Training)
  BY ConfSame
<1>3. ASSUME NEW a \in Actors \cup {-1} PROVE QueueHolds(a)'
  <2>1. QueueHolds(a)
    BY DEF SharesInv
  <2>. QED  BY <1>1, <1>2, <2>1 DEF QueueHolds
<1>. QED  BY <1>1, <1>2, <1>3 DEF SharesInv

LEMMA HandlerShares ==
  ASSUME SharesInv, NEW s \in Slots, NEW h, handler' = [handler EXCEPT ![s] = h],
         UNCHANGED <<conf, actorQ, generate>>, generate[RolloutOf(s)] = "running", PerEnvInv',
         h.pc = "ship" => conf.pipeline = "async" /\ Training,
         h.pc = "over" => h.epoch = NumEpochs - 1,
         Training /\ conf.pipeline = "async" =>
           \A k \in 0 .. NumEpochs - 1 : Done(h, k) <=> Done(handler[s], k)
  PROVE  SharesInv'
<1>1. Slots' = Slots /\ (Training' <=> Training) /\ \A t : RolloutOf(t)' = RolloutOf(t)
  BY ConfSame
<1>2. \A t \in Slots : handler'[t] = IF t = s THEN h ELSE handler[t]
  BY DEF SharesInv, PerEnvInv, TypeOK
<1>3. ASSUME NEW t \in Slots PROVE HandlerInv(t)'
  <2>1. HandlerInv(t)
    BY DEF SharesInv
  <2>2. CASE t = s
    <3>1. generate'[RolloutOf(t)'] = "running" /\ handler'[t] = h
      BY <1>1, <1>2, <2>2
    <3>. QED  BY <1>1, <3>1 DEF HandlerInv
  <2>3. CASE t # s
    <3>1. generate'[RolloutOf(t)'] = generate[RolloutOf(t)] /\ handler'[t] = handler[t]
      BY <1>1, <1>2, <2>3
    <3>. QED  BY <1>1, <2>1, <3>1 DEF HandlerInv
  <2>. QED  BY <2>2, <2>3
<1>4. ASSUME Training, NEW p \in PieceSet PROVE Sent(p)' <=> Sent(p)
  <2>1. p.slot \in Slots /\ p.epoch \in 0 .. NumEpochs - 1
    BY DEF PieceSet
  <2>2. CASE conf.pipeline = "async"
    <3>1. Done(handler'[p.slot], p.epoch) <=> Done(handler[p.slot], p.epoch)
      BY <1>2, <1>4, <2>1, <2>2
    <3>. QED  BY <2>2, <3>1 DEF Sent, Done
  <2>3. CASE conf.pipeline # "async"
    <3>1. RolloutOf(p.slot)' = RolloutOf(p.slot)
      BY <1>1
    <3>. QED  BY <2>3, <3>1 DEF Sent
  <2>. QED  BY <2>2, <2>3
<1>. QED  BY <1>3, <1>4, QueuesKept

\* Whatever a handler does up to the answer to its observation ships nothing.
Early == Receiving \cup {"recv", "infer", "answered", "failed"}
LEMMA EarlyShares ==
  ASSUME SharesInv, UNCHANGED <<conf, generate, actorQ>>, PerEnvInv',
         \A t \in Slots : /\ handler'[t].epoch = handler[t].epoch
                          /\ \/ handler'[t].pc = handler[t].pc
                             \/ handler[t].pc \in Early /\ handler'[t].pc \in Early
  PROVE  SharesInv'
<1>1. Slots' = Slots /\ (Training' <=> Training) /\ \A t : RolloutOf(t)' = RolloutOf(t)
  BY ConfSame
<1>2. ASSUME NEW s \in Slots PROVE HandlerInv(s)'
  <2>1. HandlerInv(s)
    BY DEF SharesInv
  <2>. QED  BY <1>1, <2>1 DEF HandlerInv, Early, Receiving
<1>3. ASSUME NEW p \in PieceSet PROVE Sent(p)' <=> Sent(p)
  <2>1. p.slot \in Slots
    BY DEF PieceSet
  <2>2. Done(handler'[p.slot], p.epoch) <=> Done(handler[p.slot], p.epoch)
    BY <2>1 DEF Done, Early, Receiving
  <2>3. RolloutOf(p.slot)' = RolloutOf(p.slot)
    BY <1>1
  <2>. QED  BY <2>2, <2>3 DEF Sent, Done
<1>. QED  BY <1>2, <1>3, QueuesKept

LEMMA SubmitShares == ASSUME SharesInv, NEW s \in Slots, Submit(s), PerEnvInv' PROVE SharesInv'
<1>1. PICK h : h = [handler[s] EXCEPT !.pc = "infer", !.obs = Head(obsQ[s])]
  OBVIOUS
<1>2. /\ handler' = [handler EXCEPT ![s] = h] /\ UNCHANGED <<conf, actorQ, generate>>
      /\ handler[s].pc = "recv"
  BY <1>1 DEF Submit
<1>3. handler \in [Slots -> Handlers] /\ handler[s] \in Handlers
  BY HandlerFacts DEF SharesInv
<1>4. h.pc = "infer" /\ h.epoch = handler[s].epoch
  BY <1>1, <1>3 DEF Handlers
<1>5. \A t \in Slots : handler'[t] = IF t = s THEN h ELSE handler[t]
  BY <1>2, <1>3
<1>. QED  BY <1>2, <1>4, <1>5, EarlyShares DEF Early

\* Evaluation's gets.
LEMMA GetShares ==
  ASSUME SharesInv, NEW s \in Slots, Ask(s) \/ Post(s) \/ EvalSubmit(s), PerEnvInv'
  PROVE  SharesInv'
<1>1. handler \in [Slots -> Handlers] /\ handler[s] \in Handlers
  BY HandlerFacts DEF SharesInv
<1>2. handler[s].pc \in Early /\ UNCHANGED <<conf, actorQ, generate>>
  BY DEF Ask, Post, EvalSubmit, Early, Receiving
<1>3. \E h : /\ handler' = [handler EXCEPT ![s] = h]
             /\ h.epoch = handler[s].epoch /\ h.pc \in Early
  <2>1. CASE Ask(s)
    <3>1. PICK h : h = [handler[s] EXCEPT !.pc = "post"]
      OBVIOUS
    <3>2. handler' = [handler EXCEPT ![s] = h]
      BY <2>1, <3>1 DEF Ask
    <3>3. h.epoch = handler[s].epoch /\ h.pc \in Early
      BY <1>1, <3>1 DEF Handlers, Early, Receiving
    <3>. QED  BY <3>2, <3>3
  <2>2. CASE Post(s)
    <3>1. PICK h : h = [handler[s] EXCEPT !.pc = "wait"]
      OBVIOUS
    <3>2. PICK m : m = Head(link[RolloutOf(s)].answers)
      OBVIOUS
    <3>3. PICK f : f = [handler[s] EXCEPT !.pc = "wait", !.obs = m]
      OBVIOUS
    <3>4. \/ handler' = [handler EXCEPT ![s].pc = "wait"]
          \/ handler' = [handler EXCEPT ![s].pc = "wait", ![s].obs = m]
      BY <2>2, <3>2 DEF Post
    <3>5. handler' = [handler EXCEPT ![s] = h] \/ handler' = [handler EXCEPT ![s] = f]
      BY <1>1, <3>1, <3>3, <3>4
    <3>6. /\ h.epoch = handler[s].epoch /\ h.pc \in Early
          /\ f.epoch = handler[s].epoch /\ f.pc \in Early
      BY <1>1, <3>1, <3>3 DEF Handlers, Early, Receiving
    <3>. QED  BY <3>5, <3>6
  <2>3. CASE EvalSubmit(s)
    <3>1. PICK h : h = [handler[s] EXCEPT !.pc = "infer"]
      OBVIOUS
    <3>2. handler' = [handler EXCEPT ![s] = h]
      BY <2>3, <3>1 DEF EvalSubmit
    <3>3. h.epoch = handler[s].epoch /\ h.pc \in Early
      BY <1>1, <3>1 DEF Handlers, Early
    <3>. QED  BY <3>2, <3>3
  <2>. QED  BY <2>1, <2>2, <2>3
<1>4. PICK h : handler' = [handler EXCEPT ![s] = h] /\ h.epoch = handler[s].epoch /\ h.pc \in Early
  BY <1>3
<1>5. \A t \in Slots : handler'[t] = IF t = s THEN h ELSE handler[t]
  BY <1>1, <1>4
<1>. QED  BY <1>2, <1>4, <1>5, EarlyShares

LEMMA ServeShares == ASSUME SharesInv, NEW s \in Slots, Serve(s), PerEnvInv' PROVE SharesInv'
<1>1. handler \in [Slots -> Handlers] /\ UNCHANGED <<conf, actorQ, generate>>
  BY HandlerFacts DEF SharesInv, Serve
<1>2. PICK w, m : UNCHANGED handler \/ handler' = [handler EXCEPT ![w].obs = m]
  BY DEF Serve
<1>3. ASSUME NEW t \in Slots
      PROVE  handler'[t].epoch = handler[t].epoch /\ handler'[t].pc = handler[t].pc
  <2>1. handler[t] \in Handlers
    BY <1>1
  <2>2. PICK h : h = [handler[t] EXCEPT !.obs = m]
    OBVIOUS
  <2>3. h.epoch = handler[t].epoch /\ h.pc = handler[t].pc
    BY <2>1, <2>2 DEF Handlers
  <2>4. handler'[t] \in {handler[t], h}
    BY <1>1, <1>2, <2>2
  <2>. QED  BY <2>3, <2>4
<1>. QED  BY <1>1, <1>3, EarlyShares

LEMMA ActShares == ASSUME SharesInv, NEW s \in Slots, Act(s), PerEnvInv' PROVE SharesInv'
<1> DEFINE h == AfterAction(s)
<1>1. /\ handler' = [handler EXCEPT ![s] = h] /\ UNCHANGED <<conf, actorQ, generate>>
      /\ generate[RolloutOf(s)] = "running" /\ handler[s].pc = "answered"
  BY DEF Act
<1>2. handler[s] \in Handlers /\ NumEpochs \in Nat
  BY HandlerFacts DEF SharesInv
<1>3. /\ h.pc \in {"recv", "over"} /\ (Training => h.pc = "recv" /\ h.epoch = handler[s].epoch)
      /\ h.pc = "over" => h.epoch = NumEpochs - 1
  BY <1>2 DEF Handlers, AfterAction
<1>4. Training => \A k : Done(h, k) <=> Done(handler[s], k)
  BY <1>1, <1>3 DEF Done
<1> HIDE DEF h
<1>. QED  BY <1>1, <1>3, <1>4, HandlerShares

LEMMA BootstrapShares ==
  ASSUME SharesInv, NEW s \in Slots, Bootstrap(s), PerEnvInv' PROVE SharesInv'
<1> DEFINE h == [handler[s] EXCEPT !.pc = IF conf.pipeline = "async" THEN "ship" ELSE "ack"]
<1>1. /\ handler' = [handler EXCEPT ![s] = h] /\ UNCHANGED <<conf, actorQ, generate>>
      /\ generate[RolloutOf(s)] = "running" /\ handler[s].pc = "answered" /\ Training
  BY DEF Bootstrap, FinalStep
<1>2. handler[s] \in Handlers
  BY HandlerFacts DEF SharesInv
<1>3. h.pc = (IF conf.pipeline = "async" THEN "ship" ELSE "ack") /\ h.epoch = handler[s].epoch
  BY <1>2 DEF Handlers
<1>4. conf.pipeline = "async" => \A k : Done(h, k) <=> Done(handler[s], k)
  BY <1>1, <1>3 DEF Done
<1> HIDE DEF h
<1>. QED  BY <1>1, <1>3, <1>4, HandlerShares

LEMMA AcknowledgeShares ==
  ASSUME SharesInv, NEW s \in Slots, Acknowledge(s), PerEnvInv' PROVE SharesInv'
<1> DEFINE goesOn == handler[s].epoch < NumEpochs - 1
           h == IF goesOn THEN [pc |-> "recv", epoch |-> handler[s].epoch + 1, step |-> 0,
                                obs |-> None, last |-> None]
                ELSE [handler[s] EXCEPT !.pc = "over", !.obs = None]
<1>1. /\ handler' = [handler EXCEPT ![s] = h] /\ UNCHANGED <<conf, actorQ, generate>>
      /\ generate[RolloutOf(s)] = "running" /\ handler[s].pc = "ack"
  BY DEF Acknowledge
<1>2. handler[s] \in Handlers /\ handler[s].epoch \in 0 .. NumEpochs - 1 /\ NumEpochs \in Nat
  BY HandlerFacts DEF SharesInv
<1>3. \/ goesOn /\ h.pc = "recv" /\ h.epoch = handler[s].epoch + 1
      \/ ~goesOn /\ h.pc = "over" /\ h.epoch = handler[s].epoch
  BY <1>2 DEF Handlers
<1>4. \A k \in 0 .. NumEpochs - 1 : Done(h, k) <=> Done(handler[s], k)
  BY <1>1, <1>2, <1>3 DEF Done
<1>5. h.pc = "over" => h.epoch = NumEpochs - 1
  BY <1>2, <1>3
<1>6. h.pc # "ship"
  BY <1>3
<1> HIDE DEF h
<1>. QED  BY <1>1, <1>4, <1>5, <1>6, HandlerShares

\* compute_split_num divides the pieces of all slots evenly among the actors.
LEMMA SplitFacts ==
  ASSUME conf \in Configs
  PROVE  /\ SplitNum \in 1 .. conf.actors /\ conf.actors \in Nat \ {0} /\ Share \in Nat
         /\ Slots = 0 .. Cardinality(Slots) - 1 /\ Cardinality(Slots) \in Nat \ {0}
         /\ Cardinality(Slots) * SplitNum = Share * conf.actors
<1>1. PICK a \in Nat \ {0}, e \in Nat \ {0}, g \in Nat \ {0} :
        a = conf.actors /\ e = conf.envs /\ g = conf.aggregate
  BY ConfType DEF Positive
<1>2. PICK n \in Nat \ {0} : n = e * g
  OBVIOUS
<1>3. Slots = 0 .. n - 1 /\ Cardinality(Slots) = n
  <2>1. Slots = 0 .. n - 1
    BY <1>1, <1>2 DEF Slots
  <2>2. 0 \in Int /\ n - 1 \in Int /\ (IF 0 > n - 1 THEN 0 ELSE n - 1 - 0 + 1) = n
    OBVIOUS
  <2>3. Cardinality(0 .. n - 1) = n
    BY <2>2, FS_Interval, Zenon
  <2>. QED  BY <2>1, <2>3
<1>4. PICK S : S = {k \in 1 .. a : (k * n) % a = 0}
  OBVIOUS
<1>5. SplitNum \in S
  <2>1. a \in S
    <3>1. (a * n) % a = 0
      <4>1. (n * a + 0) % a = 0
        BY Remainder
      <4>2. a * n = n * a + 0
        OBVIOUS
      <4>. QED  BY <4>1, <4>2
    <3>. QED  BY <1>4, <3>1
  <2>2. S \in SUBSET Nat /\ S \in SUBSET (1 .. a)
    BY <1>4
  <2>3. IsFiniteSet(S)
    <3>1. IsFiniteSet(1 .. a)
      BY FS_Interval
    <3>. QED  BY <2>2, <3>1, FS_Subset
  <2>4. Min(S) \in S
    BY <2>1, <2>2, <2>3, MinInSet
  <2>5. SplitNum = Min(S)
    BY <1>1, <1>3, <1>4, Zenon DEF SplitNum
  <2>. QED  BY <2>4, <2>5
<1>6. PICK k \in 1 .. a : k = SplitNum /\ (k * n) % a = 0
  BY <1>4, <1>5
<1>7. PICK m \in Nat : m = k * n /\ m = n * k /\ m % a = 0
  BY <1>6
<1>8. m \div a \in Nat /\ m = (m \div a) * a
  BY <1>7, Divides
<1>9. Share = m \div a /\ Cardinality(Slots) * SplitNum = m
  BY <1>1, <1>3, <1>6, <1>7 DEF Share
<1>. QED  BY <1>1, <1>3, <1>6, <1>8, <1>9

LEMMA PiecesFacts ==
  ASSUME conf \in Configs, NEW s \in Slots, handler[s].epoch \in 0 .. NumEpochs - 1
  PROVE  /\ Pieces(s) \in Seq(PieceSet) /\ IsInjective(Pieces(s))
         /\ \A p : p \in ToSet(Pieces(s)) <=>
                     p \in PieceSet /\ p.slot = s /\ p.epoch = handler[s].epoch
<1>1. PICK k \in Nat : k = SplitNum
  BY SplitFacts
<1>2. \A i \in 0 .. k - 1 : Piece(s, i) \in PieceSet
  BY <1>1 DEF Piece, PieceSet
<1>3. Pieces(s) = [i \in 1 .. k |-> Piece(s, i - 1)]
  BY <1>1 DEF Pieces
<1>4. \A i \in 1 .. k : Piece(s, i - 1) \in PieceSet /\ i - 1 \in 0 .. k - 1
  BY <1>2
<1>5. Pieces(s) \in Seq(PieceSet) /\ DOMAIN Pieces(s) = 1 .. k
  BY <1>3, <1>4
<1>6. \A i \in 1 .. k : Pieces(s)[i] = Piece(s, i - 1) /\ Pieces(s)[i].part = i - 1
  BY <1>3 DEF Piece
<1>7. IsInjective(Pieces(s))
  <2> SUFFICES ASSUME NEW i \in 1 .. k, NEW j \in 1 .. k, Pieces(s)[i] = Pieces(s)[j] PROVE i = j
    BY <1>5, Zenon DEF IsInjective
  <2>1. i - 1 = j - 1
    BY <1>6
  <2>. QED  BY <2>1
<1>8. ASSUME NEW p \in ToSet(Pieces(s))
      PROVE  p \in PieceSet /\ p.slot = s /\ p.epoch = handler[s].epoch
  <2>1. PICK i \in 1 .. k : p = Piece(s, i - 1)
    BY <1>5, <1>6, Zenon DEF ToSet
  <2>. QED  BY <1>4, <2>1 DEF Piece
<1>9. ASSUME NEW p \in PieceSet, p.slot = s, p.epoch = handler[s].epoch
      PROVE  p \in ToSet(Pieces(s))
  <2>1. p.part \in 0 .. k - 1 /\ p = [slot |-> p.slot, part |-> p.part, epoch |-> p.epoch]
    BY <1>1 DEF PieceSet
  <2>0. PICK j \in 0 .. k - 1 : j = p.part
    BY <2>1
  <2>2. PICK i \in 1 .. k : i - 1 = p.part
    <3>1. j + 1 \in 1 .. k /\ (j + 1) - 1 = j
      OBVIOUS
    <3>. QED  BY <2>0, <3>1
  <2>3. Pieces(s)[i] = p
    BY <1>6, <1>9, <2>1, <2>2 DEF Piece
  <2>. QED  BY <1>5, <2>3 DEF ToSet
<1>. QED  BY <1>5, <1>7, <1>8, <1>9

LEMMA ShipShares == ASSUME SharesInv, NEW s \in Slots, Ship(s), PerEnvInv' PROVE SharesInv'
<1>1. /\ handler[s].pc = "ship" /\ generate[RolloutOf(s)] = "running"
      /\ handler' = [handler EXCEPT ![s].pc = "ack"] /\ UNCHANGED <<conf, generate>>
      /\ actorQ' = [a \in DOMAIN actorQ |-> actorQ[a] \o Those(Pieces(s), PiecesTo(s, a))]
  BY DEF Ship
<1>2. /\ handler \in [Slots -> Handlers] /\ handler[s] \in Handlers /\ conf \in Configs
      /\ handler[s].epoch \in 0 .. NumEpochs - 1 /\ NumEpochs \in Nat
  BY HandlerFacts DEF SharesInv
<1>3. conf.pipeline = "async" /\ Training
  BY <1>1 DEF SharesInv, HandlerInv
<1>4. /\ Actors' = Actors /\ PieceSet' = PieceSet /\ (\A p : KeyFor(p)' = KeyFor(p))
      /\ Slots' = Slots /\ (Training' <=> Training) /\ \A t : RolloutOf(t)' = RolloutOf(t)
  BY <1>1, SharesSame, ConfSame
<1>5. /\ \A t \in Slots : t # s => handler'[t] = handler[t]
      /\ handler'[s].pc = "ack" /\ handler'[s].epoch = handler[s].epoch
  BY <1>1, <1>2 DEF Handlers
<1>6. ASSUME NEW t \in Slots PROVE HandlerInv(t)'
  <2>1. HandlerInv(t)
    BY DEF SharesInv
  <2>2. CASE t = s
    BY <1>1, <1>4, <1>5, <2>2 DEF HandlerInv
  <2>3. CASE t # s
    BY <1>1, <1>4, <1>5, <2>1, <2>3 DEF HandlerInv
  <2>. QED  BY <2>2, <2>3
<1>7. ASSUME NEW p \in PieceSet
      PROVE  Sent(p)' <=> Sent(p) \/ (p.slot = s /\ p.epoch = handler[s].epoch)
  <2>1. p.slot \in Slots /\ p.epoch \in 0 .. NumEpochs - 1
    BY DEF PieceSet
  <2>2. CASE p.slot = s
    BY <1>1, <1>2, <1>3, <1>5, <2>1, <2>2 DEF Sent, Done
  <2>3. CASE p.slot # s
    BY <1>1, <1>3, <1>5, <2>1, <2>3 DEF Sent, Done
  <2>. QED  BY <2>2, <2>3
<1>8. \A p : p.slot = s /\ p.epoch = handler[s].epoch => ~Sent(p)
  BY <1>1, <1>2, <1>3 DEF Sent, Done
<1>9. /\ Pieces(s) \in Seq(PieceSet) /\ IsInjective(Pieces(s))
      /\ \A p : p \in ToSet(Pieces(s)) <=>
                  p \in PieceSet /\ p.slot = s /\ p.epoch = handler[s].epoch
  BY <1>2, PiecesFacts
<1>10. ASSUME NEW a \in Actors \cup {-1} PROVE QueueHolds(a)'
  <2>1. QueueHolds(a) /\ a \in DOMAIN actorQ
    BY DEF SharesInv
  <2>2. PICK u : u = Those(Pieces(s), PiecesTo(s, a))
    OBVIOUS
  <2>3. /\ u \in Seq(PieceSet) /\ IsInjective(u)
        /\ \A p : p \in ToSet(u) <=> p \in ToSet(Pieces(s)) /\ p \in PiecesTo(s, a)
    BY <1>9, <2>2, ThoseFacts
  <2>4. \A p : p \in ToSet(u) <=>
                 p \in PieceSet /\ p.slot = s /\ p.epoch = handler[s].epoch /\ KeyFor(p) = a
    BY <1>3, <1>9, <2>3 DEF PiecesTo, KeyFor
  <2>5. PICK q : q = actorQ[a]
    OBVIOUS
  <2>6. /\ q \in Seq(PieceSet) /\ IsInjective(q)
        /\ \A p \in PieceSet : p \in ToSet(q) <=> Sent(p) /\ KeyFor(p) = a
    BY <1>3, <2>1, <2>5 DEF QueueHolds
  <2>7. \A p \in ToSet(q) : p \notin ToSet(u)
    <3>1. ToSet(q) \subseteq PieceSet
      BY <2>6 DEF ToSet
    <3>. QED  BY <1>8, <2>4, <2>6, <3>1
  <2>8. q \o u \in Seq(PieceSet) /\ IsInjective(q \o u) /\ ToSet(q \o u) = ToSet(q) \cup ToSet(u)
    BY <2>3, <2>6, <2>7, Joined
  <2>9. actorQ'[a] = q \o u
    BY <1>1, <2>1, <2>2, <2>5
  <2>10. \A p \in PieceSet : p \in ToSet(q \o u) <=> Sent(p)' /\ KeyFor(p) = a
    BY <1>7, <2>4, <2>6, <2>8
  <2>. QED  BY <1>3, <1>4, <2>8, <2>9, <2>10 DEF QueueHolds
<1>11. DOMAIN actorQ' = (Actors \cup {-1})'
  BY <1>1, <1>4 DEF SharesInv
<1>. QED  BY <1>4, <1>6, <1>10, <1>11 DEF SharesInv

LEMMA InferChanges ==
  ASSUME PerEnvInv, NEW r \in Rollouts, Infer(r)
  PROVE  /\ UNCHANGED <<conf, env, generate, actorQ>> /\ handler' \in [Slots -> Handlers]
         /\ \A t \in Slots : /\ handler'[t].epoch = handler[t].epoch
                             /\ \/ handler'[t].pc = handler[t].pc
                                \/ handler[t].pc = "infer" /\ handler'[t].pc \in {"failed", "answered"}
<1>1. UNCHANGED <<conf, env, generate, actorQ>>
  BY DEF Infer
<1>2. /\ handler \in [Slots -> Handlers] /\ requests \in [Rollouts -> Seq(Slots)]
  BY DEF PerEnvInv, TypeOK
<1>3. PICK q : q = requests[r]
  OBVIOUS
<1>4. /\ q \in Seq(Slots) /\ conf.maxBatch \in Nat
      /\ \A t \in Slots : t \in ToSet(q) => handler[t].pc = "infer"
  BY <1>2, <1>3, ConfType DEF PerEnvInv, RequestInv, TypeOK, Positive
<1>4a. PICK n \in 1 .. Min({conf.maxBatch, Len(requests[r])}) :
        handler' = [s \in Slots |->
          IF s \in ToSet(SubSeq(requests[r], 1, n))
          THEN [handler[s] EXCEPT !.pc =
                  IF Ragged(ToSet(SubSeq(requests[r], 1, n))) THEN "failed" ELSE "answered"]
          ELSE handler[s]]
  BY Zenon DEF Infer
<1>4b. PICK B :
        /\ B = ToSet(SubSeq(q, 1, n))
        /\ handler' = [s \in Slots |->
             IF s \in B THEN [handler[s] EXCEPT !.pc = IF Ragged(B) THEN "failed" ELSE "answered"]
             ELSE handler[s]]
  BY <1>3, <1>4a, Zenon
<1>4c. n \in 1 .. Min({conf.maxBatch, Len(q)})
  BY <1>3, <1>4a
<1>5. PICK p \in {"failed", "answered"} :
        handler' = [s \in Slots |-> IF s \in B THEN [handler[s] EXCEPT !.pc = p] ELSE handler[s]]
  BY <1>4b
<1>6. n \in 1 .. Len(q)
  <2>1. Len(q) \in Nat
    BY <1>4
  <2>2. Min({conf.maxBatch, Len(q)}) \in Nat /\ Min({conf.maxBatch, Len(q)}) <= Len(q)
    BY <1>4, <2>1, MinOfTwo
  <2>. QED  BY <1>4c, <2>1, <2>2
<1>7. B \subseteq ToSet(q)
  <2>1. PICK l \in Nat : l = Len(q) /\ DOMAIN q = 1 .. l
    BY <1>4
  <2>2. DOMAIN SubSeq(q, 1, n) = 1 .. n /\ \A i \in 1 .. n : SubSeq(q, 1, n)[i] = q[i]
    BY <1>4, <1>6
  <2>3. 1 .. n \subseteq 1 .. l
    BY <1>6, <2>1
  <2>. QED  BY <1>4b, <2>1, <2>2, <2>3, Zenon DEF ToSet
<1>8. \A t \in Slots : t \in B => handler[t].pc = "infer"
  BY <1>4, <1>7
<1>9. \A t \in Slots : handler'[t] = IF t \in B THEN [handler[t] EXCEPT !.pc = p] ELSE handler[t]
  BY <1>5
<1>10. \A t \in Slots : [handler[t] EXCEPT !.pc = p] \in Handlers
                        /\ [handler[t] EXCEPT !.pc = p].pc = p
                        /\ [handler[t] EXCEPT !.pc = p].epoch = handler[t].epoch
  BY <1>2 DEF Handlers, Engaged
<1>11. handler' \in [Slots -> Handlers]
  BY <1>2, <1>5, <1>10
<1>. QED  BY <1>1, <1>8, <1>9, <1>10, <1>11

LEMMA InferShares ==
  ASSUME SharesInv, NEW r \in Rollouts, Infer(r), PerEnvInv' PROVE SharesInv'
<1>1. /\ UNCHANGED <<conf, generate, actorQ>>
      /\ \A t \in Slots : /\ handler'[t].epoch = handler[t].epoch
                          /\ \/ handler'[t].pc = handler[t].pc
                             \/ /\ handler[t].pc = "infer"
                                /\ handler'[t].pc \in {"failed", "answered"}
  BY InferChanges DEF SharesInv
<1>. QED  BY <1>1, EarlyShares DEF Early

LEMMA RaiseShares ==
  ASSUME SharesInv, NEW r \in Rollouts, Raise(r), PerEnvInv' PROVE SharesInv'
<1>1. /\ generate[r] = "running" /\ generate' = [generate EXCEPT ![r] = "raised"]
      /\ UNCHANGED <<conf, handler, actorQ>>
  BY DEF Raise
<1>2. Slots' = Slots /\ (Training' <=> Training) /\ \A t : RolloutOf(t)' = RolloutOf(t)
  BY <1>1, ConfSame
<1>3. \A t \in Slots : RolloutOf(t) \in Rollouts
  BY HandlerFacts DEF SharesInv
<1>4. \A x \in Rollouts : generate'[x] = "ended" <=> generate[x] = "ended"
  BY <1>1 DEF SharesInv, PerEnvInv, TypeOK
<1>5. \A s \in Slots : HandlerInv(s)'
  BY <1>1, <1>2, <1>3, <1>4 DEF HandlerInv, SharesInv
<1>6. \A p \in PieceSet : Sent(p)' <=> Sent(p)
  BY <1>1, <1>2, <1>3, <1>4 DEF Sent, Done, PieceSet
<1>. QED  BY <1>1, <1>5, <1>6, QueuesKept

\* The pieces a call ships when it returns: those of its slots, each once.
LEMMA AllPiecesOf ==
  ASSUME conf \in Configs, NEW r \in Rollouts, NEW k \in 0 .. NumEpochs - 1,
         \A s \in MySlots(r) : handler[s].epoch = k
  PROVE  LET u == FlattenSeq([i \in DOMAIN MySlotSeq(r) |-> Pieces(MySlotSeq(r)[i])])
         IN /\ u \in Seq(PieceSet) /\ IsInjective(u)
            /\ \A p : p \in ToSet(u) <=> p \in PieceSet /\ RolloutOf(p.slot) = r /\ p.epoch = k
<1>1. PICK n \in Nat : n = Cardinality(Slots) /\ Slots = 0 .. n - 1
  BY SplitFacts
<1> DEFINE all == [i \in 1 .. Cardinality(Slots) |-> i - 1]
           v == MySlotSeq(r)
           f == [i \in DOMAIN v |-> Pieces(v[i])]
<1>2. /\ all \in Seq(Slots) /\ IsInjective(all) /\ ToSet(all) = Slots
  <2>1. all = [i \in 1 .. n |-> i - 1]
    BY <1>1
  <2>2. \A i \in 1 .. n : i - 1 \in 0 .. n - 1
    OBVIOUS
  <2>3. all \in Seq(Slots) /\ DOMAIN all = 1 .. n
    BY <1>1, <2>1, <2>2
  <2>4. \A i \in 1 .. n : all[i] = i - 1
    BY <2>1
  <2>5. IsInjective(all)
    BY <2>3, <2>4 DEF IsInjective
  <2>6. ASSUME NEW s \in 0 .. n - 1 PROVE s \in ToSet(all)
    <3>1. s + 1 \in 1 .. n /\ (s + 1) - 1 = s
      OBVIOUS
    <3>. QED  BY <2>3, <2>4, <3>1 DEF ToSet
  <2>7. ToSet(all) \subseteq Slots
    BY <1>1, <2>2, <2>3, <2>4, Zenon DEF ToSet
  <2>. QED  BY <1>1, <2>3, <2>5, <2>6, <2>7
<1>3. /\ v \in Seq(Slots) /\ IsInjective(v)
      /\ \A s : s \in ToSet(v) <=> s \in MySlots(r)
  <2>1. v = Those(all, MySlots(r))
    BY Zenon DEF MySlotSeq
  <2>2. /\ Those(all, MySlots(r)) \in Seq(Slots) /\ IsInjective(Those(all, MySlots(r)))
        /\ \A s : s \in ToSet(Those(all, MySlots(r))) <=> s \in ToSet(all) /\ s \in MySlots(r)
    <3> HIDE DEF all
    <3>. QED  BY <1>2, ThoseFacts
  <2>3. MySlots(r) \subseteq Slots
    BY DEF MySlots
  <2>. QED  BY <1>2, <2>1, <2>2, <2>3, Zenon
<1> HIDE DEF all, v
<1>4. PICK m \in Nat : DOMAIN v = 1 .. m /\ m = Len(v)
  BY <1>3
<1>5. \A i \in 1 .. m : /\ v[i] \in MySlots(r) /\ v[i] \in Slots /\ handler[v[i]].epoch = k
  BY <1>3, <1>4 DEF ToSet
<1>6. \A i \in 1 .. m : /\ f[i] = Pieces(v[i]) /\ f[i] \in Seq(PieceSet) /\ IsInjective(f[i])
                        /\ \A p : p \in ToSet(f[i]) <=> p \in PieceSet /\ p.slot = v[i] /\ p.epoch = k
  <2> SUFFICES ASSUME NEW i \in 1 .. m
               PROVE  /\ f[i] = Pieces(v[i]) /\ f[i] \in Seq(PieceSet) /\ IsInjective(f[i])
                      /\ \A p : p \in ToSet(f[i]) <=>
                                  p \in PieceSet /\ p.slot = v[i] /\ p.epoch = k
    OBVIOUS
  <2>1. f[i] = Pieces(v[i])
    BY <1>4
  <2>. QED  BY <1>5, <2>1, PiecesFacts
<1>7. f \in Seq(Seq(PieceSet)) /\ DOMAIN f = 1 .. m
  BY <1>4, <1>6
<1> HIDE DEF f
<1>8. \A i, j \in DOMAIN f : i # j => ToSet(f[i]) \cap ToSet(f[j]) = {}
  <2> SUFFICES ASSUME NEW i \in 1 .. m, NEW j \in 1 .. m, i # j
               PROVE  ToSet(f[i]) \cap ToSet(f[j]) = {}
    BY <1>7
  <2>1. v[i] # v[j]
    BY <1>3, <1>4 DEF IsInjective
  <2>. QED  BY <1>6, <2>1
<1>9. /\ FlattenSeq(f) \in Seq(PieceSet) /\ IsInjective(FlattenSeq(f))
      /\ \A x : x \in ToSet(FlattenSeq(f)) <=> \E i \in DOMAIN f : x \in ToSet(f[i])
  <2>1. \A i \in DOMAIN f : IsInjective(f[i])
    BY <1>6, <1>7
  <2>. QED  BY <1>7, <1>8, <2>1, Flattened
<1>10. ASSUME NEW p
       PROVE  (\E i \in DOMAIN f : p \in ToSet(f[i])) <=>
                p \in PieceSet /\ RolloutOf(p.slot) = r /\ p.epoch = k
  <2>1. ASSUME NEW i \in DOMAIN f, p \in ToSet(f[i])
        PROVE  p \in PieceSet /\ RolloutOf(p.slot) = r /\ p.epoch = k
    <3>1. i \in 1 .. m
      BY <1>7, <2>1
    <3>2. v[i] \in MySlots(r) /\ p \in PieceSet /\ p.slot = v[i] /\ p.epoch = k
      BY <1>5, <1>6, <2>1, <3>1
    <3>. QED  BY <3>2 DEF MySlots
  <2>2. ASSUME p \in PieceSet, RolloutOf(p.slot) = r, p.epoch = k
        PROVE  \E i \in DOMAIN f : p \in ToSet(f[i])
    <3>1. p.slot \in MySlots(r)
      BY <2>2 DEF MySlots, PieceSet
    <3>2. PICK i \in 1 .. m : v[i] = p.slot
      BY <1>3, <1>4, <3>1, Zenon DEF ToSet
    <3>. QED  BY <1>6, <1>7, <2>2, <3>2
  <2>. QED  BY <2>1, <2>2
<1>. QED  BY <1>9, <1>10 DEF f, v

LEMMA EndShares ==
  ASSUME SharesInv, NEW r \in Rollouts, End(r), PerEnvInv' PROVE SharesInv'
<1> DEFINE u == FlattenSeq([i \in DOMAIN MySlotSeq(r) |-> Pieces(MySlotSeq(r)[i])])
<1>1. /\ \A s \in MySlots(r) : handler[s].pc = "over"
      /\ generate' = [generate EXCEPT ![r] = "ended"] /\ UNCHANGED <<conf, handler>>
      /\ actorQ' = IF Training /\ conf.pipeline = "sync"
                   THEN [actorQ EXCEPT ![-1] = @ \o u] ELSE actorQ
  BY Zenon DEF End
<1> HIDE DEF u
<1>2. /\ Slots' = Slots /\ (Training' <=> Training) /\ (\A t : RolloutOf(t)' = RolloutOf(t))
      /\ Actors' = Actors /\ PieceSet' = PieceSet /\ \A p : KeyFor(p)' = KeyFor(p)
  BY <1>1, SharesSame, ConfSame
<1>3. /\ \A t \in Slots : RolloutOf(t) \in Rollouts
      /\ conf \in Configs /\ NumEpochs \in Nat \ {0}
      /\ conf.pipeline \in {"sync", "async"}
  BY ConfType DEF SharesInv, PerEnvInv, TypeOK, Positive, RolloutOf, Slots, Rollouts
<1>4. \A x \in Rollouts : generate'[x] = "ended" <=> generate[x] = "ended" \/ x = r
  BY <1>1 DEF SharesInv, PerEnvInv, TypeOK
<1>5. \A s \in MySlots(r) : handler[s].epoch = NumEpochs - 1
  BY <1>1 DEF SharesInv, HandlerInv, MySlots
<1>6. \A s \in Slots : HandlerInv(s)'
  BY <1>1, <1>2, <1>3, <1>4 DEF SharesInv, HandlerInv, MySlots
<1>7. CASE Training /\ conf.pipeline = "sync"
  <2>1. NumEpochs - 1 \in 0 .. NumEpochs - 1
    BY <1>3
  <2>2. /\ u \in Seq(PieceSet) /\ IsInjective(u)
        /\ \A p : p \in ToSet(u) <=>
             p \in PieceSet /\ RolloutOf(p.slot) = r /\ p.epoch = NumEpochs - 1
    BY <1>3, <1>5, <2>1, AllPiecesOf DEF u
  <2>3. \A p \in PieceSet : /\ RolloutOf(p.slot) \in Rollouts /\ KeyFor(p) = -1
                            /\ Sent(p) <=> generate[RolloutOf(p.slot)] = "ended" /\ p.epoch = NumEpochs - 1
    BY <1>3, <1>7 DEF PieceSet, KeyFor, Sent
  <2>4. \A p \in PieceSet : Sent(p)' <=> Sent(p) \/ p \in ToSet(u)
    <3> SUFFICES ASSUME NEW p \in PieceSet PROVE Sent(p)' <=> Sent(p) \/ p \in ToSet(u)
      OBVIOUS
    <3>1. Sent(p)' <=> generate'[RolloutOf(p.slot)] = "ended" /\ p.epoch = NumEpochs - 1
      BY <1>1, <1>2, <1>7 DEF Sent
    <3>. QED  BY <1>4, <2>2, <2>3, <3>1
  <2>5. PICK q : q = actorQ[-1]
    OBVIOUS
  <2>6. /\ DOMAIN actorQ = Actors \cup {-1} /\ QueueHolds(-1)
    BY DEF SharesInv
  <2>7. /\ q \in Seq(PieceSet) /\ IsInjective(q)
        /\ \A p \in PieceSet : p \in ToSet(q) <=> Sent(p)
    BY <1>7, <2>3, <2>5, <2>6 DEF QueueHolds
  <2>8. generate[r] # "ended"
    BY DEF End
  <2>9. \A p \in ToSet(q) : p \notin ToSet(u)
    <3>1. ToSet(q) \subseteq PieceSet
      BY <2>7 DEF ToSet
    <3>. QED  BY <2>2, <2>3, <2>7, <2>8, <3>1
  <2>10. q \o u \in Seq(PieceSet) /\ IsInjective(q \o u) /\ ToSet(q \o u) = ToSet(q) \cup ToSet(u)
    BY <2>2, <2>7, <2>9, Joined
  <2>11. actorQ' = [actorQ EXCEPT ![-1] = q \o u]
    BY <1>1, <1>7, <2>5
  <2>12. QueueHolds(-1)'
    <3>1. actorQ'[-1] = q \o u
      BY <2>6, <2>11
    <3>. QED  BY <1>2, <1>7, <2>3, <2>4, <2>7, <2>10, <3>1 DEF QueueHolds
  <2>13. ASSUME NEW a \in Actors PROVE QueueHolds(a)'
    <3>1. a # -1
      BY <1>3, ConfType DEF Actors, Positive
    <3>2. actorQ'[a] = actorQ[a] /\ QueueHolds(a)
      BY <2>11, <3>1 DEF SharesInv
    <3>. QED  BY <1>2, <2>3, <3>1, <3>2 DEF QueueHolds
  <2>14. DOMAIN actorQ' = (Actors \cup {-1})'
    BY <1>2, <2>6, <2>11
  <2>. QED  BY <1>2, <1>6, <2>12, <2>13, <2>14 DEF SharesInv
<1>8. CASE ~(Training /\ conf.pipeline = "sync")
  <2>1. UNCHANGED actorQ
    BY <1>1, <1>8
  <2>2. Training => \A p \in PieceSet : Sent(p)' <=> Sent(p)
    BY <1>1, <1>3, <1>8 DEF Sent, Done
  <2>. QED  BY <1>1, <1>6, <2>1, <2>2, QueuesKept
<1>. QED  BY <1>7, <1>8

LEMMA InitShares == Init => SharesInv
<1> SUFFICES ASSUME Init PROVE SharesInv
  OBVIOUS
<1>1. PerEnvInv
  BY InitPerEnv
<1>2. actorQ = [a \in Actors \cup {-1} |-> <<>>]
  BY DEF Init
<1>3. /\ \A s \in Slots : handler[s].pc = "recv" /\ handler[s].epoch = 0 /\ RolloutOf(s) \in Rollouts
      /\ \A r \in Rollouts : generate[r] = "running"
  BY SlotFacts DEF Init
<1>4. \A p \in PieceSet : ~Sent(p)
  <2> SUFFICES ASSUME NEW p \in PieceSet PROVE ~Sent(p)
    OBVIOUS
  <2>1. p.slot \in Slots /\ p.epoch \in Nat
    BY DEF PieceSet
  <2>2. /\ handler[p.slot].pc = "recv" /\ handler[p.slot].epoch = 0
        /\ generate[RolloutOf(p.slot)] = "running"
    BY <1>3, <2>1
  <2>. QED  BY <2>1, <2>2 DEF Sent, Done
<1>5. ASSUME NEW a \in Actors \cup {-1} PROVE QueueHolds(a)
  <2>1. actorQ[a] = <<>>
    BY <1>2
  <2>2. <<>> \in Seq(PieceSet) /\ IsInjective(<<>>) /\ ToSet(<<>>) = {}
    BY DEF IsInjective, ToSet
  <2>. QED  BY <1>4, <2>1, <2>2 DEF QueueHolds
<1>6. \A s \in Slots : HandlerInv(s)
  BY <1>3 DEF HandlerInv
<1>. QED  BY <1>1, <1>2, <1>5, <1>6 DEF SharesInv

LEMMA SharesInductive == SharesInv /\ [Next]_vars => SharesInv'
<1> SUFFICES ASSUME SharesInv, [Next]_vars PROVE SharesInv'
  OBVIOUS
<1>0. PerEnvInv'
  BY PerEnvInductive DEF SharesInv
<1>1. ASSUME NEW e \in Envs, EnvNext(e) PROVE SharesInv'
  <2>1. UNCHANGED <<conf, handler, generate, actorQ>>
    BY <1>1, Zenon DEF EnvNext, SendOutput, TakeReply, EnvStep, BeginEpoch
  <2>. QED  BY <1>0, <2>1, EarlyShares
<1>2. ASSUME NEW s \in Slots, HandlerNext(s) PROVE SharesInv'
  <2>1. CASE Submit(s) \/ Ask(s) \/ Post(s) \/ EvalSubmit(s)
    BY <1>0, <2>1, SubmitShares, GetShares
  <2>2. CASE Act(s) \/ Bootstrap(s) \/ Ship(s) \/ Acknowledge(s)
    BY <1>0, <2>2, ActShares, BootstrapShares, ShipShares, AcknowledgeShares
  <2>. QED  BY <1>2, <2>1, <2>2 DEF HandlerNext
<1>3. ASSUME NEW r \in Rollouts, WorkerNext(r) PROVE SharesInv'
  BY <1>0, <1>3, InferShares, RaiseShares, EndShares DEF WorkerNext
<1>4. ASSUME UNCHANGED vars PROVE SharesInv'
  BY <1>0, <1>4, EarlyShares DEF vars
<1>. QED  BY <1>0, <1>1, <1>2, <1>3, <1>4, ServeShares DEF Next, Finished

LEMMA PieceCount ==
  ASSUME conf \in Configs, NEW k \in 0 .. NumEpochs - 1
  PROVE  /\ LET E == {p \in PieceSet : p.epoch = k}
            IN IsFiniteSet(E) /\ Cardinality(E) = Share * conf.actors
         /\ \A a \in Actors :
              LET E == {p \in PieceSet : p.epoch = k /\ TargetActor(p.slot, p.part) = a}
              IN IsFiniteSet(E) /\ Cardinality(E) = Share
<1>1. PICK n \in Positive, t \in Positive, m \in Nat \ {0}, c \in Nat :
        /\ n = Cardinality(Slots) /\ Slots = 0 .. n - 1 /\ t = SplitNum /\ m = conf.actors
        /\ c = Share /\ n * t = c * m
  BY SplitFacts DEF Positive
<1>2. /\ \A x \in 0 .. n * t - 1 :
           x \div t \in 0 .. n - 1 /\ x % t \in 0 .. t - 1 /\ x = (x \div t) * t + (x % t)
      /\ \A s \in 0 .. n - 1, i \in 0 .. t - 1 :
           s * t + i \in 0 .. n * t - 1 /\ (s * t + i) \div t = s /\ (s * t + i) % t = i
  BY Division
<1> DEFINE P(x) == [slot |-> x \div t, part |-> x % t, epoch |-> k]
           M == 0 .. n * t - 1
<1>3. \A x \in M : P(x) \in PieceSet /\ TargetActor(P(x).slot, P(x).part) = x % m
  <2> SUFFICES ASSUME NEW x \in M
               PROVE  P(x) \in PieceSet /\ TargetActor(P(x).slot, P(x).part) = x % m
    OBVIOUS
  <2>1. x \div t \in 0 .. n - 1 /\ x % t \in 0 .. t - 1 /\ x = (x \div t) * t + (x % t)
    BY <1>2
  <2>2. P(x) \in PieceSet
    BY <1>1, <2>1 DEF PieceSet
  <2>. QED  BY <1>1, <2>1, <2>2 DEF TargetActor
<1>4. ASSUME NEW x \in M, NEW y \in M, P(x) = P(y) PROVE x = y
  <2>1. x \div t = y \div t /\ x % t = y % t
    BY <1>4
  <2>2. x = (x \div t) * t + (x % t) /\ y = (y \div t) * t + (y % t)
    BY <1>2
  <2>. QED  BY <2>1, <2>2
<1>5. ASSUME NEW p \in PieceSet, p.epoch = k PROVE \E x \in M : P(x) = p
  <2>1. /\ p.slot \in 0 .. n - 1 /\ p.part \in 0 .. t - 1
        /\ p = [slot |-> p.slot, part |-> p.part, epoch |-> k]
    BY <1>1, <1>5 DEF PieceSet
  <2>2. PICK s \in 0 .. n - 1, i \in 0 .. t - 1 : s = p.slot /\ i = p.part
    BY <2>1
  <2>3. s * t + i \in M /\ (s * t + i) \div t = s /\ (s * t + i) % t = i
    BY <1>2
  <2>4. P(s * t + i) = p
    BY <2>1, <2>2, <2>3
  <2>. QED  BY <2>3, <2>4, Zenon
<1> HIDE DEF P
<1>6. LET E == {p \in PieceSet : p.epoch = k}
      IN IsFiniteSet(E) /\ Cardinality(E) = Share * conf.actors
  <2> DEFINE E == {p \in PieceSet : p.epoch = k}
             f == [x \in M |-> P(x)]
  <2>1. \A x \in M : P(x) \in E
    BY <1>3 DEF P
  <2>2. f \in [M -> E] /\ (\A x, y \in M : f[x] = f[y] => x = y) /\ \A p \in E : \E x \in M : f[x] = p
    BY <1>4, <1>5, <2>1
  <2>3. IsFiniteSet(M) /\ Cardinality(M) = n * t
    <3>1. PICK w \in Nat : w = n * t
      BY DEF Positive
    <3>2. 0 \in Int /\ w - 1 \in Int /\ (IF 0 > w - 1 THEN 0 ELSE w - 1 - 0 + 1) = w
      OBVIOUS
    <3>. QED  BY <3>1, <3>2, FS_Interval, Zenon
  <2> HIDE DEF E, f, M
  <2>4. IsFiniteSet(E) /\ Cardinality(E) = Cardinality(M)
    BY <2>2, <2>3, CountedOff
  <2>. QED  BY <1>1, <2>3, <2>4 DEF E
<1>7. ASSUME NEW a \in Actors
      PROVE  LET E == {p \in PieceSet : p.epoch = k /\ TargetActor(p.slot, p.part) = a}
             IN IsFiniteSet(E) /\ Cardinality(E) = Share
  <2> DEFINE E == {p \in PieceSet : p.epoch = k /\ TargetActor(p.slot, p.part) = a}
             D == {x \in 0 .. c * m - 1 : x % m = a}
             f == [x \in D |-> P(x)]
  <2>1. IsFiniteSet(D) /\ Cardinality(D) = c
    <3>1. a \in 0 .. m - 1
      BY <1>1 DEF Actors
    <3>. QED  BY <3>1, DealtOut
  <2>2. D = {x \in M : x % m = a}
    BY <1>1
  <2>3. \A x \in D : P(x) \in E /\ x \in M
    BY <1>3, <2>2 DEF P
  <2>4. ASSUME NEW p \in E PROVE \E x \in D : P(x) = p
    <3>1. PICK x \in M : P(x) = p
      BY <1>5
    <3>2. x % m = a
      BY <1>3, <3>1
    <3>. QED  BY <2>2, <3>1, <3>2
  <2> HIDE DEF D, E
  <2>5. f \in [D -> E] /\ (\A x, y \in D : f[x] = f[y] => x = y) /\ \A p \in E : \E x \in D : f[x] = p
    BY <1>4, <2>3, <2>4
  <2>6. IsFiniteSet(E) /\ Cardinality(E) = Cardinality(D)
    <3> HIDE DEF f
    <3>. QED  BY <2>1, <2>5, CountedOff
  <2>. QED  BY <1>1, <2>1, <2>6 DEF E
<1>. QED  BY <1>6, <1>7

LEMMA SharesImply == SharesInv => SharesAreEven
<1> SUFFICES ASSUME SharesInv PROVE SharesAreEven
  OBVIOUS
<1>1. /\ conf \in Configs /\ DOMAIN actorQ = Actors \cup {-1} /\ NumEpochs \in Nat \ {0}
      /\ conf.pipeline \in {"sync", "async"} /\ conf.actors \in Nat /\ Share \in Nat
  BY SplitFacts, ConfType DEF SharesInv, PerEnvInv, TypeOK, Positive
<1>2. \A a \in Actors \cup {-1} :
        /\ actorQ[a] \in Seq(PieceSet) /\ IsInjective(actorQ[a])
        /\ \A p \in PieceSet : p \in ToSet(actorQ[a]) <=> Training /\ Sent(p) /\ KeyFor(p) = a
  BY DEF SharesInv, QueueHolds
<1>3. -1 \notin Actors
  BY <1>1 DEF Actors
<1>4. ASSUME NEW a \in Actors, NEW k \in 0 .. NumEpochs - 1
      PROVE  /\ Cardinality(PiecesOf(k, a)) \in Nat /\ Cardinality(PiecesOf(k, a)) <= Share
             /\ Training /\ conf.pipeline = "async" /\ (\A p \in PieceSet : Sent(p)) =>
                  Cardinality(PiecesOf(k, a)) = Share
  <2> DEFINE E == {p \in PieceSet : p.epoch = k /\ TargetActor(p.slot, p.part) = a}
             U == {actorQ[a][i] : i \in PiecesOf(k, a)}
  <2>1. IsFiniteSet(E) /\ Cardinality(E) = Share
    BY <1>1, PieceCount
  <2>2. PICK n \in Nat : n = Len(actorQ[a]) /\ DOMAIN actorQ[a] = 1 .. n
    BY <1>2
  <2>3. PiecesOf(k, a) \in SUBSET (1 .. n)
    BY <2>2 DEF PiecesOf
  <2>4. Cardinality(U) = Cardinality(PiecesOf(k, a)) /\ IsFiniteSet(U)
    BY <1>2, <2>2, <2>3, LengthOf
  <2>5. \A p : p \in U <=> p \in ToSet(actorQ[a]) /\ p.epoch = k
    BY Zenon DEF PiecesOf, ToSet
  <2>6. ToSet(actorQ[a]) \subseteq PieceSet
    BY <1>2, <2>2 DEF ToSet
  <2>7. \A p \in PieceSet : p \in ToSet(actorQ[a]) =>
          conf.pipeline = "async" /\ TargetActor(p.slot, p.part) = a
    BY <1>2, <1>3 DEF KeyFor
  <2>8. U \subseteq E
    BY <2>5, <2>6, <2>7
  <2>9. ASSUME Training, conf.pipeline = "async", \A p \in PieceSet : Sent(p) PROVE U = E
    BY <1>2, <2>5, <2>8, <2>9 DEF KeyFor
  <2> HIDE DEF U, E
  <2>10. Cardinality(U) <= Cardinality(E) /\ Cardinality(U) \in Nat
    BY <2>1, <2>4, <2>8, FS_Subset, FS_CardinalityType
  <2>. QED  BY <2>1, <2>4, <2>9, <2>10
<1>5. ASSUME AllOver, Training
      PROVE  IF conf.pipeline = "sync" THEN Len(actorQ[-1]) = Share * conf.actors
             ELSE \A a \in Actors, epoch \in 0 .. NumEpochs - 1 :
                    Cardinality(PiecesOf(epoch, a)) = Share
  <2>1. \A s \in Slots : generate[RolloutOf(s)] = "ended"
    BY <1>1, <1>5, SlotFacts DEF AllOver
  <2>2. \A s \in Slots : handler[s].pc = "over" /\ handler[s].epoch = NumEpochs - 1
    BY <2>1 DEF SharesInv, HandlerInv
  <2>3. CASE conf.pipeline = "async"
    <3>1. \A p \in PieceSet : Sent(p)
      BY <1>1, <2>2, <2>3 DEF Sent, Done, PieceSet
    <3>. QED  BY <1>4, <1>5, <2>3, <3>1
  <2>4. CASE conf.pipeline = "sync"
    <3> DEFINE k == NumEpochs - 1
               E == {p \in PieceSet : p.epoch = k}
               q == actorQ[-1]
    <3>1. IsFiniteSet(E) /\ Cardinality(E) = Share * conf.actors
      <4>1. k \in 0 .. NumEpochs - 1
        BY <1>1
      <4>. QED  BY <1>1, <4>1, PieceCount
    <3>2. \A p \in PieceSet : p \in ToSet(q) <=> p.epoch = k
      BY <1>2, <1>5, <2>1, <2>4 DEF Sent, KeyFor, PieceSet
    <3>3. PICK n \in Nat : n = Len(q) /\ DOMAIN q = 1 .. n /\ q \in Seq(PieceSet) /\ IsInjective(q)
      BY <1>2
    <3>4. E = ToSet(q)
      <4>1. ToSet(q) \subseteq PieceSet
        BY <3>3 DEF ToSet
      <4>. QED  BY <3>2, <4>1
    <3>5. ToSet(q) = {q[i] : i \in 1 .. n}
      BY <3>3 DEF ToSet
    <3>6. Cardinality({q[i] : i \in 1 .. n}) = n
      <4> HIDE DEF q
      <4>1. 1 .. n \in SUBSET (1 .. Len(q))
        BY <3>3
      <4>. QED  BY <3>3, <4>1, LengthOf
    <3>. QED  BY <2>4, <3>1, <3>3, <3>4, <3>5, <3>6
  <2>. QED  BY <1>1, <2>3, <2>4
<1>. QED  BY <1>1, <1>2, <1>4, <1>5 DEF SharesAreEven

\* The queues of the actors contain, at every moment, each piece of each epoch a
\* handler has shipped once and nothing else (_send_rollout_batch).
THEOREM SharesInvariant == Spec => []SharesInv
<1>. QED  BY InitShares, SharesInductive, PTL DEF Spec

\* For any number of slots, actors, workers, epochs and steps, whatever the
\* interleaving: no piece is shipped twice, no actor ever gets more of an epoch
\* than the share it counts on, and when all calls have returned every actor has
\* exactly its share of every epoch (in the synchronous pipeline: the actors
\* together); compute_split_num, _send_rollout_batch, get_messages_per_epoch.
THEOREM SharesAlwaysEven == Spec => []SharesAreEven
<1>. QED  BY SharesInvariant, SharesImply, PTL
=============================================================================
