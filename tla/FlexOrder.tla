------------------------------ MODULE FlexOrder ------------------------------
(***************************************************************************)
(* Why FlexRouting keeps its messages in order: the inductive invariant    *)
(* behind InOrder, ActionFitsStep, OneInFlight and QuietAtEnd.             *)
(*                                                                         *)
(* A slot has two positions in the stream of observations of a training    *)
(* step: how far its manager has sent and how far its handler has taken.   *)
(* A position is an epoch and a number of observations of that epoch, so   *)
(* that nothing below multiplies; position <<k, NumSteps + 1>> is the same *)
(* as <<k + 1, 0>>.  The observations on the way are those between the two *)
(* positions, in order, and the protocol of actions and acks keeps the     *)
(* distance at one, or two with prefetching.                               *)
(***************************************************************************)
EXTENDS FlexRouting

PerEpoch == NumSteps + 1

Busy(s) == hPc[s] \in {"infer", "reply", "mark"}

\* Where the handler stands.
TakenEpoch(s) == IF gen[RankOf[s]] = "idle" THEN 0 ELSE hEpoch[s]
TakenCount(s) ==
  IF gen[RankOf[s]] = "idle" THEN 0 ELSE IF hPc[s] = "recv" THEN hStep[s] ELSE hStep[s] + 1

\* Where the manager stands.
SentEpoch(e) == IF envPc[e] = "idle" THEN 0 ELSE envEpoch[e]
SentCount(e) ==
  IF envPc[e] \in {"idle", "reset"} THEN 0
  ELSE IF envPc[e] = "act" THEN envStep[e] + 1 ELSE PerEpoch

\* The observations from position <<k, c>> to <<l, d>>, for epochs at most one
\* apart; -1 if they are further apart.
Between(k, c, l, d) ==
  IF l = k THEN d - c
  ELSE IF l = k + 1 THEN d + PerEpoch - c
  ELSE IF l = k - 1 THEN d - PerEpoch - c
  ELSE -1

\* The observation after the first n of epoch k, and a sequence that goes on
\* from there.
ObsAt(i, k, n) == IF n < PerEpoch THEN Obs(i, k, n - 1) ELSE Obs(i, k + 1, n - PerEpoch - 1)
Line(q, i, k, n) == \A j \in 1 .. Len(q) : q[j] = ObsAt(i, k, n + j - 1)

Waiting(s) == Len(slotq[s]) + Len(pending[s]) + Len(inq[s])
Unanswered(s) == Waiting(s) + (IF hPc[s] \in {"infer", "reply"} THEN 1 ELSE 0)

\* The three queues of a slot hold what was sent and not taken, in order.
LineUp(s) ==
  /\ Waiting(s) = Between(TakenEpoch(s), TakenCount(s), SentEpoch(EnvOf[s]), SentCount(EnvOf[s]))
  /\ Line(slotq[s], iter, TakenEpoch(s), TakenCount(s))
  /\ Line(pending[s], iter, TakenEpoch(s), TakenCount(s) + Len(slotq[s]))
  /\ Line(inq[s], iter, TakenEpoch(s), TakenCount(s) + Len(slotq[s]) + Len(pending[s]))

InHand(s) == Busy(s) => hMsg[s] = Obs(iter, hEpoch[s], hStep[s] - 1)

\* The handler's thread and the call of generate() it belongs to.
Phase(s) ==
  /\ gen[RankOf[s]] = "idle" => hPc[s] \in {"off", "done"} /\ slotq[s] = <<>> /\ pending[s] = <<>>
  /\ gen[RankOf[s]] = "running" => hPc[s] # "off"
  /\ gen[RankOf[s]] = "done" => hPc[s] = "done"
  /\ hPc[s] = "done" => hEpoch[s] = NumEpochs - 1
  /\ hPc[s] \in {"end", "done"} => hStep[s] = NumSteps

\* The in-flight flag, which the round-robin router does not read.
Flight(s) ==
  /\ Len(slotq[s]) <= 1
  /\ slotq[s] # <<>> => ~Busy(s)
  /\ inflight[s] <=> (slotq[s] # <<>> \/ Busy(s))

\* The frontier names the observation before the next one to dispatch.
AtFront(s) ==
  gen[RankOf[s]] = "running" =>
    frontier[s] =
      IF hPc[s] \in {"end", "done"} THEN {<<hEpoch[s], EpochComplete>>}
      ELSE IF hStep[s] > 0 THEN {<<hEpoch[s], hStep[s] - 2>>}
      ELSE IF hEpoch[s] > 0 THEN {<<hEpoch[s] - 1, EpochComplete>>}
      ELSE {}

\* An answer is under the slot's key, or was read from it.
Answered(s) == s \notin awaited[EnvOf[s]] \/ actq[s] # <<>>

\* The protocol of the manager, state by state.
Collecting(s) ==
  LET e == EnvOf[s] IN
  envPc[e] = "act" =>
    /\ Answered(s) => Unanswered(s) = 0
    /\ ~Answered(s) => \/ Unanswered(s) = 1
                       \/ Unanswered(s) = 2 /\ Prefetch /\ envStep[e] = 0
    /\ actq[s] # <<>> => s \in awaited[e] /\ actq[s] = <<Action(iter, envEpoch[e], envStep[e])>>

Acking(s) ==
  LET e == EnvOf[s] IN
  envPc[e] = "ack" =>
    /\ ~Prefetch
    /\ Answered(s) => TakenEpoch(s) = envEpoch[e] + 1
    /\ ~Answered(s) => Unanswered(s) <= 1 /\ TakenEpoch(s) # envEpoch[e] + 1
    /\ actq[s] # <<>> => s \in awaited[e] /\ actq[s] = <<Ack(iter, envEpoch[e])>>

Resting(s) ==
  LET e == EnvOf[s] IN
  envPc[e] \notin {"act", "ack"} =>
    /\ envPc[e] # "failed"
    /\ actq[s] = <<>>
    /\ envPc[e] = "reset" => Unanswered(s) <= (IF Prefetch THEN 1 ELSE 0)
    /\ envPc[e] = "done" => Unanswered(s) <= 1 /\ envEpoch[e] = NumEpochs - 1

\* Without prefetching no handler enters an epoch before its manager, except
\* between its ack and the reading of it.
InStep(s) ==
  ~Prefetch /\ envPc[EnvOf[s]] \in {"idle", "reset", "act"} => TakenEpoch(s) = SentEpoch(EnvOf[s])

SlotInv(s) ==
  /\ LineUp(s) /\ InHand(s) /\ Phase(s) /\ Flight(s) /\ AtFront(s)
  /\ Collecting(s) /\ Acking(s) /\ Resting(s) /\ InStep(s)

\* A manager waits for its own slots, for acks only while some are missing.
AwaitsOwn ==
  \A e \in Envs : awaited[e] \subseteq SlotsOfEnv(e) /\ (envPc[e] = "ack" => awaited[e] # {})

OrderInv == AwaitsOwn /\ \A s \in Slots : SlotInv(s)

\* Why RouterOrder holds.  On a running worker the environments before the
\* router's turn have had one dispatch more than those from it on; the slots
\* an environment has on the worker move together under both group routers.
ServedTogether(s, t) == Dispatched(s) = Dispatched(t)

TurnInv ==
  \A s, t \in Slots :
    RankOf[s] = RankOf[t] /\ gen[RankOf[s]] = "running" /\ Mode = "round_robin" =>
      LET now == turn[RankOf[s]] IN
      /\ (EnvOf[s] < now <=> EnvOf[t] < now) => ServedTogether(s, t)
      /\ EnvOf[s] < now /\ now <= EnvOf[t] => Dispatched(s) = Dispatched(t) + 1

GroupInv ==
  \A s, t \in Slots :
    /\ RankOf[s] = RankOf[t] /\ EnvOf[s] = EnvOf[t]
    /\ gen[RankOf[s]] = "running" /\ Mode = "env_group_greedy"
    => ServedTogether(s, t)

\* Why TrajectoriesComplete holds.  The lists of a running worker's buffer are
\* as long as n answered observations after k complete epochs make them.
Lengths(k, n) ==
  [dones    |-> k * PerEpoch + n,
   rewards  |-> k * NumSteps + (IF n = 0 THEN 0 ELSE n - 1),
   inputs   |-> k * NumSteps + (IF n = 0 THEN 0 ELSE n - 1),
   values   |-> k * PerEpoch + n,
   logprobs |-> k * NumSteps + (IF n > NumSteps THEN NumSteps ELSE n)]

\* Observations of its epoch the handler has recorded.
Recordings(s) == hStep[s] + (IF hPc[s] \in {"mark", "end", "done"} THEN 1 ELSE 0)

BufferFits(s) ==
  gen[RankOf[s]] = "running" =>
    /\ Pipeline = "sync" => buf[s] = Lengths(hEpoch[s], Recordings(s))
    /\ Pipeline = "async" /\ hPc[s] # "done" => buf[s] = Lengths(0, Recordings(s))

\* Trajectories a slot ships per training step, and those of this one.
ShipsPerIter == IF Pipeline = "async" THEN NumEpochs ELSE 1
Shipped(s) ==
  IF Pipeline = "async"
  THEN IF gen[RankOf[s]] = "idle" THEN 0
       ELSE IF hPc[s] = "done" THEN NumEpochs ELSE hEpoch[s]
  ELSE IF gen[RankOf[s]] = "done" THEN 1 ELSE 0

ShippedFits(s) ==
  /\ Len(sent[s]) = iter * ShipsPerIter + Shipped(s)
  /\ \A i \in 1 .. Len(sent[s]) :
       /\ sent[s][i].data = Lengths(IF Pipeline = "async" THEN 1 ELSE NumEpochs, 0)
       /\ sent[s][i].it = (i - 1) \div ShipsPerIter
       /\ Pipeline = "async" => sent[s][i].epoch = (i - 1) % ShipsPerIter

ShipInv == \A s \in Slots : BufferFits(s) /\ ShippedFits(s)
=============================================================================
