-------------------------- MODULE FlexRoutingProofs --------------------------
(***************************************************************************)
(* Theorems about FlexRouting, for every number of slots, environments,    *)
(* workers, epochs, steps and training steps, every router and both        *)
(* pipeline modes.  First the types; then OrderInv is an invariant, and    *)
(* with it InOrder, ActionFitsStep, OneInFlight and QuietAtEnd hold.       *)
(*                                                                         *)
(* For OrderInv there is one lemma per action, stated for one slot: a step *)
(* that is not about the slot keeps its part of the invariant (SlotKept);  *)
(* for the others the Same* operators name what the step leaves alone, and *)
(* the *Kept lemmas the conjuncts that follow from it.                     *)
(*                                                                         *)
(* The second half is about what is served: the order in which each router *)
(* dispatches, the safety part of the refinement of LockStep, and the      *)
(* trajectories that come out.  It rests on the invariant Inv.             *)
(***************************************************************************)
EXTENDS FlexOrder, SetSeqLemmas, SequenceTheorems

LEMMA EnvsType ==
  /\ Envs \subseteq Nat
  /\ IsFiniteSet(Envs)
  /\ \A s \in Slots : EnvOf[s] \in Envs /\ RankOf[s] \in Ranks
  /\ \A r \in Ranks : EnvsOfRank(r) \subseteq Envs /\ EnvsOfRank(r) # {}
<1>1. EnvOf \in Surjection(Slots, Envs)
  BY FlexRoutingAssumption DEF Envs, Surjection
<1>2. IsFiniteSet(Envs)
  BY <1>1, FS_Surjection, FlexRoutingAssumption
<1>. QED  BY <1>2, FlexRoutingAssumption DEF Envs, Ranks, EnvsOfRank, SlotsOfRank

(***************************************************************************)
(* The router's turn always designates an environment of its worker.       *)
(***************************************************************************)
LEMMA TurnsType ==
  ASSUME NEW r \in Ranks
  PROVE  /\ Min(EnvsOfRank(r)) \in Envs
         /\ \A e : EnvAfter(r, e) \in Envs
<1>1. \A T \in SUBSET EnvsOfRank(r) : T # {} => Min(T) \in Envs
  BY EnvsType, MinInSet, FS_Subset
<1>. QED  BY <1>1, EnvsType DEF EnvAfter

(***************************************************************************)
(* A key that Min picks among the slots awaited is one of them.            *)
(***************************************************************************)
LEMMA MinSlot ==
  ASSUME NEW T \in SUBSET Slots, T # {}
  PROVE  Min(T) \in T
BY FlexRoutingAssumption, MinInSet, FS_Subset

(***************************************************************************)
(* Keyed queues: appending to some keys and removing the head under some.  *)
(***************************************************************************)
LEMMA QueueType ==
  ASSUME NEW M, NEW q \in [Slots -> Seq(M)]
  PROVE  /\ \A s \in Slots : q[s] # <<>> => Head(q[s]) \in M /\ Tail(q[s]) \in Seq(M)
         /\ \A s \in Slots, m \in M : Append(q[s], m) \in Seq(M)
         /\ \A s \in Slots, v \in Seq(M) : [q EXCEPT ![s] = v] \in [Slots -> Seq(M)]
OBVIOUS

(***************************************************************************)
(* TypeOK is not inductive: the acks a manager waits for are those of an   *)
(* epoch that is not the last, and only a step of the loop, not the final  *)
(* receive, is marked by HandlerMark.                                      *)
(***************************************************************************)
AckEpochs == \A e \in Envs : envPc[e] = "ack" => envEpoch[e] < NumEpochs - 1
MarkSteps == \A s \in Slots : hPc[s] = "mark" => hStep[s] < NumSteps

TypeInv == TypeOK /\ AckEpochs /\ MarkSteps

LEMMA InitTypeInv == Init => TypeInv
<1> SUFFICES ASSUME Init PROVE TypeInv
  OBVIOUS
<1> USE FlexRoutingAssumption DEF Init
<1>1. Obs(0, 0, -1) \in ObsMsg
  BY DEF Obs, ObsMsg
<1>2. EmptyBuf \in BufType
  BY DEF EmptyBuf, BufType
<1>3. turn \in [Ranks -> Envs]
  BY TurnsType
<1>4. EnvTypeOK
  BY DEF EnvTypeOK
<1>5. RouterTypeOK
  BY <1>3 DEF RouterTypeOK, FrontierType
<1>6. HandlerTypeOK
  BY <1>1 DEF HandlerTypeOK
<1>7. DataTypeOK
  BY <1>2 DEF DataTypeOK
<1>8. TypeOK
  BY <1>4, <1>5, <1>6, <1>7 DEF TypeOK
<1>. QED  BY <1>8 DEF TypeInv, AckEpochs, MarkSteps

(***************************************************************************)
(* What an action leaves alone keeps its type.                             *)
(***************************************************************************)
LEMMA RouterUnchanged == RouterTypeOK /\ UNCHANGED routerVars => RouterTypeOK'
BY DEF RouterTypeOK, routerVars

LEMMA EnvUnchanged ==
  EnvTypeOK /\ AckEpochs /\ UNCHANGED envVars => EnvTypeOK' /\ AckEpochs'
BY DEF EnvTypeOK, AckEpochs, envVars

LEMMA HandlerUnchanged ==
  HandlerTypeOK /\ MarkSteps /\ UNCHANGED handlerVars => HandlerTypeOK' /\ MarkSteps'
BY DEF HandlerTypeOK, MarkSteps, handlerVars

LEMMA DataUnchanged == DataTypeOK /\ UNCHANGED dataVars => DataTypeOK'
BY DEF DataTypeOK, dataVars

(***************************************************************************)
(* Sending an observation to all slots of an environment.                  *)
(***************************************************************************)
LEMMA SendType ==
  ASSUME TypeOK, NEW e \in Envs, NEW t \in -1 .. NumSteps - 1, SendSlotOutputs(e, t)
  PROVE  inq' \in [Slots -> Seq(ObsMsg)]
<1>1. Obs(iter, envEpoch[e], t) \in ObsMsg
  BY DEF TypeOK, EnvTypeOK, Obs, ObsMsg
<1>. QED  BY <1>1 DEF TypeOK, SendSlotOutputs

(***************************************************************************)
(* Each action of an environment manager preserves the invariant.          *)
(***************************************************************************)
LEMMA EnvTypeInv ==
  ASSUME TypeInv, NEW e \in Envs, EnvNext(e)
  PROVE  TypeInv'
<1> SUFFICES /\ inq' \in [Slots -> Seq(ObsMsg)]
             /\ actq' \in [Slots -> Seq(ActMsg)]
             /\ EnvTypeOK' /\ AckEpochs'
             /\ UNCHANGED <<conf, iter, slotq, routerVars, handlerVars, dataVars>>
  BY RouterUnchanged, HandlerUnchanged, DataUnchanged DEF TypeInv, TypeOK
<1> USE FlexRoutingAssumption
<1>0. SlotsOfEnv(e) \in SUBSET Slots
  BY DEF SlotsOfEnv
<1>1. CASE StartInteract(e)
  BY <1>1 DEF StartInteract, TypeInv, TypeOK, EnvTypeOK, AckEpochs
<1>2. CASE SendInit(e)
  <2>1. inq' \in [Slots -> Seq(ObsMsg)]
    BY <1>2, SendType DEF SendInit, TypeInv
  <2>2. EnvTypeOK' /\ AckEpochs'
    BY <1>2, <1>0 DEF SendInit, TypeInv, TypeOK, EnvTypeOK, AckEpochs
  <2>. QED  BY <1>2, <2>1, <2>2 DEF SendInit, TypeInv, TypeOK
<1>3. CASE EnvStep(e)
  <2>1. inq' \in [Slots -> Seq(ObsMsg)]
    BY <1>3, SendType DEF EnvStep, TypeInv, TypeOK, EnvTypeOK
  <2>2. EnvTypeOK /\ AckEpochs
    BY DEF TypeInv, TypeOK
  <2>3. ASSUME envStep[e] < NumSteps - 1
       PROVE  EnvTypeOK' /\ AckEpochs'
    BY <1>0, <1>3, <2>2, <2>3 DEF EnvStep, EnvTypeOK, AckEpochs
  <2>4. ASSUME ~(envStep[e] < NumSteps - 1) /\ LastEpoch(envEpoch[e])
       PROVE  EnvTypeOK' /\ AckEpochs'
    BY <1>3, <2>2, <2>4 DEF EnvStep, EnvTypeOK, AckEpochs
  <2>5. ASSUME ~(envStep[e] < NumSteps - 1) /\ ~LastEpoch(envEpoch[e]) /\ EnvSkipsAck
       PROVE  EnvTypeOK' /\ AckEpochs'
    BY <1>3, <2>2, <2>5 DEF EnvStep, EnvTypeOK, AckEpochs, LastEpoch
  <2>6. ASSUME ~(envStep[e] < NumSteps - 1) /\ ~LastEpoch(envEpoch[e]) /\ ~EnvSkipsAck
       PROVE  EnvTypeOK' /\ AckEpochs'
    BY <1>0, <1>3, <2>2, <2>6 DEF EnvStep, EnvTypeOK, AckEpochs, LastEpoch
  <2>7. EnvTypeOK' /\ AckEpochs'
    BY <2>3, <2>4, <2>5, <2>6
  <2>. QED  BY <1>3, <2>1, <2>7 DEF EnvStep, TypeInv, TypeOK
<1>4. CASE RecvAck(e)
  <2> DEFINE s == Min(awaited[e])
  <2>1. EnvTypeOK /\ AckEpochs /\ actq \in [Slots -> Seq(ActMsg)]
    BY DEF TypeInv, TypeOK
  <2>2. EnvTypeOK' /\ AckEpochs'
    <3>1. envPc[e] = "ack" /\ envEpoch[e] < NumEpochs - 1
      BY <1>4, <2>1 DEF RecvAck, AckEpochs
    <3>. QED  BY <1>4, <2>1, <3>1 DEF RecvAck, EnvTypeOK, AckEpochs
  <2>3. actq' = [actq EXCEPT ![s] = Tail(@)] /\ actq[s] # <<>>
    BY <1>4 DEF RecvAck
  <2>4. actq' \in [Slots -> Seq(ActMsg)]
    <3>1. CASE s \in Slots
      BY <2>1, <2>3, <3>1, QueueType
    <3>2. CASE s \notin Slots
      BY <2>1, <2>3, <3>2
    <3>. QED  BY <3>1, <3>2
  <2>. QED  BY <1>4, <2>2, <2>4 DEF RecvAck, TypeInv, TypeOK
<1>5. ASSUME NEW s \in Slots, RecvAction(e, s)
      PROVE  /\ actq' \in [Slots -> Seq(ActMsg)]
             /\ EnvTypeOK' /\ AckEpochs'
  <2>1. EnvTypeOK /\ AckEpochs /\ actq \in [Slots -> Seq(ActMsg)]
    BY DEF TypeInv, TypeOK
  <2>2. actq' \in [Slots -> Seq(ActMsg)]
    <3>1. actq' = [actq EXCEPT ![s] = Tail(actq[s])] /\ actq[s] # <<>>
      BY <1>5 DEF RecvAction
    <3>. QED  BY <2>1, <3>1, QueueType
  <2>3. EnvTypeOK' /\ AckEpochs'
    BY <1>5, <2>1 DEF RecvAction, EnvTypeOK, AckEpochs
  <2>. QED  BY <2>2, <2>3
<1>6. ASSUME NEW s \in Slots, RecvAction(e, s)
      PROVE  /\ inq' \in [Slots -> Seq(ObsMsg)]
             /\ UNCHANGED <<conf, iter, slotq, routerVars, handlerVars, dataVars>>
  BY <1>6 DEF RecvAction, TypeInv, TypeOK
<1>. QED  BY <1>1, <1>2, <1>3, <1>4, <1>5, <1>6 DEF EnvNext

(***************************************************************************)
(* Each action of a rollout worker's own threads preserves the invariant.  *)
(***************************************************************************)
LEMMA StartTypeInv ==
  ASSUME TypeInv, NEW r \in Ranks, StartGenerate(r)
  PROVE  TypeInv'
<1> USE FlexRoutingAssumption
<1>1. RouterTypeOK'
  <2>1. Min(EnvsOfRank(r)) \in Envs
    BY TurnsType
  <2>2. {} \in FrontierType
    BY DEF FrontierType
  <2>3. RouterTypeOK
    BY DEF TypeInv, TypeOK
  <2>4. frontier' \in [Slots -> FrontierType] /\ turn' \in [Ranks -> Envs]
    BY <2>1, <2>2, <2>3 DEF StartGenerate, FreshFrontier, RouterTypeOK
  <2>5. pending' \in [Slots -> Seq(ObsMsg)]
    BY <2>3 DEF StartGenerate, RouterTypeOK
  <2>. QED  BY <2>3, <2>4, <2>5 DEF StartGenerate, RouterTypeOK
<1>2. HandlerTypeOK' /\ MarkSteps'
  BY DEF StartGenerate, TypeInv, TypeOK, HandlerTypeOK, MarkSteps
<1>3. DataTypeOK'
  <2>1. EmptyBuf \in BufType
    BY DEF EmptyBuf, BufType
  <2>. QED  BY <2>1 DEF StartGenerate, TypeInv, TypeOK, DataTypeOK
<1>. QED  BY <1>1, <1>2, <1>3, EnvUnchanged DEF StartGenerate, TypeInv, TypeOK

LEMMA PullTypeInv ==
  ASSUME TypeInv, NEW s \in Slots, Pull(s)
  PROVE  TypeInv'
<1>1. /\ inq \in [Slots -> Seq(ObsMsg)] /\ pending \in [Slots -> Seq(ObsMsg)]
      /\ inq[s] # <<>>
      /\ inq' = [inq EXCEPT ![s] = Tail(inq[s])]
      /\ pending' = [pending EXCEPT ![s] = Append(pending[s], Head(inq[s]))]
  BY DEF Pull, TypeInv, TypeOK, RouterTypeOK
<1>2. inq' \in [Slots -> Seq(ObsMsg)] /\ pending' \in [Slots -> Seq(ObsMsg)]
  <2>1. Head(inq[s]) \in ObsMsg /\ Tail(inq[s]) \in Seq(ObsMsg)
    BY <1>1, QueueType
  <2>2. Append(pending[s], Head(inq[s])) \in Seq(ObsMsg)
    BY <1>1, <2>1, QueueType
  <2>. QED  BY <1>1, <2>1, <2>2, QueueType
<1>3. RouterTypeOK'
  BY <1>2 DEF Pull, TypeInv, TypeOK, RouterTypeOK
<1>. QED  BY <1>2, <1>3, EnvUnchanged, HandlerUnchanged, DataUnchanged DEF Pull, TypeInv, TypeOK

LEMMA RouteTypeInv ==
  ASSUME TypeInv, NEW r \in Ranks, NEW group \in SUBSET Slots, NEW nt \in Envs,
         RouteGroup(r, group, nt)
  PROVE  TypeInv'
<1> DEFINE blocked == {s \in group : ~Ready(s)}
           popped  == IF blocked = {} THEN group ELSE {Min(blocked)}
<1>1. /\ pending \in [Slots -> Seq(ObsMsg)] /\ slotq \in [Slots -> Seq(ObsMsg)]
      /\ inflight \in [Slots -> BOOLEAN] /\ turn \in [Ranks -> Envs]
  BY DEF TypeInv, TypeOK, RouterTypeOK
<1>2. \A s \in popped : s \in Slots /\ pending[s] # <<>>
  <2>1. CASE blocked = {}
    BY <2>1 DEF Ready
  <2>2. CASE blocked # {}
    <3>1. Min(blocked) \in blocked
      BY <2>2, MinSlot
    <3>2. Stale(Min(blocked))
      BY <2>2 DEF RouteGroup
    <3>. QED  BY <2>2, <3>1, <3>2 DEF Stale
  <2>. QED  BY <2>1, <2>2
<1>3. \A s \in popped : Tail(pending[s]) \in Seq(ObsMsg) /\ Head(pending[s]) \in ObsMsg
  BY <1>1, <1>2, QueueType
<1>4. pending' \in [Slots -> Seq(ObsMsg)]
  <2>1. pending' = [s \in Slots |-> IF s \in popped THEN Tail(pending[s]) ELSE pending[s]]
    BY DEF RouteGroup
  <2>. QED  BY <1>1, <1>3, <2>1
<1>5. slotq' \in [Slots -> Seq(ObsMsg)]
  <2>1. slotq' = [s \in Slots |-> IF blocked = {} /\ s \in group
                                  THEN Append(slotq[s], Head(pending[s])) ELSE slotq[s]]
    BY DEF RouteGroup
  <2>2. ASSUME NEW s \in Slots, blocked = {} /\ s \in group
        PROVE  Append(slotq[s], Head(pending[s])) \in Seq(ObsMsg)
    BY <1>1, <1>3, <2>2, QueueType
  <2>. QED  BY <1>1, <2>1, <2>2
<1>6. RouterTypeOK'
  BY <1>1, <1>4 DEF RouteGroup, TypeInv, TypeOK, RouterTypeOK
<1>. QED  BY <1>5, <1>6, EnvUnchanged, HandlerUnchanged, DataUnchanged
          DEF RouteGroup, TypeInv, TypeOK

LEMMA EndTypeInv ==
  ASSUME TypeInv, NEW r \in Ranks, EndGenerate(r)
  PROVE  TypeInv'
<1>1. DataTypeOK'
  <2>1. \A s \in Slots : [it |-> iter, epoch |-> NumEpochs - 1, data |-> buf[s]] \in Trajectory
    BY FlexRoutingAssumption DEF TypeInv, TypeOK, DataTypeOK, Trajectory
  <2>2. sent' \in [Slots -> Seq(Trajectory)]
    BY <2>1 DEF EndGenerate, TypeInv, TypeOK, DataTypeOK
  <2>. QED  BY <2>2 DEF EndGenerate, TypeInv, TypeOK, DataTypeOK
<1>2. RouterTypeOK'
  BY DEF EndGenerate, TypeInv, TypeOK, RouterTypeOK
<1>. QED  BY <1>1, <1>2, EnvUnchanged, HandlerUnchanged DEF EndGenerate, TypeInv, TypeOK

LEMMA WorkerTypeInv ==
  ASSUME TypeInv, NEW r \in Ranks, WorkerNext(r)
  PROVE  TypeInv'
<1>1. CASE RouteRoundRobin(r)
  <2>1. LocalSlots(r, turn[r]) \in SUBSET Slots
    BY DEF LocalSlots
  <2>. QED  BY <1>1, <2>1, TurnsType, RouteTypeInv DEF RouteRoundRobin
<1>2. CASE RouteGreedy(r)
  <2>1. PICK s \in SlotsOfRank(r) : RouteGroup(r, {s}, turn[r])
    BY <1>2 DEF RouteGreedy
  <2>2. {s} \in SUBSET Slots /\ turn[r] \in Envs
    BY DEF SlotsOfRank, TypeInv, TypeOK, RouterTypeOK
  <2>. QED  BY <2>1, <2>2, RouteTypeInv
<1>3. CASE RouteEnvGroup(r)
  <2>1. PICK e \in EnvsOfRank(r) : RouteGroup(r, LocalSlots(r, e), EnvAfter(r, e))
    BY <1>3 DEF RouteEnvGroup
  <2>2. LocalSlots(r, e) \in SUBSET Slots
    BY DEF LocalSlots
  <2>. QED  BY <2>1, <2>2, TurnsType, RouteTypeInv
<1>. QED  BY <1>1, <1>2, <1>3, StartTypeInv, EndTypeInv DEF WorkerNext, Route

(***************************************************************************)
(* Each action of a slot handler preserves the invariant.                  *)
(***************************************************************************)
LEMMA FrontierMember ==
  ASSUME NEW m \in ObsMsg
  PROVE  {<<m.epoch, m.step>>} \in FrontierType /\ {<<m.epoch, EpochComplete>>} \in FrontierType
<1>1. m.epoch \in 0 .. NumEpochs - 1 /\ m.step \in -1 .. NumSteps - 1
  BY DEF ObsMsg
<1>2. <<m.epoch, m.step>> \in Frontiers /\ <<m.epoch, EpochComplete>> \in Frontiers
  BY <1>1 DEF Frontiers
<1>. QED  BY <1>2 DEF FrontierType

LEMMA RecordedType ==
  ASSUME NEW b \in BufType, NEW m, NEW t
  PROVE  Recorded(b, m, t) \in BufType
BY DEF BufType, Recorded

LEMMA HandlerTypeInv ==
  ASSUME TypeInv, NEW s \in Slots, HandlerNext(s)
  PROVE  TypeInv'
<1> USE FlexRoutingAssumption
<1>0. /\ HandlerTypeOK /\ MarkSteps /\ RouterTypeOK /\ DataTypeOK
      /\ slotq \in [Slots -> Seq(ObsMsg)] /\ actq \in [Slots -> Seq(ActMsg)]
      /\ iter \in 0 .. NumIters - 1
  BY DEF TypeInv, TypeOK
<1>1. CASE HandlerRecv(s)
  <2>1. Head(slotq[s]) \in ObsMsg /\ Tail(slotq[s]) \in Seq(ObsMsg)
    BY <1>0, <1>1, QueueType DEF HandlerRecv
  <2>2. slotq' \in [Slots -> Seq(ObsMsg)]
    BY <1>0, <1>1, <2>1, QueueType DEF HandlerRecv
  <2>3. HandlerTypeOK' /\ MarkSteps'
    BY <1>0, <1>1, <2>1 DEF HandlerRecv, HandlerTypeOK, MarkSteps
  <2>. QED  BY <1>1, <2>2, <2>3, EnvUnchanged, RouterUnchanged, DataUnchanged
            DEF HandlerRecv, TypeInv, TypeOK
<1>2. CASE Infer(s)
  <2>1. HandlerTypeOK' /\ MarkSteps'
    BY <1>0, <1>2 DEF Infer, HandlerTypeOK, MarkSteps
  <2>. QED  BY <1>2, <2>1, EnvUnchanged, RouterUnchanged, DataUnchanged
            DEF Infer, TypeInv, TypeOK
<1>3. CASE HandlerReply(s)
  <2>1. Action(iter, hEpoch[s], hStep[s]) \in ActMsg
    BY <1>0, <1>3 DEF HandlerReply, HandlerTypeOK, Action, ActMsg
  <2>2. actq' \in [Slots -> Seq(ActMsg)]
    BY <1>0, <1>3, <2>1, QueueType DEF HandlerReply
  <2>3. HandlerTypeOK' /\ MarkSteps'
    BY <1>0, <1>3 DEF HandlerReply, HandlerTypeOK, MarkSteps
  <2>4. DataTypeOK'
    BY <1>0, <1>3, RecordedType DEF HandlerReply, DataTypeOK
  <2>. QED  BY <1>3, <2>2, <2>3, <2>4, EnvUnchanged, RouterUnchanged
            DEF HandlerReply, TypeInv, TypeOK
<1>4. CASE HandlerMark(s)
  <2>1. hMsg[s] \in ObsMsg /\ hStep[s] < NumSteps
    BY <1>0, <1>4 DEF HandlerMark, HandlerTypeOK, MarkSteps
  <2>2. RouterTypeOK'
    BY <1>0, <1>4, <2>1, FrontierMember DEF HandlerMark, RouterTypeOK
  <2>3. HandlerTypeOK'
    BY <1>0, <1>4, <2>1 DEF HandlerMark, HandlerTypeOK
  <2>4. MarkSteps'
    BY <1>0, <1>4 DEF HandlerMark, HandlerTypeOK, MarkSteps
  <2>. QED  BY <1>4, <2>2, <2>3, <2>4, EnvUnchanged, DataUnchanged
            DEF HandlerMark, TypeInv, TypeOK
<1>5. CASE HandlerFinal(s)
  <2>1. hMsg[s] \in ObsMsg
    BY <1>0 DEF HandlerTypeOK
  <2>2. RouterTypeOK'
    BY <1>0, <1>5, <2>1, FrontierMember DEF HandlerFinal, RouterTypeOK
  <2>3. HandlerTypeOK' /\ MarkSteps'
    BY <1>0, <1>5 DEF HandlerFinal, HandlerTypeOK, MarkSteps
  <2>4. DataTypeOK'
    BY <1>0, <1>5, RecordedType DEF HandlerFinal, DataTypeOK
  <2>. QED  BY <1>5, <2>2, <2>3, <2>4, EnvUnchanged DEF HandlerFinal, TypeInv, TypeOK
<1>6. CASE HandlerEndEpoch(s)
  <2>1. Ack(iter, hEpoch[s]) \in ActMsg
    BY <1>0 DEF HandlerTypeOK, Ack, ActMsg
  <2>2. actq' \in [Slots -> Seq(ActMsg)]
    BY <1>0, <1>6, <2>1, QueueType DEF HandlerEndEpoch
  <2>3. HandlerTypeOK' /\ MarkSteps'
    <3>1. CASE LastEpoch(hEpoch[s])
      BY <1>0, <1>6, <3>1 DEF HandlerEndEpoch, HandlerTypeOK, MarkSteps
    <3>2. CASE ~LastEpoch(hEpoch[s])
      <4>1. /\ hPc' = [hPc EXCEPT ![s] = "recv"]
            /\ hEpoch' = [hEpoch EXCEPT ![s] = hEpoch[s] + 1]
            /\ hStep' = [hStep EXCEPT ![s] = 0]
            /\ hMsg' = hMsg
        BY <1>6, <3>2 DEF HandlerEndEpoch
      <4>2. hEpoch[s] \in 0 .. NumEpochs - 1 /\ hEpoch[s] # NumEpochs - 1
        BY <1>0, <3>2 DEF HandlerTypeOK, LastEpoch
      <4>3. hEpoch[s] + 1 \in 0 .. NumEpochs - 1
        BY <4>2, FlexRoutingAssumption
      <4>. QED  BY <1>0, <4>1, <4>3 DEF HandlerTypeOK, MarkSteps
    <3>. QED  BY <3>1, <3>2
  <2>4. [it |-> iter, epoch |-> hEpoch[s], data |-> buf[s]] \in Trajectory
    BY <1>0 DEF HandlerTypeOK, DataTypeOK, Trajectory
  <2>5. sent' \in [Slots -> Seq(Trajectory)]
    <3>1. sent \in [Slots -> Seq(Trajectory)]
      BY <1>0 DEF DataTypeOK
    <3> DEFINE v == Append(sent[s], [it |-> iter, epoch |-> hEpoch[s], data |-> buf[s]])
    <3>2. v \in Seq(Trajectory)
      BY <2>4, <3>1, QueueType
    <3>3. sent' = [sent EXCEPT ![s] = IF Pipeline = "async" THEN v ELSE sent[s]]
      BY <1>6 DEF HandlerEndEpoch
    <3>. QED  BY <3>1, <3>2, <3>3
  <2>6. DataTypeOK'
    <3>1. EmptyBuf \in BufType
      BY DEF EmptyBuf, BufType
    <3>. QED  BY <1>0, <1>6, <2>5, <3>1 DEF HandlerEndEpoch, DataTypeOK
  <2>. QED  BY <1>6, <2>2, <2>3, <2>6, EnvUnchanged, RouterUnchanged
            DEF HandlerEndEpoch, TypeInv, TypeOK
<1>. QED  BY <1>1, <1>2, <1>3, <1>4, <1>5, <1>6 DEF HandlerNext

LEMMA IterationTypeInv ==
  ASSUME TypeInv, NextIteration
  PROVE  TypeInv'
<1>1. EnvTypeOK' /\ AckEpochs'
  BY DEF NextIteration, TypeInv, TypeOK, EnvTypeOK, AckEpochs
<1>2. RouterTypeOK'
  BY DEF NextIteration, TypeInv, TypeOK, RouterTypeOK
<1>3. iter' \in 0 .. NumIters - 1
  BY FlexRoutingAssumption DEF NextIteration, TypeInv, TypeOK
<1>. QED  BY <1>1, <1>2, <1>3, HandlerUnchanged, DataUnchanged DEF NextIteration, TypeInv, TypeOK

\* The type invariant is inductive.
LEMMA TypeStep == TypeInv /\ [Next]_vars => TypeInv'
<1> SUFFICES ASSUME TypeInv, [Next]_vars PROVE TypeInv'
  OBVIOUS
<1>1. CASE UNCHANGED vars
  BY <1>1, EnvUnchanged, RouterUnchanged, HandlerUnchanged, DataUnchanged
     DEF vars, TypeInv, TypeOK
<1>2. CASE Finished
  BY <1>1, <1>2 DEF Finished
<1>. QED  BY <1>1, <1>2, EnvTypeInv, WorkerTypeInv, PullTypeInv, HandlerTypeInv,
             IterationTypeInv DEF Next

(***************************************************************************)
(* All state of the pipeline keeps its type, whatever the interleaving:    *)
(* counters stay in range, the router's turn designates an environment of  *)
(* the configuration, and the queues hold messages only.                   *)
(***************************************************************************)
THEOREM TypeCorrect == Spec => []TypeOK
<1>1. TypeInv => TypeOK
  BY DEF TypeInv
<1>. QED  BY <1>1, InitTypeInv, TypeStep, PTL DEF Spec

-----------------------------------------------------------------------------
(***************************************************************************)
(* Sequences of consecutive observations: one more at the end, one less at *)
(* the front, and the two names of the position between two epochs.        *)
(***************************************************************************)
LEMMA LineEmpty == ASSUME NEW i, NEW k, NEW n PROVE Line(<<>>, i, k, n)
BY DEF Line

LEMMA LineAppend ==
  ASSUME NEW M, NEW q \in Seq(M), NEW m \in M, NEW i, NEW k, NEW n \in Int,
         Line(q, i, k, n), m = ObsAt(i, k, n + Len(q))
  PROVE  Line(Append(q, m), i, k, n)
<1> SUFFICES ASSUME NEW j \in 1 .. Len(q) + 1
             PROVE  Append(q, m)[j] = ObsAt(i, k, n + j - 1)
  BY DEF Line
<1>1. CASE j = Len(q) + 1
  BY <1>1
<1>2. CASE j \in 1 .. Len(q)
  BY <1>2 DEF Line
<1>. QED  BY <1>1, <1>2

LEMMA LineTail ==
  ASSUME NEW M, NEW q \in Seq(M), q # <<>>, NEW i, NEW k, NEW n \in Int, Line(q, i, k, n)
  PROVE  Head(q) = ObsAt(i, k, n) /\ Line(Tail(q), i, k, n + 1)
<1>1. Head(q) = ObsAt(i, k, n)
  BY 1 \in 1 .. Len(q), n + 1 - 1 = n DEF Line
<1>2. ASSUME NEW j \in 1 .. Len(Tail(q))
      PROVE  Tail(q)[j] = ObsAt(i, k, n + 1 + j - 1)
  <2>1. j + 1 \in 1 .. Len(q) /\ Tail(q)[j] = q[j + 1]
    OBVIOUS
  <2>2. q[j + 1] = ObsAt(i, k, n + (j + 1) - 1)
    BY <2>1 DEF Line
  <2>. QED  BY <2>1, <2>2
<1>. QED  BY <1>1, <1>2 DEF Line

LEMMA LineShift ==
  ASSUME NEW M, NEW q \in Seq(M), NEW i, NEW k \in Int, NEW n \in Nat,
         n + Len(q) <= PerEpoch, Line(q, i, k, PerEpoch + n)
  PROVE  Line(q, i, k + 1, n)
<1> SUFFICES ASSUME NEW j \in 1 .. Len(q)
             PROVE  q[j] = ObsAt(i, k + 1, n + j - 1)
  BY DEF Line
<1>1. q[j] = ObsAt(i, k, PerEpoch + n + j - 1)
  BY DEF Line
<1>2. PerEpoch \in Nat
  BY FlexRoutingAssumption DEF PerEpoch
<1>. QED  BY <1>1, <1>2 DEF ObsAt

(***************************************************************************)
(* What the type invariant says of one slot.                               *)
(***************************************************************************)
SlotOK(s) ==
  /\ EnvOf[s] \in Envs /\ RankOf[s] \in Ranks
  /\ NumSteps \in Nat /\ NumSteps > 0
  /\ NumEpochs \in Nat /\ NumEpochs > 0
  /\ hEpoch[s] \in Nat /\ hEpoch[s] < NumEpochs
  /\ hStep[s] \in Nat /\ hStep[s] <= NumSteps
  /\ envEpoch[EnvOf[s]] \in Nat /\ envEpoch[EnvOf[s]] < NumEpochs
  /\ envStep[EnvOf[s]] \in Nat /\ envStep[EnvOf[s]] < NumSteps
  /\ envPc[EnvOf[s]] \in {"idle", "reset", "act", "ack", "done", "failed"}
  /\ gen[RankOf[s]] \in {"idle", "running", "done"}
  /\ hPc[s] \in {"off", "recv", "infer", "reply", "mark", "end", "done"}
  /\ Len(inq[s]) \in Nat /\ Len(pending[s]) \in Nat /\ Len(slotq[s]) \in Nat
  /\ Waiting(s) \in Nat
  /\ Prefetch \in BOOLEAN

QueuesOK(s) ==
  /\ inq[s] \in Seq(ObsMsg) /\ pending[s] \in Seq(ObsMsg) /\ slotq[s] \in Seq(ObsMsg)
  /\ actq[s] \in Seq(ActMsg)
  /\ inflight[s] \in BOOLEAN
  /\ Mode \in {"round_robin", "greedy", "env_group_greedy"}

LEMMA SlotTypes ==
  ASSUME TypeInv, NEW s \in Slots
  PROVE  SlotOK(s) /\ QueuesOK(s)
<1>1. EnvOf[s] \in Envs /\ RankOf[s] \in Ranks
  BY EnvsType
<1>2. conf \in Config
  BY FlexRoutingAssumption DEF TypeInv, TypeOK
<1>3. Prefetch \in BOOLEAN /\ Mode \in {"round_robin", "greedy", "env_group_greedy"}
  BY <1>2 DEF Config, Prefetch, Mode
<1>4. EnvTypeOK /\ RouterTypeOK /\ HandlerTypeOK
  BY DEF TypeInv, TypeOK
<1>5. /\ envEpoch[EnvOf[s]] \in Nat /\ envEpoch[EnvOf[s]] < NumEpochs
      /\ envStep[EnvOf[s]] \in Nat /\ envStep[EnvOf[s]] < NumSteps
      /\ envPc[EnvOf[s]] \in {"idle", "reset", "act", "ack", "done", "failed"}
  BY <1>1, <1>4, FlexRoutingAssumption DEF EnvTypeOK
<1>6. /\ gen[RankOf[s]] \in {"idle", "running", "done"}
      /\ inflight[s] \in BOOLEAN /\ pending[s] \in Seq(ObsMsg)
  BY <1>1, <1>4 DEF RouterTypeOK
<1>7. /\ hEpoch[s] \in Nat /\ hEpoch[s] < NumEpochs
      /\ hStep[s] \in Nat /\ hStep[s] <= NumSteps
      /\ hPc[s] \in {"off", "recv", "infer", "reply", "mark", "end", "done"}
  BY <1>4, FlexRoutingAssumption DEF HandlerTypeOK
<1>8. /\ inq[s] \in Seq(ObsMsg) /\ slotq[s] \in Seq(ObsMsg) /\ actq[s] \in Seq(ActMsg)
  BY DEF TypeInv, TypeOK
<1>10. Waiting(s) \in Nat
  BY DEF TypeInv, TypeOK, RouterTypeOK, Waiting
<1>9. /\ NumSteps \in Nat /\ NumSteps > 0
      /\ NumEpochs \in Nat /\ NumEpochs > 0
  <2>1. EpochComplete \in Nat
    BY SMT DEF EpochComplete
  <2>. QED  BY <2>1, FlexRoutingAssumption
<1>. QED  BY <1>1, <1>3, <1>5, <1>6, <1>7, <1>8, <1>9, <1>10 DEF SlotOK, QueuesOK

(***************************************************************************)
(* A manager is never more than one unanswered observation ahead of a      *)
(* slot, two with prefetching.                                             *)
(***************************************************************************)
LEMMA Window ==
  ASSUME TypeInv, NEW s \in Slots, SlotInv(s)
  PROVE  /\ Waiting(s) \in Nat /\ Unanswered(s) \in Nat
         /\ Unanswered(s) <= (IF Prefetch THEN 2 ELSE 1)
         /\ envPc[EnvOf[s]] = "idle" => Unanswered(s) = 0
         /\ envPc[EnvOf[s]] = "ack" /\ Answered(s) => Unanswered(s) = 0
<1>0. SlotOK(s)
  BY SlotTypes
<1> USE <1>0 DEF SlotOK, PerEpoch
<1>1. Waiting(s) \in Nat /\ Unanswered(s) \in Nat
  BY DEF Unanswered
<1>2. ASSUME envPc[EnvOf[s]] = "idle" PROVE Unanswered(s) = 0
  BY <1>1, <1>2 DEF SlotInv, LineUp, Phase, Unanswered, SentEpoch, SentCount, TakenEpoch,
     TakenCount, Between
<1>3. ASSUME envPc[EnvOf[s]] = "ack", Answered(s) PROVE Unanswered(s) = 0
  <2>1. TakenEpoch(s) = envEpoch[EnvOf[s]] + 1
    BY <1>3 DEF SlotInv, Acking
  <2>2. gen[RankOf[s]] # "idle"
    BY <2>1 DEF TakenEpoch
  <2>3. SentEpoch(EnvOf[s]) = envEpoch[EnvOf[s]] /\ SentCount(EnvOf[s]) = PerEpoch
    BY <1>3 DEF SentEpoch, SentCount
  <2>4. TakenCount(s) \in Nat
    BY DEF TakenCount
  <2>5. Waiting(s) = -TakenCount(s)
    BY <2>1, <2>3, <2>4 DEF SlotInv, LineUp, Between
  <2>6. Waiting(s) = 0 /\ TakenCount(s) = 0
    BY <1>1, <2>4, <2>5
  <2>7. hPc[s] = "recv"
    BY <2>2, <2>6 DEF TakenCount
  <2>. QED  BY <2>6, <2>7 DEF Unanswered
<1>4. Unanswered(s) <= (IF Prefetch THEN 2 ELSE 1)
  <2>1. CASE envPc[EnvOf[s]] = "act"
    BY <1>1, <2>1 DEF SlotInv, Collecting
  <2>2. CASE envPc[EnvOf[s]] = "ack"
    BY <1>1, <1>3, <2>2 DEF SlotInv, Acking
  <2>3. CASE envPc[EnvOf[s]] \notin {"act", "ack"}
    BY <1>1, <1>2, <2>3 DEF SlotInv, Resting
  <2>. QED  BY <2>1, <2>2, <2>3
<1>. QED  BY <1>1, <1>2, <1>3, <1>4

LEMMA InitOrder == Init => OrderInv
<1>0. Init => AwaitsOwn
  BY DEF Init, AwaitsOwn
<1> SUFFICES ASSUME Init, NEW s \in Slots PROVE SlotInv(s)
  BY <1>0 DEF OrderInv
<1> USE EnvsType DEF Init
<1>1. LineUp(s)
  BY LineEmpty DEF LineUp, Waiting, Between, TakenEpoch, TakenCount, SentEpoch, SentCount
<1>2. InHand(s) /\ Phase(s) /\ Flight(s) /\ AtFront(s)
  BY DEF InHand, Phase, Flight, AtFront, Busy
<1>3. Collecting(s) /\ Acking(s) /\ Resting(s) /\ InStep(s)
  BY DEF Collecting, Acking, Resting, InStep, TakenEpoch, SentEpoch
<1>. QED  BY <1>1, <1>2, <1>3 DEF SlotInv

(***************************************************************************)
(* The slot's view of a step: the parts of its state that a step can leave *)
(* as they are, and the conjuncts of the invariant that follow from that.  *)
(***************************************************************************)
SameRun == iter' = iter /\ conf' = conf
SameQueues(s) == inq'[s] = inq[s] /\ pending'[s] = pending[s] /\ slotq'[s] = slotq[s]
SameHandler(s) ==
  /\ gen'[RankOf[s]] = gen[RankOf[s]] /\ hPc'[s] = hPc[s]
  /\ hEpoch'[s] = hEpoch[s] /\ hStep'[s] = hStep[s] /\ hMsg'[s] = hMsg[s]
SameRouter(s) == inflight'[s] = inflight[s] /\ frontier'[s] = frontier[s]
SameManager(s) ==
  LET e == EnvOf[s] IN
  /\ envPc'[e] = envPc[e] /\ envEpoch'[e] = envEpoch[e] /\ envStep'[e] = envStep[e]
  /\ s \in awaited'[e] <=> s \in awaited[e]
SameActions(s) == actq'[s] = actq[s]

\* The taker's side: nothing about the handler changed.
LEMMA TakerKept ==
  ASSUME NEW s \in Slots, SlotInv(s), SameRun, SameHandler(s)
  PROVE  /\ TakenEpoch(s)' = TakenEpoch(s) /\ TakenCount(s)' = TakenCount(s)
         /\ Busy(s)' = Busy(s)
         /\ InHand(s)'
BY DEF SameRun, SameHandler, TakenEpoch, TakenCount, SlotInv, InHand, Busy, Obs

LEMMA WorkerSideKept ==
  ASSUME NEW s \in Slots, SlotInv(s), SameRun, SameHandler(s), SameRouter(s),
         pending'[s] = pending[s], slotq'[s] = slotq[s]
  PROVE  InHand(s)' /\ Phase(s)' /\ Flight(s)' /\ AtFront(s)'
<1>1. InHand(s)'
  BY TakerKept
<1>2. Phase(s)'
  BY DEF SameHandler, SlotInv, Phase
<1>3. Flight(s)'
  BY DEF SameHandler, SameRouter, SlotInv, Flight, Busy
<1>4. AtFront(s)'
  BY DEF SameHandler, SameRouter, SlotInv, AtFront
<1>. QED  BY <1>1, <1>2, <1>3, <1>4

\* The manager's side: nothing about the manager changed, nor what it waits
\* for from the slot.
LEMMA ManagerSideKept ==
  ASSUME NEW s \in Slots, SlotInv(s), SameRun, SameManager(s), SameActions(s),
         Unanswered(s)' = Unanswered(s), TakenEpoch(s)' = TakenEpoch(s)
  PROVE  Collecting(s)' /\ Acking(s)' /\ Resting(s)' /\ InStep(s)'
<1> DEFINE e == EnvOf[s]
<1>1. Prefetch' = Prefetch /\ Answered(s)' = Answered(s) /\ SentEpoch(e)' = SentEpoch(e)
  BY DEF SameRun, SameManager, SameActions, Prefetch, Answered, SentEpoch
<1>2. Collecting(s)'
  BY <1>1 DEF SameRun, SameManager, SameActions, SlotInv, Collecting, Action
<1>3. Acking(s)'
  BY <1>1 DEF SameRun, SameManager, SameActions, SlotInv, Acking, Ack
<1>4. Resting(s)'
  BY <1>1 DEF SameRun, SameManager, SameActions, SlotInv, Resting
<1>5. InStep(s)'
  BY <1>1 DEF SameRun, SameManager, SameActions, SlotInv, InStep
<1>. QED  BY <1>2, <1>3, <1>4, <1>5

LEMMA WaitingKept ==
  ASSUME NEW s \in Slots, SameQueues(s)
  PROVE  /\ Waiting(s)' = Waiting(s)
         /\ hPc'[s] = hPc[s] => Unanswered(s)' = Unanswered(s)
BY DEF SameQueues, Waiting, Unanswered

LEMMA LineUpKept ==
  ASSUME NEW s \in Slots, SlotInv(s), SameRun, SameQueues(s),
         TakenEpoch(s)' = TakenEpoch(s), TakenCount(s)' = TakenCount(s),
         SentEpoch(EnvOf[s])' = SentEpoch(EnvOf[s]), SentCount(EnvOf[s])' = SentCount(EnvOf[s])
  PROVE  LineUp(s)'
<1>1. Waiting(s)' = Waiting(s)
  BY WaitingKept
<1>. QED  BY <1>1 DEF SameRun, SameQueues, SlotInv, LineUp, Between, Line, ObsAt, Obs, PerEpoch

LEMMA SlotKept ==
  ASSUME NEW s \in Slots, SlotInv(s), SameRun, SameQueues(s), SameHandler(s), SameRouter(s),
         SameManager(s), SameActions(s)
  PROVE  SlotInv(s)'
<1>1. SentEpoch(EnvOf[s])' = SentEpoch(EnvOf[s]) /\ SentCount(EnvOf[s])' = SentCount(EnvOf[s])
  BY DEF SameManager, SentEpoch, SentCount, PerEpoch
<1>2. Unanswered(s)' = Unanswered(s)
  BY WaitingKept DEF SameHandler
<1>3. LineUp(s)'
  BY <1>1, TakerKept, LineUpKept
<1>. QED  BY <1>2, <1>3, TakerKept, WorkerSideKept, ManagerSideKept DEF SlotInv, SameQueues

(***************************************************************************)
(* Positions, and an observation more in the line.                         *)
(***************************************************************************)
LEMMA Positions ==
  ASSUME TypeInv, NEW s \in Slots
  PROVE  /\ PerEpoch \in Nat /\ PerEpoch >= 2 /\ PerEpoch = NumSteps + 1
         /\ TakenEpoch(s) \in Nat /\ TakenCount(s) \in Nat /\ TakenCount(s) <= PerEpoch
         /\ SentEpoch(EnvOf[s]) \in Nat
         /\ SentCount(EnvOf[s]) \in Nat /\ SentCount(EnvOf[s]) <= PerEpoch
<1>0. SlotOK(s)
  BY SlotTypes
<1> USE <1>0 DEF SlotOK, PerEpoch
<1>1. TakenEpoch(s) \in Nat /\ TakenCount(s) \in Nat /\ TakenCount(s) <= PerEpoch
  BY DEF TakenEpoch, TakenCount
<1>2. /\ SentEpoch(EnvOf[s]) \in Nat
      /\ SentCount(EnvOf[s]) \in Nat /\ SentCount(EnvOf[s]) <= PerEpoch
  BY DEF SentEpoch, SentCount
<1>. QED  BY <1>1, <1>2

LEMMA PerEpochType == PerEpoch \in Nat /\ PerEpoch >= 2 /\ PerEpoch = NumSteps + 1
<1>1. EpochComplete \in Nat
  BY SMT DEF EpochComplete
<1>. QED  BY <1>1, FlexRoutingAssumption DEF PerEpoch

LEMMA AfterBetween ==
  ASSUME NEW k \in Nat, NEW c \in Nat, NEW l \in Nat, NEW d \in Nat, d < PerEpoch,
         NEW w \in Nat, w = Between(k, c, l, d), NEW i
  PROVE  ObsAt(i, k, c + w) = Obs(i, l, d - 1)
<1>0. PerEpoch \in Nat
  BY PerEpochType
<1> USE <1>0
<1>1. \/ l = k /\ c + w = d
      \/ l = k + 1 /\ c + w = d + PerEpoch
  BY DEF Between
<1>2. CASE l = k /\ c + w = d
  BY <1>2 DEF ObsAt
<1>3. CASE l = k + 1 /\ c + w = d + PerEpoch
  <2>1. ~(c + w < PerEpoch) /\ c + w - PerEpoch - 1 = d - 1
    BY <1>3
  <2>. QED  BY <1>3, <2>1 DEF ObsAt
<1>. QED  BY <1>1, <1>2, <1>3

\* The next observation a manager sends is the one that comes after those on
\* the way.
LEMMA NextSent ==
  ASSUME TypeInv, NEW s \in Slots, SlotInv(s), SentCount(EnvOf[s]) < PerEpoch
  PROVE  ObsAt(iter, TakenEpoch(s), TakenCount(s) + Waiting(s))
           = Obs(iter, SentEpoch(EnvOf[s]), SentCount(EnvOf[s]) - 1)
<1>1. Waiting(s) \in Nat
  BY SlotTypes DEF SlotOK
<1>2. Waiting(s) = Between(TakenEpoch(s), TakenCount(s), SentEpoch(EnvOf[s]), SentCount(EnvOf[s]))
  BY DEF SlotInv, LineUp
<1>. QED  BY <1>1, <1>2, Positions, AfterBetween

LEMMA SendLine ==
  ASSUME TypeInv, NEW e \in Envs, NEW s \in Slots, EnvOf[s] = e, SlotInv(s), SameRun,
         TakenEpoch(s)' = TakenEpoch(s), TakenCount(s)' = TakenCount(s),
         pending'[s] = pending[s], slotq'[s] = slotq[s], hPc'[s] = hPc[s],
         SentCount(e) < PerEpoch, SentEpoch(e) = envEpoch[e],
         SendSlotOutputs(e, SentCount(e) - 1)
  PROVE  /\ Waiting(s)' = Waiting(s) + 1
         /\ Unanswered(s)' = Unanswered(s) + 1
         /\ Waiting(s)' = Between(TakenEpoch(s), TakenCount(s), SentEpoch(e)', SentCount(e)')
              => LineUp(s)'
<1>0. /\ inq \in [Slots -> Seq(ObsMsg)] /\ pending \in [Slots -> Seq(ObsMsg)]
      /\ slotq \in [Slots -> Seq(ObsMsg)]
  BY DEF TypeInv, TypeOK, RouterTypeOK
<1> DEFINE m == Obs(iter, envEpoch[e], SentCount(e) - 1)
<1>1. inq'[s] = Append(inq[s], m)
  BY <1>0 DEF SendSlotOutputs
<1>2. m \in ObsMsg
  <2>1. \A n \in Nat : n < PerEpoch => n - 1 \in -1 .. NumSteps - 1
    BY PerEpochType, FlexRoutingAssumption DEF PerEpoch
  <2>2. SentCount(e) \in Nat
    BY Positions
  <2>3. iter \in 0 .. NumIters - 1 /\ envEpoch[e] \in 0 .. NumEpochs - 1
    BY DEF TypeInv, TypeOK, EnvTypeOK
  <2>. QED  BY <2>1, <2>2, <2>3 DEF Obs, ObsMsg
<1>3. Len(inq'[s]) = Len(inq[s]) + 1
  BY <1>0, <1>1, <1>2
<1>4. Waiting(s)' = Waiting(s) + 1
  BY <1>0, <1>3 DEF Waiting
<1>5. Unanswered(s)' = Unanswered(s) + 1
  BY <1>4, SlotTypes DEF Unanswered, SlotOK
<1>6. m = ObsAt(iter, TakenEpoch(s), TakenCount(s) + Len(slotq[s]) + Len(pending[s]) + Len(inq[s]))
  <2>1. TakenCount(s) + Waiting(s) = TakenCount(s) + Len(slotq[s]) + Len(pending[s]) + Len(inq[s])
    BY <1>0, Positions DEF Waiting
  <2>. QED  BY <2>1, NextSent
<1>7. Line(inq'[s], iter, TakenEpoch(s), TakenCount(s) + Len(slotq[s]) + Len(pending[s]))
  <2>1. TakenCount(s) + Len(slotq[s]) + Len(pending[s]) \in Int
    BY <1>0, Positions
  <2>2. inq[s] \in Seq(ObsMsg)
    BY <1>0
  <2>3. Line(inq[s], iter, TakenEpoch(s), TakenCount(s) + Len(slotq[s]) + Len(pending[s]))
    BY DEF SlotInv, LineUp
  <2>. QED  BY <1>1, <1>2, <1>6, <2>1, <2>2, <2>3, LineAppend
<1>8. ASSUME Waiting(s)' = Between(TakenEpoch(s), TakenCount(s), SentEpoch(e)', SentCount(e)')
      PROVE  LineUp(s)'
  BY <1>7, <1>8 DEF SameRun, SlotInv, LineUp, Between, Line, ObsAt, Obs, PerEpoch
<1>. QED  BY <1>4, <1>5, <1>8

(***************************************************************************)
(* The manager's actions, as the slots of the manager see them.            *)
(***************************************************************************)

\* No handler is at work on a slot the manager waits for nothing from.
LEMMA AllTaken ==
  ASSUME TypeInv, NEW s \in Slots, SlotInv(s), Unanswered(s) = 0
  PROVE  /\ Waiting(s) = 0
         /\ hPc[s] \notin {"infer", "reply"}
BY SlotTypes DEF Unanswered, SlotOK

LEMMA StartInteractOrder ==
  ASSUME TypeInv, NEW e \in Envs, StartInteract(e), NEW s \in Slots, SlotInv(s), EnvOf[s] = e
  PROVE  SlotInv(s)'
<1>1. /\ SameRun /\ SameQueues(s) /\ SameHandler(s) /\ SameRouter(s) /\ SameActions(s)
      /\ envPc[e] = "idle"
      /\ envPc'[e] = "reset" /\ envEpoch'[e] = 0
  BY DEF StartInteract, SameRun, SameQueues, SameHandler, SameRouter, SameActions,
         TypeInv, TypeOK, EnvTypeOK, routerVars, handlerVars
<1>2. /\ SentEpoch(e) = 0 /\ SentCount(e) = 0
      /\ SentEpoch(e)' = 0 /\ SentCount(e)' = 0
  BY <1>1 DEF SentEpoch, SentCount
<1>3. LineUp(s)'
  BY <1>1, <1>2, TakerKept, LineUpKept
<1>4. Unanswered(s)' = 0
  <2>1. Unanswered(s)' = Unanswered(s)
    BY <1>1, WaitingKept DEF SameHandler
  <2>. QED  BY <1>1, <2>1, Window
<1>5. Collecting(s)' /\ Acking(s)'
  BY <1>1 DEF Collecting, Acking
<1>6. Resting(s)'
  BY <1>1, <1>4 DEF SlotInv, Resting, SameActions
<1>7. InStep(s)'
  BY <1>1, <1>2, TakerKept DEF SlotInv, InStep, SameRun, Prefetch
<1>. QED  BY <1>1, <1>3, <1>5, <1>6, <1>7, WorkerSideKept DEF SlotInv, SameQueues

LEMMA SendInitOrder ==
  ASSUME TypeInv, NEW e \in Envs, SendInit(e), NEW s \in Slots, SlotInv(s), EnvOf[s] = e
  PROVE  SlotInv(s)'
<1>1. /\ SameRun /\ SameHandler(s) /\ SameRouter(s) /\ SameActions(s)
      /\ pending'[s] = pending[s] /\ slotq'[s] = slotq[s]
      /\ envPc[e] = "reset" /\ SendSlotOutputs(e, -1)
      /\ envPc'[e] = "act" /\ envStep'[e] = 0 /\ envEpoch'[e] = envEpoch[e]
      /\ s \in awaited'[e]
  BY DEF SendInit, SameRun, SameHandler, SameRouter, SameActions, SlotsOfEnv,
         TypeInv, TypeOK, EnvTypeOK, routerVars, handlerVars
<1>2. /\ SentEpoch(e) = envEpoch[e] /\ SentCount(e) = 0
      /\ SentEpoch(e)' = envEpoch[e] /\ SentCount(e)' = 1
  BY <1>1 DEF SentEpoch, SentCount
<1>3. SentCount(e) < PerEpoch /\ SentCount(e) - 1 = -1
  BY <1>2, PerEpochType
<1>4. TakenEpoch(s)' = TakenEpoch(s) /\ TakenCount(s)' = TakenCount(s)
  BY <1>1, TakerKept
<1>5. /\ Waiting(s)' = Waiting(s) + 1 /\ Unanswered(s)' = Unanswered(s) + 1
      /\ Waiting(s)' = Between(TakenEpoch(s), TakenCount(s), SentEpoch(e)', SentCount(e)')
              => LineUp(s)'
  BY <1>1, <1>2, <1>3, <1>4, SendLine DEF SameHandler
<1>6. LineUp(s)'
  <2>1. Waiting(s) = Between(TakenEpoch(s), TakenCount(s), envEpoch[e], 0)
    BY <1>2 DEF SlotInv, LineUp
  <2>2. Waiting(s) \in Nat
    BY SlotTypes DEF SlotOK
  <2>3. \A k \in Nat, c \in Nat, l \in Nat, w \in Nat :
          w = Between(k, c, l, 0) => w + 1 = Between(k, c, l, 1)
    BY PerEpochType DEF Between
  <2>4. TakenEpoch(s) \in Nat /\ TakenCount(s) \in Nat /\ envEpoch[e] \in Nat
    BY <1>2, Positions
  <2>. QED  BY <1>2, <1>5, <2>1, <2>2, <2>3, <2>4
<1>7. actq'[s] = <<>> /\ Unanswered(s) \in Nat /\ Unanswered(s) <= (IF Prefetch THEN 1 ELSE 0)
  BY <1>1, Window DEF SlotInv, Resting, SameActions
<1>8. Collecting(s)'
  <2>1. ~Answered(s)'
    BY <1>1, <1>7 DEF Answered
  <2>2. Prefetch' = Prefetch
    BY <1>1 DEF SameRun, Prefetch
  <2>. QED  BY <1>1, <1>5, <1>7, <2>1, <2>2 DEF Collecting
<1>9. Acking(s)' /\ Resting(s)'
  BY <1>1 DEF Acking, Resting
<1>10. InStep(s)'
  BY <1>1, <1>2, <1>4 DEF SlotInv, InStep, SameRun, Prefetch
<1>. QED  BY <1>1, <1>6, <1>8, <1>9, <1>10, WorkerSideKept DEF SlotInv

LEMMA EnvStepOrder ==
  ASSUME TypeInv, NEW e \in Envs, EnvStep(e), NEW s \in Slots, SlotInv(s), EnvOf[s] = e
  PROVE  SlotInv(s)'
<1>0. SlotOK(s)
  BY SlotTypes
<1>1. /\ SameRun /\ SameHandler(s) /\ SameRouter(s) /\ SameActions(s)
      /\ pending'[s] = pending[s] /\ slotq'[s] = slotq[s]
      /\ envPc[e] = "act" /\ SendSlotOutputs(e, envStep[e]) /\ s \notin awaited[e]
  BY DEF EnvStep, AllActionsIn, SameRun, SameHandler, SameRouter, SameActions,
         routerVars, handlerVars
<1>2. /\ SentEpoch(e) = envEpoch[e] /\ SentCount(e) = envStep[e] + 1
  BY <1>1 DEF SentEpoch, SentCount
<1>3. SentCount(e) < PerEpoch /\ SentCount(e) - 1 = envStep[e]
  BY <1>0, <1>2 DEF PerEpoch, SlotOK
<1>4. TakenEpoch(s)' = TakenEpoch(s) /\ TakenCount(s)' = TakenCount(s)
  BY <1>1, TakerKept
<1>5. actq[s] = <<>> /\ Unanswered(s) = 0 /\ Waiting(s) = 0
  BY <1>1, AllTaken DEF SlotInv, Collecting, Answered
<1>6. TakenEpoch(s) = envEpoch[e] /\ TakenCount(s) = envStep[e] + 1
  <2>1. 0 = Between(TakenEpoch(s), TakenCount(s), envEpoch[e], envStep[e] + 1)
    BY <1>2, <1>5 DEF SlotInv, LineUp
  <2>2. \A k \in Nat, c \in Nat, l \in Nat, d \in Nat :
          0 = Between(k, c, l, d) /\ c <= PerEpoch /\ d < PerEpoch /\ d > 0 => k = l /\ c = d
    BY PerEpochType DEF Between
  <2>3. /\ TakenEpoch(s) \in Nat /\ TakenCount(s) \in Nat /\ TakenCount(s) <= PerEpoch
        /\ envEpoch[e] \in Nat
    BY <1>0, Positions DEF SlotOK
  <2>4. envStep[e] + 1 \in Nat /\ envStep[e] + 1 > 0 /\ envStep[e] + 1 < PerEpoch
    BY <1>0, <1>2, <1>3 DEF SlotOK
  <2>. QED  BY <2>1, <2>2, <2>3, <2>4
<1>7. /\ Waiting(s)' = 1 /\ Unanswered(s)' = 1
      /\ 1 = Between(envEpoch[e], envStep[e] + 1, SentEpoch(e)', SentCount(e)') => LineUp(s)'
  BY <1>1, <1>2, <1>3, <1>4, <1>5, <1>6, SendLine DEF SameHandler
<1>8. Prefetch' = Prefetch
  BY <1>1 DEF SameRun, Prefetch
<1>9. InHand(s)' /\ Phase(s)' /\ Flight(s)' /\ AtFront(s)'
  BY <1>1, WorkerSideKept
<1>10. actq'[s] = <<>>
  BY <1>1, <1>5 DEF SameActions
<1> USE <1>0 DEF SlotOK
<1>11. CASE envStep[e] < NumSteps - 1
  <2>1. /\ envPc'[e] = "act" /\ envEpoch'[e] = envEpoch[e]
        /\ envStep'[e] = envStep[e] + 1 /\ s \in awaited'[e]
    BY <1>1, <1>11 DEF EnvStep, SlotsOfEnv, TypeInv, TypeOK, EnvTypeOK
  <2>2. SentEpoch(e)' = envEpoch[e] /\ SentCount(e)' = envStep[e] + 2
    BY <2>1 DEF SentEpoch, SentCount
  <2>3. LineUp(s)'
    BY <1>7, <2>2 DEF Between
  <2>4. Collecting(s)' /\ Acking(s)' /\ Resting(s)'
    BY <1>7, <1>10, <2>1 DEF Collecting, Acking, Resting, Answered
  <2>5. InStep(s)'
    BY <1>4, <1>6, <2>2 DEF InStep
  <2>. QED  BY <1>9, <2>3, <2>4, <2>5 DEF SlotInv
<1>12. CASE envStep[e] = NumSteps - 1 /\ LastEpoch(envEpoch[e])
  <2>1. envPc'[e] = "done" /\ envEpoch'[e] = envEpoch[e] /\ envEpoch[e] = NumEpochs - 1
    BY <1>1, <1>12 DEF EnvStep, LastEpoch, TypeInv, TypeOK, EnvTypeOK
  <2>2. SentEpoch(e)' = envEpoch[e] /\ SentCount(e)' = envStep[e] + 2
    BY <1>12, <2>1 DEF SentEpoch, SentCount, PerEpoch
  <2>3. LineUp(s)'
    BY <1>7, <2>2 DEF Between
  <2>4. Collecting(s)' /\ Acking(s)' /\ Resting(s)' /\ InStep(s)'
    BY <1>7, <1>10, <2>1 DEF Collecting, Acking, Resting, InStep
  <2>. QED  BY <1>9, <2>3, <2>4 DEF SlotInv
<1>13. CASE envStep[e] = NumSteps - 1 /\ ~LastEpoch(envEpoch[e]) /\ Prefetch
  <2>1. envPc'[e] = "reset" /\ envEpoch'[e] = envEpoch[e] + 1
    BY <1>1, <1>13 DEF EnvStep, EnvSkipsAck, TypeInv, TypeOK, EnvTypeOK
  <2>2. SentEpoch(e)' = envEpoch[e] + 1 /\ SentCount(e)' = 0
    BY <2>1 DEF SentEpoch, SentCount
  <2>3. LineUp(s)'
    BY <1>7, <1>13, <2>2 DEF Between, PerEpoch
  <2>4. Collecting(s)' /\ Acking(s)' /\ Resting(s)' /\ InStep(s)'
    BY <1>7, <1>8, <1>10, <1>13, <2>1 DEF Collecting, Acking, Resting, InStep
  <2>. QED  BY <1>9, <2>3, <2>4 DEF SlotInv
<1>14. CASE envStep[e] = NumSteps - 1 /\ ~LastEpoch(envEpoch[e]) /\ ~Prefetch
  <2>1. envPc'[e] = "ack" /\ envEpoch'[e] = envEpoch[e] /\ s \in awaited'[e]
    BY <1>1, <1>14 DEF EnvStep, EnvSkipsAck, SlotsOfEnv, TypeInv, TypeOK, EnvTypeOK
  <2>2. SentEpoch(e)' = envEpoch[e] /\ SentCount(e)' = envStep[e] + 2
    BY <1>14, <2>1 DEF SentEpoch, SentCount, PerEpoch
  <2>3. LineUp(s)'
    BY <1>7, <2>2 DEF Between
  <2>4. Collecting(s)' /\ Resting(s)' /\ InStep(s)'
    BY <2>1 DEF Collecting, Resting, InStep
  <2>5. Acking(s)'
    BY <1>4, <1>6, <1>7, <1>8, <1>10, <1>14, <2>1 DEF Acking, Answered
  <2>. QED  BY <1>9, <2>3, <2>4, <2>5 DEF SlotInv
<1>15. envStep[e] < NumSteps - 1 \/ envStep[e] = NumSteps - 1
  <2>1. \A n \in Nat, m \in Nat : n < m => n < m - 1 \/ n = m - 1
    OBVIOUS
  <2>. QED  BY <2>1
<1>. QED  BY <1>11, <1>12, <1>13, <1>14, <1>15

LEMMA RecvActionOrder ==
  ASSUME TypeInv, OrderInv, NEW e \in Envs, NEW t \in Slots, RecvAction(e, t), NEW s \in Slots
  PROVE  SlotInv(s)'
<1>0. SlotInv(s) /\ SlotInv(t) /\ EnvOf[t] = e
  BY DEF OrderInv, AwaitsOwn, RecvAction, SlotsOfEnv
<1>1. /\ envPc[e] = "act" /\ t \in awaited[e]
      /\ actq[t] = <<Action(iter, envEpoch[e], envStep[e])>> /\ Unanswered(t) = 0
  BY <1>0 DEF RecvAction, SlotInv, Collecting, Answered
<1>2. Head(actq[t]).kind = "action" /\ Tail(actq[t]) = <<>>
  BY <1>1 DEF Action
<1>3. /\ SameRun /\ SameQueues(s) /\ SameHandler(s) /\ SameRouter(s)
      /\ envPc' = envPc /\ envEpoch' = envEpoch /\ envStep' = envStep
      /\ awaited' = [awaited EXCEPT ![e] = @ \ {t}]
      /\ actq' = [actq EXCEPT ![t] = <<>>]
  BY <1>1, <1>2 DEF RecvAction, SameRun, SameQueues, SameHandler, SameRouter, routerVars,
     handlerVars, TypeInv, TypeOK, EnvTypeOK
<1>4. CASE s # t
  <2>1. SameManager(s) /\ SameActions(s)
    BY <1>3, <1>4, EnvsType DEF SameManager, SameActions, TypeInv, TypeOK, EnvTypeOK
  <2>. QED  BY <1>0, <1>3, <2>1, SlotKept
<1>5. CASE s = t
  <2>1. /\ s \notin awaited'[e] /\ actq'[s] = <<>>
        /\ SentEpoch(e)' = SentEpoch(e) /\ SentCount(e)' = SentCount(e)
    BY <1>1, <1>3, <1>5 DEF TypeInv, TypeOK, EnvTypeOK, SentEpoch, SentCount, PerEpoch
  <2>2. TakenEpoch(s)' = TakenEpoch(s) /\ TakenCount(s)' = TakenCount(s)
    BY <1>0, <1>3, TakerKept
  <2>3. LineUp(s)'
    BY <1>0, <1>3, <1>5, <2>1, <2>2, LineUpKept
  <2>4. Unanswered(s)' = 0
    BY <1>1, <1>3, <1>5, WaitingKept DEF SameHandler
  <2>5. Collecting(s)' /\ Acking(s)' /\ Resting(s)'
    BY <1>0, <1>1, <1>3, <1>5, <2>1, <2>4 DEF Collecting, Acking, Resting, Answered
  <2>6. InStep(s)'
    BY <1>0, <1>3, <1>5, <2>1, <2>2 DEF SlotInv, InStep, SameRun, Prefetch
  <2>. QED  BY <1>0, <1>3, <2>3, <2>5, <2>6, WorkerSideKept DEF SlotInv, SameQueues
<1>. QED  BY <1>4, <1>5

LEMMA RecvAckOrder ==
  ASSUME TypeInv, OrderInv, NEW e \in Envs, RecvAck(e), NEW s \in Slots
  PROVE  SlotInv(s)'
<1> DEFINE t == Min(awaited[e])
<1>0. t \in awaited[e] /\ t \in Slots /\ EnvOf[t] = e
  <2>1. awaited[e] \in SUBSET Slots /\ awaited[e] # {}
    BY DEF RecvAck, OrderInv, AwaitsOwn, TypeInv, TypeOK, EnvTypeOK
  <2>. QED  BY <2>1, MinSlot DEF OrderInv, AwaitsOwn, SlotsOfEnv
<1> HIDE DEF t
<1>1. SlotInv(s) /\ SlotInv(t)
  BY <1>0 DEF OrderInv
<1>2. envPc[e] = "ack" /\ actq[t] # <<>>
  BY DEF RecvAck, t
<1>3. actq[t] = <<Ack(iter, envEpoch[e])>>
  BY <1>0, <1>1, <1>2 DEF SlotInv, Acking
<1>4. Head(actq[t]).kind = "ack" /\ Tail(actq[t]) = <<>>
  BY <1>3 DEF Ack
<1>5. /\ SameRun /\ SameQueues(s) /\ SameHandler(s) /\ SameRouter(s)
      /\ envStep' = envStep
      /\ awaited' = [awaited EXCEPT ![e] = @ \ {t}]
      /\ actq' = [actq EXCEPT ![t] = <<>>]
      /\ envPc' = [envPc EXCEPT ![e] = IF awaited[e] = {t} THEN "reset" ELSE "ack"]
      /\ envEpoch' = [envEpoch EXCEPT ![e] = IF awaited[e] = {t} THEN @ + 1 ELSE @]
  BY <1>4 DEF RecvAck, t, SameRun, SameQueues, SameHandler, SameRouter, routerVars, handlerVars
<1>6. envPc \in [Envs -> {"idle", "reset", "act", "ack", "done", "failed"}]
      /\ envEpoch \in [Envs -> 0 .. NumEpochs - 1] /\ awaited \in [Envs -> SUBSET Slots]
      /\ actq \in [Slots -> Seq(ActMsg)]
  BY DEF TypeInv, TypeOK, EnvTypeOK
<1>7. CASE EnvOf[s] # e
  <2>1. SameManager(s) /\ SameActions(s)
    BY <1>0, <1>5, <1>6, <1>7, EnvsType DEF SameManager, SameActions
  <2>. QED  BY <1>1, <1>5, <2>1, SlotKept
<1>8. CASE EnvOf[s] = e /\ awaited[e] # {t}
  <2>1. /\ envPc'[e] = "ack" /\ envEpoch'[e] = envEpoch[e]
    BY <1>2, <1>5, <1>6, <1>8
  <2>2. CASE s # t
    <3>1. SameManager(s) /\ SameActions(s)
      BY <1>0, <1>2, <1>5, <1>6, <1>8, <2>1, <2>2 DEF SameManager, SameActions
    <3>. QED  BY <1>1, <1>5, <3>1, SlotKept
  <2>3. CASE s = t
    <3>1. s \notin awaited'[e] /\ actq'[s] = <<>>
      BY <1>5, <1>6, <2>3
    <3>2. TakenEpoch(s)' = TakenEpoch(s) /\ TakenCount(s)' = TakenCount(s)
      BY <1>1, <1>5, TakerKept
    <3>3. SentEpoch(e)' = SentEpoch(e) /\ SentCount(e)' = SentCount(e)
      BY <1>2, <1>5, <2>1 DEF SentEpoch, SentCount, PerEpoch
    <3>4. LineUp(s)'
      BY <1>1, <1>5, <1>8, <3>2, <3>3, LineUpKept
    <3>5. TakenEpoch(s) = envEpoch[e] + 1 /\ ~Prefetch
      BY <1>1, <1>2, <1>8, <2>3 DEF SlotInv, Acking, Answered
    <3>6. Collecting(s)' /\ Acking(s)' /\ Resting(s)' /\ InStep(s)'
      BY <1>5, <1>8, <2>1, <3>1, <3>2, <3>5
         DEF Collecting, Acking, Resting, InStep, Answered, SameRun, Prefetch
    <3>. QED  BY <1>1, <1>5, <3>4, <3>6, WorkerSideKept DEF SlotInv, SameQueues
  <2>. QED  BY <2>2, <2>3
<1>9. CASE EnvOf[s] = e /\ awaited[e] = {t}
  <2>1. /\ envPc'[e] = "reset" /\ envEpoch'[e] = envEpoch[e] + 1
    BY <1>5, <1>6, <1>9
  <2>2. Answered(s)
    BY <1>2, <1>9 DEF Answered
  <2>3. TakenEpoch(s) = envEpoch[e] + 1 /\ Unanswered(s) = 0 /\ Waiting(s) = 0
    BY <1>1, <1>2, <1>9, <2>2, Window, AllTaken DEF SlotInv, Acking
  <2>4. SentEpoch(e) = envEpoch[e] /\ SentCount(e) = PerEpoch
    BY <1>2 DEF SentEpoch, SentCount
  <2>5. TakenCount(s) = 0
    <3>1. 0 = Between(envEpoch[e] + 1, TakenCount(s), envEpoch[e], PerEpoch)
      BY <1>1, <1>9, <2>3, <2>4 DEF SlotInv, LineUp
    <3>2. \A l \in Nat, c \in Nat : 0 = Between(l + 1, c, l, PerEpoch) => c = 0
      BY PerEpochType DEF Between
    <3>3. envEpoch[e] \in Nat
      BY <1>6
    <3>. QED  BY <3>1, <3>2, <3>3, Positions
  <2>6. SentEpoch(e)' = envEpoch[e] + 1 /\ SentCount(e)' = 0
    BY <2>1 DEF SentEpoch, SentCount
  <2>7. TakenEpoch(s)' = TakenEpoch(s) /\ TakenCount(s)' = TakenCount(s)
    BY <1>1, <1>5, TakerKept
  <2>8. Unanswered(s)' = 0 /\ Waiting(s)' = 0
    BY <1>5, <2>3, WaitingKept DEF SameHandler
  <2>9. LineUp(s)'
    <3>1. 0 = Between(TakenEpoch(s), TakenCount(s), SentEpoch(e)', SentCount(e)')
      BY <2>3, <2>5, <2>6 DEF Between
    <3>2. /\ slotq'[s] = slotq[s] /\ pending'[s] = pending[s] /\ inq'[s] = inq[s] /\ iter' = iter
      BY <1>5 DEF SameRun, SameQueues
    <3>3. Waiting(s)' = Between(TakenEpoch(s)', TakenCount(s)', SentEpoch(e)', SentCount(e)')
      BY <2>7, <2>8, <3>1, Zenon
    <3>4. /\ Line(slotq[s], iter, TakenEpoch(s), TakenCount(s))
          /\ Line(pending[s], iter, TakenEpoch(s), TakenCount(s) + Len(slotq[s]))
          /\ Line(inq[s], iter, TakenEpoch(s), TakenCount(s) + Len(slotq[s]) + Len(pending[s]))
      BY <1>1 DEF SlotInv, LineUp
    <3>5. /\ Line(slotq'[s], iter', TakenEpoch(s)', TakenCount(s)')
          /\ Line(pending'[s], iter', TakenEpoch(s)', TakenCount(s)' + Len(slotq'[s]))
          /\ Line(inq'[s], iter', TakenEpoch(s)', TakenCount(s)' + Len(slotq'[s]) + Len(pending'[s]))
      BY <2>7, <3>2, <3>4, Zenon
    <3>. QED  BY <1>9, <3>3, <3>5 DEF LineUp, Line, ObsAt, Obs, Between, PerEpoch
  <2>10. actq'[s] = <<>>
    BY <1>0, <1>1, <1>2, <1>5, <1>6, <1>9 DEF SlotInv, Acking
  <2>11. Collecting(s)' /\ Acking(s)' /\ Resting(s)' /\ InStep(s)'
    BY <1>9, <2>1, <2>3, <2>6, <2>7, <2>8, <2>10 DEF Collecting, Acking, Resting, InStep
  <2>. QED  BY <1>1, <1>5, <2>9, <2>11, WorkerSideKept DEF SlotInv, SameQueues
<1>. QED  BY <1>7, <1>8, <1>9

LEMMA EnvOrder ==
  ASSUME TypeInv, OrderInv, NEW e \in Envs, EnvNext(e)
  PROVE  OrderInv'
<1>1. AwaitsOwn'
  <2>0. AwaitsOwn /\ envPc \in [Envs -> {"idle", "reset", "act", "ack", "done", "failed"}]
        /\ awaited \in [Envs -> SUBSET Slots]
    BY DEF OrderInv, TypeInv, TypeOK, EnvTypeOK
  <2>1. SlotsOfEnv(e) # {}
    BY DEF SlotsOfEnv, Envs
  <2>2. CASE StartInteract(e) \/ SendInit(e)
    BY <2>0, <2>2 DEF StartInteract, SendInit, AwaitsOwn, SlotsOfEnv
  <2>3. CASE EnvStep(e)
    BY <2>0, <2>1, <2>3 DEF EnvStep, AwaitsOwn, SlotsOfEnv
  <2>4. CASE RecvAck(e)
    BY <2>0, <2>4 DEF RecvAck, AwaitsOwn, SlotsOfEnv
  <2>5. ASSUME NEW s \in Slots, RecvAction(e, s) PROVE AwaitsOwn'
    BY <2>0, <2>5 DEF RecvAction, AwaitsOwn, SlotsOfEnv
  <2>. QED  BY <2>2, <2>3, <2>4, <2>5 DEF EnvNext
<1>2. ASSUME NEW s \in Slots PROVE SlotInv(s)'
  <2>0. SlotInv(s)
    BY DEF OrderInv
  <2>1. CASE StartInteract(e) \/ SendInit(e) \/ EnvStep(e)
    <3>1. CASE EnvOf[s] = e
      BY <2>0, <2>1, <3>1, StartInteractOrder, SendInitOrder, EnvStepOrder
    <3>2. CASE EnvOf[s] # e
      <4>1. /\ SameRun /\ SameHandler(s) /\ SameRouter(s) /\ SameActions(s)
            /\ SameQueues(s) /\ SameManager(s)
        BY <2>1, <3>2, EnvsType
           DEF StartInteract, SendInit, EnvStep, SendSlotOutputs, SameRun, SameHandler,
               SameRouter, SameActions, SameQueues, SameManager, routerVars, handlerVars,
               TypeInv, TypeOK, EnvTypeOK
      <4>. QED  BY <2>0, <4>1, SlotKept
    <3>. QED  BY <3>1, <3>2
  <2>. QED  BY <2>1, RecvActionOrder, RecvAckOrder DEF EnvNext
<1>. QED  BY <1>1, <1>2 DEF OrderInv

(***************************************************************************)
(* The rollout worker's puller and router, and the frame of its actions.   *)
(***************************************************************************)
LEMMA StartOrder ==
  ASSUME TypeInv, NEW r \in Ranks, StartGenerate(r), NEW s \in Slots, SlotInv(s)
  PROVE  SlotInv(s)'
<1>0. /\ SameRun /\ SameManager(s) /\ SameActions(s) /\ gen[r] = "idle"
      /\ inq'[s] = inq[s] /\ slotq'[s] = slotq[s] /\ hMsg'[s] = hMsg[s]
      /\ gen' = [gen EXCEPT ![r] = "running"]
  BY DEF StartGenerate, SameRun, SameManager, SameActions, envVars
<1>1. CASE RankOf[s] # r
  <2>1. SameQueues(s) /\ SameHandler(s) /\ SameRouter(s)
    BY <1>0, <1>1, EnvsType DEF StartGenerate, FreshFrontier, SameQueues, SameHandler, SameRouter,
       TypeInv, TypeOK, RouterTypeOK
  <2>. QED  BY <1>0, <2>1, SlotKept
<1>2. CASE RankOf[s] = r
  <2>1. slotq[s] = <<>> /\ pending[s] = <<>> /\ hPc[s] \in {"off", "done"}
    BY <1>0, <1>2 DEF SlotInv, Phase
  <2>2. /\ gen'[RankOf[s]] = "running" /\ hPc'[s] = "recv" /\ hEpoch'[s] = 0 /\ hStep'[s] = 0
        /\ pending'[s] = <<>> /\ frontier'[s] = {} /\ inflight'[s] = FALSE
    BY <1>2 DEF StartGenerate, FreshFrontier, TypeInv, TypeOK, RouterTypeOK
  <2>3. SameQueues(s)
    BY <1>0, <2>1, <2>2 DEF SameQueues
  <2>4. TakenEpoch(s)' = TakenEpoch(s) /\ TakenCount(s)' = TakenCount(s)
    BY <1>0, <1>2, <2>2 DEF TakenEpoch, TakenCount
  <2>5. LineUp(s)'
    <3>1. SentEpoch(EnvOf[s])' = SentEpoch(EnvOf[s]) /\ SentCount(EnvOf[s])' = SentCount(EnvOf[s])
      BY <1>0 DEF SameManager, SentEpoch, SentCount, PerEpoch
    <3>. QED  BY <1>0, <2>3, <2>4, <3>1, LineUpKept
  <2>6. Unanswered(s)' = Unanswered(s)
    BY <2>1, <2>2, <2>3, WaitingKept DEF Unanswered
  <2>7. Collecting(s)' /\ Acking(s)' /\ Resting(s)' /\ InStep(s)'
    BY <1>0, <2>4, <2>6, ManagerSideKept
  <2>8. InHand(s)' /\ Phase(s)' /\ Flight(s)' /\ AtFront(s)'
    BY <1>0, <2>1, <2>2 DEF InHand, Phase, Flight, AtFront, Busy
  <2>. QED  BY <2>5, <2>7, <2>8 DEF SlotInv
<1>. QED  BY <1>1, <1>2

LEMMA PullOrder ==
  ASSUME TypeInv, NEW t \in Slots, Pull(t), NEW s \in Slots, SlotInv(s)
  PROVE  SlotInv(s)'
<1>0. /\ SameRun /\ SameManager(s) /\ SameActions(s) /\ SameHandler(s) /\ SameRouter(s)
      /\ slotq'[s] = slotq[s]
  BY DEF Pull, SameRun, SameManager, SameActions, SameHandler, SameRouter, envVars, handlerVars
<1>1. /\ inq \in [Slots -> Seq(ObsMsg)] /\ pending \in [Slots -> Seq(ObsMsg)]
      /\ slotq \in [Slots -> Seq(ObsMsg)]
  BY DEF TypeInv, TypeOK, RouterTypeOK
<1>2. CASE s # t
  <2>1. SameQueues(s)
    BY <1>0, <1>1, <1>2 DEF Pull, SameQueues
  <2>. QED  BY <1>0, <2>1, SlotKept
<1>3. CASE s = t
  <2> DEFINE m == Head(inq[s])
  <2>1. /\ inq[s] # <<>> /\ inq'[s] = Tail(inq[s]) /\ pending'[s] = Append(pending[s], m)
        /\ gen[RankOf[s]] = "running"
    BY <1>1, <1>3 DEF Pull
  <2>2. m \in ObsMsg
    BY <1>1, <2>1
  <2>3. /\ Len(inq'[s]) = Len(inq[s]) - 1 /\ Len(pending'[s]) = Len(pending[s]) + 1
        /\ Len(inq[s]) \in Nat /\ Len(pending[s]) \in Nat /\ Len(slotq[s]) \in Nat
    BY <1>1, <2>1, <2>2
  <2>4. Waiting(s)' = Waiting(s) /\ Unanswered(s)' = Unanswered(s)
    <3>1. Waiting(s)' = Waiting(s)
      <4>1. \A a \in Nat, b \in Nat, c \in Nat : a + (b + 1) + (c - 1) = a + b + c
        OBVIOUS
      <4>2. Len(slotq[s]) + (Len(pending[s]) + 1) + (Len(inq[s]) - 1)
              = Len(slotq[s]) + Len(pending[s]) + Len(inq[s])
        BY <2>3, <4>1
      <4>. QED  BY <1>0, <2>3, <4>2 DEF Waiting
    <3>. QED  BY <1>0, <3>1 DEF Unanswered, SameHandler
  <2>5. /\ TakenEpoch(s)' = TakenEpoch(s) /\ TakenCount(s)' = TakenCount(s)
        /\ SentEpoch(EnvOf[s])' = SentEpoch(EnvOf[s]) /\ SentCount(EnvOf[s])' = SentCount(EnvOf[s])
    BY <1>0, TakerKept DEF SameManager, SentEpoch, SentCount, PerEpoch
  <2>6. TakenCount(s) \in Nat
    BY Positions
  <2>7. /\ m = ObsAt(iter, TakenEpoch(s), TakenCount(s) + Len(slotq[s]) + Len(pending[s]))
        /\ Line(inq'[s], iter, TakenEpoch(s), TakenCount(s) + Len(slotq[s]) + Len(pending[s]) + 1)
    <3>1. Line(inq[s], iter, TakenEpoch(s), TakenCount(s) + Len(slotq[s]) + Len(pending[s]))
      BY DEF SlotInv, LineUp
    <3>2. TakenCount(s) + Len(slotq[s]) + Len(pending[s]) \in Int
      BY <2>3, <2>6
    <3>. QED  BY <1>1, <2>1, <3>1, <3>2, LineTail
  <2>8. Line(pending'[s], iter, TakenEpoch(s), TakenCount(s) + Len(slotq[s]))
    <3>1. Line(pending[s], iter, TakenEpoch(s), TakenCount(s) + Len(slotq[s]))
      BY DEF SlotInv, LineUp
    <3>2. TakenCount(s) + Len(slotq[s]) \in Int
      BY <2>3, <2>6
    <3>. QED  BY <1>1, <2>1, <2>2, <2>7, <3>1, <3>2, LineAppend
  <2>9. LineUp(s)'
    <3>1. TakenCount(s) + Len(slotq[s]) + Len(pending'[s])
            = TakenCount(s) + Len(slotq[s]) + Len(pending[s]) + 1
      <4>1. \A a \in Nat, b \in Nat, c \in Nat : a + b + (c + 1) = a + b + c + 1
        OBVIOUS
      <4>2. TakenCount(s) + Len(slotq[s]) + (Len(pending[s]) + 1)
              = TakenCount(s) + Len(slotq[s]) + Len(pending[s]) + 1
        BY <2>3, <2>6, <4>1
      <4>. QED  BY <2>3, <4>2
    <3>. QED  BY <1>0, <2>4, <2>5, <2>7, <2>8, <3>1
              DEF SameRun, SlotInv, LineUp, Between, Line, ObsAt, Obs, PerEpoch
  <2>10. Phase(s)'
    BY <1>0, <2>1 DEF SlotInv, Phase, SameHandler
  <2>11. InHand(s)' /\ Flight(s)' /\ AtFront(s)'
    BY <1>0, TakerKept DEF SlotInv, Flight, AtFront, SameHandler, SameRouter, Busy
  <2>. QED  BY <1>0, <2>4, <2>5, <2>9, <2>10, <2>11, ManagerSideKept DEF SlotInv
<1>. QED  BY <1>2, <1>3

LEMMA EndOrder ==
  ASSUME TypeInv, NEW r \in Ranks, EndGenerate(r), NEW s \in Slots, SlotInv(s)
  PROVE  SlotInv(s)'
<1>0. /\ SameRun /\ SameManager(s) /\ SameActions(s) /\ SameQueues(s) /\ SameRouter(s)
      /\ gen[r] = "running" /\ gen' = [gen EXCEPT ![r] = "done"]
      /\ hPc' = hPc /\ hEpoch' = hEpoch /\ hStep' = hStep /\ hMsg' = hMsg
      /\ \A t \in SlotsOfRank(r) : hPc[t] = "done"
  BY DEF EndGenerate, SameRun, SameManager, SameActions, SameQueues, SameRouter, envVars, handlerVars
<1>1. CASE RankOf[s] # r
  <2>1. SameHandler(s)
    BY <1>0, <1>1, EnvsType DEF SameHandler, TypeInv, TypeOK, RouterTypeOK
  <2>. QED  BY <1>0, <2>1, SlotKept
<1>2. CASE RankOf[s] = r
  <2>1. gen'[RankOf[s]] = "done" /\ gen[RankOf[s]] = "running" /\ hPc[s] = "done"
    BY <1>0, <1>2 DEF SlotsOfRank, TypeInv, TypeOK, RouterTypeOK
  <2>2. TakenEpoch(s)' = TakenEpoch(s) /\ TakenCount(s)' = TakenCount(s)
    BY <1>0, <2>1 DEF TakenEpoch, TakenCount
  <2>3. LineUp(s)'
    <3>1. SentEpoch(EnvOf[s])' = SentEpoch(EnvOf[s]) /\ SentCount(EnvOf[s])' = SentCount(EnvOf[s])
      BY <1>0 DEF SameManager, SentEpoch, SentCount, PerEpoch
    <3>. QED  BY <1>0, <2>2, <3>1, LineUpKept
  <2>4. Collecting(s)' /\ Acking(s)' /\ Resting(s)' /\ InStep(s)'
    BY <1>0, <2>2, WaitingKept, ManagerSideKept
  <2>5. InHand(s)' /\ Phase(s)' /\ Flight(s)' /\ AtFront(s)'
    BY <1>0, <2>1 DEF SlotInv, InHand, Phase, Flight, AtFront, Busy, SameQueues, SameRouter
  <2>. QED  BY <2>3, <2>4, <2>5 DEF SlotInv
<1>. QED  BY <1>1, <1>2

(***************************************************************************)
(* The router waits for the observation that comes next, and it is the     *)
(* one at the head of the pending messages unless the slot is served       *)
(* already.                                                                *)
(***************************************************************************)
LEMMA ExpectedAfter ==
  ASSUME NEW s \in Slots, NEW a, NEW b, frontier[s] = {<<a, b>>}
  PROVE  Expected(s) = IF b = EpochComplete THEN <<a + 1, -1>> ELSE <<a, b + 1>>
<1>1. (CHOOSE x \in frontier[s] : TRUE) = <<a, b>>
  OBVIOUS
<1>. QED  BY <1>1 DEF Expected

LEMMA ExpectedNext ==
  ASSUME TypeInv, NEW s \in Slots, SlotInv(s), gen[RankOf[s]] = "running"
  PROVE  Expected(s) = IF hPc[s] \in {"end", "done"} THEN <<hEpoch[s] + 1, -1>>
                       ELSE <<hEpoch[s], hStep[s] - 1>>
<1>0. /\ hEpoch[s] \in Nat /\ hStep[s] \in Nat /\ hStep[s] <= NumSteps
      /\ NumSteps < EpochComplete /\ EpochComplete \in Nat /\ NumSteps \in Nat
  <2>1. EpochComplete \in Nat
    BY SMT DEF EpochComplete
  <2>. QED  BY <2>1, SlotTypes, FlexRoutingAssumption DEF SlotOK
<1>1. \A a, b : frontier[s] = {<<a, b>>} =>
        Expected(s) = IF b = EpochComplete THEN <<a + 1, -1>> ELSE <<a, b + 1>>
  BY ExpectedAfter
<1>2. CASE hPc[s] \in {"end", "done"}
  <2>1. frontier[s] = {<<hEpoch[s], EpochComplete>>}
    BY <1>2 DEF SlotInv, AtFront
  <2>. QED  BY <1>1, <1>2, <2>1
<1>3. CASE hPc[s] \notin {"end", "done"} /\ hStep[s] > 0
  <2>1. frontier[s] = {<<hEpoch[s], hStep[s] - 2>>}
    BY <1>3 DEF SlotInv, AtFront
  <2>2. hStep[s] - 2 # EpochComplete /\ hStep[s] - 2 + 1 = hStep[s] - 1
    BY <1>0
  <2>. QED  BY <1>1, <1>3, <2>1, <2>2
<1>4. CASE hPc[s] \notin {"end", "done"} /\ hStep[s] = 0 /\ hEpoch[s] > 0
  <2>1. frontier[s] = {<<hEpoch[s] - 1, EpochComplete>>}
    BY <1>4 DEF SlotInv, AtFront
  <2>2. hEpoch[s] - 1 + 1 = hEpoch[s] /\ 0 - 1 = -1
    BY <1>0
  <2>. QED  BY <1>1, <1>4, <2>1, <2>2
<1>5. CASE hPc[s] \notin {"end", "done"} /\ hStep[s] = 0 /\ hEpoch[s] = 0
  BY <1>5 DEF SlotInv, AtFront, Expected
<1>. QED  BY <1>0, <1>2, <1>3, <1>4, <1>5

LEMMA HeadAt ==
  ASSUME NEW s \in Slots, NEW i, NEW k, NEW n, Head(pending[s]) = ObsAt(i, k, n)
  PROVE  HeadObs(s) = IF n < PerEpoch THEN <<k, n - 1>> ELSE <<k + 1, n - PerEpoch - 1>>
BY DEF HeadObs, ObsAt, Obs

LEMMA HeadNext ==
  ASSUME TypeInv, NEW s \in Slots, SlotInv(s), gen[RankOf[s]] = "running", pending[s] # <<>>
  PROVE  /\ Head(pending[s]) = ObsAt(iter, hEpoch[s], TakenCount(s) + Len(slotq[s]))
         /\ ~Stale(s)
         /\ Ready(s) => slotq[s] = <<>> /\ ~Busy(s)
<1>0. /\ hEpoch[s] \in Nat /\ hStep[s] \in Nat /\ hStep[s] < PerEpoch /\ PerEpoch \in Nat
      /\ slotq[s] \in Seq(ObsMsg) /\ pending[s] \in Seq(ObsMsg) /\ Len(slotq[s]) \in Nat
      /\ TakenCount(s) \in Nat /\ hPc[s] # "off"
      /\ hPc[s] \in {"off", "recv", "infer", "reply", "mark", "end", "done"}
  BY SlotTypes, Positions, PerEpochType DEF SlotOK, QueuesOK, SlotInv, Phase
<1>1. TakenEpoch(s) = hEpoch[s]
  BY DEF TakenEpoch
<1>2. Head(pending[s]) = ObsAt(iter, hEpoch[s], TakenCount(s) + Len(slotq[s]))
  <2>1. Line(pending[s], iter, hEpoch[s], TakenCount(s) + Len(slotq[s]))
    BY <1>1 DEF SlotInv, LineUp
  <2>2. TakenCount(s) + Len(slotq[s]) \in Int
    BY <1>0
  <2>. QED  BY <1>0, <2>1, <2>2, LineTail
<1>3. CASE hPc[s] \in {"end", "done"}
  <2>1. TakenCount(s) = PerEpoch /\ Expected(s) = <<hEpoch[s] + 1, -1>> /\ ~Busy(s)
    BY <1>3, ExpectedNext DEF SlotInv, Phase, TakenCount, PerEpoch, Busy
  <2>2. HeadObs(s) = <<hEpoch[s] + 1, Len(slotq[s]) - 1>>
    <3>1. ~(PerEpoch + Len(slotq[s]) < PerEpoch)
          /\ PerEpoch + Len(slotq[s]) - PerEpoch - 1 = Len(slotq[s]) - 1
      BY <1>0
    <3>. QED  BY <1>0, <1>2, <2>1, <3>1, HeadAt
  <2>3. ~Stale(s)
    BY <1>0, <2>1, <2>2 DEF Stale
  <2>4. Ready(s) => Len(slotq[s]) - 1 = -1
    BY <2>1, <2>2 DEF Ready
  <2>5. Ready(s) => slotq[s] = <<>>
    BY <1>0, <2>4
  <2>. QED  BY <1>2, <2>1, <2>3, <2>5
<1>4. CASE hPc[s] = "recv"
  <2>1. TakenCount(s) = hStep[s] /\ Expected(s) = <<hEpoch[s], hStep[s] - 1>> /\ ~Busy(s)
    BY <1>4, ExpectedNext DEF TakenCount, Busy
  <2>2. /\ HeadObs(s)[1] \in {hEpoch[s], hEpoch[s] + 1}
        /\ HeadObs(s) = <<hEpoch[s], hStep[s] - 1>> => Len(slotq[s]) = 0
    <3>0. PICK n \in Nat : n = hStep[s] + Len(slotq[s])
      BY <1>0
    <3>1. Head(pending[s]) = ObsAt(iter, hEpoch[s], n)
      BY <1>2, <2>1, <3>0
    <3>2. HeadObs(s) = IF n < PerEpoch THEN <<hEpoch[s], n - 1>> ELSE <<hEpoch[s] + 1, n - PerEpoch - 1>>
      BY <3>1, HeadAt
    <3>3. HeadObs(s) = <<hEpoch[s], n - 1>> \/ HeadObs(s) = <<hEpoch[s] + 1, n - PerEpoch - 1>>
      BY <3>2
    <3>4. hEpoch[s] # hEpoch[s] + 1 /\ (n - 1 = hStep[s] - 1 => Len(slotq[s]) = 0)
      BY <1>0, <3>0
    <3>. QED  BY <3>3, <3>4
  <2>3. ~Stale(s)
    BY <1>0, <2>1, <2>2 DEF Stale
  <2>4. Ready(s) => slotq[s] = <<>>
    BY <1>0, <2>1, <2>2 DEF Ready
  <2>. QED  BY <1>2, <2>1, <2>3, <2>4
<1>5. CASE Busy(s)
  <2>1. TakenCount(s) = hStep[s] + 1 /\ Expected(s) = <<hEpoch[s], hStep[s] - 1>>
    BY <1>5, ExpectedNext DEF TakenCount, Busy
  <2>2. Len(slotq[s]) = 0
    BY <1>5 DEF SlotInv, Flight
  <2>5. Head(pending[s]) = ObsAt(iter, hEpoch[s], hStep[s] + 1)
    <3>1. TakenCount(s) + Len(slotq[s]) = hStep[s] + 1
      BY <1>0, <2>1, <2>2
    <3>. QED  BY <1>2, <3>1
  <2>3. /\ HeadObs(s)[1] \in {hEpoch[s], hEpoch[s] + 1}
        /\ HeadObs(s) # <<hEpoch[s], hStep[s] - 1>>
    <3>0. PICK n \in Nat : n = hStep[s] + 1
      BY <1>0
    <3>1. Head(pending[s]) = ObsAt(iter, hEpoch[s], n)
      BY <2>5, <3>0
    <3>2. HeadObs(s) = IF n < PerEpoch THEN <<hEpoch[s], n - 1>> ELSE <<hEpoch[s] + 1, n - PerEpoch - 1>>
      BY <3>1, HeadAt
    <3>3. HeadObs(s) = <<hEpoch[s], n - 1>> \/ HeadObs(s) = <<hEpoch[s] + 1, n - PerEpoch - 1>>
      BY <3>2
    <3>4. hEpoch[s] # hEpoch[s] + 1 /\ n - 1 # hStep[s] - 1
      BY <1>0, <3>0
    <3>. QED  BY <3>3, <3>4
  <2>4. ~Stale(s) /\ ~Ready(s)
    BY <1>0, <2>1, <2>3 DEF Stale, Ready
  <2>. QED  BY <1>2, <2>4
<1>. QED  BY <1>0, <1>3, <1>4, <1>5 DEF Busy

\* A router only ever dispatches: the slot that blocks a group is not stale.
LEMMA RouteDispatches ==
  ASSUME TypeInv, OrderInv, NEW r \in Ranks, gen[r] = "running",
         NEW group \in SUBSET SlotsOfRank(r), NEW nt, RouteGroup(r, group, nt)
  PROVE  /\ \A s \in group : s \in Slots /\ RankOf[s] = r /\ Ready(s)
         /\ pending' = [s \in Slots |-> IF s \in group THEN Tail(pending[s]) ELSE pending[s]]
         /\ slotq' = [s \in Slots |-> IF s \in group THEN Append(slotq[s], Head(pending[s]))
                                      ELSE slotq[s]]
         /\ inflight' = [s \in Slots |-> IF s \in group THEN TRUE ELSE inflight[s]]
         /\ turn' = [turn EXCEPT ![r] = nt]
<1> DEFINE blocked == {s \in group : ~Ready(s)}
<1>1. \A s \in group : s \in Slots /\ RankOf[s] = r
  BY DEF SlotsOfRank
<1>2. blocked = {}
  <2> SUFFICES ASSUME blocked # {} PROVE FALSE
    OBVIOUS
  <2>1. Min(blocked) \in blocked
    BY <1>1, MinSlot
  <2>2. Stale(Min(blocked))
    BY DEF RouteGroup
  <2>3. pending[Min(blocked)] # <<>>
    BY <2>2 DEF Stale
  <2>4. SlotInv(Min(blocked)) /\ Min(blocked) \in Slots /\ RankOf[Min(blocked)] = r
    BY <1>1, <2>1 DEF OrderInv
  <2>. QED  BY <2>2, <2>3, <2>4, HeadNext
<1>. QED  BY <1>1, <1>2 DEF RouteGroup

LEMMA RouteOrder ==
  ASSUME TypeInv, OrderInv, NEW r \in Ranks, gen[r] = "running",
         NEW group \in SUBSET SlotsOfRank(r), NEW nt, RouteGroup(r, group, nt), NEW s \in Slots
  PROVE  SlotInv(s)'
<1>0. SlotInv(s)
  BY DEF OrderInv
<1>1. /\ SameRun /\ SameManager(s) /\ SameActions(s) /\ SameHandler(s)
      /\ inq'[s] = inq[s] /\ frontier'[s] = frontier[s]
  BY DEF RouteGroup, SameRun, SameManager, SameActions, SameHandler, envVars, handlerVars
<1>2. /\ inq \in [Slots -> Seq(ObsMsg)] /\ pending \in [Slots -> Seq(ObsMsg)]
      /\ slotq \in [Slots -> Seq(ObsMsg)]
  BY DEF TypeInv, TypeOK, RouterTypeOK
<1>5. /\ \A t \in group : t \in Slots /\ RankOf[t] = r /\ Ready(t)
      /\ pending' = [t \in Slots |-> IF t \in group THEN Tail(pending[t]) ELSE pending[t]]
      /\ slotq' = [t \in Slots |-> IF t \in group THEN Append(slotq[t], Head(pending[t]))
                                   ELSE slotq[t]]
      /\ inflight' = [t \in Slots |-> IF t \in group THEN TRUE ELSE inflight[t]]
  BY RouteDispatches
<1>3. CASE s \notin group
  <2>1. SameQueues(s) /\ SameRouter(s)
    BY <1>1, <1>3, <1>5 DEF SameQueues, SameRouter
  <2>. QED  BY <1>0, <1>1, <2>1, SlotKept
<1>4. CASE s \in group
  <2> DEFINE m == Head(pending[s])
  <2>1. /\ gen[RankOf[s]] = "running" /\ Ready(s)
        /\ pending'[s] = Tail(pending[s]) /\ slotq'[s] = Append(slotq[s], m)
        /\ inflight'[s] = TRUE
    BY <1>4, <1>5
  <2>2. pending[s] # <<>>
    BY <2>1 DEF Ready
  <2>3. /\ slotq[s] = <<>> /\ ~Busy(s)
        /\ m = ObsAt(iter, hEpoch[s], TakenCount(s) + Len(slotq[s]))
    BY <1>0, <2>1, <2>2, HeadNext
  <2>4. m \in ObsMsg
    BY <1>2, <2>2
  <2>5. /\ TakenEpoch(s) = hEpoch[s] /\ TakenCount(s) \in Nat
        /\ TakenCount(s) + Len(slotq[s]) = TakenCount(s)
    BY <2>1, <2>3, Positions DEF TakenEpoch
  <2>6. Line(slotq'[s], iter, TakenEpoch(s), TakenCount(s))
    <3>1. Line(slotq[s], iter, TakenEpoch(s), TakenCount(s))
      BY <2>3, LineEmpty
    <3>2. m = ObsAt(iter, TakenEpoch(s), TakenCount(s) + Len(slotq[s])) /\ TakenCount(s) \in Int
      BY <2>3, <2>5
    <3>3. slotq[s] \in Seq(ObsMsg)
      BY <1>2
    <3>. QED  BY <2>1, <2>4, <3>1, <3>2, <3>3, LineAppend
  <2>7. Line(pending'[s], iter, TakenEpoch(s), TakenCount(s) + 1)
    <3>1. Line(pending[s], iter, TakenEpoch(s), TakenCount(s))
      BY <1>0, <2>5 DEF SlotInv, LineUp
    <3>. QED  BY <1>2, <2>1, <2>2, <2>5, <3>1, LineTail
  <2>8. /\ Len(slotq'[s]) = 1 /\ Len(pending'[s]) = Len(pending[s]) - 1
        /\ Len(pending[s]) \in Nat /\ Len(inq[s]) \in Nat /\ Len(slotq[s]) = 0
    BY <1>2, <2>1, <2>2, <2>3, <2>4
  <2>9. Waiting(s)' = Waiting(s) /\ Unanswered(s)' = Unanswered(s)
    <3>1. Waiting(s)' = Waiting(s)
      <4>1. \A a \in Nat, b \in Nat : 1 + (a - 1) + b = 0 + a + b
        OBVIOUS
      <4>2. 1 + (Len(pending[s]) - 1) + Len(inq[s]) = 0 + Len(pending[s]) + Len(inq[s])
        BY <2>8, <4>1
      <4>. QED  BY <1>1, <2>8, <4>2 DEF Waiting
    <3>. QED  BY <1>1, <3>1 DEF Unanswered, SameHandler
  <2>10. /\ TakenEpoch(s)' = TakenEpoch(s) /\ TakenCount(s)' = TakenCount(s)
         /\ SentEpoch(EnvOf[s])' = SentEpoch(EnvOf[s]) /\ SentCount(EnvOf[s])' = SentCount(EnvOf[s])
    BY <1>0, <1>1, TakerKept DEF SameManager, SentEpoch, SentCount, PerEpoch
  <2>11. LineUp(s)'
    <3>1. /\ TakenCount(s) + Len(slotq'[s]) = TakenCount(s) + 1
          /\ TakenCount(s) + Len(slotq'[s]) + Len(pending'[s])
               = TakenCount(s) + Len(slotq[s]) + Len(pending[s])
      <4>1. \A a \in Nat, b \in Nat : a + 1 + (b - 1) = a + 0 + b
        OBVIOUS
      <4>2. TakenCount(s) + 1 + (Len(pending[s]) - 1) = TakenCount(s) + 0 + Len(pending[s])
        BY <2>5, <2>8, <4>1
      <4>. QED  BY <2>8, <4>2
    <3>. QED  BY <1>0, <1>1, <2>6, <2>7, <2>9, <2>10, <3>1
              DEF SameRun, SlotInv, LineUp, Between, Line, ObsAt, Obs, PerEpoch
  <2>12. Collecting(s)' /\ Acking(s)' /\ Resting(s)' /\ InStep(s)'
    BY <1>0, <1>1, <2>9, <2>10, ManagerSideKept
  <2>13. Phase(s)'
    BY <1>0, <1>1, <2>1 DEF SlotInv, Phase, SameHandler
  <2>14. Flight(s)'
    BY <1>1, <2>1, <2>3, <2>8 DEF Flight, Busy, SameHandler
  <2>15. InHand(s)' /\ AtFront(s)'
    BY <1>0, <1>1, TakerKept DEF SlotInv, AtFront, SameHandler
  <2>. QED  BY <2>11, <2>12, <2>13, <2>14, <2>15 DEF SlotInv
<1>. QED  BY <1>3, <1>4

\* The groups the routers examine are slots of their worker.
LEMMA RouteGroups ==
  ASSUME NEW r \in Ranks, Route(r)
  PROVE  gen[r] = "running" /\ \E group \in SUBSET SlotsOfRank(r) : \E nt : RouteGroup(r, group, nt)
<1>0. \A e : LocalSlots(r, e) \in SUBSET SlotsOfRank(r)
  BY DEF LocalSlots, SlotsOfRank
<1>1. CASE RouteRoundRobin(r)
  BY <1>0, <1>1 DEF RouteRoundRobin
<1>2. CASE RouteGreedy(r)
  BY <1>2 DEF RouteGreedy
<1>3. CASE RouteEnvGroup(r)
  BY <1>0, <1>3 DEF RouteEnvGroup
<1>. QED  BY <1>1, <1>2, <1>3 DEF Route

LEMMA WorkerOrder ==
  ASSUME TypeInv, OrderInv, NEW r \in Ranks, WorkerNext(r)
  PROVE  OrderInv'
<1>1. AwaitsOwn'
  <2>1. envPc' = envPc /\ awaited' = awaited
    BY DEF WorkerNext, StartGenerate, Route, RouteRoundRobin, RouteGreedy, RouteEnvGroup,
           RouteGroup, EndGenerate, envVars
  <2>. QED  BY <2>1 DEF OrderInv, AwaitsOwn
<1>2. ASSUME NEW s \in Slots PROVE SlotInv(s)'
  <2>0. SlotInv(s)
    BY DEF OrderInv
  <2>1. CASE Route(r)
    BY <2>1, RouteGroups, RouteOrder
  <2>. QED  BY <2>0, <2>1, StartOrder, EndOrder DEF WorkerNext
<1>. QED  BY <1>1, <1>2 DEF OrderInv

(***************************************************************************)
(* The handler's actions, as its slot sees them.                           *)
(***************************************************************************)
LEMMA OneLong ==
  ASSUME NEW M, NEW q \in Seq(M), q # <<>>, Len(q) <= 1
  PROVE  Len(q) = 1 /\ Tail(q) = <<>>
<1>1. \A n \in Nat : n # 0 /\ n <= 1 => n = 1
  OBVIOUS
<1>2. Len(q) = 1
  BY <1>1, EmptySeq
<1>3. Tail(q) \in Seq(M) /\ Len(Tail(q)) = 0
  BY <1>2, HeadTailProperties
<1>. QED  BY <1>2, <1>3, EmptySeq

LEMMA HandlerRecvOrder ==
  ASSUME TypeInv, NEW s \in Slots, HandlerRecv(s), SlotInv(s)
  PROVE  SlotInv(s)'
<1>0. /\ SameRun /\ SameManager(s) /\ SameActions(s) /\ SameRouter(s)
      /\ inq'[s] = inq[s] /\ pending'[s] = pending[s] /\ gen' = gen
      /\ hEpoch' = hEpoch /\ hStep' = hStep
      /\ hPc[s] = "recv" /\ hPc'[s] = "infer" /\ slotq[s] # <<>>
      /\ slotq'[s] = Tail(slotq[s]) /\ hMsg'[s] = Head(slotq[s])
  BY DEF HandlerRecv, SameRun, SameManager, SameActions, SameRouter, envVars, routerVars,
         TypeInv, TypeOK, HandlerTypeOK
<1>1. /\ slotq[s] \in Seq(ObsMsg) /\ Len(slotq[s]) = 1 /\ slotq'[s] = <<>>
      /\ Len(pending[s]) \in Nat /\ Len(inq[s]) \in Nat
  <2>1. /\ slotq[s] \in Seq(ObsMsg) /\ Len(slotq[s]) \in Nat
        /\ Len(pending[s]) \in Nat /\ Len(inq[s]) \in Nat
    BY SlotTypes DEF SlotOK, QueuesOK
  <2>2. Len(slotq[s]) <= 1
    BY DEF SlotInv, Flight
  <2>. QED  BY <1>0, <2>1, <2>2, OneLong
<1>2. gen[RankOf[s]] = "running"
  BY <1>0, SlotTypes DEF SlotInv, Phase, SlotOK
<1>3. /\ TakenEpoch(s) = hEpoch[s] /\ TakenEpoch(s)' = hEpoch[s]
      /\ TakenCount(s) = hStep[s] /\ TakenCount(s)' = hStep[s] + 1
  BY <1>0, <1>2 DEF TakenEpoch, TakenCount
<1>4. hStep[s] \in Nat /\ hStep[s] < PerEpoch /\ hEpoch[s] \in Nat
  BY SlotTypes, PerEpochType DEF SlotOK
<1>5. hMsg'[s] = Obs(iter, hEpoch[s], hStep[s] - 1)
  <2>1. Line(slotq[s], iter, hEpoch[s], hStep[s])
    BY <1>3 DEF SlotInv, LineUp
  <2>2. Head(slotq[s]) = ObsAt(iter, hEpoch[s], hStep[s])
    BY <1>0, <1>1, <1>4, <2>1, LineTail
  <2>. QED  BY <1>0, <1>4, <2>2 DEF ObsAt
<1>6. /\ Waiting(s) \in Nat /\ Waiting(s) > 0 /\ Waiting(s)' = Waiting(s) - 1
      /\ Unanswered(s)' = Unanswered(s)
  <2>2. /\ Waiting(s) = 1 + Len(pending[s]) + Len(inq[s])
        /\ Waiting(s)' = 0 + Len(pending[s]) + Len(inq[s])
    BY <1>0, <1>1 DEF Waiting
  <2>3. Waiting(s) \in Nat /\ Waiting(s) > 0 /\ Waiting(s)' = Waiting(s) - 1
    <3> DEFINE n == 1 + Len(pending[s]) + Len(inq[s])
    <3>1. \A a \in Nat, b \in Nat : 1 + a + b \in Nat /\ 1 + a + b > 0 /\ 0 + a + b = (1 + a + b) - 1
      OBVIOUS
    <3>2. n \in Nat /\ n > 0 /\ 0 + Len(pending[s]) + Len(inq[s]) = n - 1
      BY <1>1, <3>1
    <3>3. Waiting(s) = n /\ Waiting(s)' = 0 + Len(pending[s]) + Len(inq[s])
      BY <2>2
    <3> HIDE DEF n
    <3>4. Waiting(s) \in Nat /\ Waiting(s) > 0
      BY <3>2, <3>3
    <3>5. Waiting(s)' = Waiting(s) - 1
      BY <3>2, <3>3
    <3>. QED  BY <3>4, <3>5
  <2>4. \A n \in Nat : n - 1 + 1 = n + 0
    OBVIOUS
  <2>5. Unanswered(s) = Waiting(s) + 0 /\ Unanswered(s)' = Waiting(s) - 1 + 1
    BY <1>0, <2>3 DEF Unanswered
  <2>. QED  BY <2>3, <2>4, <2>5
<1>7. SentEpoch(EnvOf[s])' = SentEpoch(EnvOf[s]) /\ SentCount(EnvOf[s])' = SentCount(EnvOf[s])
  BY <1>0 DEF SameManager, SentEpoch, SentCount, PerEpoch
<1>8. LineUp(s)'
  <2>1. Waiting(s)' = Between(hEpoch[s], hStep[s] + 1, SentEpoch(EnvOf[s]), SentCount(EnvOf[s]))
    <3>1. \A k \in Nat, c \in Nat, l \in Nat, d \in Nat, w \in Nat :
            w > 0 /\ w = Between(k, c, l, d) => w - 1 = Between(k, c + 1, l, d)
      BY PerEpochType DEF Between
    <3>2. Waiting(s) = Between(hEpoch[s], hStep[s], SentEpoch(EnvOf[s]), SentCount(EnvOf[s]))
      BY <1>3 DEF SlotInv, LineUp
    <3>. QED  BY <1>4, <1>6, <3>1, <3>2, Positions
  <2>2. /\ hStep[s] + 1 + Len(slotq'[s]) = hStep[s] + Len(slotq[s])
        /\ Line(slotq'[s], iter, hEpoch[s], hStep[s] + 1)
    BY <1>1, <1>4, LineEmpty
  <2>3. /\ Line(pending[s], iter, hEpoch[s], hStep[s] + Len(slotq[s]))
        /\ Line(inq[s], iter, hEpoch[s], hStep[s] + Len(slotq[s]) + Len(pending[s]))
    BY <1>3 DEF SlotInv, LineUp
  <2>. QED  BY <1>0, <1>3, <1>7, <2>1, <2>2, <2>3
            DEF SameRun, LineUp, Between, Line, ObsAt, Obs, PerEpoch
<1>9. Collecting(s)' /\ Acking(s)' /\ Resting(s)' /\ InStep(s)'
  BY <1>0, <1>3, <1>6, ManagerSideKept
<1>10. InHand(s)'
  BY <1>0, <1>5 DEF InHand, SameRun, Obs
<1>11. Phase(s)'
  BY <1>0, <1>2 DEF Phase
<1>12. Flight(s)'
  <2>1. inflight[s]
    BY <1>0 DEF SlotInv, Flight
  <2>2. Len(slotq'[s]) <= 1
    BY <1>1
  <2>3. Busy(s)'
    BY <1>0 DEF Busy
  <2>. QED  BY <1>0, <1>1, <2>1, <2>2, <2>3 DEF Flight, SameRouter
<1>13. AtFront(s)'
  BY <1>0, <1>2 DEF SlotInv, AtFront, SameRouter
<1>. QED  BY <1>8, <1>9, <1>10, <1>11, <1>12, <1>13 DEF SlotInv

LEMMA InferOrder ==
  ASSUME TypeInv, NEW s \in Slots, Infer(s), SlotInv(s)
  PROVE  SlotInv(s)'
<1>0. /\ SameRun /\ SameManager(s) /\ SameActions(s) /\ SameRouter(s) /\ SameQueues(s)
      /\ gen' = gen /\ hEpoch' = hEpoch /\ hStep' = hStep /\ hMsg' = hMsg
      /\ hPc[s] = "infer" /\ hPc'[s] = "reply"
  BY DEF Infer, SameRun, SameManager, SameActions, SameRouter, SameQueues, envVars, routerVars,
         TypeInv, TypeOK, HandlerTypeOK
<1>1. /\ TakenEpoch(s)' = TakenEpoch(s) /\ TakenCount(s)' = TakenCount(s)
      /\ SentEpoch(EnvOf[s])' = SentEpoch(EnvOf[s]) /\ SentCount(EnvOf[s])' = SentCount(EnvOf[s])
  BY <1>0 DEF TakenEpoch, TakenCount, SameManager, SentEpoch, SentCount, PerEpoch
<1>2. Unanswered(s)' = Unanswered(s)
  BY <1>0, WaitingKept DEF Unanswered
<1>3. LineUp(s)' /\ Collecting(s)' /\ Acking(s)' /\ Resting(s)' /\ InStep(s)'
  BY <1>0, <1>1, <1>2, LineUpKept, ManagerSideKept
<1>4. InHand(s)' /\ Phase(s)' /\ Flight(s)' /\ AtFront(s)'
  BY <1>0 DEF SlotInv, InHand, Phase, Flight, AtFront, Busy, Obs, SameRun, SameQueues, SameRouter
<1>. QED  BY <1>3, <1>4 DEF SlotInv

\* A slot at work is one its manager waits for.  The observation it works on
\* is the last one sent, or there is one more and it is the last of its epoch.
LEMMA AtWork ==
  ASSUME TypeInv, NEW s \in Slots, SlotInv(s), hPc[s] \in {"infer", "reply"}
  PROVE  LET e == EnvOf[s] IN
         /\ Unanswered(s) = Waiting(s) + 1 /\ Waiting(s) \in Nat
         /\ actq[s] = <<>>
         /\ envPc[e] \in {"reset", "act", "ack", "done"}
         /\ envPc[e] \in {"act", "ack"} => ~Answered(s)
         /\ envPc[e] = "act" /\ hStep[s] < NumSteps =>
              s \in awaited[e] /\ envEpoch[e] = hEpoch[s] /\ envStep[e] = hStep[s] /\ Waiting(s) = 0
         /\ envPc[e] = "act" /\ hStep[s] = NumSteps => Waiting(s) = 1 /\ Prefetch /\ envStep[e] = 0
         /\ envPc[e] # "act" => hStep[s] = NumSteps
<1> DEFINE e == EnvOf[s]
<1>0. SlotOK(s)
  BY SlotTypes
<1>1. Unanswered(s) = Waiting(s) + 1 /\ Waiting(s) \in Nat /\ Unanswered(s) # 0
  BY <1>0 DEF SlotOK, Unanswered
<1>2. /\ envPc[e] \in {"reset", "act", "ack", "done"}
      /\ envPc[e] \in {"act", "ack"} => ~Answered(s)
      /\ actq[s] = <<>>
  BY <1>0, <1>1, Window DEF SlotOK, SlotInv, Collecting, Acking, Resting, Answered
<1>3. TakenEpoch(s) = hEpoch[s] /\ TakenCount(s) = hStep[s] + 1
  BY DEF SlotInv, Phase, TakenEpoch, TakenCount
<1>4. Waiting(s) = Between(hEpoch[s], hStep[s] + 1, SentEpoch(e), SentCount(e))
  BY <1>3 DEF SlotInv, LineUp
<1>5. \A k \in Nat, h \in Nat, l \in Nat, d \in Nat, w \in Nat :
        h <= NumSteps /\ d < NumSteps /\ w = Between(k, h + 1, l, d + 1) =>
          /\ w = 0 => k = l /\ h = d /\ h < NumSteps
          /\ w = 1 /\ d = 0 => h = NumSteps
  BY PerEpochType, <1>0 DEF Between, SlotOK
<1>6. \A k \in Nat, h \in Nat, l \in Nat :
        /\ h <= NumSteps /\ 0 = Between(k, h + 1, l, 0) => h = NumSteps
        /\ h <= NumSteps /\ 0 = Between(k, h + 1, l, PerEpoch) => h = NumSteps
  BY PerEpochType, <1>0 DEF Between, SlotOK
<1>7. CASE envPc[e] = "act"
  <2>1. SentEpoch(e) = envEpoch[e] /\ SentCount(e) = envStep[e] + 1
    BY <1>7 DEF SentEpoch, SentCount
  <2>2. Waiting(s) = 0 \/ (Waiting(s) = 1 /\ Prefetch /\ envStep[e] = 0)
    BY <1>1, <1>2, <1>7 DEF SlotInv, Collecting
  <2>3. /\ Waiting(s) = 0 => hEpoch[s] = envEpoch[e] /\ hStep[s] = envStep[e] /\ hStep[s] < NumSteps
        /\ Waiting(s) = 1 /\ envStep[e] = 0 => hStep[s] = NumSteps
    <3>1. Waiting(s) = Between(hEpoch[s], hStep[s] + 1, envEpoch[e], envStep[e] + 1)
      BY <1>4, <2>1
    <3>2. /\ hEpoch[s] \in Nat /\ hStep[s] \in Nat /\ hStep[s] <= NumSteps
          /\ envEpoch[e] \in Nat /\ envStep[e] \in Nat /\ envStep[e] < NumSteps
      BY <1>0 DEF SlotOK
    <3>3. PICK k \in Nat, h \in Nat, l \in Nat, d \in Nat, w \in Nat :
            k = hEpoch[s] /\ h = hStep[s] /\ l = envEpoch[e] /\ d = envStep[e] /\ w = Waiting(s)
      BY <1>1, <3>2
    <3>4. h <= NumSteps /\ d < NumSteps /\ w = Between(k, h + 1, l, d + 1)
      BY <3>1, <3>2, <3>3
    <3>5. /\ w = 0 => k = l /\ h = d /\ h < NumSteps
          /\ w = 1 /\ d = 0 => h = NumSteps
      BY <1>5, <3>4
    <3>. QED  BY <3>3, <3>5
  <2>4. s \in awaited[e]
    BY <1>2, <1>7 DEF Answered
  <2>5. ~(hStep[s] < NumSteps /\ hStep[s] = NumSteps)
    BY <1>0 DEF SlotOK
  <2>. QED  BY <1>1, <1>2, <1>7, <2>2, <2>3, <2>4, <2>5
<1>8. CASE envPc[e] # "act"
  <2>1. Unanswered(s) <= 1
    BY <1>2, <1>8, Window DEF SlotInv, Acking, Resting
  <2>2. Waiting(s) = 0
    BY <1>1, <2>1
  <2>3. SentCount(e) \in {0, PerEpoch} /\ SentEpoch(e) \in Nat
    BY <1>2, <1>8, Positions DEF SentCount
  <2>4. hStep[s] = NumSteps
    BY <1>0, <1>4, <1>6, <2>2, <2>3 DEF SlotOK
  <2>. QED  BY <1>1, <1>2, <1>8, <2>4
<1>. QED  BY <1>7, <1>8

LEMMA HandlerReplyOrder ==
  ASSUME TypeInv, NEW s \in Slots, HandlerReply(s), SlotInv(s)
  PROVE  SlotInv(s)'
<1> DEFINE e == EnvOf[s]
<1>0. /\ SameRun /\ SameManager(s) /\ SameRouter(s) /\ SameQueues(s)
      /\ gen' = gen /\ hEpoch' = hEpoch /\ hStep' = hStep /\ hMsg' = hMsg
      /\ hPc[s] = "reply" /\ hPc'[s] = "mark" /\ hStep[s] < NumSteps
      /\ actq'[s] = Append(actq[s], Action(iter, hEpoch[s], hStep[s]))
  BY DEF HandlerReply, SameRun, SameManager, SameRouter, SameQueues, envVars, routerVars,
         TypeInv, TypeOK, HandlerTypeOK
<1>1. /\ TakenEpoch(s)' = TakenEpoch(s) /\ TakenCount(s)' = TakenCount(s)
      /\ SentEpoch(e)' = SentEpoch(e) /\ SentCount(e)' = SentCount(e)
  BY <1>0 DEF TakenEpoch, TakenCount, SameManager, SentEpoch, SentCount, PerEpoch
<1>2. envPc[e] = "act"
  <2>1. hStep[s] # NumSteps
    BY <1>0, SlotTypes DEF SlotOK
  <2>. QED  BY <1>0, <2>1, AtWork
<1>3. /\ actq[s] = <<>> /\ Waiting(s) = 0
      /\ s \in awaited[e] /\ envEpoch[e] = hEpoch[s] /\ envStep[e] = hStep[s]
  BY <1>0, <1>2, AtWork
<1>4. actq'[s] = <<Action(iter, envEpoch[e], envStep[e])>>
  BY <1>0, <1>3
<1>5. Unanswered(s)' = 0
  BY <1>0, <1>3, WaitingKept DEF Unanswered
<1>6. LineUp(s)'
  BY <1>0, <1>1, LineUpKept
<1>7. Collecting(s)'
  <2>1. /\ envPc'[e] = "act" /\ s \in awaited'[e]
        /\ actq'[s] = <<Action(iter', envEpoch'[e], envStep'[e])>>
    BY <1>0, <1>2, <1>3, <1>4 DEF SameManager, SameRun
  <2>2. Answered(s)'
    BY <2>1 DEF Answered
  <2>. QED  BY <1>5, <2>1, <2>2 DEF Collecting, Action
<1>8. Acking(s)' /\ Resting(s)' /\ InStep(s)'
  BY <1>0, <1>1, <1>2 DEF SlotInv, Acking, Resting, InStep, SameManager, SameRun, Prefetch
<1>9. InHand(s)' /\ Phase(s)' /\ Flight(s)' /\ AtFront(s)'
  BY <1>0 DEF SlotInv, InHand, Phase, Flight, AtFront, Busy, Obs, SameRun, SameQueues, SameRouter
<1>. QED  BY <1>6, <1>7, <1>8, <1>9 DEF SlotInv

LEMMA HandlerMarkOrder ==
  ASSUME TypeInv, NEW s \in Slots, HandlerMark(s), SlotInv(s)
  PROVE  SlotInv(s)'
<1>0. /\ SameRun /\ SameManager(s) /\ SameQueues(s) /\ SameActions(s)
      /\ gen' = gen /\ hEpoch' = hEpoch /\ hMsg' = hMsg /\ hStep'[s] = hStep[s] + 1
      /\ hPc[s] = "mark" /\ hPc'[s] = "recv"
      /\ inflight'[s] = FALSE /\ frontier'[s] = {<<hMsg[s].epoch, hMsg[s].step>>}
  BY DEF HandlerMark, SameRun, SameManager, SameQueues, SameActions, envVars,
         TypeInv, TypeOK, HandlerTypeOK, RouterTypeOK
<1>1. /\ TakenEpoch(s)' = TakenEpoch(s) /\ TakenCount(s)' = TakenCount(s)
      /\ SentEpoch(EnvOf[s])' = SentEpoch(EnvOf[s]) /\ SentCount(EnvOf[s])' = SentCount(EnvOf[s])
  BY <1>0 DEF SlotInv, Phase, TakenEpoch, TakenCount, SameManager, SentEpoch, SentCount, PerEpoch
<1>2. Unanswered(s)' = Unanswered(s)
  BY <1>0, WaitingKept DEF Unanswered
<1>3. LineUp(s)' /\ Collecting(s)' /\ Acking(s)' /\ Resting(s)' /\ InStep(s)'
  BY <1>0, <1>1, <1>2, LineUpKept, ManagerSideKept
<1>4. hMsg[s].epoch = hEpoch[s] /\ hMsg[s].step = hStep[s] - 1
  BY <1>0 DEF SlotInv, InHand, Busy, Obs
<1>5. hStep[s] + 1 > 0 /\ hStep[s] - 1 = (hStep[s] + 1) - 2
  BY SlotTypes DEF SlotOK
<1>6. AtFront(s)'
  <2>1. frontier'[s] = {<<hEpoch[s], (hStep[s] + 1) - 2>>}
    BY <1>0, <1>4, <1>5
  <2>2. hStep'[s] > 0
    BY <1>0, <1>5
  <2>3. hStep'[s] - 2 = (hStep[s] + 1) - 2
    <3>1. hStep'[s] = hStep[s] + 1
      BY <1>0
    <3>. QED  BY ONLY <3>1, Zenon
  <2>4. frontier'[s] = {<<hEpoch'[s], hStep'[s] - 2>>}
    BY <1>0, <2>1, <2>3
  <2>. QED  BY <1>0, <2>2, <2>4 DEF AtFront
<1>7. InHand(s)' /\ Phase(s)' /\ Flight(s)'
  BY <1>0 DEF SlotInv, InHand, Phase, Flight, Busy, SameQueues
<1>. QED  BY <1>3, <1>6, <1>7 DEF SlotInv

LEMMA HandlerFinalOrder ==
  ASSUME TypeInv, NEW s \in Slots, HandlerFinal(s), SlotInv(s)
  PROVE  SlotInv(s)'
<1> DEFINE e == EnvOf[s]
<1>0. /\ SameRun /\ SameManager(s) /\ SameQueues(s) /\ SameActions(s)
      /\ gen' = gen /\ hEpoch' = hEpoch /\ hMsg' = hMsg /\ hStep' = hStep
      /\ hPc[s] = "reply" /\ hPc'[s] = "end" /\ hStep[s] = NumSteps
      /\ inflight'[s] = FALSE /\ frontier'[s] = {<<hMsg[s].epoch, EpochComplete>>}
  BY DEF HandlerFinal, SameRun, SameManager, SameQueues, SameActions, envVars,
         TypeInv, TypeOK, HandlerTypeOK, RouterTypeOK
<1>1. /\ TakenEpoch(s)' = TakenEpoch(s) /\ TakenCount(s)' = TakenCount(s)
      /\ SentEpoch(e)' = SentEpoch(e) /\ SentCount(e)' = SentCount(e)
  BY <1>0 DEF SlotInv, Phase, TakenEpoch, TakenCount, SameManager, SentEpoch, SentCount, PerEpoch
<1>2. LineUp(s)'
  BY <1>0, <1>1, LineUpKept
<1>3. Unanswered(s)' = Waiting(s) + 0 /\ Unanswered(s) = Waiting(s) + 1 /\ Waiting(s) \in Nat
  BY <1>0, AtWork, WaitingKept DEF Unanswered
<1>4. /\ Prefetch' = Prefetch /\ Answered(s)' = Answered(s)
      /\ envPc'[e] = envPc[e] /\ envEpoch'[e] = envEpoch[e] /\ envStep'[e] = envStep[e]
      /\ actq'[s] = <<>> /\ envPc[e] # "failed"
  BY <1>0, AtWork DEF SameRun, SameManager, SameActions, Prefetch, Answered
<1>5. Collecting(s)'
  <2>1. ASSUME envPc[e] = "act" PROVE ~Answered(s) /\ Waiting(s) = 1
    BY <1>0, <2>1, AtWork
  <2>. QED  BY <1>3, <1>4, <2>1 DEF Collecting
<1>6. Acking(s)'
  <2>1. ASSUME envPc[e] = "ack"
        PROVE  ~Prefetch /\ ~Answered(s) /\ Waiting(s) + 1 <= 1 /\ TakenEpoch(s) # envEpoch[e] + 1
    BY <1>0, <1>3, <2>1, AtWork DEF SlotInv, Acking
  <2>. QED  BY <1>1, <1>3, <1>4, <2>1 DEF Acking
<1>7. Resting(s)'
  <2>1. envPc[e] = "reset" => Waiting(s) + 1 <= (IF Prefetch THEN 1 ELSE 0)
    BY <1>3 DEF SlotInv, Resting
  <2>2. envPc[e] = "done" => Waiting(s) + 1 <= 1 /\ envEpoch[e] = NumEpochs - 1
    BY <1>3 DEF SlotInv, Resting
  <2>. QED  BY <1>3, <1>4, <2>1, <2>2, SlotTypes DEF Resting, SlotOK
<1>8. InStep(s)'
  BY <1>1, <1>4 DEF SlotInv, InStep
<1>9. AtFront(s)'
  BY <1>0 DEF SlotInv, InHand, Busy, Obs, AtFront
<1>10. InHand(s)' /\ Phase(s)' /\ Flight(s)'
  BY <1>0 DEF SlotInv, InHand, Phase, Flight, Busy, SameQueues
<1>. QED  BY <1>2, <1>5, <1>6, <1>7, <1>8, <1>9, <1>10 DEF SlotInv

\* Without prefetching a handler at the end of an epoch that is not the last
\* has a manager that waits for its ack.
LEMMA AckAwaited ==
  ASSUME TypeInv, NEW s \in Slots, SlotInv(s), hPc[s] = "end", ~Prefetch,
         hEpoch[s] # NumEpochs - 1
  PROVE  LET e == EnvOf[s] IN
         envPc[e] = "ack" /\ envEpoch[e] = hEpoch[s] /\ s \in awaited[e] /\ actq[s] = <<>>
<1> DEFINE e == EnvOf[s]
<1>0. SlotOK(s)
  BY SlotTypes
<1>1. TakenEpoch(s) = hEpoch[s] /\ TakenCount(s) = PerEpoch
  BY <1>0 DEF SlotInv, Phase, TakenEpoch, TakenCount, PerEpoch
<1>2. Waiting(s) = Between(hEpoch[s], PerEpoch, SentEpoch(e), SentCount(e)) /\ Waiting(s) \in Nat
  BY <1>0, <1>1 DEF SlotOK, SlotInv, LineUp
<1>3. Waiting(s) <= 1 /\ envPc[e] # "failed"
  <2>1. Unanswered(s) = Waiting(s) + 0
    BY DEF Unanswered
  <2>2. Unanswered(s) <= 1
    BY Window
  <2>. QED  BY <1>2, <2>1, <2>2 DEF SlotInv, Resting
<1>4. \A k \in Nat, d \in Nat, w \in Nat :
        d < PerEpoch => w # Between(k, PerEpoch, k, d)
  BY PerEpochType DEF Between
<1>5. \A k \in Nat, l \in Nat, w \in Nat :
        w <= 1 /\ w = Between(k, PerEpoch, l, PerEpoch) => l = k
  BY PerEpochType DEF Between
<1>6. ASSUME envPc[e] \in {"idle", "reset", "act"} PROVE FALSE
  <2>1. hEpoch[s] = SentEpoch(e)
    BY <1>1, <1>6 DEF SlotInv, InStep
  <2>2. SentCount(e) \in Nat /\ SentCount(e) < PerEpoch
    BY <1>0, <1>6, PerEpochType DEF SlotOK, SentCount
  <2>3. hEpoch[s] \in Nat
    BY <1>0 DEF SlotOK
  <2>. QED  BY <1>2, <1>4, <2>1, <2>2, <2>3
<1>7. envEpoch[e] = hEpoch[s]
  <2>1. SentEpoch(e) = envEpoch[e] /\ SentCount(e) = PerEpoch
    BY <1>6 DEF SentEpoch, SentCount
  <2>2. hEpoch[s] \in Nat /\ envEpoch[e] \in Nat
    BY <1>0 DEF SlotOK
  <2>. QED  BY <1>2, <1>3, <1>5, <2>1, <2>2
<1>8. envPc[e] = "ack"
  BY <1>0, <1>3, <1>6, <1>7 DEF SlotOK, SlotInv, Resting
<1>9. ~Answered(s)
  <2>1. hEpoch[s] # hEpoch[s] + 1
    BY <1>0 DEF SlotOK
  <2>. QED  BY <1>1, <1>7, <1>8, <2>1 DEF SlotInv, Acking
<1>. QED  BY <1>7, <1>8, <1>9 DEF Answered

LEMMA HandlerEndEpochOrder ==
  ASSUME TypeInv, NEW s \in Slots, HandlerEndEpoch(s), SlotInv(s)
  PROVE  SlotInv(s)'
<1> DEFINE e == EnvOf[s]
<1>0. /\ SameRun /\ SameManager(s) /\ SameRouter(s) /\ SameQueues(s)
      /\ gen' = gen /\ hMsg' = hMsg /\ hPc[s] = "end"
  BY DEF HandlerEndEpoch, SameRun, SameManager, SameRouter, SameQueues, envVars, routerVars
<1>1. /\ hStep[s] = NumSteps /\ gen[RankOf[s]] = "running"
  BY <1>0, SlotTypes DEF SlotInv, Phase, SlotOK
<1>2. TakenEpoch(s) = hEpoch[s] /\ TakenCount(s) = PerEpoch
  BY <1>0, <1>1 DEF TakenEpoch, TakenCount, PerEpoch
<1>3. SentEpoch(e)' = SentEpoch(e) /\ SentCount(e)' = SentCount(e)
  BY <1>0 DEF SameManager, SentEpoch, SentCount, PerEpoch
<1>4. CASE LastEpoch(hEpoch[s])
  <2>1. /\ SameActions(s) /\ hPc'[s] = "done" /\ hEpoch'[s] = hEpoch[s] /\ hStep'[s] = hStep[s]
        /\ hEpoch[s] = NumEpochs - 1
    BY <1>4 DEF HandlerEndEpoch, SameActions, AckDue, LastEpoch, TypeInv, TypeOK, HandlerTypeOK
  <2>2. TakenEpoch(s)' = TakenEpoch(s) /\ TakenCount(s)' = TakenCount(s)
    BY <1>0, <1>1, <2>1 DEF TakenEpoch, TakenCount
  <2>3. Unanswered(s)' = Unanswered(s)
    BY <1>0, <2>1, WaitingKept DEF Unanswered
  <2>4. LineUp(s)' /\ Collecting(s)' /\ Acking(s)' /\ Resting(s)' /\ InStep(s)'
    BY <1>0, <1>3, <2>1, <2>2, <2>3, LineUpKept, ManagerSideKept
  <2>5. InHand(s)' /\ Phase(s)' /\ Flight(s)' /\ AtFront(s)'
    BY <1>0, <1>1, <2>1 DEF SlotInv, InHand, Phase, Flight, AtFront, Busy, SameQueues, SameRouter
  <2>. QED  BY <2>4, <2>5 DEF SlotInv
<1>5. CASE ~LastEpoch(hEpoch[s])
  <2>1. /\ hPc'[s] = "recv" /\ hEpoch'[s] = hEpoch[s] + 1 /\ hStep'[s] = 0
        /\ hEpoch[s] # NumEpochs - 1
        /\ actq'[s] = IF Prefetch THEN actq[s] ELSE Append(actq[s], Ack(iter, hEpoch[s]))
    BY <1>5 DEF HandlerEndEpoch, AckDue, RolloutSkipsAck, LastEpoch, TypeInv, TypeOK, HandlerTypeOK
  <2>2. TakenEpoch(s)' = hEpoch[s] + 1 /\ TakenCount(s)' = 0
    BY <1>0, <1>1, <2>1 DEF TakenEpoch, TakenCount
  <2>3. Waiting(s)' = Waiting(s) /\ Unanswered(s)' = Unanswered(s) /\ Unanswered(s) = Waiting(s)
    <3>1. Waiting(s) + 0 = Waiting(s)
      BY SlotTypes DEF SlotOK
    <3>. QED  BY <1>0, <2>1, <3>1, WaitingKept DEF Unanswered
  <2>4. Waiting(s) \in Nat /\ Waiting(s) <= PerEpoch
    <3>1. Waiting(s) \in Nat /\ Waiting(s) <= 2
      BY <2>3, Window, SlotTypes DEF SlotOK
    <3>. QED  BY <3>1, PerEpochType
  <2>5. hEpoch[s] \in Nat
    BY SlotTypes DEF SlotOK
  <2>6. LineUp(s)'
    <3>1. Waiting(s) = Between(hEpoch[s] + 1, 0, SentEpoch(e), SentCount(e))
      <4>1. \A k \in Nat, l \in Nat, d \in Nat, w \in Nat :
              d <= PerEpoch /\ w <= 2 /\ w = Between(k, PerEpoch, l, d)
                => w = Between(k + 1, 0, l, d)
        BY PerEpochType DEF Between
      <4>2. Waiting(s) = Between(hEpoch[s], PerEpoch, SentEpoch(e), SentCount(e))
        BY <1>2 DEF SlotInv, LineUp
      <4>3. Waiting(s) <= 2
        BY <2>3, <2>4, Window
      <4>. QED  BY <2>4, <2>5, <4>1, <4>2, <4>3, Positions
    <3>2. /\ Len(slotq[s]) \in Nat /\ Len(pending[s]) \in Nat /\ Len(inq[s]) \in Nat
          /\ slotq[s] \in Seq(ObsMsg) /\ pending[s] \in Seq(ObsMsg) /\ inq[s] \in Seq(ObsMsg)
      BY SlotTypes DEF SlotOK, QueuesOK
    <3>3. /\ Line(slotq[s], iter, hEpoch[s], PerEpoch)
          /\ Line(pending[s], iter, hEpoch[s], PerEpoch + Len(slotq[s]))
          /\ Line(inq[s], iter, hEpoch[s], PerEpoch + Len(slotq[s]) + Len(pending[s]))
      BY <1>2 DEF SlotInv, LineUp
    <3>4. PerEpoch \in Nat
      BY PerEpochType
    <3>5. \A a \in Nat, b \in Nat, c \in Nat, p \in Nat :
            a + b + c <= p => /\ 0 + a <= p /\ a + b <= p /\ (a + b) + c <= p
                              /\ p + 0 = p /\ p + a + b = p + (a + b)
                              /\ 0 + a = a /\ a + b \in Nat
      OBVIOUS
    <3>6. Len(slotq[s]) + Len(pending[s]) + Len(inq[s]) <= PerEpoch
      BY <2>4 DEF Waiting
    <3>11. PICK a \in Nat : a = Len(slotq[s])
      BY <3>2
    <3>12. PICK b \in Nat : b = Len(pending[s])
      BY <3>2
    <3>13. PICK c \in Nat : c = Len(inq[s])
      BY <3>2
    <3>7. /\ 0 + a <= PerEpoch /\ a + b <= PerEpoch /\ (a + b) + c <= PerEpoch
          /\ PerEpoch + 0 = PerEpoch /\ PerEpoch + a + b = PerEpoch + (a + b)
          /\ 0 + a = a /\ a + b \in Nat
      <4>1. a + b + c <= PerEpoch
        BY ONLY <3>6, <3>11, <3>12, <3>13, Zenon
      <4>. QED  BY ONLY <3>4, <3>5, <4>1, a \in Nat, b \in Nat, c \in Nat, Zenon
    <3>8. Line(slotq[s], iter, hEpoch[s] + 1, 0)
      BY <2>5, <3>2, <3>3, <3>7, <3>11, LineShift
    <3>9. Line(pending[s], iter, hEpoch[s] + 1, a)
      <4>1. Line(pending[s], iter, hEpoch[s], PerEpoch + a)
        BY <3>3, <3>11, Zenon
      <4>2. a + Len(pending[s]) <= PerEpoch /\ pending[s] \in Seq(ObsMsg)
        BY <3>2, <3>7, <3>12, Zenon
      <4>3. hEpoch[s] \in Int /\ a \in Nat
        BY <2>5
      <4>. QED  BY ONLY <4>1, <4>2, <4>3, LineShift, Zenon
    <3>10. Line(inq[s], iter, hEpoch[s] + 1, a + b)
      <4>1. Line(inq[s], iter, hEpoch[s], PerEpoch + (a + b))
        BY <3>3, <3>7, <3>11, <3>12
      <4>2. (a + b) + Len(inq[s]) <= PerEpoch
        BY <3>7, <3>13
      <4>3. /\ inq[s] \in Seq(ObsMsg) /\ a + b \in Nat /\ hEpoch[s] \in Int
        BY <2>5, <3>2, <3>7
      <4>. QED  BY ONLY <4>1, <4>2, <4>3, LineShift
    <3>14. /\ 0 + Len(slotq[s]) = a /\ 0 + Len(slotq[s]) + Len(pending[s]) = a + b
      BY <3>7, <3>11, <3>12
    <3>15. /\ slotq'[s] = slotq[s] /\ pending'[s] = pending[s] /\ inq'[s] = inq[s] /\ iter' = iter
      BY <1>0 DEF SameRun, SameQueues
    <3>16. Waiting(s)' = Between(TakenEpoch(s)', TakenCount(s)', SentEpoch(e)', SentCount(e)')
      BY <1>3, <2>2, <2>3, <3>1, Zenon
    <3>17. /\ Line(slotq'[s], iter', TakenEpoch(s)', TakenCount(s)')
           /\ Line(pending'[s], iter', TakenEpoch(s)', TakenCount(s)' + Len(slotq'[s]))
           /\ Line(inq'[s], iter', TakenEpoch(s)', TakenCount(s)' + Len(slotq'[s]) + Len(pending'[s]))
      BY <2>2, <3>8, <3>9, <3>10, <3>14, <3>15, Zenon
    <3>. QED  BY <3>16, <3>17 DEF LineUp, Line, ObsAt, Obs, Between, PerEpoch
  <2>7. InHand(s)' /\ Phase(s)' /\ Flight(s)'
    BY <1>0, <1>1, <2>1 DEF SlotInv, InHand, Phase, Flight, Busy, SameQueues, SameRouter
  <2>8. AtFront(s)'
    <3>1. frontier[s] = {<<hEpoch[s], EpochComplete>>}
      BY <1>0, <1>1 DEF SlotInv, AtFront
    <3>2. hEpoch[s] + 1 > 0 /\ (hEpoch[s] + 1) - 1 = hEpoch[s] /\ ~(0 > 0)
      BY <2>5
    <3>3. hEpoch'[s] > 0 /\ ~(hStep'[s] > 0)
      BY <2>1, <3>2
    <3>4. hEpoch'[s] - 1 = hEpoch[s]
      <4>1. hEpoch'[s] = hEpoch[s] + 1
        BY <2>1
      <4>2. hEpoch'[s] - 1 = (hEpoch[s] + 1) - 1
        BY ONLY <4>1, Zenon
      <4>. QED  BY <3>2, <4>2, Zenon
    <3>5. frontier'[s] = {<<hEpoch'[s] - 1, EpochComplete>>}
      BY <1>0, <3>1, <3>4 DEF SameRouter
    <3>. QED  BY <2>1, <3>3, <3>5 DEF AtFront
  <2>9. CASE Prefetch
    <3>1. Prefetch' /\ SameActions(s) /\ Answered(s)' = Answered(s)
      BY <1>0, <2>1, <2>9 DEF SameRun, SameManager, SameActions, Prefetch, Answered
    <3>2. envPc[e] # "ack"
      BY <2>9 DEF SlotInv, Acking
    <3>3. Collecting(s)' /\ Resting(s)'
      BY <1>0, <2>3, <2>9, <3>1
         DEF SlotInv, Collecting, Resting, SameRun, SameManager, SameActions, Action
    <3>4. Acking(s)' /\ InStep(s)'
      BY <1>0, <3>1, <3>2 DEF Acking, InStep, SameManager
    <3>. QED  BY <2>6, <2>7, <2>8, <3>3, <3>4 DEF SlotInv
  <2>10. CASE ~Prefetch
    <3>1. /\ envPc[e] = "ack" /\ envEpoch[e] = hEpoch[s] /\ s \in awaited[e] /\ actq[s] = <<>>
      BY <1>0, <2>1, <2>10, AckAwaited
    <3>2. ~Prefetch' /\ actq'[s] = <<Ack(iter, envEpoch[e])>>
      BY <1>0, <2>1, <2>10, <3>1 DEF SameRun, Prefetch
    <3>3. /\ envPc'[e] = "ack" /\ envEpoch'[e] = envEpoch[e] /\ s \in awaited'[e]
      BY <1>0, <3>1 DEF SameManager
    <3>4. Acking(s)'
      BY <1>0, <2>2, <3>1, <3>2, <3>3 DEF Acking, Answered, SameRun, Ack
    <3>5. Collecting(s)' /\ Resting(s)' /\ InStep(s)'
      BY <3>3 DEF Collecting, Resting, InStep
    <3>. QED  BY <2>6, <2>7, <2>8, <3>4, <3>5 DEF SlotInv
  <2>. QED  BY <2>9, <2>10
<1>. QED  BY <1>4, <1>5

LEMMA HandlerOrder ==
  ASSUME TypeInv, OrderInv, NEW t \in Slots, HandlerNext(t)
  PROVE  OrderInv'
<1>1. AwaitsOwn'
  <2>1. envPc' = envPc /\ awaited' = awaited
    BY DEF HandlerNext, HandlerRecv, Infer, HandlerReply, HandlerMark, HandlerFinal,
           HandlerEndEpoch, envVars
  <2>. QED  BY <2>1 DEF OrderInv, AwaitsOwn
<1>2. ASSUME NEW s \in Slots PROVE SlotInv(s)'
  <2>0. SlotInv(s)
    BY DEF OrderInv
  <2>1. CASE s = t
    BY <2>0, <2>1, HandlerRecvOrder, InferOrder, HandlerReplyOrder, HandlerMarkOrder,
       HandlerFinalOrder, HandlerEndEpochOrder DEF HandlerNext
  <2>2. CASE s # t
    <3> SUFFICES SameRun /\ SameManager(s) /\ SameActions(s) /\ SameQueues(s) /\ SameHandler(s)
                 /\ SameRouter(s)
      BY <2>0, SlotKept
    <3> USE <2>2 DEF SameRun, SameManager, SameActions, SameQueues, SameHandler, SameRouter,
                     envVars, routerVars
    <3>0. /\ slotq \in [Slots -> Seq(ObsMsg)] /\ actq \in [Slots -> Seq(ActMsg)]
          /\ RouterTypeOK /\ HandlerTypeOK
      BY DEF TypeInv, TypeOK
    <3>1. CASE HandlerRecv(t)
      BY <3>0, <3>1 DEF HandlerRecv, HandlerTypeOK
    <3>2. CASE Infer(t)
      BY <3>0, <3>2 DEF Infer, HandlerTypeOK
    <3>3. CASE HandlerReply(t)
      BY <3>0, <3>3 DEF HandlerReply, HandlerTypeOK
    <3>4. CASE HandlerMark(t)
      BY <3>0, <3>4 DEF HandlerMark, HandlerTypeOK, RouterTypeOK
    <3>5. CASE HandlerFinal(t)
      BY <3>0, <3>5 DEF HandlerFinal, HandlerTypeOK, RouterTypeOK
    <3>6. CASE HandlerEndEpoch(t)
      BY <3>0, <3>6 DEF HandlerEndEpoch, HandlerTypeOK
    <3>. QED  BY <3>1, <3>2, <3>3, <3>4, <3>5, <3>6 DEF HandlerNext
  <2>. QED  BY <2>1, <2>2
<1>. QED  BY <1>1, <1>2 DEF OrderInv

(***************************************************************************)
(* The end of a training step.                                             *)
(***************************************************************************)

\* When all threads are done both positions of a slot are the end of the last
\* epoch, so that nothing is on the way.
LEMMA DoneQuiet ==
  ASSUME TypeInv, NEW s \in Slots, SlotInv(s), AllDone
  PROVE  /\ inq[s] = <<>> /\ pending[s] = <<>> /\ slotq[s] = <<>> /\ actq[s] = <<>>
         /\ hPc[s] = "done"
<1> DEFINE e == EnvOf[s]
<1>0. SlotOK(s) /\ QueuesOK(s)
  BY SlotTypes
<1>1. envPc[e] = "done" /\ gen[RankOf[s]] = "done"
  BY <1>0 DEF AllDone, SlotOK
<1>2. hPc[s] = "done"
  BY <1>1 DEF SlotInv, Phase
<1>3. hEpoch[s] = NumEpochs - 1 /\ hStep[s] = NumSteps
  BY <1>2 DEF SlotInv, Phase
<1>4. envEpoch[e] = NumEpochs - 1 /\ actq[s] = <<>>
  BY <1>1 DEF SlotInv, Resting
<1>5. TakenEpoch(s) = NumEpochs - 1 /\ TakenCount(s) = PerEpoch
  BY <1>1, <1>2, <1>3 DEF TakenEpoch, TakenCount, PerEpoch
<1>6. SentEpoch(e) = NumEpochs - 1 /\ SentCount(e) = PerEpoch
  BY <1>1, <1>4 DEF SentEpoch, SentCount
<1>7. Waiting(s) = 0
  <2>1. \A k : Between(k, PerEpoch, k, PerEpoch) = 0
    BY PerEpochType DEF Between
  <2>. QED  BY <1>5, <1>6, <2>1 DEF SlotInv, LineUp
<1>8. inq[s] = <<>> /\ pending[s] = <<>> /\ slotq[s] = <<>>
  <2>1. \A a \in Nat, b \in Nat, c \in Nat : a + b + c = 0 => a = 0 /\ b = 0 /\ c = 0
    OBVIOUS
  <2>2. Len(slotq[s]) = 0 /\ Len(pending[s]) = 0 /\ Len(inq[s]) = 0
    BY <1>0, <1>7, <2>1 DEF Waiting, SlotOK
  <2>. QED  BY <1>0, <2>2, EmptySeq DEF QueuesOK
<1>. QED  BY <1>2, <1>4, <1>8

LEMMA IterationOrder ==
  ASSUME TypeInv, OrderInv, NextIteration
  PROVE  OrderInv'
<1>1. AwaitsOwn'
  BY DEF NextIteration, OrderInv, AwaitsOwn
<1>2. ASSUME NEW s \in Slots PROVE SlotInv(s)'
  <2> DEFINE e == EnvOf[s]
  <2>0. SlotInv(s) /\ SlotOK(s)
    BY SlotTypes DEF OrderInv
  <2>1. /\ inq[s] = <<>> /\ pending[s] = <<>> /\ slotq[s] = <<>> /\ actq[s] = <<>>
        /\ hPc[s] = "done"
    BY <2>0, DoneQuiet DEF NextIteration
  <2>2. /\ inq' = inq /\ pending' = pending /\ slotq' = slotq /\ actq' = actq /\ hPc' = hPc
        /\ hEpoch' = hEpoch /\ hStep' = hStep /\ inflight' = inflight
        /\ gen'[RankOf[s]] = "idle" /\ envPc'[e] = "idle"
    BY <2>0 DEF NextIteration, SlotOK, handlerVars
  <2>3. /\ TakenEpoch(s)' = 0 /\ TakenCount(s)' = 0
        /\ SentEpoch(e)' = 0 /\ SentCount(e)' = 0
    BY <2>2 DEF TakenEpoch, TakenCount, SentEpoch, SentCount
  <2>4. Waiting(s)' = 0
    <3>1. Len(inq'[s]) = 0 /\ Len(pending'[s]) = 0 /\ Len(slotq'[s]) = 0
      BY <2>1, <2>2
    <3>. QED  BY <3>1 DEF Waiting
  <2>5. LineUp(s)'
    <3>1. slotq'[s] = <<>> /\ pending'[s] = <<>> /\ inq'[s] = <<>>
      BY <2>1, <2>2
    <3>2. /\ Line(slotq[s], iter, TakenEpoch(s), TakenCount(s))'
          /\ Line(pending[s], iter, TakenEpoch(s), TakenCount(s) + Len(slotq[s]))'
          /\ Line(inq[s], iter, TakenEpoch(s), TakenCount(s) + Len(slotq[s]) + Len(pending[s]))'
      BY <3>1 DEF Line
    <3>3. Between(TakenEpoch(s), TakenCount(s), SentEpoch(e), SentCount(e))' = 0
      <4>1. 0 - 0 = 0
        OBVIOUS
      <4>. QED  BY <2>3, <4>1 DEF Between
    <3>. QED  BY <2>4, <3>2, <3>3 DEF LineUp
  <2>6. InHand(s)' /\ Phase(s)' /\ Flight(s)' /\ AtFront(s)'
    <3>1. InHand(s)' /\ AtFront(s)'
      BY <2>1, <2>2 DEF InHand, AtFront, Busy
    <3>2. Phase(s)'
      BY <2>0, <2>1, <2>2 DEF SlotInv, Phase
    <3>3. Flight(s)'
      BY <2>0, <2>1, <2>2 DEF SlotInv, Flight, Busy
    <3>. QED  BY <3>1, <3>2, <3>3
  <2>7. Collecting(s)' /\ Acking(s)' /\ Resting(s)' /\ InStep(s)'
    BY <2>1, <2>2, <2>3 DEF Collecting, Acking, Resting, InStep
  <2>. QED  BY <2>5, <2>6, <2>7 DEF SlotInv
<1>. QED  BY <1>1, <1>2 DEF OrderInv

LEMMA PullStepOrder ==
  ASSUME TypeInv, OrderInv, NEW t \in Slots, Pull(t)
  PROVE  OrderInv'
<1>1. AwaitsOwn'
  BY DEF Pull, envVars, OrderInv, AwaitsOwn
<1>. QED  BY <1>1, PullOrder DEF OrderInv

LEMMA IdleOrder ==
  ASSUME TypeInv, OrderInv, UNCHANGED vars
  PROVE  OrderInv'
<1>1. AwaitsOwn'
  BY DEF vars, envVars, OrderInv, AwaitsOwn
<1>2. ASSUME NEW s \in Slots PROVE SlotInv(s)'
  <2>1. /\ SameRun /\ SameQueues(s) /\ SameHandler(s) /\ SameRouter(s)
        /\ SameManager(s) /\ SameActions(s)
    BY DEF vars, envVars, routerVars, handlerVars, SameRun, SameQueues, SameHandler, SameRouter,
           SameManager, SameActions
  <2>. QED  BY <2>1, SlotKept DEF OrderInv
<1>. QED  BY <1>1, <1>2 DEF OrderInv

(***************************************************************************)
(* Every step keeps the invariant, and the invariant implies the four      *)
(* properties.                                                             *)
(***************************************************************************)
Inv == TypeInv /\ OrderInv

LEMMA InvInductive == Inv /\ [Next]_vars => Inv'
<1> SUFFICES ASSUME TypeInv, OrderInv, [Next]_vars PROVE Inv'
  BY DEF Inv
<1>1. TypeInv'
  BY TypeStep
<1>2. CASE UNCHANGED vars
  BY <1>1, <1>2, IdleOrder DEF Inv
<1>3. CASE Finished
  BY <1>2, <1>3 DEF Finished
<1>4. CASE \E e \in Envs : EnvNext(e)
  BY <1>1, <1>4, EnvOrder DEF Inv
<1>5. CASE \E r \in Ranks : WorkerNext(r)
  BY <1>1, <1>5, WorkerOrder DEF Inv
<1>6. CASE \E s \in Slots : Pull(s) \/ HandlerNext(s)
  BY <1>1, <1>6, PullStepOrder, HandlerOrder DEF Inv
<1>7. CASE NextIteration
  BY <1>1, <1>7, IterationOrder DEF Inv
<1>. QED  BY <1>2, <1>3, <1>4, <1>5, <1>6, <1>7 DEF Next

LEMMA InvAlways == Spec => []Inv
<1>1. Init => Inv
  BY InitTypeInv, InitOrder DEF Inv
<1>. QED  BY <1>1, InvInductive, PTL DEF Spec

(***************************************************************************)
(* A handler works on exactly the observation its loop counters stand for, *)
(* in every configuration and for any number of slots, managers, workers,  *)
(* epochs and steps: the channels, the pending table, the router and the   *)
(* slot's queue neither reorder, lose nor repeat an observation, and none  *)
(* is left over from an earlier generate().                                *)
(***************************************************************************)
THEOREM HandlersInOrder == Spec => []InOrder
<1>1. Inv => InOrder
  BY DEF Inv, OrderInv, SlotInv, InHand, Busy, InOrder
<1>. QED  BY <1>1, InvAlways, PTL

(***************************************************************************)
(* A manager never finds an ack where it collects actions, an action where *)
(* it collects acks, or either of another step: its loop never raises.     *)
(***************************************************************************)
THEOREM ManagersNeverFail == Spec => []ActionFitsStep
<1>1. Inv => ActionFitsStep
  <2> SUFFICES ASSUME Inv, NEW s \in Slots
               PROVE  LET e == EnvOf[s] IN
                 /\ envPc[e] # "failed"
                 /\ actq[s] # <<>> =>
                      /\ Len(actq[s]) = 1
                      /\ s \in awaited[e]
                      /\ \/ envPc[e] = "act" /\ Head(actq[s]) = Action(iter, envEpoch[e], envStep[e])
                         \/ envPc[e] = "ack" /\ Head(actq[s]) = Ack(iter, envEpoch[e])
    BY DEF ActionFitsStep
  <2>1. Collecting(s) /\ Acking(s) /\ Resting(s)
    BY DEF Inv, OrderInv, SlotInv
  <2>2. \A m : Len(<<m>>) = 1 /\ Head(<<m>>) = m
    OBVIOUS
  <2>. QED  BY <2>1, <2>2 DEF Collecting, Acking, Resting
<1>. QED  BY <1>1, InvAlways, PTL

(***************************************************************************)
(* A slot has at most one observation dispatched and not yet handled, even *)
(* under the round-robin router, which does not look at _slot_inflight;    *)
(* the queues from the manager to the handler hold one unanswered          *)
(* observation, or two with prefetching.                                   *)
(***************************************************************************)
THEOREM QueuesStayShort == Spec => []OneInFlight
<1>1. Inv => OneInFlight
  <2> SUFFICES ASSUME Inv, NEW s \in Slots
               PROVE  /\ Len(slotq[s]) <= 1
                      /\ slotq[s] # <<>> => ~Busy(s)
                      /\ inflight[s] <=> (slotq[s] # <<>> \/ Busy(s))
                      /\ Len(inq[s]) + Len(pending[s]) + (IF inflight[s] /\ hPc[s] # "mark" THEN 1 ELSE 0)
                           <= (IF Prefetch THEN 2 ELSE 1)
    BY DEF OneInFlight, Busy
  <2>0. TypeInv /\ SlotInv(s) /\ SlotOK(s) /\ QueuesOK(s)
    BY SlotTypes DEF Inv, OrderInv
  <2>1. Flight(s)
    BY <2>0 DEF SlotInv
  <2>2. Unanswered(s) <= (IF Prefetch THEN 2 ELSE 1)
    BY <2>0, Window
  <2>3. PICK a \in Nat : a = Len(slotq[s])
    BY <2>0 DEF SlotOK
  <2>4. PICK b \in Nat : b = Len(pending[s])
    BY <2>0 DEF SlotOK
  <2>5. PICK c \in Nat : c = Len(inq[s])
    BY <2>0 DEF SlotOK
  <2>6. Unanswered(s) = (a + b + c) + (IF hPc[s] \in {"infer", "reply"} THEN 1 ELSE 0)
    BY <2>3, <2>4, <2>5 DEF Unanswered, Waiting
  <2>7. slotq[s] # <<>> => a > 0
    BY <2>0, <2>3, EmptySeq DEF QueuesOK
  <2>8. (IF inflight[s] /\ hPc[s] # "mark" THEN 1 ELSE 0)
          <= a + (IF hPc[s] \in {"infer", "reply"} THEN 1 ELSE 0)
    BY <2>1, <2>7 DEF Flight, Busy
  <2>9. c + b + (IF inflight[s] /\ hPc[s] # "mark" THEN 1 ELSE 0) <= (IF Prefetch THEN 2 ELSE 1)
    BY <2>2, <2>6, <2>8
  <2>. QED  BY <2>1, <2>4, <2>5, <2>9 DEF Flight
<1>. QED  BY <1>1, InvAlways, PTL

(***************************************************************************)
(* A training step that is over leaves no observation, action or ack       *)
(* behind that the next one could take for its own.                        *)
(***************************************************************************)
THEOREM StepsLeaveNothing == Spec => []QuietAtEnd
<1>1. Inv => QuietAtEnd
  BY DoneQuiet DEF Inv, OrderInv, QuietAtEnd
<1>. QED  BY <1>1, InvAlways, PTL

-----------------------------------------------------------------------------

(***************************************************************************)
(* The number of dispatched observations of a slot, and what changes it.   *)
(***************************************************************************)
LEMMA DispatchedType ==
  ASSUME TypeInv, NEW s \in Slots
  PROVE  Dispatched(s) \in Nat
<1>1. SlotOK(s)
  BY SlotTypes
<1>2. hEpoch[s] * (NumSteps + 1) \in Nat
  BY <1>1 DEF SlotOK
<1>. QED  BY <1>1, <1>2 DEF SlotOK, Dispatched

LEMMA DispatchedKept ==
  ASSUME NEW s \in Slots, gen'[RankOf[s]] = gen[RankOf[s]], hEpoch'[s] = hEpoch[s],
         hStep'[s] = hStep[s], slotq'[s] = slotq[s], hPc'[s] = hPc[s]
  PROVE  Dispatched(s)' = Dispatched(s)
BY DEF Dispatched

\* The handler only moves what was dispatched to it.
LEMMA HandlerDispatched ==
  ASSUME TypeInv, OrderInv, NEW t \in Slots, HandlerNext(t), NEW s \in Slots
  PROVE  Dispatched(s)' = Dispatched(s)
<1>0. /\ HandlerTypeOK /\ slotq \in [Slots -> Seq(ObsMsg)] /\ gen' = gen
      /\ SlotInv(s) /\ SlotOK(s) /\ slotq[s] \in Seq(ObsMsg)
  BY SlotTypes DEF TypeInv, TypeOK, OrderInv, HandlerNext, HandlerRecv, Infer, HandlerReply,
     HandlerMark, HandlerFinal, HandlerEndEpoch, routerVars
<1>1. CASE s # t
  BY <1>0, <1>1, DispatchedKept
     DEF HandlerNext, HandlerRecv, Infer, HandlerReply, HandlerMark, HandlerFinal,
         HandlerEndEpoch, HandlerTypeOK
<1>2. CASE s = t
  <2> DEFINE served == hEpoch[s] * (NumSteps + 1)
  <2>0. served \in Nat
    BY <1>0 DEF SlotOK
  <2>1. CASE HandlerRecv(s)
    <3>1. /\ slotq[s] # <<>> /\ slotq'[s] = Tail(slotq[s]) /\ hPc[s] = "recv" /\ hPc'[s] = "infer"
          /\ hEpoch' = hEpoch /\ hStep' = hStep
      BY <1>0, <2>1 DEF HandlerRecv, HandlerTypeOK
    <3>2. Len(slotq[s]) = 1 /\ Len(slotq'[s]) = 0
      BY <1>0, <3>1, OneLong DEF SlotInv, Flight
    <3>3. Dispatched(s) = IF gen[RankOf[s]] # "running" THEN 0 ELSE served + hStep[s] + 1 + 0
      BY <3>1, <3>2 DEF Dispatched
    <3>4. Dispatched(s)' = IF gen[RankOf[s]] # "running" THEN 0 ELSE served + hStep[s] + 0 + 1
      BY <1>0, <3>1, <3>2 DEF Dispatched
    <3>5. hStep[s] \in Nat
      BY <1>0 DEF SlotOK
    <3>. QED  BY <2>0, <3>3, <3>4, <3>5
  <2>2. CASE Infer(s)
    BY <1>0, <2>2 DEF Infer, HandlerTypeOK, Dispatched
  <2>3. CASE HandlerReply(s)
    BY <1>0, <2>3 DEF HandlerReply, HandlerTypeOK, Dispatched
  <2>4. CASE HandlerMark(s)
    <3>1. /\ hPc[s] = "mark" /\ hPc'[s] = "recv" /\ hStep'[s] = hStep[s] + 1
          /\ hEpoch' = hEpoch /\ slotq' = slotq
      BY <1>0, <2>4 DEF HandlerMark, HandlerTypeOK
    <3>. QED  BY <1>0, <2>0, <3>1 DEF Dispatched, SlotOK
  <2>5. CASE HandlerFinal(s)
    BY <1>0, <2>5 DEF HandlerFinal, HandlerTypeOK, Dispatched
  <2>6. CASE HandlerEndEpoch(s)
    <3>1. hPc[s] = "end" /\ hStep[s] = NumSteps /\ slotq' = slotq
      BY <1>0, <2>6 DEF HandlerEndEpoch, SlotInv, Phase
    <3>2. CASE LastEpoch(hEpoch[s])
      <4>1. hPc'[s] = "done" /\ hEpoch'[s] = hEpoch[s] /\ hStep'[s] = hStep[s]
        BY <1>0, <2>6, <3>2 DEF HandlerEndEpoch, HandlerTypeOK
      <4>. QED  BY <1>0, <3>1, <4>1 DEF Dispatched
    <3>3. CASE ~LastEpoch(hEpoch[s])
      <4>1. hPc'[s] = "recv" /\ hEpoch'[s] = hEpoch[s] + 1 /\ hStep'[s] = 0
        BY <1>0, <2>6, <3>3 DEF HandlerEndEpoch, HandlerTypeOK
      <4>2. (hEpoch[s] + 1) * (NumSteps + 1) = served + (NumSteps + 1)
        BY <1>0 DEF SlotOK
      <4>. QED  BY <1>0, <2>0, <3>1, <4>1, <4>2 DEF Dispatched, SlotOK
    <3>. QED  BY <3>2, <3>3
  <2>. QED  BY <1>2, <2>1, <2>2, <2>3, <2>4, <2>5, <2>6 DEF HandlerNext
<1>. QED  BY <1>1, <1>2

\* A worker that starts or ends a call of generate() has dispatched nothing.
LEMMA StartDispatched ==
  ASSUME TypeInv, OrderInv, NEW r \in Ranks, StartGenerate(r), NEW s \in Slots
  PROVE  Dispatched(s)' = Dispatched(s) /\ (RankOf[s] = r => Dispatched(s)' = 0)
<1>0. /\ RouterTypeOK /\ SlotInv(s) /\ SlotOK(s) /\ slotq' = slotq
  BY SlotTypes DEF TypeInv, TypeOK, OrderInv, StartGenerate
<1>1. CASE RankOf[s] = r
  <2>1. /\ gen[r] = "idle" /\ hPc'[s] = "recv" /\ hEpoch'[s] = 0 /\ hStep'[s] = 0
    BY <1>1 DEF StartGenerate
  <2>2. slotq'[s] = <<>>
    BY <1>0, <1>1, <2>1 DEF SlotInv, Phase
  <2>3. 0 * (NumSteps + 1) = 0
    BY <1>0 DEF SlotOK
  <2>4. Len(slotq'[s]) = 0
    BY <2>2
  <2>. QED  BY <1>1, <2>1, <2>3, <2>4 DEF Dispatched
<1>2. CASE RankOf[s] # r
  BY <1>0, <1>2, DispatchedKept DEF StartGenerate, RouterTypeOK, SlotOK
<1>. QED  BY <1>1, <1>2

LEMMA RouteDispatched ==
  ASSUME TypeInv, OrderInv, NEW r \in Ranks, gen[r] = "running",
         NEW group \in SUBSET SlotsOfRank(r), NEW nt, RouteGroup(r, group, nt), NEW s \in Slots
  PROVE  Dispatched(s)' = Dispatched(s) + (IF s \in group THEN 1 ELSE 0)
<1>0. /\ gen' = gen /\ hEpoch' = hEpoch /\ hStep' = hStep /\ hPc' = hPc
      /\ slotq'[s] = IF s \in group THEN Append(slotq[s], Head(pending[s])) ELSE slotq[s]
      /\ s \in group => RankOf[s] = r /\ Ready(s)
  BY RouteDispatches DEF RouteGroup, handlerVars
<1>1. SlotOK(s) /\ QueuesOK(s) /\ Dispatched(s) \in Nat
  BY SlotTypes, DispatchedType
<1>2. CASE s \in group
  <2>1. pending[s] # <<>>
    BY <1>0, <1>2 DEF Ready
  <2>2. Head(pending[s]) \in ObsMsg
    BY <1>1, <2>1 DEF QueuesOK
  <2>3. Len(slotq'[s]) = Len(slotq[s]) + 1
    BY <1>0, <1>1, <1>2, <2>2 DEF QueuesOK
  <2> DEFINE b == IF hPc[s] \in {"infer", "reply", "mark", "end", "done"} THEN 1 ELSE 0
  <2>4. PICK d \in Nat : d = hEpoch[s] * (NumSteps + 1)
    BY <1>1 DEF SlotOK
  <2>5. PICK a \in Nat : a = Len(slotq[s])
    BY <1>1 DEF SlotOK
  <2>6. gen[RankOf[s]] = "running"
    BY <1>0, <1>2
  <2>7. Dispatched(s) = d + hStep[s] + a + b
    BY <2>4, <2>5, <2>6 DEF Dispatched
  <2>8. Dispatched(s)' = d + hStep[s] + (a + 1) + b
    BY <1>0, <2>3, <2>4, <2>5, <2>6 DEF Dispatched
  <2>9. hStep[s] \in Nat
    BY <1>1 DEF SlotOK
  <2>. QED  BY <1>2, <2>7, <2>8, <2>9
<1>3. CASE s \notin group
  BY <1>0, <1>1, <1>3, DispatchedKept
<1>. QED  BY <1>2, <1>3

(***************************************************************************)
(* RouterOrder: TurnInv and GroupInv are inductive relative to Inv.        *)
(***************************************************************************)
RouterInv == TurnInv /\ GroupInv

LEMMA InitRouter == Init => RouterInv
<1> SUFFICES ASSUME Init, NEW s \in Slots PROVE gen[RankOf[s]] # "running"
  BY DEF RouterInv, TurnInv, GroupInv
<1>. QED  BY DEF Init, Ranks

\* Steps that dispatch nothing.
LEMMA RouterKept ==
  ASSUME RouterInv, conf' = conf, gen' = gen, turn' = turn,
         \A s \in Slots : Dispatched(s)' = Dispatched(s)
  PROVE  RouterInv'
<1>1. Mode' = Mode
  BY DEF Mode
<1>2. TurnInv'
  BY <1>1 DEF RouterInv, TurnInv, ServedTogether
<1>3. GroupInv'
  BY <1>1 DEF RouterInv, GroupInv, ServedTogether
<1>. QED  BY <1>2, <1>3 DEF RouterInv

LEMMA StartRouter ==
  ASSUME TypeInv, OrderInv, RouterInv, NEW r \in Ranks, StartGenerate(r)
  PROVE  RouterInv'
<1>0. /\ Mode' = Mode /\ RouterTypeOK
      /\ \A x \in Ranks : x # r => gen'[x] = gen[x] /\ turn'[x] = turn[x]
      /\ turn'[r] = Min(EnvsOfRank(r))
  BY DEF StartGenerate, TypeInv, TypeOK, RouterTypeOK, Mode
<1>1. \A s \in Slots : /\ Dispatched(s)' = Dispatched(s) /\ RankOf[s] \in Ranks
                       /\ RankOf[s] = r => Dispatched(s)' = 0
  BY StartDispatched DEF Ranks
<1>2. \A s \in Slots : RankOf[s] = r => ~(EnvOf[s] < turn'[r])
  <2> SUFFICES ASSUME NEW s \in Slots, RankOf[s] = r PROVE ~(EnvOf[s] < turn'[r])
    OBVIOUS
  <2>1. EnvOf[s] \in EnvsOfRank(r) /\ EnvOf[s] \in Nat
    BY FlexRoutingAssumption DEF EnvsOfRank, SlotsOfRank
  <2>2. EnvsOfRank(r) \in SUBSET Nat /\ IsFiniteSet(EnvsOfRank(r)) /\ EnvsOfRank(r) # {}
    BY EnvsType, FS_Subset
  <2>3. Min(EnvsOfRank(r)) <= EnvOf[s] /\ Min(EnvsOfRank(r)) \in Nat
    BY <2>1, <2>2, MinInSet
  <2>. QED  BY <1>0, <2>1, <2>3
<1>3. TurnInv'
  BY <1>0, <1>1, <1>2 DEF RouterInv, TurnInv, ServedTogether
<1>4. GroupInv'
  BY <1>0, <1>1 DEF RouterInv, GroupInv, ServedTogether
<1>. QED  BY <1>3, <1>4 DEF RouterInv

LEMMA EndRouter ==
  ASSUME TypeInv, RouterInv, NEW r \in Ranks, EndGenerate(r)
  PROVE  RouterInv'
<1>0. /\ Mode' = Mode /\ RouterTypeOK /\ turn' = turn /\ slotq' = slotq
      /\ hPc' = hPc /\ hEpoch' = hEpoch /\ hStep' = hStep
      /\ \A x \in Ranks : x # r => gen'[x] = gen[x]
      /\ gen'[r] = "done"
  BY DEF EndGenerate, TypeInv, TypeOK, RouterTypeOK, Mode, handlerVars
<1>1. \A s \in Slots : RankOf[s] \in Ranks /\ (RankOf[s] # r => Dispatched(s)' = Dispatched(s))
  BY <1>0, DispatchedKept DEF Ranks
<1>2. TurnInv'
  BY <1>0, <1>1 DEF RouterInv, TurnInv, ServedTogether
<1>3. GroupInv'
  BY <1>0, <1>1 DEF RouterInv, GroupInv, ServedTogether
<1>. QED  BY <1>2, <1>3 DEF RouterInv

\* The environment the turn passes to.
LEMMA TurnPasses ==
  ASSUME NEW r \in Ranks, NEW e \in Envs
  PROVE  /\ EnvAfter(r, e) \in Nat /\ e \in Nat
         /\ \/ \A x \in EnvsOfRank(r) : x <= e <=> x < EnvAfter(r, e)
            \/ \A x \in EnvsOfRank(r) : x <= e /\ ~(x < EnvAfter(r, e))
<1> DEFINE above == {x \in EnvsOfRank(r) : x > e}
<1>0. /\ EnvsOfRank(r) \in SUBSET Nat /\ IsFiniteSet(EnvsOfRank(r)) /\ EnvsOfRank(r) # {}
      /\ e \in Nat
  BY EnvsType, FS_Subset
<1>1. CASE above # {}
  <2>1. EnvAfter(r, e) = Min(above)
    BY <1>1 DEF EnvAfter
  <2>2. above \in SUBSET Nat /\ IsFiniteSet(above)
    BY <1>0, FS_Subset
  <2>3. Min(above) \in above /\ \A y \in above : Min(above) <= y
    BY <1>1, <2>2, MinInSet
  <2> HIDE DEF above
  <2>4. Min(above) \in Nat /\ Min(above) > e
    BY <2>2, <2>3 DEF above
  <2>5. ASSUME NEW x \in EnvsOfRank(r) PROVE x <= e <=> x < Min(above)
    <3>1. x > e => Min(above) <= x
      BY <2>3 DEF above
    <3>. QED  BY <1>0, <2>4, <3>1
  <2>. QED  BY <1>0, <2>1, <2>4, <2>5
<1>2. CASE above = {}
  <2>1. EnvAfter(r, e) = Min(EnvsOfRank(r))
    BY <1>2 DEF EnvAfter
  <2>2. Min(EnvsOfRank(r)) \in Nat /\ \A y \in EnvsOfRank(r) : Min(EnvsOfRank(r)) <= y
    BY <1>0, MinInSet
  <2>. QED  BY <1>0, <1>2, <2>1, <2>2
<1>. QED  BY <1>1, <1>2

LEMMA RoundRobinRouter ==
  ASSUME TypeInv, OrderInv, RouterInv, NEW r \in Ranks, RouteRoundRobin(r)
  PROVE  RouterInv'
<1> DEFINE e == turn[r]
           n == EnvAfter(r, e)
<1>0. /\ gen[r] = "running" /\ Mode = "round_robin" /\ Mode' = Mode /\ gen' = gen
      /\ LocalSlots(r, e) \in SUBSET SlotsOfRank(r) /\ RouteGroup(r, LocalSlots(r, e), n)
      /\ turn \in [Ranks -> Envs]
  BY DEF RouteRoundRobin, RouteGroup, LocalSlots, SlotsOfRank, Mode, TypeInv, TypeOK, RouterTypeOK
<1>1. \A x \in Ranks : turn'[x] = IF x = r THEN n ELSE turn[x]
  <2> DEFINE g == LocalSlots(r, e)
  <2>0. g \in SUBSET SlotsOfRank(r) /\ RouteGroup(r, g, n)
    BY <1>0
  <2> HIDE DEF g, n
  <2>1. turn' = [turn EXCEPT ![r] = n]
    BY <1>0, <2>0, RouteDispatches
  <2>. QED  BY <1>0, <2>1
<1>2. \A s \in Slots : /\ Dispatched(s) \in Nat
                       /\ Dispatched(s)' = Dispatched(s) + (IF s \in LocalSlots(r, e) THEN 1 ELSE 0)
                       /\ EnvOf[s] \in Nat
                       /\ RankOf[s] = r => EnvOf[s] \in EnvsOfRank(r)
  BY <1>0, RouteDispatched, DispatchedType, FlexRoutingAssumption DEF EnvsOfRank, SlotsOfRank
<1>3. /\ n \in Nat /\ e \in Nat
      /\ \/ \A x \in EnvsOfRank(r) : x <= e <=> x < n
         \/ \A x \in EnvsOfRank(r) : x <= e /\ ~(x < n)
  BY <1>0, TurnPasses
<1>4. ASSUME NEW s \in Slots, NEW t \in Slots, RankOf[s] = r, RankOf[t] = r
      PROVE  /\ (EnvOf[s] < n <=> EnvOf[t] < n) => Dispatched(s)' = Dispatched(t)'
             /\ EnvOf[s] < n /\ n <= EnvOf[t] => Dispatched(s)' = Dispatched(t)' + 1
  <2>1. /\ Dispatched(s)' = Dispatched(s) + (IF EnvOf[s] = e THEN 1 ELSE 0)
        /\ Dispatched(t)' = Dispatched(t) + (IF EnvOf[t] = e THEN 1 ELSE 0)
    BY <1>2, <1>4 DEF LocalSlots
  <2>2. /\ (EnvOf[s] < e <=> EnvOf[t] < e) => Dispatched(s) = Dispatched(t)
        /\ EnvOf[s] < e /\ e <= EnvOf[t] => Dispatched(s) = Dispatched(t) + 1
        /\ EnvOf[t] < e /\ e <= EnvOf[s] => Dispatched(t) = Dispatched(s) + 1
    BY <1>0, <1>4 DEF RouterInv, TurnInv, ServedTogether
  <2>3. /\ EnvOf[s] \in Nat /\ EnvOf[t] \in Nat /\ Dispatched(s) \in Nat /\ Dispatched(t) \in Nat
    BY <1>2
  <2>4. \/ (EnvOf[s] <= e <=> EnvOf[s] < n) /\ (EnvOf[t] <= e <=> EnvOf[t] < n)
        \/ EnvOf[s] <= e /\ EnvOf[t] <= e /\ ~(EnvOf[s] < n) /\ ~(EnvOf[t] < n)
    BY <1>2, <1>3, <1>4
  <2> HIDE DEF e, n
  <2>. QED  BY <1>3, <2>1, <2>2, <2>3, <2>4
<1>5. ASSUME NEW s \in Slots, NEW t \in Slots, RankOf[s] = RankOf[t], RankOf[s] # r,
             gen[RankOf[s]] = "running"
      PROVE  LET now == turn[RankOf[s]] IN
             /\ (EnvOf[s] < now <=> EnvOf[t] < now) => Dispatched(s)' = Dispatched(t)'
             /\ EnvOf[s] < now /\ now <= EnvOf[t] => Dispatched(s)' = Dispatched(t)' + 1
  <2>1. Dispatched(s)' = Dispatched(s) /\ Dispatched(t)' = Dispatched(t)
    BY <1>2, <1>5 DEF LocalSlots
  <2>. QED  BY <1>0, <1>5, <2>1 DEF RouterInv, TurnInv, ServedTogether
<1>6. TurnInv'
  <2> HIDE DEF n
  <2>1. \A s \in Slots : RankOf[s] \in Ranks
    BY EnvsType
  <2>. QED  BY <1>0, <1>1, <1>4, <1>5, <2>1 DEF TurnInv, ServedTogether
<1>7. GroupInv'
  BY <1>0 DEF GroupInv
<1>. QED  BY <1>6, <1>7 DEF RouterInv

LEMMA GroupRouter ==
  ASSUME TypeInv, OrderInv, RouterInv, NEW r \in Ranks, RouteEnvGroup(r)
  PROVE  RouterInv'
<1>0. /\ gen[r] = "running" /\ Mode = "env_group_greedy" /\ Mode' = Mode /\ gen' = gen
  BY DEF RouteEnvGroup, RouteGroup, Mode
<1>1. PICK e \in EnvsOfRank(r) : RouteGroup(r, LocalSlots(r, e), EnvAfter(r, e))
  BY DEF RouteEnvGroup
<1>2. LocalSlots(r, e) \in SUBSET SlotsOfRank(r)
  BY DEF LocalSlots, SlotsOfRank
<1>3. \A s \in Slots : Dispatched(s)' = Dispatched(s) + (IF s \in LocalSlots(r, e) THEN 1 ELSE 0)
  BY <1>0, <1>1, <1>2, RouteDispatched
<1>4. ASSUME NEW s \in Slots, NEW t \in Slots, RankOf[s] = RankOf[t], EnvOf[s] = EnvOf[t],
             gen'[RankOf[s]] = "running"
      PROVE  Dispatched(s)' = Dispatched(t)'
  <2>1. Dispatched(s) = Dispatched(t)
    BY <1>0, <1>4 DEF RouterInv, GroupInv, ServedTogether
  <2>2. s \in LocalSlots(r, e) <=> t \in LocalSlots(r, e)
    BY <1>4 DEF LocalSlots
  <2>. QED  BY <1>3, <2>1, <2>2
<1>5. TurnInv'
  BY <1>0 DEF TurnInv
<1>6. GroupInv'
  BY <1>4 DEF GroupInv, ServedTogether
<1>. QED  BY <1>5, <1>6 DEF RouterInv

LEMMA RouterStep ==
  ASSUME Inv, RouterInv, [Next]_vars
  PROVE  RouterInv'
<1> USE DEF Inv
<1>1. CASE UNCHANGED vars
  <2>1. /\ conf' = conf /\ gen' = gen /\ turn' = turn /\ hEpoch' = hEpoch /\ hStep' = hStep
        /\ slotq' = slotq /\ hPc' = hPc
    BY <1>1 DEF vars, routerVars, handlerVars
  <2>. QED  BY <2>1, DispatchedKept, RouterKept
<1>2. ASSUME NEW e \in Envs, EnvNext(e) PROVE RouterInv'
  <2>1. /\ conf' = conf /\ gen' = gen /\ turn' = turn /\ hEpoch' = hEpoch /\ hStep' = hStep
        /\ slotq' = slotq /\ hPc' = hPc
    BY <1>2 DEF EnvNext, StartInteract, SendInit, EnvStep, RecvAck, RecvAction,
       routerVars, handlerVars
  <2>. QED  BY <2>1, DispatchedKept, RouterKept
<1>3. ASSUME NEW r \in Ranks, WorkerNext(r) PROVE RouterInv'
  <2>1. CASE RouteGreedy(r)
    <3>1. Mode' = "greedy"
      BY <2>1 DEF RouteGreedy, RouteGroup, Mode
    <3>. QED  BY <3>1 DEF RouterInv, TurnInv, GroupInv
  <2>. QED  BY <1>3, <2>1, StartRouter, EndRouter, RoundRobinRouter, GroupRouter
            DEF WorkerNext, Route
<1>4. ASSUME NEW t \in Slots, Pull(t) PROVE RouterInv'
  <2>1. /\ conf' = conf /\ gen' = gen /\ turn' = turn /\ hEpoch' = hEpoch /\ hStep' = hStep
        /\ slotq' = slotq /\ hPc' = hPc
    BY <1>4 DEF Pull, handlerVars
  <2>. QED  BY <2>1, DispatchedKept, RouterKept
<1>5. ASSUME NEW t \in Slots, HandlerNext(t) PROVE RouterInv'
  <2>1. conf' = conf /\ gen' = gen /\ turn' = turn
    BY <1>5 DEF HandlerNext, HandlerRecv, Infer, HandlerReply, HandlerMark, HandlerFinal,
       HandlerEndEpoch, routerVars
  <2>. QED  BY <1>5, <2>1, HandlerDispatched, RouterKept
<1>6. CASE NextIteration
  <2>1. \A s \in Slots : gen'[RankOf[s]] # "running"
    BY <1>6 DEF NextIteration, Ranks
  <2>. QED  BY <2>1 DEF RouterInv, TurnInv, GroupInv
<1>7. CASE Finished
  BY <1>1, <1>7 DEF Finished
<1>. QED  BY <1>1, <1>2, <1>3, <1>4, <1>5, <1>6, <1>7 DEF Next

(***************************************************************************)
(* Every router serves in the order it promises: the round-robin router    *)
(* keeps the environments of a worker within one observation of each       *)
(* other, earlier ones ahead; the two group routers move the slots an      *)
(* environment has on a worker as one; and the branch of all three that    *)
(* drops a message of an epoch before the expected one is dead code.       *)
(***************************************************************************)
THEOREM RoutersKeepOrder == Spec => []RouterOrder
<1>1. Inv /\ RouterInv => RouterOrder
  <2> SUFFICES ASSUME Inv, RouterInv, NEW s \in Slots, NEW t \in Slots, RankOf[s] = RankOf[t]
               PROVE  /\ Mode = "round_robin" /\ EnvOf[s] <= EnvOf[t] =>
                           Dispatched(t) <= Dispatched(s) /\ Dispatched(s) <= Dispatched(t) + 1
                      /\ Mode # "greedy" /\ EnvOf[s] = EnvOf[t] => Dispatched(s) = Dispatched(t)
                      /\ gen[RankOf[s]] = "running" => ~Stale(s)
    BY DEF RouterOrder
  <2>1. gen[RankOf[s]] = "running" => ~Stale(s)
    BY HeadNext DEF Inv, OrderInv, Stale
  <2>2. gen[RankOf[s]] # "running" => Dispatched(s) = 0 /\ Dispatched(t) = 0
    BY DEF Dispatched
  <2>3. /\ Dispatched(s) \in Nat /\ Dispatched(t) \in Nat
        /\ EnvOf[s] \in Nat /\ EnvOf[t] \in Nat /\ turn[RankOf[s]] \in Nat
        /\ Mode \in {"round_robin", "greedy", "env_group_greedy"}
    BY DispatchedType, EnvsType, FlexRoutingAssumption
       DEF Inv, TypeInv, TypeOK, RouterTypeOK, Mode, Config, Ranks
  <2>4. CASE gen[RankOf[s]] = "running" /\ Mode = "round_robin"
    <3>1. LET now == turn[RankOf[s]] IN
          /\ (EnvOf[s] < now <=> EnvOf[t] < now) => Dispatched(s) = Dispatched(t)
          /\ EnvOf[s] < now /\ now <= EnvOf[t] => Dispatched(s) = Dispatched(t) + 1
      BY <2>4 DEF RouterInv, TurnInv, ServedTogether
    <3>. QED  BY <2>1, <2>3, <2>4, <3>1
  <2>5. CASE gen[RankOf[s]] = "running" /\ Mode = "env_group_greedy"
    BY <2>1, <2>5 DEF RouterInv, GroupInv, ServedTogether
  <2>. QED  BY <2>1, <2>2, <2>3, <2>4, <2>5
<1>2. Init => Inv /\ RouterInv
  BY InitTypeInv, InitOrder, InitRouter DEF Inv
<1>3. Inv /\ RouterInv /\ [Next]_vars => (Inv /\ RouterInv)'
  BY InvInductive, RouterStep
<1>. QED  BY <1>1, <1>2, <1>3, PTL DEF Spec

(***************************************************************************)
(* The safety part of the refinement of LockStep.  The abstract counters   *)
(* are positions in the stream of all training steps: an environment has   *)
(* emitted what its manager sent, a slot was served what its handler took, *)
(* but for the observation whose action is still being computed.           *)
(***************************************************************************)
EmittedAt(e) == iter * PerIter + (SentEpoch(e) * PerEpoch + SentCount(e))
ServedAt(s) ==
  iter * PerIter + (TakenEpoch(s) * PerEpoch + TakenCount(s))
    - (IF hPc[s] \in {"infer", "reply"} THEN 1 ELSE 0)

BarsFit ==
  /\ emittedBar = [e \in Envs |-> EmittedAt(e)]
  /\ servedBar = [s \in Slots |-> ServedAt(s)]

LEMMA Products ==
  /\ \A k \in Nat, p \in Nat : k * p \in Nat /\ (k + 1) * p = k * p + p
  /\ \A k \in Nat, l \in Nat, p \in Nat : k <= l => k * p <= l * p
  /\ \A k \in Nat, l \in Nat, p \in Nat : (k * l) * p = k * (l * p)
  /\ \A k \in Nat, l \in Nat, p \in Nat : (k + l) * p = k * p + l * p
<1>1. \A k \in Nat, p \in Nat : k * p \in Nat /\ (k + 1) * p = k * p + p
  OBVIOUS
<1>2. \A k \in Nat, l \in Nat, p \in Nat : k <= l => k * p <= l * p
  OBVIOUS
<1>3. \A k \in Nat, l \in Nat, p \in Nat : (k * l) * p = k * (l * p)
  OBVIOUS
<1>4. \A k \in Nat, l \in Nat, p \in Nat : (k + l) * p = k * p + l * p
  OBVIOUS
<1>. QED  BY <1>1, <1>2, <1>3, <1>4

LEMMA Sizes ==
  /\ PerEpoch \in Nat /\ PerEpoch > 0 /\ PerIter \in Nat /\ PerIter = NumEpochs * PerEpoch
  /\ NumEpochs \in Nat /\ NumIters \in Nat
  /\ Abstract!PerEpoch = PerEpoch /\ Abstract!PerIter = PerIter /\ Abstract!Envs = Envs
<1>1. /\ PerEpoch \in Nat /\ PerEpoch > 0 /\ NumEpochs \in Nat /\ NumIters \in Nat
  BY PerEpochType, FlexRoutingAssumption
<1>2. PerIter = NumEpochs * PerEpoch
  BY DEF PerIter, PerEpoch
<1>3. NumEpochs * PerEpoch \in Nat
  BY <1>1, Products
<1>. QED  BY <1>1, <1>2, <1>3
          DEF Abstract!PerEpoch, Abstract!PerIter, Abstract!Envs, Envs, PerEpoch

LEMMA Bars == Inv => BarsFit
<1> SUFFICES ASSUME Inv PROVE BarsFit
  OBVIOUS
<1>1. PerEpoch \in Nat /\ PerEpoch = NumSteps + 1 /\ PerIter \in Nat /\ iter \in Nat
  BY PerEpochType, Sizes DEF Inv, TypeInv, TypeOK
<1>2. iter * PerIter \in Nat
  BY <1>1, Products
<1>3. ASSUME NEW e \in Envs PROVE emittedBar[e] = EmittedAt(e)
  <2>1. envEpoch[e] \in Nat /\ envStep[e] \in Nat
    BY DEF Inv, TypeInv, TypeOK, EnvTypeOK
  <2>2. /\ envEpoch[e] * PerEpoch \in Nat
        /\ (envEpoch[e] + 1) * PerEpoch = envEpoch[e] * PerEpoch + PerEpoch
        /\ 0 * PerEpoch = 0
    BY <1>1, <2>1, Products
  <2>3. emittedBar[e] = iter * PerIter +
          CASE envPc[e] = "idle" -> 0
            [] envPc[e] = "reset" -> envEpoch[e] * PerEpoch
            [] envPc[e] = "act" -> envEpoch[e] * PerEpoch + envStep[e] + 1
            [] OTHER -> (envEpoch[e] + 1) * PerEpoch
    BY DEF emittedBar, PerEpoch
  <2>4. CASE envPc[e] = "idle"
    BY <1>2, <2>2, <2>3, <2>4 DEF EmittedAt, SentEpoch, SentCount
  <2>5. CASE envPc[e] = "reset"
    BY <1>2, <2>2, <2>3, <2>5 DEF EmittedAt, SentEpoch, SentCount
  <2>6. CASE envPc[e] = "act"
    BY <1>2, <2>1, <2>2, <2>3, <2>6 DEF EmittedAt, SentEpoch, SentCount
  <2>7. CASE envPc[e] \notin {"idle", "reset", "act"}
    <3>1. emittedBar[e] = iter * PerIter + (envEpoch[e] * PerEpoch + PerEpoch)
      BY <2>2, <2>3, <2>7
    <3>. QED  BY <2>7, <3>1 DEF EmittedAt, SentEpoch, SentCount
  <2>. QED  BY <2>4, <2>5, <2>6, <2>7
<1>4. ASSUME NEW s \in Slots PROVE servedBar[s] = ServedAt(s)
  <2>0. SlotOK(s) /\ Phase(s)
    BY SlotTypes DEF Inv, OrderInv, SlotInv
  <2>1. hEpoch[s] \in Nat /\ hStep[s] \in Nat
    BY <2>0 DEF SlotOK
  <2>2. hEpoch[s] * PerEpoch \in Nat /\ 0 * PerEpoch = 0
    BY <1>1, <2>1, Products
  <2>3. servedBar[s] = iter * PerIter +
          IF gen[RankOf[s]] = "idle" THEN 0
          ELSE hEpoch[s] * PerEpoch + hStep[s]
                 + (IF hPc[s] \in {"mark", "end", "done"} THEN 1 ELSE 0)
    BY DEF servedBar, PerEpoch
  <2>4. CASE gen[RankOf[s]] = "idle"
    <3>1. hPc[s] \in {"off", "done"}
      BY <2>0, <2>4 DEF Phase
    <3>. QED  BY <1>2, <2>2, <2>3, <2>4, <3>1 DEF ServedAt, TakenEpoch, TakenCount
  <2>5. CASE gen[RankOf[s]] # "idle"
    <3>1. hPc[s] \in {"recv", "infer", "reply", "mark", "end", "done"}
      BY <2>0, <2>5 DEF Phase, SlotOK
    <3>. QED  BY <1>2, <2>1, <2>2, <2>3, <2>5, <3>1 DEF ServedAt, TakenEpoch, TakenCount
  <2>. QED  BY <2>4, <2>5
<1>. QED  BY <1>3, <1>4 DEF BarsFit, emittedBar, servedBar

LEMMA BarsNext == Inv' => BarsFit'
BY Bars, PTL

\* The two counters of a slot differ by its unanswered observations.
LEMMA Ledger ==
  ASSUME Inv, NEW s \in Slots
  PROVE  /\ emittedBar[EnvOf[s]] \in Nat /\ servedBar[s] \in Nat
         /\ emittedBar[EnvOf[s]] = servedBar[s] + Unanswered(s) /\ Unanswered(s) \in Nat
         /\ servedBar[s] >= iter * PerIter
<1> DEFINE e == EnvOf[s]
<1>0. SlotOK(s) /\ SlotInv(s) /\ TypeInv /\ e \in Envs
  BY SlotTypes DEF Inv, OrderInv, SlotOK
<1>1. /\ TakenEpoch(s) \in Nat /\ TakenCount(s) \in Nat /\ SentEpoch(e) \in Nat /\ SentCount(e) \in Nat
      /\ PerEpoch \in Nat
  BY <1>0, Positions
<1>2. Waiting(s) = Between(TakenEpoch(s), TakenCount(s), SentEpoch(e), SentCount(e))
      /\ Waiting(s) \in Nat
  BY <1>0 DEF SlotOK, SlotInv, LineUp
<1>3. \A k \in Nat, c \in Nat, l \in Nat, d \in Nat, w \in Nat :
        w = Between(k, c, l, d) => l * PerEpoch + d = (k * PerEpoch + c) + w
  <2> SUFFICES ASSUME NEW k \in Nat, NEW c \in Nat, NEW l \in Nat, NEW d \in Nat, NEW w \in Nat,
                      w = Between(k, c, l, d)
               PROVE  l * PerEpoch + d = (k * PerEpoch + c) + w
    OBVIOUS
  <2>1. k * PerEpoch \in Nat /\ l * PerEpoch \in Nat
    BY <1>1, Products
  <2>2. CASE l = k
    BY <1>1, <2>1, <2>2 DEF Between
  <2>3. CASE l = k + 1
    <3>1. l * PerEpoch = k * PerEpoch + PerEpoch
      BY <1>1, <2>3, Products
    <3>2. w = d + PerEpoch - c
      BY <2>3 DEF Between
    <3>. QED  BY <1>1, <2>1, <3>1, <3>2
  <2>4. CASE l = k - 1
    <3>1. k = l + 1
      BY <2>4
    <3>2. k * PerEpoch = l * PerEpoch + PerEpoch
      BY <1>1, <3>1, Products
    <3>3. w = d - PerEpoch - c
      BY <2>4 DEF Between
    <3>. QED  BY <1>1, <2>1, <3>2, <3>3
  <2>. QED  BY <2>2, <2>3, <2>4 DEF Between
<1>4. PICK p \in Nat : p = TakenEpoch(s) * PerEpoch + TakenCount(s)
  BY <1>1, Products
<1>5. SentEpoch(e) * PerEpoch + SentCount(e) = p + Waiting(s)
  <2>1. SentEpoch(e) * PerEpoch + SentCount(e)
          = (TakenEpoch(s) * PerEpoch + TakenCount(s)) + Waiting(s)
    <3>1. PICK k \in Nat, c \in Nat, l \in Nat, d \in Nat, w \in Nat :
            /\ k = TakenEpoch(s) /\ c = TakenCount(s) /\ l = SentEpoch(e) /\ d = SentCount(e)
            /\ w = Waiting(s)
      BY <1>1, <1>2
    <3>2. w = Between(k, c, l, d)
      BY <1>2, <3>1, Zenon
    <3>3. l * PerEpoch + d = (k * PerEpoch + c) + w
      BY <1>3, <3>2
    <3>. QED  BY <3>1, <3>3
  <2>. QED  BY <1>4, <2>1
<1>6. PICK b \in Nat : b = iter * PerIter
  BY <1>0, Sizes, Products DEF TypeInv, TypeOK
<1>7. emittedBar[e] = b + (p + Waiting(s))
  BY <1>0, <1>5, <1>6, Bars DEF BarsFit, EmittedAt
<1>8. servedBar[s] = (b + p) - (IF hPc[s] \in {"infer", "reply"} THEN 1 ELSE 0)
  BY <1>4, <1>6, Bars DEF BarsFit, ServedAt
<1>9. hPc[s] \in {"infer", "reply"} => p > 0
  <2>1. hPc[s] \in {"infer", "reply"} => TakenCount(s) = hStep[s] + 1
    BY <1>0 DEF SlotInv, Phase, TakenCount
  <2>2. TakenEpoch(s) * PerEpoch \in Nat /\ hStep[s] \in Nat
    BY <1>0, <1>1, Products DEF SlotOK
  <2>. QED  BY <1>4, <2>1, <2>2
<1>10. Unanswered(s) = Waiting(s) + (IF hPc[s] \in {"infer", "reply"} THEN 1 ELSE 0)
  BY DEF Unanswered
<1>. QED  BY <1>2, <1>6, <1>7, <1>8, <1>9, <1>10

\* Steps that the abstract specification does not see.
LEMMA Stutter ==
  ASSUME Inv, Inv', conf' = conf, \A e \in Envs : EmittedAt(e)' = EmittedAt(e),
         \A s \in Slots : ServedAt(s)' = ServedAt(s)
  PROVE  UNCHANGED Abstract!vars
<1>1. emittedBar' = emittedBar
  BY Bars, BarsNext DEF BarsFit
<1>2. servedBar' = servedBar
  BY Bars, BarsNext DEF BarsFit
<1>. QED  BY <1>1, <1>2 DEF Abstract!vars, Prefetch

LEMMA EmitStep ==
  ASSUME Inv, Inv', conf' = conf, NEW e \in Envs,
         SentEpoch(e) < NumEpochs, SentCount(e) < PerEpoch,
         EmittedAt(e)' = EmittedAt(e) + 1,
         \A x \in Envs : x # e => EmittedAt(x)' = EmittedAt(x),
         \A s \in Slots : ServedAt(s)' = ServedAt(s),
         \A s \in Slots : EnvOf[s] = e =>
           Unanswered(s) <= (IF Prefetch /\ SentCount(e) = 0 THEN 1 ELSE 0)
  PROVE  Abstract!Emit(e)
<1>0. /\ Prefetch' = Prefetch /\ BarsFit /\ BarsFit'
  BY Bars, BarsNext DEF Prefetch
<1>1. servedBar' = servedBar
  BY <1>0 DEF BarsFit
<1>2. emittedBar' = [emittedBar EXCEPT ![e] = @ + 1]
  BY <1>0 DEF BarsFit
<1>3. /\ iter \in Nat /\ iter + 1 <= NumIters /\ Prefetch \in BOOLEAN
  BY FlexRoutingAssumption DEF Inv, TypeInv, TypeOK, Prefetch, Config
<1>4. PICK s \in Slots : EnvOf[s] = e
  BY DEF Envs
<1>5. SentEpoch(e) \in Nat /\ SentCount(e) \in Nat
  BY <1>4, Positions DEF Inv
<1>6. PICK k \in Nat, c \in Nat : k = SentEpoch(e) /\ c = SentCount(e)
  BY <1>5
<1>7. PICK x \in Nat : x = k * PerEpoch + c
  BY Sizes, Products
<1>8. x < PerIter
  <2>1. (k + 1) * PerEpoch <= NumEpochs * PerEpoch
    <3>1. k + 1 \in Nat /\ k + 1 <= NumEpochs
      BY <1>6, Sizes
    <3>. QED  BY <3>1, Sizes, Products
  <2>2. (k + 1) * PerEpoch = k * PerEpoch + PerEpoch /\ k * PerEpoch \in Nat
    BY Sizes, Products
  <2>. QED  BY <1>6, <1>7, <2>1, <2>2, Sizes
<1>9. emittedBar[e] = iter * PerIter + x
  BY <1>0, <1>6, <1>7 DEF BarsFit, EmittedAt
<1>10. emittedBar[e] < NumIters * PerIter
  <2>1. (iter + 1) * PerIter <= NumIters * PerIter
    <3>1. iter + 1 \in Nat
      BY <1>3
    <3>. QED  BY <1>3, <3>1, Sizes, Products
  <2>2. (iter + 1) * PerIter = iter * PerIter + PerIter /\ iter * PerIter \in Nat
    BY <1>3, Sizes, Products
  <2>3. NumIters * PerIter \in Nat
    BY Sizes, Products
  <2>. QED  BY <1>8, <1>9, <2>1, <2>2, <2>3, Sizes
<1>11. emittedBar[e] % PerIter = x
  <2>1. PerIter \in Nat /\ iter \in Nat
    BY <1>3, Sizes
  <2>2. (iter * PerIter + x) % PerIter = x
    BY <1>8, <2>1, Remainder
  <2>. QED  BY <1>9, <2>2
<1>12. emittedBar[e] % PerEpoch = c
  <2>1. (iter * NumEpochs) * PerEpoch = iter * PerIter
    BY <1>3, Sizes, Products
  <2>2. iter * NumEpochs \in Nat
    BY <1>3, Sizes, Products
  <2>3. (iter * NumEpochs + k) * PerEpoch = (iter * NumEpochs) * PerEpoch + k * PerEpoch
    BY <2>2, Sizes, Products
  <2>4. iter * PerIter \in Nat /\ k * PerEpoch \in Nat
    BY <1>3, Sizes, Products
  <2>5. emittedBar[e] = (iter * NumEpochs + k) * PerEpoch + c
    BY <1>7, <1>9, <2>1, <2>3, <2>4
  <2>6. iter * NumEpochs + k \in Nat /\ c < PerEpoch
    BY <1>6, <2>2
  <2>. QED  BY <2>5, <2>6, Sizes, Remainder
<1>13. x = 0 => \A t \in Slots : servedBar[t] >= emittedBar[e]
  <2> SUFFICES ASSUME x = 0, NEW t \in Slots PROVE servedBar[t] >= emittedBar[e]
    OBVIOUS
  <2>1. iter * PerIter \in Nat
    BY <1>3, Sizes, Products
  <2>2. servedBar[t] >= iter * PerIter
    BY Ledger
  <2>. QED  BY <1>9, <2>1, <2>2
<1>14. \A t \in Slots : EnvOf[t] = e => servedBar[t] >= emittedBar[e] - Abstract!Slack(e)
  <2> SUFFICES ASSUME NEW t \in Slots, EnvOf[t] = e
               PROVE  servedBar[t] >= emittedBar[e] - Abstract!Slack(e)
    OBVIOUS
  <2>1. Abstract!Slack(e) = IF Prefetch /\ c = 0 THEN 1 ELSE 0
    BY <1>12, Sizes DEF Abstract!Slack
  <2>2. Unanswered(t) <= Abstract!Slack(e) /\ Abstract!Slack(e) \in Nat
    BY <1>6, <2>1
  <2>3. emittedBar[e] = servedBar[t] + Unanswered(t) /\ servedBar[t] \in Nat /\ Unanswered(t) \in Nat
    BY Ledger
  <2>. QED  BY <2>2, <2>3
<1>. QED  BY <1>0, <1>1, <1>2, <1>10, <1>11, <1>13, <1>14, Sizes DEF Abstract!Emit

LEMMA ServeStep ==
  ASSUME Inv, Inv', conf' = conf, NEW s \in Slots, Unanswered(s) > 0,
         ServedAt(s)' = ServedAt(s) + 1,
         \A t \in Slots : t # s => ServedAt(t)' = ServedAt(t),
         \A e \in Envs : EmittedAt(e)' = EmittedAt(e)
  PROVE  Abstract!Serve(s)
<1>0. /\ Prefetch' = Prefetch /\ BarsFit /\ BarsFit'
  BY Bars, BarsNext DEF Prefetch
<1>1. emittedBar' = emittedBar
  BY <1>0 DEF BarsFit
<1>2. servedBar' = [servedBar EXCEPT ![s] = @ + 1]
  BY <1>0 DEF BarsFit
<1>3. servedBar[s] < emittedBar[EnvOf[s]]
  BY Ledger
<1>. QED  BY <1>0, <1>1, <1>2, <1>3 DEF Abstract!Serve

\* What the positions depend on.
LEMMA EmittedKept ==
  ASSUME NEW e \in Envs, iter' = iter, envPc'[e] = envPc[e], envEpoch'[e] = envEpoch[e],
         envStep'[e] = envStep[e]
  PROVE  EmittedAt(e)' = EmittedAt(e)
BY DEF EmittedAt, SentEpoch, SentCount, PerEpoch, PerIter

LEMMA ServedKept ==
  ASSUME NEW s \in Slots, iter' = iter, gen'[RankOf[s]] = gen[RankOf[s]],
         hEpoch'[s] = hEpoch[s], hStep'[s] = hStep[s], hPc'[s] = hPc[s]
  PROVE  ServedAt(s)' = ServedAt(s)
BY DEF ServedAt, TakenEpoch, TakenCount, PerEpoch, PerIter

(***************************************************************************)
(* One lemma per action: a step of LockStep, or none.                      *)
(***************************************************************************)

\* Steps of a manager leave the slots' positions alone.
LEMMA ManagerServes ==
  ASSUME NEW e \in Envs, EnvNext(e)
  PROVE  /\ conf' = conf /\ iter' = iter
         /\ \A s \in Slots : ServedAt(s)' = ServedAt(s)
<1>1. /\ conf' = conf /\ iter' = iter /\ gen' = gen /\ hEpoch' = hEpoch /\ hStep' = hStep
      /\ hPc' = hPc
  BY DEF EnvNext, StartInteract, SendInit, EnvStep, RecvAck, RecvAction, routerVars, handlerVars
<1>. QED  BY <1>1, ServedKept

LEMMA ManagerEmits ==
  ASSUME Inv, NEW e \in Envs, EnvNext(e), NEW x \in Envs, x # e
  PROVE  EmittedAt(x)' = EmittedAt(x)
<1>1. iter' = iter /\ EnvTypeOK
  BY ManagerServes DEF Inv, TypeInv, TypeOK
<1>2. envPc'[x] = envPc[x] /\ envEpoch'[x] = envEpoch[x] /\ envStep'[x] = envStep[x]
  BY <1>1 DEF EnvNext, StartInteract, SendInit, EnvStep, RecvAck, RecvAction, EnvTypeOK
<1>. QED  BY <1>1, <1>2, EmittedKept

\* Positions of one manager.
LEMMA EmittedValues ==
  ASSUME Inv, NEW e \in Envs
  PROVE  /\ envEpoch[e] \in Nat /\ envEpoch[e] < NumEpochs /\ envStep[e] \in Nat /\ envStep[e] < NumSteps
         /\ envEpoch[e] * PerEpoch \in Nat /\ iter * PerIter \in Nat
         /\ (envEpoch[e] + 1) * PerEpoch = envEpoch[e] * PerEpoch + PerEpoch
         /\ 0 * PerEpoch = 0 /\ NumSteps \in Nat /\ PerEpoch = NumSteps + 1 /\ NumEpochs \in Nat
<1>1. EnvTypeOK /\ iter \in Nat
  BY DEF Inv, TypeInv, TypeOK
<1>2. NumSteps \in Nat /\ PerEpoch = NumSteps + 1 /\ PerEpoch \in Nat /\ NumEpochs \in Nat /\ PerIter \in Nat
  BY Sizes, PerEpochType, FlexRoutingAssumption DEF PerEpoch
<1>3. envEpoch[e] \in Nat /\ envEpoch[e] < NumEpochs /\ envStep[e] \in Nat /\ envStep[e] < NumSteps
  BY <1>1, <1>2 DEF EnvTypeOK
<1>. QED  BY <1>1, <1>2, <1>3, Products

LEMMA StartInteractStep ==
  ASSUME Inv, Inv', NEW e \in Envs, StartInteract(e)
  PROVE  UNCHANGED Abstract!vars
<1>1. /\ envPc[e] = "idle" /\ envPc'[e] = "reset" /\ envEpoch'[e] = 0 /\ iter' = iter
  BY DEF StartInteract, Inv, TypeInv, TypeOK, EnvTypeOK
<1>2. EmittedAt(e)' = EmittedAt(e)
  BY <1>1 DEF EmittedAt, SentEpoch, SentCount, PerEpoch, PerIter
<1>3. \A x \in Envs : EmittedAt(x)' = EmittedAt(x)
  BY <1>2, ManagerEmits DEF EnvNext
<1>. QED  BY <1>3, Stutter, ManagerServes DEF EnvNext

LEMMA SendInitStep ==
  ASSUME Inv, Inv', NEW e \in Envs, SendInit(e)
  PROVE  Abstract!Emit(e)
<1>1. /\ envPc[e] = "reset" /\ envPc'[e] = "act" /\ envEpoch'[e] = envEpoch[e] /\ envStep'[e] = 0
      /\ iter' = iter
  BY DEF SendInit, Inv, TypeInv, TypeOK, EnvTypeOK
<1>2. SentEpoch(e) = envEpoch[e] /\ SentCount(e) = 0
  BY <1>1 DEF SentEpoch, SentCount
<1>3. SentEpoch(e)' = envEpoch[e] /\ SentCount(e)' = 0 + 1
  BY <1>1 DEF SentEpoch, SentCount
<1>4. EmittedAt(e)' = EmittedAt(e) + 1
  <2>1. EmittedAt(e)' = iter * PerIter + (envEpoch[e] * PerEpoch + (0 + 1))
    BY <1>1, <1>3 DEF EmittedAt, PerEpoch, PerIter
  <2>2. EmittedAt(e) = iter * PerIter + (envEpoch[e] * PerEpoch + 0)
    BY <1>2 DEF EmittedAt
  <2>. QED  BY <2>1, <2>2, EmittedValues
<1>5. \A s \in Slots : EnvOf[s] = e => Unanswered(s) <= (IF Prefetch THEN 1 ELSE 0)
  BY <1>1 DEF Inv, OrderInv, SlotInv, Resting
<1>6. SentEpoch(e) < NumEpochs /\ SentCount(e) < PerEpoch
  BY <1>2, EmittedValues, Sizes
<1>7. /\ conf' = conf
      /\ \A s \in Slots : ServedAt(s)' = ServedAt(s)
      /\ \A x \in Envs : x # e => EmittedAt(x)' = EmittedAt(x)
  BY ManagerServes, ManagerEmits DEF EnvNext
<1>. QED  BY <1>2, <1>4, <1>5, <1>6, <1>7, EmitStep

LEMMA EnvStepStep ==
  ASSUME Inv, Inv', NEW e \in Envs, EnvStep(e)
  PROVE  Abstract!Emit(e)
<1>0. /\ envPc[e] = "act" /\ awaited[e] = {} /\ iter' = iter /\ EnvTypeOK
  BY DEF EnvStep, AllActionsIn, Inv, TypeInv, TypeOK
<1>1. SentEpoch(e) = envEpoch[e] /\ SentCount(e) = envStep[e] + 1
  BY <1>0 DEF SentEpoch, SentCount
<1>2. EmittedAt(e) = iter * PerIter + (envEpoch[e] * PerEpoch + (envStep[e] + 1))
  BY <1>1 DEF EmittedAt
<1>3. EmittedAt(e)' = EmittedAt(e) + 1
  <2>1. CASE envStep[e] < NumSteps - 1
    <3>1. envPc'[e] = "act" /\ envEpoch'[e] = envEpoch[e] /\ envStep'[e] = envStep[e] + 1
      BY <1>0, <2>1 DEF EnvStep, EnvTypeOK
    <3>2. EmittedAt(e)' = iter * PerIter + (envEpoch[e] * PerEpoch + (envStep[e] + 1 + 1))
      BY <1>0, <3>1 DEF EmittedAt, SentEpoch, SentCount, PerEpoch, PerIter
    <3>. QED  BY <1>2, <3>2, EmittedValues
  <2>2. CASE ~(envStep[e] < NumSteps - 1)
    <3>1. envStep[e] + 1 = NumSteps
      BY <2>2, EmittedValues
    <3>2. \/ envPc'[e] \in {"done", "ack"} /\ envEpoch'[e] = envEpoch[e]
          \/ envPc'[e] = "reset" /\ envEpoch'[e] = envEpoch[e] + 1
      BY <1>0, <2>2 DEF EnvStep, EnvTypeOK
    <3>3. EmittedAt(e)' = iter * PerIter + (envEpoch[e] * PerEpoch + PerEpoch)
      <4>1. CASE envPc'[e] \in {"done", "ack"} /\ envEpoch'[e] = envEpoch[e]
        BY <1>0, <4>1 DEF EmittedAt, SentEpoch, SentCount, PerEpoch, PerIter
      <4>2. CASE envPc'[e] = "reset" /\ envEpoch'[e] = envEpoch[e] + 1
        <5>1. EmittedAt(e)' = iter * PerIter + ((envEpoch[e] + 1) * PerEpoch + 0)
          BY <1>0, <4>2 DEF EmittedAt, SentEpoch, SentCount, PerEpoch, PerIter
        <5>. QED  BY <5>1, EmittedValues
      <4>. QED  BY <3>2, <4>1, <4>2
    <3>. QED  BY <1>2, <3>1, <3>3, EmittedValues
  <2>. QED  BY <2>1, <2>2
<1>4. \A s \in Slots : EnvOf[s] = e => Unanswered(s) = 0
  <2> SUFFICES ASSUME NEW s \in Slots, EnvOf[s] = e PROVE Unanswered(s) = 0
    OBVIOUS
  <2>1. Answered(s)
    BY <1>0 DEF Answered
  <2>. QED  BY <1>0, <2>1 DEF Inv, OrderInv, SlotInv, Collecting
<1>5. SentEpoch(e) < NumEpochs /\ SentCount(e) < PerEpoch /\ SentCount(e) # 0
  BY <1>1, EmittedValues
<1>6. /\ conf' = conf
      /\ \A s \in Slots : ServedAt(s)' = ServedAt(s)
      /\ \A x \in Envs : x # e => EmittedAt(x)' = EmittedAt(x)
  BY ManagerServes, ManagerEmits DEF EnvNext
<1>7. \A s \in Slots : EnvOf[s] = e =>
        Unanswered(s) <= (IF Prefetch /\ SentCount(e) = 0 THEN 1 ELSE 0)
  BY <1>4, <1>5
<1>. QED  BY <1>3, <1>5, <1>6, <1>7, EmitStep

LEMMA RecvActionStep ==
  ASSUME Inv, Inv', NEW e \in Envs, NEW s \in Slots, RecvAction(e, s)
  PROVE  UNCHANGED Abstract!vars
<1>1. /\ envPc[e] = "act" /\ s \in awaited[e] /\ iter' = iter /\ envEpoch' = envEpoch /\ envStep' = envStep
      /\ EnvTypeOK
      /\ EnvOf[s] = e
  BY DEF RecvAction, Inv, TypeInv, TypeOK, OrderInv, AwaitsOwn, SlotsOfEnv
<1>2. envPc'[e] \in {"act", "failed"} /\ envPc'[e] # "failed"
  <2>1. envPc'[e] \in {"act", "failed"}
    BY <1>1 DEF RecvAction, EnvTypeOK
  <2>2. envPc'[EnvOf[s]] # "failed"
    BY DEF Inv, OrderInv, SlotInv, Resting
  <2>. QED  BY <1>1, <2>1, <2>2
<1>3. EmittedAt(e)' = EmittedAt(e)
  BY <1>1, <1>2, EmittedKept
<1>4. \A x \in Envs : EmittedAt(x)' = EmittedAt(x)
  BY <1>3, ManagerEmits DEF EnvNext
<1>. QED  BY <1>4, Stutter, ManagerServes DEF EnvNext

LEMMA RecvAckStep ==
  ASSUME Inv, Inv', NEW e \in Envs, RecvAck(e)
  PROVE  UNCHANGED Abstract!vars
<1>1. /\ envPc[e] = "ack" /\ iter' = iter /\ envStep' = envStep /\ EnvTypeOK
  BY DEF RecvAck, Inv, TypeInv, TypeOK
<1>2. PICK s \in Slots : EnvOf[s] = e
  BY DEF Envs
<1>3. envPc'[e] # "failed"
  <2>1. envPc'[EnvOf[s]] # "failed"
    BY DEF Inv, OrderInv, SlotInv, Resting
  <2>. QED  BY <1>2, <2>1
<1>4. \/ envPc'[e] = "ack" /\ envEpoch'[e] = envEpoch[e]
      \/ envPc'[e] = "reset" /\ envEpoch'[e] = envEpoch[e] + 1
  BY <1>1, <1>3 DEF RecvAck, EnvTypeOK
<1>5. EmittedAt(e) = iter * PerIter + (envEpoch[e] * PerEpoch + PerEpoch)
  BY <1>1 DEF EmittedAt, SentEpoch, SentCount
<1>6. EmittedAt(e)' = EmittedAt(e)
  <2>1. CASE envPc'[e] = "ack" /\ envEpoch'[e] = envEpoch[e]
    BY <1>1, <2>1, EmittedKept
  <2>2. CASE envPc'[e] = "reset" /\ envEpoch'[e] = envEpoch[e] + 1
    <3>1. EmittedAt(e)' = iter * PerIter + ((envEpoch[e] + 1) * PerEpoch + 0)
      BY <1>1, <2>2 DEF EmittedAt, SentEpoch, SentCount, PerEpoch, PerIter
    <3>. QED  BY <1>5, <3>1, EmittedValues
  <2>. QED  BY <1>4, <2>1, <2>2
<1>7. \A x \in Envs : EmittedAt(x)' = EmittedAt(x)
  BY <1>6, ManagerEmits DEF EnvNext
<1>. QED  BY <1>7, Stutter, ManagerServes DEF EnvNext

\* Steps of the worker and its handlers leave the managers' positions alone.
LEMMA WorkerEmits ==
  ASSUME conf' = conf, iter' = iter, UNCHANGED envVars, NEW e \in Envs
  PROVE  EmittedAt(e)' = EmittedAt(e)
BY EmittedKept DEF envVars

LEMMA StartStep ==
  ASSUME Inv, Inv', NEW r \in Ranks, StartGenerate(r)
  PROVE  UNCHANGED Abstract!vars
<1>0. conf' = conf /\ iter' = iter /\ UNCHANGED envVars /\ RouterTypeOK
  BY DEF StartGenerate, Inv, TypeInv, TypeOK
<1>1. ASSUME NEW s \in Slots PROVE ServedAt(s)' = ServedAt(s)
  <2>1. CASE RankOf[s] = r
    <3>1. /\ gen[RankOf[s]] = "idle" /\ gen'[RankOf[s]] = "running"
          /\ hPc'[s] = "recv" /\ hEpoch'[s] = 0 /\ hStep'[s] = 0
      BY <1>0, <2>1 DEF StartGenerate, RouterTypeOK
    <3>2. hPc[s] \in {"off", "done"}
      BY <3>1 DEF Inv, OrderInv, SlotInv, Phase
    <3>. QED  BY <1>0, <3>1, <3>2 DEF ServedAt, TakenEpoch, TakenCount, PerEpoch, PerIter
  <2>2. CASE RankOf[s] # r
    BY <1>0, <2>2, ServedKept DEF StartGenerate, RouterTypeOK, Ranks
  <2>. QED  BY <2>1, <2>2
<1>. QED  BY <1>0, <1>1, WorkerEmits, Stutter

LEMMA RouteStep ==
  ASSUME Inv, Inv', NEW r \in Ranks, Route(r)
  PROVE  UNCHANGED Abstract!vars
<1>1. /\ conf' = conf /\ iter' = iter /\ UNCHANGED envVars
      /\ gen' = gen /\ hEpoch' = hEpoch /\ hStep' = hStep /\ hPc' = hPc
  BY DEF Route, RouteRoundRobin, RouteGreedy, RouteEnvGroup, RouteGroup, handlerVars
<1>. QED  BY <1>1, ServedKept, WorkerEmits, Stutter

LEMMA EndStep ==
  ASSUME Inv, Inv', NEW r \in Ranks, EndGenerate(r)
  PROVE  UNCHANGED Abstract!vars
<1>1. /\ conf' = conf /\ iter' = iter /\ UNCHANGED envVars /\ RouterTypeOK
      /\ hEpoch' = hEpoch /\ hStep' = hStep /\ hPc' = hPc
      /\ gen[r] = "running" /\ gen' = [gen EXCEPT ![r] = "done"]
  BY DEF EndGenerate, handlerVars, Inv, TypeInv, TypeOK
<1>2. ASSUME NEW s \in Slots PROVE ServedAt(s)' = ServedAt(s)
  <2>1. gen[RankOf[s]] = "idle" <=> gen'[RankOf[s]] = "idle"
    BY <1>1 DEF RouterTypeOK, Ranks
  <2>. QED  BY <1>1, <2>1 DEF ServedAt, TakenEpoch, TakenCount, PerEpoch, PerIter
<1>. QED  BY <1>1, <1>2, WorkerEmits, Stutter

LEMMA PullStep ==
  ASSUME Inv, Inv', NEW t \in Slots, Pull(t)
  PROVE  UNCHANGED Abstract!vars
<1>1. /\ conf' = conf /\ iter' = iter /\ UNCHANGED envVars
      /\ gen' = gen /\ hEpoch' = hEpoch /\ hStep' = hStep /\ hPc' = hPc
  BY DEF Pull, handlerVars
<1>. QED  BY <1>1, ServedKept, WorkerEmits, Stutter

\* The position of a slot whose worker runs.
LEMMA ServedValues ==
  ASSUME Inv, NEW s \in Slots
  PROVE  /\ hEpoch[s] \in Nat /\ hStep[s] \in Nat
         /\ hEpoch[s] * PerEpoch \in Nat /\ iter * PerIter \in Nat
         /\ (hEpoch[s] + 1) * PerEpoch = hEpoch[s] * PerEpoch + PerEpoch
         /\ NumSteps \in Nat /\ PerEpoch = NumSteps + 1
<1>1. SlotOK(s) /\ iter \in Nat
  BY SlotTypes DEF Inv, TypeInv, TypeOK
<1>2. NumSteps \in Nat /\ PerEpoch = NumSteps + 1 /\ PerEpoch \in Nat /\ PerIter \in Nat
  BY <1>1, Sizes, PerEpochType DEF SlotOK, PerEpoch
<1>. QED  BY <1>1, <1>2, Products DEF SlotOK

LEMMA ServedBusy ==
  ASSUME Inv, NEW s \in Slots, hPc[s] \in {"recv", "infer", "reply", "mark", "end"}
  PROVE  /\ gen[RankOf[s]] = "running"
         /\ ServedAt(s) = iter * PerIter + (hEpoch[s] * PerEpoch + hStep[s])
                            + (IF hPc[s] \in {"mark", "end"} THEN 1 ELSE 0)
<1>1. gen[RankOf[s]] = "running"
  BY SlotTypes DEF Inv, OrderInv, SlotInv, Phase, SlotOK
<1>2. CASE hPc[s] = "recv"
  <2>1. ServedAt(s) = iter * PerIter + (hEpoch[s] * PerEpoch + hStep[s]) - 0
    BY <1>1, <1>2 DEF ServedAt, TakenEpoch, TakenCount
  <2>. QED  BY <1>1, <1>2, <2>1, ServedValues
<1>3. CASE hPc[s] \in {"infer", "reply"}
  <2>1. ServedAt(s) = iter * PerIter + (hEpoch[s] * PerEpoch + (hStep[s] + 1)) - 1
    BY <1>1, <1>3 DEF ServedAt, TakenEpoch, TakenCount
  <2>. QED  BY <1>1, <1>3, <2>1, ServedValues
<1>4. CASE hPc[s] \in {"mark", "end"}
  <2>1. ServedAt(s) = iter * PerIter + (hEpoch[s] * PerEpoch + (hStep[s] + 1)) - 0
    BY <1>1, <1>4 DEF ServedAt, TakenEpoch, TakenCount
  <2>. QED  BY <1>1, <1>4, <2>1, ServedValues
<1>. QED  BY <1>2, <1>3, <1>4

\* The two steps of a handler that serve are the answer and the last
\* observation of an epoch.
LEMMA HandlerStep ==
  ASSUME Inv, Inv', NEW s \in Slots, HandlerNext(s)
  PROVE  Abstract!Serve(s) \/ UNCHANGED Abstract!vars
<1>0. /\ conf' = conf /\ iter' = iter /\ UNCHANGED envVars /\ gen' = gen /\ HandlerTypeOK
  BY DEF HandlerNext, HandlerRecv, Infer, HandlerReply, HandlerMark, HandlerFinal,
         HandlerEndEpoch, routerVars, Inv, TypeInv, TypeOK
<1>1. \A t \in Slots : t # s => ServedAt(t)' = ServedAt(t)
  <2> SUFFICES ASSUME NEW t \in Slots, t # s PROVE ServedAt(t)' = ServedAt(t)
    OBVIOUS
  <2>1. hEpoch'[t] = hEpoch[t] /\ hStep'[t] = hStep[t] /\ hPc'[t] = hPc[t]
    BY <1>0 DEF HandlerNext, HandlerRecv, Infer, HandlerReply, HandlerMark, HandlerFinal,
         HandlerEndEpoch, HandlerTypeOK
  <2>. QED  BY <1>0, <2>1, ServedKept
<1>2. PICK b \in Nat : b = iter * PerIter
  BY ServedValues
<1>3. PICK k \in Nat : k = hEpoch[s] * PerEpoch
  BY ServedValues
<1>4. /\ hStep[s] \in Nat /\ NumSteps \in Nat /\ PerEpoch = NumSteps + 1
      /\ (hEpoch[s] + 1) * PerEpoch = k + PerEpoch
  BY <1>3, ServedValues
<1>5. \A e \in Envs : EmittedAt(e)' = EmittedAt(e)
  BY <1>0, WorkerEmits
<1>6. SlotInv(s)
  BY DEF Inv, OrderInv
<1>7. hPc[s] \in {"infer", "reply"} => Unanswered(s) > 0
  BY <1>6, AtWork DEF Inv
<1>8. CASE HandlerRecv(s) \/ Infer(s)
  <2>1. /\ hPc[s] \in {"recv", "infer"} /\ hPc'[s] \in {"infer", "reply"}
        /\ hEpoch'[s] = hEpoch[s] /\ hStep'[s] = hStep[s]
    BY <1>0, <1>8 DEF HandlerRecv, Infer, HandlerTypeOK
  <2>2. ServedAt(s)' = b + (k + (hStep[s] + 1)) - 1
    <3>1. gen'[RankOf[s]] = "running"
      BY <1>0, <2>1, ServedBusy
    <3>. QED  BY <1>0, <1>2, <1>3, <2>1, <3>1 DEF ServedAt, TakenEpoch, TakenCount, PerEpoch, PerIter
  <2>3. ServedAt(s) = b + (k + hStep[s]) + 0
    BY <1>2, <1>3, <2>1, ServedBusy
  <2>4. ServedAt(s)' = ServedAt(s)
    BY <1>4, <2>2, <2>3
  <2>. QED  BY <1>0, <1>1, <1>5, <2>4, Stutter
<1>9. CASE HandlerReply(s) \/ HandlerFinal(s)
  <2>1. /\ hPc[s] = "reply" /\ hPc'[s] \in {"mark", "end"}
        /\ hEpoch'[s] = hEpoch[s] /\ hStep'[s] = hStep[s]
    BY <1>0, <1>9 DEF HandlerReply, HandlerFinal, HandlerTypeOK
  <2>2. ServedAt(s)' = b + (k + (hStep[s] + 1)) - 0
    <3>1. gen'[RankOf[s]] = "running"
      BY <1>0, <2>1, ServedBusy
    <3>. QED  BY <1>0, <1>2, <1>3, <2>1, <3>1 DEF ServedAt, TakenEpoch, TakenCount, PerEpoch, PerIter
  <2>3. ServedAt(s) = b + (k + hStep[s]) + 0
    BY <1>2, <1>3, <2>1, ServedBusy
  <2>4. ServedAt(s)' = ServedAt(s) + 1
    BY <1>4, <2>2, <2>3
  <2>. QED  BY <1>0, <1>1, <1>5, <1>7, <2>1, <2>4, ServeStep
<1>10. CASE HandlerMark(s)
  <2>1. /\ hPc[s] = "mark" /\ hPc'[s] = "recv"
        /\ hEpoch'[s] = hEpoch[s] /\ hStep'[s] = hStep[s] + 1
    BY <1>0, <1>10 DEF HandlerMark, HandlerTypeOK
  <2>2. ServedAt(s)' = b + (k + (hStep[s] + 1)) - 0
    <3>1. gen'[RankOf[s]] = "running"
      BY <1>0, <2>1, ServedBusy
    <3>. QED  BY <1>0, <1>2, <1>3, <2>1, <3>1 DEF ServedAt, TakenEpoch, TakenCount, PerEpoch, PerIter
  <2>3. ServedAt(s) = b + (k + hStep[s]) + 1
    BY <1>2, <1>3, <2>1, ServedBusy
  <2>4. ServedAt(s)' = ServedAt(s)
    BY <1>4, <2>2, <2>3
  <2>. QED  BY <1>0, <1>1, <1>5, <2>4, Stutter
<1>11. CASE HandlerEndEpoch(s)
  <2>1. hPc[s] = "end" /\ hStep[s] = NumSteps
    BY <1>6, <1>11 DEF HandlerEndEpoch, SlotInv, Phase
  <2>2. gen'[RankOf[s]] = "running"
    BY <1>0, <2>1, ServedBusy
  <2>3. ServedAt(s) = b + (k + hStep[s]) + 1
    BY <1>2, <1>3, <2>1, ServedBusy
  <2>4. CASE LastEpoch(hEpoch[s])
    <3>1. hPc'[s] = "done" /\ hEpoch'[s] = hEpoch[s] /\ hStep'[s] = hStep[s]
      BY <1>0, <1>11, <2>4 DEF HandlerEndEpoch, HandlerTypeOK
    <3>2. ServedAt(s)' = b + (k + (hStep[s] + 1)) - 0
      BY <1>0, <1>2, <1>3, <2>2, <3>1 DEF ServedAt, TakenEpoch, TakenCount, PerEpoch, PerIter
    <3>3. ServedAt(s)' = ServedAt(s)
      BY <1>4, <2>3, <3>2
    <3>. QED  BY <1>0, <1>1, <1>5, <3>3, Stutter
  <2>5. CASE ~LastEpoch(hEpoch[s])
    <3>1. hPc'[s] = "recv" /\ hEpoch'[s] = hEpoch[s] + 1 /\ hStep'[s] = 0
      BY <1>0, <1>11, <2>5 DEF HandlerEndEpoch, HandlerTypeOK
    <3>2. ServedAt(s)' = iter * PerIter + ((hEpoch[s] + 1) * PerEpoch + 0) - 0
      BY <1>0, <2>2, <3>1 DEF ServedAt, TakenEpoch, TakenCount, PerEpoch, PerIter
    <3>3. ServedAt(s)' = b + ((k + PerEpoch) + 0) - 0
      BY <1>2, <1>4, <3>2
    <3>4. ServedAt(s)' = ServedAt(s)
      BY <1>4, <2>1, <2>3, <3>3
    <3>. QED  BY <1>0, <1>1, <1>5, <3>4, Stutter
  <2>. QED  BY <2>4, <2>5
<1>. QED  BY <1>8, <1>9, <1>10, <1>11 DEF HandlerNext

\* A new training step starts where the last one ended.
LEMMA IterationStep ==
  ASSUME Inv, Inv', NextIteration
  PROVE  UNCHANGED Abstract!vars
<1>0. /\ conf' = conf /\ iter' = iter + 1 /\ iter \in Nat
      /\ \A e \in Envs : envPc[e] = "done" /\ envPc'[e] = "idle"
      /\ \A r \in Ranks : gen[r] = "done" /\ gen'[r] = "idle"
      /\ hPc' = hPc
  BY DEF NextIteration, AllDone, handlerVars, Inv, TypeInv, TypeOK
<1>1. /\ iter * PerIter \in Nat /\ (iter + 1) * PerIter = iter * PerIter + PerIter
      /\ PerIter = (NumEpochs - 1) * PerEpoch + PerEpoch /\ 0 * PerEpoch = 0
      /\ (NumEpochs - 1) * PerEpoch \in Nat
  <2>1. NumEpochs - 1 \in Nat
    BY FlexRoutingAssumption
  <2>2. ((NumEpochs - 1) + 1) * PerEpoch = (NumEpochs - 1) * PerEpoch + PerEpoch
    BY <2>1, Sizes, Products
  <2>3. (NumEpochs - 1) + 1 = NumEpochs
    BY Sizes
  <2>. QED  BY <1>0, <2>1, <2>2, <2>3, Sizes, Products
<1>2. ASSUME NEW e \in Envs PROVE EmittedAt(e)' = EmittedAt(e)
  <2>1. PICK s \in Slots : EnvOf[s] = e
    BY DEF Envs
  <2>2. envEpoch[e] = NumEpochs - 1
    BY <1>0, <2>1 DEF Inv, OrderInv, SlotInv, Resting
  <2>3. EmittedAt(e) = iter * PerIter + ((NumEpochs - 1) * PerEpoch + PerEpoch)
    BY <1>0, <2>2 DEF EmittedAt, SentEpoch, SentCount
  <2>4. EmittedAt(e)' = (iter + 1) * PerIter + (0 * PerEpoch + 0)
    BY <1>0 DEF EmittedAt, SentEpoch, SentCount, PerEpoch, PerIter
  <2>. QED  BY <1>1, <2>3, <2>4, Sizes
<1>3. ASSUME NEW s \in Slots PROVE ServedAt(s)' = ServedAt(s)
  <2>1. RankOf[s] \in Ranks
    BY DEF Ranks
  <2>2. hPc[s] = "done" /\ hEpoch[s] = NumEpochs - 1 /\ hStep[s] = NumSteps
    BY <1>0, <2>1 DEF Inv, OrderInv, SlotInv, Phase
  <2>3. ServedAt(s) = iter * PerIter + ((NumEpochs - 1) * PerEpoch + (NumSteps + 1)) - 0
    BY <1>0, <2>1, <2>2 DEF ServedAt, TakenEpoch, TakenCount
  <2>4. ServedAt(s)' = (iter + 1) * PerIter + (0 * PerEpoch + 0) - 0
    BY <1>0, <2>1, <2>2 DEF ServedAt, TakenEpoch, TakenCount, PerEpoch, PerIter
  <2>5. PerEpoch = NumSteps + 1
    BY DEF PerEpoch
  <2>. QED  BY <1>1, <2>3, <2>4, <2>5, Sizes
<1>. QED  BY <1>0, <1>2, <1>3, Stutter

LEMMA AbstractInit == Init => Abstract!Init
<1> SUFFICES ASSUME Init PROVE Abstract!Init
  OBVIOUS
<1>1. Inv
  BY InitTypeInv, InitOrder DEF Inv
<1>2. Prefetch \in BOOLEAN
  BY FlexRoutingAssumption DEF Init, Prefetch, Config
<1>3. 0 * PerIter = 0 /\ 0 * PerEpoch = 0
  BY Sizes
<1>4. \A e \in Envs : EmittedAt(e) = 0
  BY <1>3 DEF Init, EmittedAt, SentEpoch, SentCount
<1>5. \A s \in Slots : ServedAt(s) = 0
  BY <1>3 DEF Init, ServedAt, TakenEpoch, TakenCount, Ranks
<1>. QED  BY <1>1, <1>2, <1>4, <1>5, Bars, Sizes DEF Abstract!Init, BarsFit

\* The safety part of LockStep's specification.
LockStepSafety == Abstract!Init /\ [][Abstract!Next]_(Abstract!vars)

(***************************************************************************)
(* The threads, channels, tables and routers of the pipeline implement     *)
(* lock-step service, for every configuration and all values of the        *)
(* constants: a slot is served only what its environment has emitted, in   *)
(* order and once; an environment emits only when all its slots are served *)
(* (one observation earlier at the start of an epoch, with prefetching);   *)
(* and a training step starts only when the one before is served           *)
(* completely.  (That all of it happens in the end is for TLC.)            *)
(***************************************************************************)
THEOREM ServiceInLockStep == Spec => LockStepSafety
<1>1. Inv /\ Inv' /\ [Next]_vars => [Abstract!Next]_(Abstract!vars)
  <2> SUFFICES ASSUME Inv, Inv', [Next]_vars PROVE [Abstract!Next]_(Abstract!vars)
    OBVIOUS
  <2>1. CASE UNCHANGED vars
    BY <2>1, EmittedKept, ServedKept, Stutter DEF vars, envVars, routerVars, handlerVars
  <2>2. ASSUME NEW e \in Envs, EnvNext(e) PROVE [Abstract!Next]_(Abstract!vars)
    BY <2>2, StartInteractStep, SendInitStep, EnvStepStep, RecvActionStep, RecvAckStep, Sizes
       DEF EnvNext, Abstract!Next
  <2>3. ASSUME NEW r \in Ranks, WorkerNext(r) PROVE [Abstract!Next]_(Abstract!vars)
    BY <2>3, StartStep, RouteStep, EndStep DEF WorkerNext
  <2>4. ASSUME NEW s \in Slots, Pull(s) \/ HandlerNext(s) PROVE [Abstract!Next]_(Abstract!vars)
    BY <2>4, PullStep, HandlerStep DEF Abstract!Next
  <2>. QED  BY <2>1, <2>2, <2>3, <2>4, IterationStep DEF Next, Finished
<1>. QED  BY <1>1, AbstractInit, InvAlways, PTL DEF Spec, LockStepSafety

(***************************************************************************)
(* Trajectories: what a handler's records add up to.                       *)
(***************************************************************************)
LEMMA LengthTypes ==
  /\ NumSteps \in Nat /\ NumSteps > 0 /\ PerEpoch \in Nat /\ PerEpoch = NumSteps + 1
  /\ \A k \in Nat : /\ k * PerEpoch \in Nat /\ k * NumSteps \in Nat
                    /\ (k + 1) * PerEpoch = k * PerEpoch + PerEpoch
                    /\ (k + 1) * NumSteps = k * NumSteps + NumSteps
<1>1. NumSteps \in Nat /\ NumSteps > 0 /\ PerEpoch \in Nat /\ PerEpoch = NumSteps + 1
  <2>1. EpochComplete \in Nat
    BY SMT DEF EpochComplete
  <2>. QED  BY <2>1, FlexRoutingAssumption DEF PerEpoch
<1>. QED  BY <1>1, Products

\* One record more.
LEMMA RecordAdds ==
  ASSUME NEW k \in Nat, NEW n \in Nat, n <= NumSteps, NEW m, m.step = n - 1
  PROVE  Recorded(Lengths(k, n), m, n) = Lengths(k, n + 1)
<1>1. PICK d \in Nat, r \in Nat : d = k * PerEpoch /\ r = k * NumSteps
  BY LengthTypes
<1>2. m.step = -1 <=> n = 0
  OBVIOUS
<1>3. /\ d + n + 1 = d + (n + 1)
      /\ r + (IF n = 0 THEN 0 ELSE n - 1) + (IF n = 0 THEN 0 ELSE 1)
           = r + (IF n + 1 = 0 THEN 0 ELSE n + 1 - 1)
      /\ r + (IF n > NumSteps THEN NumSteps ELSE n) + (IF n = NumSteps THEN 0 ELSE 1)
           = r + (IF n + 1 > NumSteps THEN NumSteps ELSE n + 1)
  BY <1>1, LengthTypes
<1>. QED  BY <1>1, <1>2, <1>3 DEF Recorded, Lengths

\* An epoch is complete after its last record, and a new one has none.
LEMMA EpochAdds ==
  ASSUME NEW k \in Nat
  PROVE  Lengths(k, PerEpoch) = Lengths(k + 1, 0)
<1>1. PICK d \in Nat, r \in Nat : d = k * PerEpoch /\ r = k * NumSteps
  BY LengthTypes
<1>2. /\ d + PerEpoch = (k + 1) * PerEpoch + 0
      /\ r + (IF PerEpoch = 0 THEN 0 ELSE PerEpoch - 1) = (k + 1) * NumSteps + (IF 0 = 0 THEN 0 ELSE 0 - 1)
      /\ r + (IF PerEpoch > NumSteps THEN NumSteps ELSE PerEpoch)
           = (k + 1) * NumSteps + (IF 0 > NumSteps THEN NumSteps ELSE 0)
  BY <1>1, LengthTypes
<1>. QED  BY <1>1, <1>2 DEF Lengths

LEMMA EmptyLengths == EmptyBuf = Lengths(0, 0)
<1>1. 0 * PerEpoch + 0 = 0 /\ 0 * NumSteps + 0 = 0 /\ ~(0 > NumSteps)
  BY LengthTypes
<1>. QED  BY <1>1 DEF EmptyBuf, Lengths

LEMMA InitShip == Init => ShipInv
<1> SUFFICES ASSUME Init, NEW s \in Slots PROVE BufferFits(s) /\ ShippedFits(s)
  BY DEF ShipInv
<1>1. gen[RankOf[s]] = "idle" /\ sent[s] = <<>> /\ iter = 0
  BY DEF Init, Ranks
<1>2. 0 = 0 * ShipsPerIter + 0
  BY Sizes DEF ShipsPerIter
<1>3. Shipped(s) = 0
  BY <1>1 DEF Shipped
<1>. QED  BY <1>1, <1>2, <1>3 DEF BufferFits, ShippedFits

\* Steps that record and ship nothing.
LEMMA ShipKept ==
  ASSUME NEW s \in Slots, BufferFits(s), ShippedFits(s), conf' = conf, iter' = iter,
         gen'[RankOf[s]] = gen[RankOf[s]], hEpoch'[s] = hEpoch[s],
         buf'[s] = buf[s], sent'[s] = sent[s],
         Recordings(s)' = Recordings(s), hPc'[s] = "done" <=> hPc[s] = "done"
  PROVE  BufferFits(s)' /\ ShippedFits(s)'
<1>1. Pipeline' = Pipeline /\ ShipsPerIter' = ShipsPerIter
  BY DEF Pipeline, ShipsPerIter
<1>2. BufferFits(s)'
  BY <1>1 DEF BufferFits, Lengths, PerEpoch
<1>3. Shipped(s)' = Shipped(s)
  BY <1>1 DEF Shipped
<1>4. ShippedFits(s)'
  BY <1>1, <1>3 DEF ShippedFits, Lengths, PerEpoch
<1>. QED  BY <1>2, <1>4

LEMMA ShippedKept ==
  ASSUME NEW s \in Slots, ShippedFits(s), conf' = conf, iter' = iter,
         sent'[s] = sent[s], Shipped(s)' = Shipped(s)
  PROVE  ShippedFits(s)'
<1>1. Pipeline' = Pipeline /\ ShipsPerIter' = ShipsPerIter
  BY DEF Pipeline, ShipsPerIter
<1>. QED  BY <1>1 DEF ShippedFits, Lengths, PerEpoch

\* One trajectory is shipped: the next of this training step.
LEMMA ShipOne ==
  ASSUME TypeInv, NEW s \in Slots, ShippedFits(s), conf' = conf, iter' = iter,
         NEW m \in Trajectory, sent'[s] = Append(sent[s], m),
         Shipped(s) \in Nat, Shipped(s) < ShipsPerIter, Shipped(s)' = Shipped(s) + 1,
         m.data = Lengths(IF Pipeline = "async" THEN 1 ELSE NumEpochs, 0), m.it = iter,
         Pipeline = "async" => m.epoch = Shipped(s)
  PROVE  ShippedFits(s)'
<1>1. Pipeline' = Pipeline /\ ShipsPerIter' = ShipsPerIter /\ ShipsPerIter \in Nat
  BY Sizes DEF Pipeline, ShipsPerIter
<1>2. sent[s] \in Seq(Trajectory) /\ iter \in Nat
  BY DEF TypeInv, TypeOK, DataTypeOK
<1>3. PICK n \in Nat : n = Len(sent[s])
  BY <1>2
<1>4. PICK x \in Nat : x = Shipped(s)
  OBVIOUS
<1>5. n = iter * ShipsPerIter + x /\ x < ShipsPerIter /\ iter * ShipsPerIter \in Nat
  BY <1>1, <1>2, <1>3, <1>4, Products DEF ShippedFits
<1>6. n \div ShipsPerIter = iter /\ n % ShipsPerIter = x
  <2>1. PICK q \in Nat, p \in Nat : q = iter /\ p = ShipsPerIter
    BY <1>1, <1>2
  <2>2. n = q * p + x /\ x < p
    BY <1>5, <2>1, Zenon
  <2>3. (q * p + x) % p = x /\ (q * p + x) \div p = q
    BY ONLY <2>2, q \in Nat, p \in Nat, x \in Nat, Remainder, Zenon
  <2>. QED  BY <2>1, <2>2, <2>3, Zenon
<1>7. Len(sent'[s]) = n + 1 /\ sent'[s][n + 1] = m /\ \A i \in 1 .. n : sent'[s][i] = sent[s][i]
  BY <1>2, <1>3
<1>8. Len(sent'[s]) = iter' * ShipsPerIter' + Shipped(s)'
  BY <1>1, <1>4, <1>5, <1>7
<1>9. ASSUME NEW i \in 1 .. n + 1
      PROVE  /\ sent'[s][i].data = Lengths(IF Pipeline = "async" THEN 1 ELSE NumEpochs, 0)
             /\ sent'[s][i].it = (i - 1) \div ShipsPerIter
             /\ Pipeline = "async" => sent'[s][i].epoch = (i - 1) % ShipsPerIter
  <2>1. CASE i = n + 1
    <3>1. i - 1 = n
      BY <2>1
    <3>. QED  BY <1>4, <1>6, <1>7, <2>1, <3>1
  <2>2. CASE i # n + 1
    <3>1. i \in 1 .. Len(sent[s]) /\ i \in 1 .. n
      BY <1>3, <2>2
    <3>. QED  BY <1>7, <3>1 DEF ShippedFits
  <2>. QED  BY <2>1, <2>2
<1>. QED  BY <1>1, <1>7, <1>8, <1>9 DEF ShippedFits, Lengths, PerEpoch

LEMMA HandlerShip ==
  ASSUME Inv, NEW s \in Slots, HandlerNext(s), BufferFits(s), ShippedFits(s)
  PROVE  BufferFits(s)' /\ ShippedFits(s)'
<1>0. /\ conf' = conf /\ iter' = iter /\ gen' = gen /\ HandlerTypeOK /\ DataTypeOK
      /\ Pipeline' = Pipeline /\ ShipsPerIter' = ShipsPerIter
  BY DEF HandlerNext, HandlerRecv, Infer, HandlerReply, HandlerMark, HandlerFinal,
         HandlerEndEpoch, routerVars, Inv, TypeInv, TypeOK, Pipeline, ShipsPerIter
<1>1. SlotOK(s) /\ SlotInv(s) /\ hStep[s] \in Nat /\ hEpoch[s] \in Nat
  BY SlotTypes DEF Inv, OrderInv, SlotOK
<1>2. CASE HandlerRecv(s) \/ Infer(s)
  <2>1. /\ hPc[s] \in {"recv", "infer"} /\ hPc'[s] \in {"infer", "reply"}
        /\ hEpoch' = hEpoch /\ hStep' = hStep /\ buf' = buf /\ sent' = sent
    BY <1>0, <1>2 DEF HandlerRecv, Infer, HandlerTypeOK, dataVars
  <2>2. Recordings(s)' = Recordings(s)
    BY <2>1 DEF Recordings
  <2>. QED  BY <1>0, <2>1, <2>2, ShipKept
<1>3. CASE HandlerMark(s)
  <2>1. /\ hPc[s] = "mark" /\ hPc'[s] = "recv"
        /\ hEpoch' = hEpoch /\ hStep'[s] = hStep[s] + 1 /\ buf' = buf /\ sent' = sent
    BY <1>0, <1>3 DEF HandlerMark, HandlerTypeOK, dataVars
  <2>2. Recordings(s)' = Recordings(s)
    BY <1>1, <2>1 DEF Recordings
  <2>. QED  BY <1>0, <2>1, <2>2, ShipKept
<1>4. CASE HandlerReply(s) \/ HandlerFinal(s)
  <2>1. /\ hPc[s] = "reply" /\ hPc'[s] \in {"mark", "end"}
        /\ hEpoch' = hEpoch /\ hStep' = hStep /\ sent' = sent
        /\ buf'[s] = Recorded(buf[s], hMsg[s], hStep[s])
    BY <1>0, <1>4 DEF HandlerReply, HandlerFinal, HandlerTypeOK, DataTypeOK
  <2>2. Recordings(s) = hStep[s] /\ Recordings(s)' = hStep[s] + 1
    BY <1>1, <2>1 DEF Recordings
  <2>3. hMsg[s].step = hStep[s] - 1 /\ hStep[s] <= NumSteps
    BY <1>1, <2>1 DEF SlotInv, InHand, Busy, Obs, SlotOK
  <2>4. \A k \in Nat : buf[s] = Lengths(k, hStep[s]) => buf'[s] = Lengths(k, hStep[s] + 1)
    BY <1>1, <2>1, <2>3, RecordAdds
  <2>5. BufferFits(s)'
    <3>1. 0 \in Nat
      OBVIOUS
    <3>2. ASSUME gen[RankOf[s]] = "running", Pipeline = "sync"
          PROVE  buf'[s] = Lengths(hEpoch[s], hStep[s] + 1)
      BY <1>1, <2>2, <2>4, <3>2 DEF BufferFits
    <3>3. ASSUME gen[RankOf[s]] = "running", Pipeline = "async"
          PROVE  buf'[s] = Lengths(0, hStep[s] + 1)
      BY <2>1, <2>2, <2>4, <3>1, <3>3 DEF BufferFits
    <3>. QED  BY <1>0, <2>1, <2>2, <3>2, <3>3 DEF BufferFits, Lengths, PerEpoch
  <2>6. Shipped(s)' = Shipped(s)
    BY <1>0, <2>1 DEF Shipped
  <2>. QED  BY <1>0, <2>1, <2>5, <2>6, ShippedKept
<1>5. CASE HandlerEndEpoch(s)
  <2>1. /\ hPc[s] = "end" /\ hStep[s] = NumSteps /\ gen[RankOf[s]] = "running"
    BY <1>1, <1>5 DEF HandlerEndEpoch, SlotInv, Phase, SlotOK
  <2>2. Recordings(s) = PerEpoch
    BY <2>1 DEF Recordings, PerEpoch
  <2>3. /\ Pipeline = "sync" => buf[s] = Lengths(hEpoch[s], PerEpoch)
        /\ Pipeline = "async" => buf[s] = Lengths(0, PerEpoch)
    BY <2>1, <2>2 DEF BufferFits
  <2>4. Pipeline \in {"sync", "async"}
    BY FlexRoutingAssumption DEF Inv, TypeInv, TypeOK, Config, Pipeline
  <2> DEFINE m == [it |-> iter, epoch |-> hEpoch[s], data |-> buf[s]]
  <2>5. sent'[s] = IF Pipeline = "async" THEN Append(sent[s], m) ELSE sent[s]
    BY <1>0, <1>5 DEF HandlerEndEpoch, DataTypeOK
  <2>6. ASSUME LastEpoch(hEpoch[s]) PROVE BufferFits(s)'
    <3>1. /\ hPc'[s] = "done" /\ hEpoch'[s] = hEpoch[s] /\ hStep'[s] = hStep[s] /\ buf'[s] = buf[s]
          /\ hEpoch[s] = NumEpochs - 1
      BY <1>0, <1>5, <2>6 DEF HandlerEndEpoch, HandlerTypeOK, DataTypeOK, LastEpoch
    <3>2. Recordings(s)' = Recordings(s)
      BY <2>1, <3>1 DEF Recordings
    <3>3. BufferFits(s)'
      <4>1. Pipeline = "sync" => buf'[s] = Lengths(hEpoch'[s], Recordings(s)')
        BY <2>2, <2>3, <3>1, <3>2
      <4>. QED  BY <1>0, <2>4, <3>1, <4>1 DEF BufferFits, Lengths, PerEpoch
    <3>. QED  BY <3>3
  <2>7. ASSUME ~LastEpoch(hEpoch[s]) PROVE BufferFits(s)'
    <3>1. /\ hPc'[s] = "recv" /\ hEpoch'[s] = hEpoch[s] + 1 /\ hStep'[s] = 0
          /\ buf'[s] = IF Pipeline = "async" THEN EmptyBuf ELSE buf[s]
      BY <1>0, <1>5, <2>7 DEF HandlerEndEpoch, HandlerTypeOK, DataTypeOK
    <3>2. Recordings(s)' = 0
      BY <3>1 DEF Recordings
    <3>3. Lengths(hEpoch[s], PerEpoch) = Lengths(hEpoch[s] + 1, 0)
      BY <1>1, EpochAdds
    <3>4. Pipeline = "sync" => buf'[s] = Lengths(hEpoch[s] + 1, 0)
      BY <2>3, <3>1, <3>3
    <3>5. Pipeline = "async" => buf'[s] = Lengths(0, 0)
      BY <3>1, EmptyLengths
    <3>6. /\ Pipeline = "sync" => buf'[s] = Lengths(hEpoch'[s], Recordings(s)')
          /\ Pipeline = "async" => buf'[s] = Lengths(0, Recordings(s)')
      BY <3>1, <3>2, <3>4, <3>5
    <3>. QED  BY <1>0, <3>6 DEF BufferFits, Lengths, PerEpoch
  <2>8. BufferFits(s)'
    BY <2>6, <2>7
  <2>9. CASE Pipeline = "sync"
    <3>1. Shipped(s)' = Shipped(s)
      BY <1>0, <2>9 DEF Shipped
    <3>2. sent'[s] = sent[s]
      BY <2>5, <2>9
    <3>. QED  BY <1>0, <2>8, <3>1, <3>2, ShippedKept
  <2>10. CASE Pipeline = "async"
    <3>1. Shipped(s) = hEpoch[s]
      BY <2>1, <2>10 DEF Shipped
    <3>2. Shipped(s)' = hEpoch[s] + 1
      <4>1. CASE LastEpoch(hEpoch[s])
        <5>1. hPc'[s] = "done" /\ hEpoch[s] = NumEpochs - 1
          BY <1>0, <1>5, <4>1 DEF HandlerEndEpoch, HandlerTypeOK, LastEpoch
        <5>2. hEpoch[s] + 1 = NumEpochs
          BY <1>1, <5>1, Sizes
        <5>. QED  BY <1>0, <2>1, <2>10, <5>1, <5>2 DEF Shipped
      <4>2. CASE ~LastEpoch(hEpoch[s])
        <5>1. hPc'[s] = "recv" /\ hEpoch'[s] = hEpoch[s] + 1
          BY <1>0, <1>5, <4>2 DEF HandlerEndEpoch, HandlerTypeOK
        <5>. QED  BY <1>0, <2>1, <2>10, <5>1 DEF Shipped
      <4>. QED  BY <4>1, <4>2
    <3>3. hEpoch[s] < ShipsPerIter
      BY <1>1, <2>10 DEF ShipsPerIter, SlotOK
    <3>4. m \in Trajectory
      BY <1>0 DEF Trajectory, DataTypeOK, HandlerTypeOK, Inv, TypeInv, TypeOK
    <3>5. buf[s] = Lengths(1, 0)
      <4>1. Lengths(0, PerEpoch) = Lengths(0 + 1, 0)
        BY EpochAdds
      <4>. QED  BY <2>3, <2>10, <4>1
    <3>6. /\ m.data = Lengths(IF Pipeline = "async" THEN 1 ELSE NumEpochs, 0) /\ m.it = iter
          /\ m.epoch = Shipped(s)
      BY <2>10, <3>1, <3>5
    <3>7. sent'[s] = Append(sent[s], m)
      BY <2>5, <2>10
    <3> HIDE DEF m
    <3>8. TypeInv /\ Shipped(s) \in Nat /\ Shipped(s) < ShipsPerIter /\ Shipped(s)' = Shipped(s) + 1
      BY <1>1, <3>1, <3>2, <3>3 DEF Inv
    <3>. QED  BY <1>0, <2>8, <3>4, <3>6, <3>7, <3>8, ShipOne
  <2>. QED  BY <2>4, <2>9, <2>10
<1>. QED  BY <1>2, <1>3, <1>4, <1>5 DEF HandlerNext

LEMMA StartShip ==
  ASSUME Inv, NEW r \in Ranks, StartGenerate(r), NEW s \in Slots, BufferFits(s), ShippedFits(s)
  PROVE  BufferFits(s)' /\ ShippedFits(s)'
<1>0. /\ conf' = conf /\ iter' = iter /\ RouterTypeOK /\ sent' = sent
      /\ Pipeline' = Pipeline
  BY DEF StartGenerate, Inv, TypeInv, TypeOK, Pipeline
<1>1. CASE RankOf[s] = r
  <2>1. /\ gen[RankOf[s]] = "idle" /\ gen'[RankOf[s]] = "running" /\ buf'[s] = EmptyBuf
        /\ hPc'[s] = "recv" /\ hEpoch'[s] = 0 /\ hStep'[s] = 0
    BY <1>0, <1>1 DEF StartGenerate, RouterTypeOK
  <2>2. Recordings(s)' = 0
    BY <2>1 DEF Recordings
  <2>3. BufferFits(s)'
    BY <2>1, <2>2, EmptyLengths DEF BufferFits, Lengths, PerEpoch
  <2>4. Shipped(s)' = Shipped(s)
    BY <1>0, <2>1 DEF Shipped
  <2>. QED  BY <1>0, <2>3, <2>4, ShippedKept
<1>2. CASE RankOf[s] # r
  <2>1. /\ gen'[RankOf[s]] = gen[RankOf[s]] /\ hPc'[s] = hPc[s] /\ hEpoch'[s] = hEpoch[s]
        /\ hStep'[s] = hStep[s] /\ buf'[s] = buf[s]
    BY <1>0, <1>2 DEF StartGenerate, RouterTypeOK, Ranks
  <2>2. Recordings(s)' = Recordings(s)
    BY <2>1 DEF Recordings
  <2>. QED  BY <1>0, <2>1, <2>2, ShipKept
<1>. QED  BY <1>1, <1>2

LEMMA EndShip ==
  ASSUME Inv, NEW r \in Ranks, EndGenerate(r), NEW s \in Slots, BufferFits(s), ShippedFits(s)
  PROVE  BufferFits(s)' /\ ShippedFits(s)'
<1>0. /\ conf' = conf /\ iter' = iter /\ RouterTypeOK /\ DataTypeOK /\ buf' = buf
      /\ hPc' = hPc /\ hEpoch' = hEpoch /\ hStep' = hStep /\ gen[r] = "running"
      /\ gen' = [gen EXCEPT ![r] = "done"] /\ Pipeline' = Pipeline
  BY DEF EndGenerate, handlerVars, Inv, TypeInv, TypeOK, Pipeline
<1>1. CASE RankOf[s] # r
  <2>1. gen'[RankOf[s]] = gen[RankOf[s]] /\ sent'[s] = sent[s]
    BY <1>0, <1>1 DEF EndGenerate, RouterTypeOK, Ranks
  <2>2. Recordings(s)' = Recordings(s)
    BY <1>0 DEF Recordings
  <2>. QED  BY <1>0, <2>1, <2>2, ShipKept
<1>2. CASE RankOf[s] = r
  <2> DEFINE m == [it |-> iter, epoch |-> NumEpochs - 1, data |-> buf[s]]
  <2>1. /\ gen'[RankOf[s]] = "done" /\ gen[RankOf[s]] = "running" /\ hPc[s] = "done"
    BY <1>0, <1>2 DEF EndGenerate, RouterTypeOK, SlotsOfRank
  <2>2. sent'[s] = IF Pipeline = "sync" THEN Append(sent[s], m) ELSE sent[s]
    BY <1>2 DEF EndGenerate
  <2>3. BufferFits(s)'
    BY <2>1 DEF BufferFits
  <2>4. CASE Pipeline = "async"
    <3>1. Shipped(s)' = Shipped(s)
      BY <1>0, <2>1, <2>4 DEF Shipped
    <3>2. sent'[s] = sent[s]
      BY <2>2, <2>4
    <3>. QED  BY <1>0, <2>3, <3>1, <3>2, ShippedKept
  <2>5. CASE Pipeline = "sync"
    <3>1. hEpoch[s] = NumEpochs - 1 /\ hStep[s] = NumSteps
      BY <2>1 DEF Inv, OrderInv, SlotInv, Phase
    <3>2. Recordings(s) = PerEpoch
      BY <2>1, <3>1 DEF Recordings, PerEpoch
    <3>3. buf[s] = Lengths(NumEpochs - 1, PerEpoch)
      BY <2>1, <2>5, <3>1, <3>2 DEF BufferFits
    <3>4. buf[s] = Lengths(NumEpochs, 0)
      <4>1. NumEpochs - 1 \in Nat /\ (NumEpochs - 1) + 1 = NumEpochs
        BY FlexRoutingAssumption
      <4>2. Lengths(NumEpochs - 1, PerEpoch) = Lengths((NumEpochs - 1) + 1, 0)
        BY <4>1, EpochAdds
      <4>. QED  BY <3>3, <4>1, <4>2
    <3>5. m \in Trajectory
      BY <1>0, FlexRoutingAssumption DEF Trajectory, DataTypeOK, Inv, TypeInv, TypeOK
    <3>6. /\ Shipped(s) = 0 /\ Shipped(s)' = 1 /\ ShipsPerIter = 1
      BY <1>0, <2>1, <2>5 DEF Shipped, ShipsPerIter
    <3>7. m.data = Lengths(IF Pipeline = "async" THEN 1 ELSE NumEpochs, 0) /\ m.it = iter
      BY <2>5, <3>4
    <3>8. sent'[s] = Append(sent[s], m) /\ Pipeline # "async"
      BY <2>2, <2>5
    <3> HIDE DEF m
    <3>9. TypeInv /\ Shipped(s) \in Nat /\ Shipped(s) < ShipsPerIter /\ Shipped(s)' = Shipped(s) + 1
      BY <3>6 DEF Inv
    <3>. QED  BY <1>0, <2>3, <3>5, <3>7, <3>8, <3>9, ShipOne
  <2>6. Pipeline \in {"sync", "async"}
    BY FlexRoutingAssumption DEF Inv, TypeInv, TypeOK, Config, Pipeline
  <2>. QED  BY <2>4, <2>5, <2>6
<1>. QED  BY <1>1, <1>2

LEMMA IterationShip ==
  ASSUME Inv, NextIteration, NEW s \in Slots, ShippedFits(s)
  PROVE  BufferFits(s)' /\ ShippedFits(s)'
<1>1. /\ conf' = conf /\ iter' = iter + 1 /\ sent' = sent /\ iter \in Nat
      /\ gen[RankOf[s]] = "done" /\ gen'[RankOf[s]] = "idle"
      /\ Pipeline' = Pipeline /\ ShipsPerIter' = ShipsPerIter
  BY DEF NextIteration, AllDone, dataVars, Ranks, Inv, TypeInv, TypeOK, Pipeline, ShipsPerIter
<1>2. hPc[s] = "done"
  BY <1>1 DEF Inv, OrderInv, SlotInv, Phase
<1>3. Shipped(s) = ShipsPerIter /\ Shipped(s)' = 0 /\ ShipsPerIter \in Nat
  BY <1>1, <1>2, Sizes DEF Shipped, ShipsPerIter
<1>4. iter * ShipsPerIter + ShipsPerIter = (iter + 1) * ShipsPerIter + 0
  BY <1>1, <1>3, Products
<1>5. Len(sent'[s]) = iter' * ShipsPerIter' + Shipped(s)'
  BY <1>1, <1>3, <1>4 DEF ShippedFits
<1>6. ShippedFits(s)'
  BY <1>1, <1>5 DEF ShippedFits, Lengths, PerEpoch
<1>7. BufferFits(s)'
  BY <1>1 DEF BufferFits
<1>. QED  BY <1>6, <1>7

LEMMA ShipStep ==
  ASSUME Inv, ShipInv, [Next]_vars
  PROVE  ShipInv'
<1> SUFFICES ASSUME NEW s \in Slots PROVE BufferFits(s)' /\ ShippedFits(s)'
  BY DEF ShipInv
<1>0. BufferFits(s) /\ ShippedFits(s)
  BY DEF ShipInv
<1>1. ASSUME UNCHANGED <<conf, iter, gen, hPc, hEpoch, hStep, buf, sent>>
      PROVE  BufferFits(s)' /\ ShippedFits(s)'
  <2>1. Recordings(s)' = Recordings(s)
    BY <1>1 DEF Recordings
  <2>. QED  BY <1>0, <1>1, <2>1, ShipKept
<1>2. CASE UNCHANGED vars
  BY <1>1, <1>2 DEF vars, routerVars, handlerVars, dataVars
<1>3. CASE Finished
  BY <1>2, <1>3 DEF Finished
<1>4. ASSUME NEW e \in Envs, EnvNext(e) PROVE BufferFits(s)' /\ ShippedFits(s)'
  BY <1>1, <1>4 DEF EnvNext, StartInteract, SendInit, EnvStep, RecvAck, RecvAction,
     routerVars, handlerVars, dataVars
<1>5. ASSUME NEW r \in Ranks, WorkerNext(r) PROVE BufferFits(s)' /\ ShippedFits(s)'
  <2>1. CASE Route(r)
    BY <1>1, <2>1 DEF Route, RouteRoundRobin, RouteGreedy, RouteEnvGroup, RouteGroup,
       handlerVars, dataVars
  <2>. QED  BY <1>0, <1>5, <2>1, StartShip, EndShip DEF WorkerNext
<1>6. ASSUME NEW t \in Slots, Pull(t) PROVE BufferFits(s)' /\ ShippedFits(s)'
  BY <1>1, <1>6 DEF Pull, handlerVars, dataVars
<1>7. ASSUME NEW t \in Slots, HandlerNext(t) PROVE BufferFits(s)' /\ ShippedFits(s)'
  <2>1. CASE s = t
    BY <1>0, <1>7, <2>1, HandlerShip
  <2>2. CASE s # t
    <3>1. /\ conf' = conf /\ iter' = iter /\ gen' = gen /\ HandlerTypeOK /\ DataTypeOK
      BY <1>7 DEF HandlerNext, HandlerRecv, Infer, HandlerReply, HandlerMark, HandlerFinal,
         HandlerEndEpoch, routerVars, Inv, TypeInv, TypeOK
    <3>2. /\ hPc'[s] = hPc[s] /\ hEpoch'[s] = hEpoch[s] /\ hStep'[s] = hStep[s]
          /\ buf'[s] = buf[s] /\ sent'[s] = sent[s]
      BY <1>7, <2>2, <3>1 DEF HandlerNext, HandlerRecv, Infer, HandlerReply, HandlerMark, HandlerFinal,
         HandlerEndEpoch, HandlerTypeOK, DataTypeOK, dataVars
    <3>3. Recordings(s)' = Recordings(s)
      BY <3>2 DEF Recordings
    <3>. QED  BY <1>0, <3>1, <3>2, <3>3, ShipKept
  <2>. QED  BY <2>1, <2>2
<1>. QED  BY <1>0, <1>2, <1>3, <1>4, <1>5, <1>6, <1>7, IterationShip DEF Next

(***************************************************************************)
(* Every trajectory handed to the trainer is complete, and the             *)
(* trajectories of a slot are those of all its epochs (with the            *)
(* synchronous trainer, of all its training steps), in order: an epoch     *)
(* gives NumSteps rewards, inputs and logprobs, and NumSteps + 1 dones and *)
(* values.                                                                 *)
(***************************************************************************)
THEOREM ShippedComplete == Spec => []TrajectoriesComplete
<1>1. ShipInv => TrajectoriesComplete
  <2> SUFFICES ASSUME ShipInv, NEW s \in Slots, NEW i \in 1 .. Len(sent[s])
               PROVE  LET k == IF Pipeline = "async" THEN 1 ELSE NumEpochs
                          perIter == IF Pipeline = "async" THEN NumEpochs ELSE 1
                      IN /\ sent[s][i].data =
                              [dones |-> k * (NumSteps + 1), rewards |-> k * NumSteps,
                               inputs |-> k * NumSteps, values |-> k * (NumSteps + 1),
                               logprobs |-> k * NumSteps]
                         /\ sent[s][i].it = (i - 1) \div perIter
                         /\ Pipeline = "async" => sent[s][i].epoch = (i - 1) % perIter
    BY DEF TrajectoriesComplete
  <2> DEFINE k == IF Pipeline = "async" THEN 1 ELSE NumEpochs
  <2>1. /\ sent[s][i].data = Lengths(k, 0)
        /\ sent[s][i].it = (i - 1) \div ShipsPerIter
        /\ Pipeline = "async" => sent[s][i].epoch = (i - 1) % ShipsPerIter
    BY DEF ShipInv, ShippedFits
  <2>2. k \in Nat
    BY Sizes
  <2> HIDE DEF k
  <2>3. /\ k * PerEpoch + 0 = k * (NumSteps + 1) /\ k * NumSteps + 0 = k * NumSteps
        /\ ~(0 > NumSteps)
    BY <2>2, LengthTypes
  <2>4. Lengths(k, 0) = [dones |-> k * (NumSteps + 1), rewards |-> k * NumSteps,
                         inputs |-> k * NumSteps, values |-> k * (NumSteps + 1),
                         logprobs |-> k * NumSteps]
    BY <2>3 DEF Lengths
  <2>. QED  BY <2>1, <2>4 DEF ShipsPerIter, k
<1>2. Init => Inv /\ ShipInv
  BY InitTypeInv, InitOrder, InitShip DEF Inv
<1>3. Inv /\ ShipInv /\ [Next]_vars => (Inv /\ ShipInv)'
  BY InvInductive, ShipStep
<1>. QED  BY <1>1, <1>2, <1>3, PTL DEF Spec
=============================================================================
