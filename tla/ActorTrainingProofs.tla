------------------------ MODULE ActorTrainingProofs ------------------------
(***************************************************************************)
(* Theorems about ActorTraining, for every configuration: any number of    *)
(* slots, actors, epochs, passes and training steps, every target batch    *)
(* and group size, all three loops.                                        *)
(*                                                                         *)
(* CountInv counts messages.  Arrived(w) is the set of the messages of     *)
(* this training step that have reached actor w; it grows with every       *)
(* arrival, has as many members as the actor has received and still has    *)
(* queued, and never more than PerCall, which is what the actor counts on  *)
(* because the split makes the number of pieces a multiple of the number   *)
(* of actors.  It holds of every configuration.                            *)
(*                                                                         *)
(* The other invariants are about configurations whose trajectories are    *)
(* all cut into pieces of one size: with an uneven cut the actors of a     *)
(* collective stand at slices of different sizes.  Together says that the  *)
(* actors gather a round each at its own pace, train in lockstep, or end.  *)
(* SampleInv keeps the account of an actor's samples: applied, accumulated *)
(* and still to go through make up what it received.  ReduceInv says what  *)
(* a step applies is reduced, given that updates and groups come out even. *)
(***************************************************************************)
EXTENDS ActorTraining, SetSeqLemmas, SequenceTheorems

-----------------------------------------------------------------------------
(***************************************************************************)
(* Configurations: the messages an actor counts on are those sent to it.   *)
(***************************************************************************)

\* Pieces cut in an epoch, and how many an actor gets of them in an epoch, in
\* a call of its loop and in a round; a call consists of Rounds rounds.
Total == NumSlots * SplitNum
PerEpoch == Total \div NumActors
PerCall == NumEpochs * PerEpoch
Round == IF Loop = "stream" THEN 1 ELSE PerEpoch
Rounds == IF Loop = "stream" THEN PerCall ELSE NumEpochs

\* What math.lcm returns.
LEMMA LcmDivides ==
  ASSUME NEW a \in Nat \ {0}, NEW b \in Nat \ {0}
  PROVE  /\ Lcm(a, b) \in Nat \ {0}
         /\ Lcm(a, b) % a = 0 /\ Lcm(a, b) % b = 0
BY LeastMultiple DEF Lcm

\* The parts of a configuration.
LEMMA ConfType ==
  ASSUME conf \in Configs
  PROVE  /\ NumEpochs \in Positive /\ NumSlots \in Positive /\ NumActors \in Positive
         /\ SplitNum \in Positive /\ TargetBatch \in Positive /\ MicroBatch \in Positive
         /\ UpdateEpoch \in Positive /\ GroupSize \in Positive
         /\ Loop \in {"epoch", "accumulate", "stream"}
         /\ conf.batch \in Seq(Positive) /\ Len(conf.batch) = NumSlots
         /\ SplitNum = ComputeSplitNum(NumActors, NumSlots)
<1>1. conf \in Config /\ Len(conf.batch) = conf.slots /\ conf.split = ComputeSplitNum(conf.actors, conf.slots)
  BY ActorTrainingAssumption
<1>. QED  BY <1>1, ActorTrainingAssumption
          DEF Config, NumSlots, NumActors, SplitNum, TargetBatch, MicroBatch, UpdateEpoch, GroupSize, Loop

\* compute_split_num: the pieces of an epoch are shared out evenly.
LEMMA TotalType ==
  ASSUME conf \in Configs
  PROVE  /\ Total \in Positive /\ Total % NumActors = 0
         /\ PerEpoch \in Positive /\ Total = PerEpoch * NumActors
<1>1. PICK a \in Nat \ {0}, n \in Nat \ {0} : a = NumActors /\ n = NumSlots
  BY ConfType DEF Positive
<1>2. PICK l \in Nat \ {0} : l = Lcm(a, n) /\ l % a = 0 /\ l % n = 0
  BY LcmDivides
<1>3. SplitNum = l \div n
  BY <1>1, <1>2, ConfType DEF ComputeSplitNum
<1>4. l = (l \div n) * n /\ l \div n \in Nat
  BY <1>2, Divides
<1>5. Total = l
  BY <1>1, <1>3, <1>4 DEF Total
<1>6. l = (l \div a) * a /\ l \div a \in Nat
  BY <1>2, Divides
<1>7. l \div a # 0
  BY <1>6
<1>. QED  BY <1>1, <1>2, <1>5, <1>6, <1>7 DEF PerEpoch, Positive

\* An actor counts on PerEpoch messages an epoch, whatever its rank.
LEMMA CallType ==
  ASSUME conf \in Configs
  PROVE  /\ PerCall \in Positive /\ Round \in Positive /\ Rounds \in Nat /\ PerCall = Rounds * Round
         /\ \A w \in Actors : /\ MessagesPerEpoch(w) = PerEpoch /\ RoundLength(w) = Round
                              /\ TotalMessages(w) = PerCall
<1>1. PICK e \in Nat \ {0}, p \in Nat \ {0} : e = NumEpochs /\ p = PerEpoch
  BY ConfType, TotalType DEF Positive
<1>2. e * p \in Nat \ {0} /\ PerCall = e * p
  BY <1>1 DEF PerCall
<1>3. Round \in Positive /\ Rounds \in Nat /\ PerCall = Rounds * Round
  BY <1>1, <1>2 DEF Round, Rounds, Positive
<1>4. ASSUME NEW w \in Actors
      PROVE  MessagesPerEpoch(w) = PerEpoch
  <2>1. w \in Nat /\ ~(w < 0)
    BY ConfType DEF Actors, Positive
  <2>. QED  BY <2>1, <1>1, TotalType DEF MessagesPerEpoch, PerEpoch, Total
<1>. QED  BY <1>2, <1>3, <1>4 DEF RoundLength, Round, TotalMessages, PerCall, Positive

\* The slots and pieces whose messages go to an actor.
Sources(w) == {p \in Slots \X Pieces : TargetActor(p[1], p[2]) = w}

\* As many slots and pieces have an actor for their target: those whose number
\* is w modulo the number of actors.
LEMMA SourcesCount ==
  ASSUME conf \in Configs, NEW w \in Actors
  PROVE  IsFiniteSet(Sources(w)) /\ Cardinality(Sources(w)) = PerEpoch
<1>1. PICK n \in Nat \ {0}, a \in Nat \ {0}, m \in Nat \ {0}, e \in Nat \ {0} :
        n = NumSlots /\ a = NumActors /\ m = SplitNum /\ e = PerEpoch
  BY ConfType, TotalType DEF Positive
<1>2. /\ n * m = e * a /\ w \in 0 .. a - 1
      /\ Sources(w) = {p \in (0 .. n - 1) \X (0 .. m - 1) : (p[1] * m + p[2]) % a = w}
  BY <1>1, TotalType DEF Total, Actors, Sources, Slots, Pieces, TargetActor
<1>3. PICK t \in Nat : t = n * m
  OBVIOUS
<1> DEFINE S == {p \in (0 .. n - 1) \X (0 .. m - 1) : (p[1] * m + p[2]) % a = w}
           f == [k \in 0 .. e - 1 |-> <<(k * a + w) \div m, (k * a + w) % m>>]
\* A source has a number below t, and so has a turn of the actor.
<1>4. ASSUME NEW s \in 0 .. n - 1, NEW i \in 0 .. m - 1
      PROVE  s * m + i \in Nat /\ s * m + i < t
  <2>1. s * m <= (n - 1) * m /\ (n - 1) * m = n * m - m /\ s * m \in Nat
    BY <1>2
  <2>. QED  BY <1>3, <2>1
<1>5. ASSUME NEW k \in 0 .. e - 1
      PROVE  k * a + w \in Nat /\ k * a + w < t
  <2>1. k * a <= (e - 1) * a /\ (e - 1) * a = e * a - a /\ k * a \in Nat
    BY <1>2
  <2>. QED  BY <1>2, <1>3, <2>1
<1>6. ASSUME NEW k \in 0 .. e - 1
      PROVE  /\ f[k] \in S
             /\ f[k][1] * m + f[k][2] = k * a + w
  <2>1. PICK j \in Nat : j = k * a + w /\ j < t
    BY <1>5
  <2>2. PICK s \in Nat, i \in 0 .. m - 1 : s = j \div m /\ i = j % m /\ j = s * m + i
    BY DivisionParts
  <2>3. f[k] = <<s, i>>
    BY <2>1, <2>2, Zenon
  <2>4. s \in 0 .. n - 1
    <3> SUFFICES ASSUME n <= s PROVE FALSE
      OBVIOUS
    <3>1. n * m <= s * m /\ s * m \in Nat
      OBVIOUS
    <3>. QED  BY <1>3, <2>1, <2>2, <3>1
  <2>5. (k * a + w) % a = w
    BY <1>2, Remainder, w < a
  <2>6. (s * m + i) % a = w
    BY <2>1, <2>2, <2>5, Zenon
  <2>7. <<s, i>> \in S
    BY <2>4, <2>6
  <2>. QED  BY <2>1, <2>2, <2>3, <2>7
<1>7. ASSUME NEW k \in 0 .. e - 1, NEW l \in 0 .. e - 1, f[k] = f[l]
      PROVE  k = l
  <2>1. k * a + w = l * a + w
    BY <1>6, <1>7, Zenon
  <2>2. (k * a + w) \div a = k /\ (l * a + w) \div a = l
    BY <1>2, Remainder, w < a
  <2>. QED  BY <2>1, <2>2, Zenon
<1>8. ASSUME NEW p \in S
      PROVE  \E k \in 0 .. e - 1 : f[k] = p
  <2>1. PICK s \in 0 .. n - 1, i \in 0 .. m - 1 : p = <<s, i>> /\ (s * m + i) % a = w
    OBVIOUS
  <2>2. PICK j \in Nat : j = s * m + i /\ j < t
    BY <1>4
  <2>3. PICK k \in Nat : k = j \div a /\ j = k * a + w
    <3>1. j \div a \in Nat /\ j = (j \div a) * a + (j % a) /\ j % a = w
      BY <2>1, <2>2, DivisionParts, Zenon
    <3>. QED  BY <3>1, Zenon
  <2>4. k \in 0 .. e - 1
    <3> SUFFICES ASSUME e <= k PROVE FALSE
      OBVIOUS
    <3>1. e * a <= k * a /\ k * a \in Nat
      OBVIOUS
    <3>. QED  BY <1>2, <1>3, <2>2, <2>3, <3>1
  <2>5. (s * m + i) \div m = s /\ (s * m + i) % m = i
    BY s \in Nat, i \in Nat, i < m, Remainder
  <2>6. f[k] = <<s, i>>
    BY <2>2, <2>3, <2>4, <2>5, Zenon
  <2>. QED  BY <2>1, <2>4, <2>6
<1>9. f \in Bijection(0 .. e - 1, S)
  <2>1. f \in [0 .. e - 1 -> S]
    BY <1>6
  <2> HIDE DEF f, S
  <2>2. f \in Injection(0 .. e - 1, S)
    BY <1>7, <2>1 DEF Injection, IsInjective
  <2>3. f \in Surjection(0 .. e - 1, S)
    BY <1>8, <2>1 DEF Surjection
  <2>. QED  BY <2>2, <2>3 DEF Bijection
<1>10. IsFiniteSet(0 .. e - 1) /\ Cardinality(0 .. e - 1) = e
  BY FS_Interval
<1>11. IsFiniteSet(S) /\ Cardinality(S) = e
  <2> HIDE DEF f, S
  <2>. QED  BY <1>9, <1>10, FS_Bijection DEF ExistsBijection
<1>. QED  BY <1>1, <1>2, <1>11

-----------------------------------------------------------------------------
(***************************************************************************)
(* Messages are counted right.                                             *)
(***************************************************************************)

\* The messages of this training step.
Current == [it : {iter}, epoch : Nat, slot : Slots,
            n : {ChunkSize(Batch(p[1]), SplitNum, p[2]) : p \in Slots \X Pieces}]

Places == {"idle", "recv", "barrier", "slice", "step", "last", "drain", "done"}

TypeInv ==
  /\ conf \in Configs /\ iter \in Nat
  /\ shipped \in [Slots -> 0 .. NumEpochs]
  /\ outbox \in [Slots \X Pieces -> Seq(Current)]
  /\ \A p \in Slots \X Pieces : Len(outbox[p]) <= shipped[p[1]]
  /\ q \in [Actors -> Seq(Current)] /\ batch \in [Actors -> Seq(Current)]
  /\ pc \in [Actors -> Places] /\ msgs \in [Actors -> Nat]
  /\ drained = [w \in Actors |-> 0]
  /\ \A f \in {acc, unreduced, trained} : f = [w \in Actors |-> f[w]]

\* Messages received in this training step.
MsgsOf(w) == IF pc[w] = "idle" THEN 0 ELSE msgs[w]

\* The messages of this training step that have reached the actor: for every
\* source the epochs shipped, but for those in the outbox.
Arrived(w) ==
  {a \in Sources(w) \X (0 .. NumEpochs - 1) : a[2] < shipped[a[1][1]] - Len(outbox[a[1]])}

PlaceAt(w) ==
  /\ msgs[w] <= PerCall
  /\ pc[w] = "recv" => msgs[w] < PerCall
  /\ pc[w] \in {"last", "drain", "done"} => msgs[w] = PerCall
  /\ pc[w] \in {"idle", "done"} => batch[w] = <<>>
ArrivedAt(w) == Cardinality(Arrived(w)) = Len(q[w]) + MsgsOf(w)

CountInv == TypeInv /\ \A w \in Actors : PlaceAt(w) /\ ArrivedAt(w)

\* No step changes the configuration.
LEMMA ConfKept ==
  ASSUME conf' = conf
  PROVE  /\ Slots' = Slots /\ Pieces' = Pieces /\ Actors' = Actors /\ PerCall' = PerCall /\ Round' = Round
         /\ Loop' = Loop /\ NumActors' = NumActors /\ SplitNum' = SplitNum
         /\ \A w : Sources(w)' = Sources(w)
         /\ iter' = iter => Current' = Current
BY DEF Slots, Pieces, Actors, PerCall, PerEpoch, Total, Round, Loop, NumActors, SplitNum, NumSlots,
       Sources, TargetActor, Current, Batch

\* They are at most what the actor counts on, and if they are as many then all
\* that is shipped to it has arrived.
LEMMA ArrivedBound ==
  ASSUME CountInv, NEW w \in Actors
  PROVE  /\ IsFiniteSet(Arrived(w))
         /\ Cardinality(Arrived(w)) \in Nat /\ Cardinality(Arrived(w)) <= PerCall
         /\ Cardinality(Arrived(w)) = PerCall =>
              \A p \in Sources(w) : outbox[p] = <<>> /\ shipped[p[1]] = NumEpochs
<1>1. conf \in Configs
  BY DEF CountInv, TypeInv
<1>2. PICK n \in Nat \ {0}, e \in Nat \ {0} : n = NumEpochs /\ e = PerEpoch
  BY <1>1, ConfType, TotalType DEF Positive
<1> DEFINE E == 0 .. n - 1
           A == Sources(w) \X E
<1>3. IsFiniteSet(E) /\ Cardinality(E) = n
  BY FS_Interval
<1>4. IsFiniteSet(Sources(w)) /\ Cardinality(Sources(w)) = e
  BY <1>1, <1>2, SourcesCount
<1>5. IsFiniteSet(A) /\ Cardinality(A) = e * n
  BY <1>3, <1>4, FS_Product
<1>6. PerCall = e * n
  BY <1>2 DEF PerCall
<1>7. Arrived(w) \subseteq A
  BY <1>2 DEF Arrived
<1>8. IsFiniteSet(Arrived(w)) /\ Cardinality(Arrived(w)) <= PerCall
  BY <1>5, <1>6, <1>7, FS_Subset
<1>9. ASSUME Cardinality(Arrived(w)) = PerCall, NEW p \in Sources(w)
      PROVE  outbox[p] = <<>> /\ shipped[p[1]] = NumEpochs
  <2>1. Arrived(w) = A
    BY <1>5, <1>6, <1>7, <1>9, FS_Subset
  <2>2. <<p, n - 1>> \in Arrived(w)
    BY <2>1
  <2>3. n - 1 < shipped[p[1]] - Len(outbox[p])
    BY <2>2 DEF Arrived
  <2>4. p \in Slots \X Pieces /\ p[1] \in Slots
    BY DEF Sources
  <2>5. shipped[p[1]] \in 0 .. n
    BY <1>2, <2>4 DEF CountInv, TypeInv
  <2>6. outbox[p] \in Seq(Current)
    BY <2>4 DEF CountInv, TypeInv
  <2>7. Len(outbox[p]) = 0 /\ shipped[p[1]] = n
    BY <2>3, <2>5, <2>6
  <2>. QED  BY <1>2, <2>6, <2>7
<1>. QED  BY <1>8, <1>9, FS_CardinalityType

LEMMA ArrivedKept ==
  ASSUME UNCHANGED <<conf, shipped, outbox>>
  PROVE  \A w : Arrived(w)' = Arrived(w)
BY ConfKept DEF Arrived

LEMMA CountInit ==
  ASSUME Init
  PROVE  CountInv
<1>1. conf \in Configs /\ Loop \in {"epoch", "accumulate", "stream"}
  BY ConfType DEF Init
<1>2. TypeInv
  BY <1>1, ConfType DEF Init, TypeInv, Places, Positive
<1>3. ASSUME NEW w \in Actors
      PROVE  PlaceAt(w) /\ ArrivedAt(w)
  <2>1. PerCall \in Nat /\ PerCall > 0
    BY <1>1, CallType DEF Positive
  <2>2. Arrived(w) = {}
    BY DEF Init, Arrived, Sources
  <2>. QED  BY <2>1, <2>2, FS_EmptySet DEF Init, PlaceAt, ArrivedAt, MsgsOf
<1>. QED  BY <1>2, <1>3 DEF CountInv

LEMMA ShipCount ==
  ASSUME CountInv, NEW s \in Slots, Ship(s)
  PROVE  CountInv'
<1>1. conf \in Configs /\ NumEpochs \in Nat /\ conf' = conf
  BY ConfType DEF CountInv, TypeInv, Ship, Positive
<1>2. /\ shipped \in [Slots -> 0 .. NumEpochs] /\ outbox \in [Slots \X Pieces -> Seq(Current)]
      /\ \A p \in Slots \X Pieces : Len(outbox[p]) <= shipped[p[1]]
  BY DEF CountInv, TypeInv
<1>3. shipped' \in [Slots -> 0 .. NumEpochs] /\ \A r \in Slots : shipped'[r] = IF r = s THEN shipped[r] + 1 ELSE shipped[r]
  BY <1>1, <1>2 DEF Ship
<1>4. \A i \in Pieces : Message(s, i) \in Current
  <2> TAKE i \in Pieces
  <2>1. <<s, i>> \in Slots \X Pieces /\ shipped[s] \in Nat
    BY <1>1, <1>2
  <2>2. ChunkSize(Batch(s), SplitNum, i) \in {ChunkSize(Batch(p[1]), SplitNum, p[2]) : p \in Slots \X Pieces}
    BY <2>1
  <2>. QED  BY <2>1, <2>2 DEF Message, Current
<1>5. ASSUME NEW p \in Slots \X Pieces
      PROVE  /\ outbox'[p] \in Seq(Current) /\ p[1] \in Slots /\ Len(outbox[p]) \in Nat
             /\ Len(outbox'[p]) = IF p[1] = s THEN Len(outbox[p]) + 1 ELSE Len(outbox[p])
  <2>1. outbox[p] \in Seq(Current) /\ p[1] \in Slots /\ p[2] \in Pieces
    BY <1>2
  <2>2. PICK m \in Current : m = Message(s, p[2])
    BY <1>4, <2>1
  <2>3. outbox'[p] = IF p[1] = s THEN Append(outbox[p], m) ELSE outbox[p]
    BY <2>2 DEF Ship
  <2>. QED  BY <2>1, <2>3
<1>6. \A p \in Slots \X Pieces : Len(outbox'[p]) <= shipped'[p[1]]
  <2> TAKE p \in Slots \X Pieces
  <2>1. shipped[p[1]] \in Nat /\ Len(outbox[p]) <= shipped[p[1]]
    BY <1>1, <1>2
  <2>. QED  BY <1>3, <1>5, <2>1
<1>7. outbox' \in [Slots \X Pieces -> Seq(Current)]
  <2>1. outbox' = [p \in Slots \X Pieces |-> outbox'[p]]
    BY DEF Ship
  <2>. QED  BY <2>1, <1>5
<1>8. \A w : Arrived(w)' = Arrived(w)
  <2> TAKE w
  <2>1. \A p \in Sources(w) : shipped'[p[1]] - Len(outbox'[p]) = shipped[p[1]] - Len(outbox[p])
    <3> TAKE p \in Sources(w)
    <3>1. p \in Slots \X Pieces
      BY DEF Sources
    <3>2. shipped[p[1]] \in Nat
      BY <1>1, <1>2, <1>5, <3>1
    <3>. QED  BY <1>3, <1>5, <3>1, <3>2
  <2>. QED  BY <1>1, <2>1, ConfKept DEF Arrived
<1>9. TypeInv'
  BY <1>1, <1>3, <1>6, <1>7, ConfKept DEF CountInv, TypeInv, Ship, trainVars
<1>10. \A w \in Actors : PlaceAt(w)' /\ ArrivedAt(w)'
  BY <1>1, <1>8, ConfKept DEF CountInv, Ship, trainVars, PlaceAt, ArrivedAt, MsgsOf
<1>. QED  BY <1>1, <1>9, <1>10, ConfKept DEF CountInv

LEMMA ArriveCount ==
  ASSUME CountInv, NEW s \in Slots, NEW i \in Pieces, Arrive(s, i)
  PROVE  CountInv'
<1> DEFINE v == TargetActor(s, i)
           p == <<s, i>>
<1>1. conf \in Configs /\ NumEpochs \in Nat \ {0} /\ conf' = conf
  BY ConfType DEF CountInv, TypeInv, Arrive, Positive
<1>2. /\ shipped \in [Slots -> 0 .. NumEpochs] /\ outbox \in [Slots \X Pieces -> Seq(Current)]
      /\ \A r \in Slots \X Pieces : Len(outbox[r]) <= shipped[r[1]]
      /\ q \in [Actors -> Seq(Current)]
  BY DEF CountInv, TypeInv
<1>3. v \in Actors
  <2>1. PICK a \in Nat \ {0}, n \in Nat, k \in Nat : a = NumActors /\ n = s * SplitNum + i /\ k = SplitNum
    <3>1. s \in Nat /\ i \in Nat /\ SplitNum \in Nat /\ NumActors \in Nat \ {0}
      BY <1>1, ConfType DEF Slots, Pieces, Positive
    <3>2. s * SplitNum + i \in Nat
      BY <3>1
    <3>. QED  BY <3>1, <3>2
  <2>2. n % a \in 0 .. a - 1
    BY DivisionParts
  <2>. QED  BY <2>1, <2>2 DEF TargetActor, Actors
<1>4. p \in Slots \X Pieces /\ outbox[p] \in Seq(Current) /\ outbox[p] # <<>>
  BY <1>2 DEF Arrive
<1>5. PICK m \in Current : m = Head(outbox[p])
  BY <1>4
<1>6. PICK c \in Nat : c = shipped[s] /\ c <= NumEpochs
  BY <1>1, <1>2
<1>7. PICK l \in Nat : l = Len(outbox[p]) /\ l <= c /\ l > 0
  BY <1>2, <1>4, <1>6
<1>8. /\ \A r \in Slots \X Pieces : outbox'[r] = IF r = p THEN Tail(outbox[p]) ELSE outbox[r]
      /\ outbox' \in [Slots \X Pieces -> Seq(Current)] /\ Len(outbox'[p]) = l - 1
  BY <1>2, <1>4, <1>7 DEF Arrive
<1>9. /\ \A w \in Actors : w # v => q'[w] = q[w]
      /\ q' \in [Actors -> Seq(Current)] /\ Len(q'[v]) = Len(q[v]) + 1
  <2>1. q' = [q EXCEPT ![v] = Append(q[v], m)]
    BY <1>5, Zenon DEF Arrive
  <2>. QED  BY <1>2, <1>3, <2>1
<1>10. \A r \in Slots \X Pieces : Len(outbox'[r]) <= shipped'[r[1]]
  BY <1>2, <1>6, <1>7, <1>8 DEF Arrive
<1>11. ASSUME NEW w \in Actors
       PROVE  Arrived(w)' = IF w = v THEN Arrived(w) \cup {<<p, c - l>>} ELSE Arrived(w)
  <2>1. /\ \A a \in Sources(w) \X (0 .. NumEpochs - 1) : a[1] \in Slots \X Pieces /\ a[2] \in Nat
        /\ p \in Sources(w) <=> w = v
    BY <1>1, <1>4 DEF Sources
  <2>2. Arrived(w)' = {a \in Sources(w) \X (0 .. NumEpochs - 1) : a[2] < shipped[a[1][1]] - Len(outbox'[a[1]])}
    BY <1>1, ConfKept DEF Arrived, Arrive
  <2>3. \A a \in Sources(w) \X (0 .. NumEpochs - 1) : a[1] # p =>
          shipped[a[1][1]] - Len(outbox'[a[1]]) = shipped[a[1][1]] - Len(outbox[a[1]])
    BY <1>8, <2>1
  <2>4. \A k \in Nat : k < c - (l - 1) <=> k < c - l \/ k = c - l
    OBVIOUS
  <2>5. p[1] = s /\ c - l \in 0 .. NumEpochs - 1
    BY <1>1, <1>6, <1>7
  <2>6. CASE w # v
    <3>1. \A a \in Sources(w) \X (0 .. NumEpochs - 1) : a[1] # p
      BY <2>1, <2>6
    <3>. QED  BY <2>2, <2>3, <2>6, <3>1 DEF Arrived
  <2>7. CASE w = v
    <3>1. ASSUME NEW a \in Sources(w) \X (0 .. NumEpochs - 1), a[1] = p
          PROVE  /\ a[2] < shipped[a[1][1]] - Len(outbox'[a[1]]) <=> a[2] < c - l \/ a[2] = c - l
                 /\ a[2] < shipped[a[1][1]] - Len(outbox[a[1]]) <=> a[2] < c - l
                 /\ a = <<p, a[2]>>
      <4>1. shipped[a[1][1]] = c /\ Len(outbox'[a[1]]) = l - 1 /\ Len(outbox[a[1]]) = l
        BY <1>6, <1>7, <1>8, <2>5, <3>1, Zenon
      <4>2. a[2] \in Nat
        BY <2>1
      <4>. QED  BY <2>4, <3>1, <4>1, <4>2
    <3>2. <<p, c - l>> \in Sources(w) \X (0 .. NumEpochs - 1)
      BY <2>1, <2>5, <2>7
    <3>3. \A a \in Sources(w) \X (0 .. NumEpochs - 1) : a = <<p, c - l>> <=> a[1] = p /\ a[2] = c - l
      BY <3>1, <3>2
    <3> HIDE DEF p
    <3>. QED  BY <2>2, <2>3, <2>7, <3>1, <3>2, <3>3 DEF Arrived
  <2>. QED  BY <2>6, <2>7
<1>12. <<p, c - l>> \notin Arrived(v)
  BY <1>6, <1>7 DEF Arrived
<1>13. \A w \in Actors : PlaceAt(w)' /\ ArrivedAt(w)'
  <2> TAKE w \in Actors
  <2>1. PlaceAt(w)'
    BY <1>1, ConfKept DEF CountInv, PlaceAt, Arrive, trainVars
  <2>2. IsFiniteSet(Arrived(w)) /\ Cardinality(Arrived(w)) \in Nat
    BY ArrivedBound
  <2>3. ArrivedAt(w)
    BY DEF CountInv
  <2>4. q[w] \in Seq(Current) /\ MsgsOf(w) \in Nat /\ MsgsOf(w)' = MsgsOf(w)
    BY <1>1, ConfKept DEF CountInv, TypeInv, MsgsOf, Arrive
  <2>5. CASE w # v
    BY <1>9, <1>11, <2>1, <2>3, <2>4, <2>5 DEF ArrivedAt
  <2>6. CASE w = v
    <3>1. Cardinality(Arrived(v) \cup {<<p, c - l>>}) = Cardinality(Arrived(v)) + 1
      BY <1>12, <2>2, <2>6, FS_AddElement
    <3>2. Cardinality(Arrived(w)') = Cardinality(Arrived(w)) + 1
      BY <1>11, <2>6, <3>1, Zenon
    <3>3. PICK n \in Nat, k \in Nat : n = Len(q[w]) /\ k = MsgsOf(w)
      BY <2>4, LenProperties
    <3>4. Cardinality(Arrived(w)') = n + k + 1 /\ Len(q'[w]) = n + 1
      BY <1>9, <2>3, <2>6, <3>2, <3>3 DEF ArrivedAt
    <3>. QED  BY <2>1, <2>4, <3>3, <3>4 DEF ArrivedAt
  <2>. QED  BY <2>5, <2>6
<1>14. TypeInv'
  BY <1>1, <1>8, <1>9, <1>10, ConfKept DEF CountInv, TypeInv, Arrive, trainVars
<1>. QED  BY <1>1, <1>13, <1>14, ConfKept DEF CountInv

LEMMA StartCount ==
  ASSUME CountInv, NEW v \in Actors, StartLoop(v)
  PROVE  CountInv'
<1>1. conf \in Configs /\ conf' = conf /\ PerCall \in Nat \ {0}
  BY CallType DEF CountInv, TypeInv, StartLoop, Positive
<1>2. TypeInv'
  BY <1>1, ConfKept DEF CountInv, TypeInv, StartLoop, rolloutVars, Places
<1>3. /\ pc \in [Actors -> Places] /\ msgs \in [Actors -> Nat] /\ pc[v] = "idle"
      /\ \A w \in Actors : /\ pc'[w] = IF w = v THEN "recv" ELSE pc[w]
                           /\ msgs'[w] = IF w = v THEN 0 ELSE msgs[w]
  BY DEF CountInv, TypeInv, StartLoop
<1>4. ASSUME NEW w \in Actors
      PROVE  PlaceAt(w)' /\ ArrivedAt(w)'
  <2>1. PlaceAt(w)'
    BY <1>1, <1>3, ConfKept DEF CountInv, PlaceAt, StartLoop
  <2>2. Arrived(w)' = Arrived(w) /\ q' = q
    BY ArrivedKept DEF StartLoop, rolloutVars
  <2>3. MsgsOf(w)' = MsgsOf(w)
    BY <1>3 DEF MsgsOf
  <2>. QED  BY <2>1, <2>2, <2>3 DEF CountInv, ArrivedAt
<1>. QED  BY <1>1, <1>2, <1>4, ConfKept DEF CountInv

LEMMA ReceiveCount ==
  ASSUME CountInv, NEW v \in Actors, Receive(v)
  PROVE  CountInv'
<1>1. conf \in Configs /\ conf' = conf /\ PerCall \in Nat \ {0}
  BY CallType DEF CountInv, TypeInv, Receive, Positive
<1>2. /\ q \in [Actors -> Seq(Current)] /\ batch \in [Actors -> Seq(Current)] /\ pc \in [Actors -> Places]
      /\ msgs \in [Actors -> Nat] /\ q[v] # <<>> /\ pc[v] = "recv"
  BY DEF CountInv, TypeInv, Receive
<1>3. PICK m \in Current : m = Head(q[v])
  BY <1>2
<1>4. PICK n \in Nat : n = Len(q[v]) /\ n > 0
  BY <1>2
<1>5. /\ q' \in [Actors -> Seq(Current)] /\ Len(q'[v]) = n - 1
      /\ \A w \in Actors : w # v => q'[w] = q[w]
  BY <1>2, <1>4 DEF Receive
<1>6. batch' = [batch EXCEPT ![v] = Append(batch[v], m)]
  BY <1>3, Zenon DEF Receive
<1>7. batch' \in [Actors -> Seq(Current)] /\ \A w \in Actors : w # v => batch'[w] = batch[w]
  BY <1>2, <1>6
<1>8. /\ pc' \in [Actors -> Places] /\ msgs' \in [Actors -> Nat]
      /\ \A w \in Actors : msgs'[w] = IF w = v THEN msgs[v] + 1 ELSE msgs[w]
      /\ \A w \in Actors : w # v => pc'[w] = pc[w]
      /\ pc'[v] = IF (msgs[v] + 1) % RoundLength(v) = 0 THEN "barrier" ELSE "recv"
  BY <1>2 DEF Receive, Places
<1>9. TypeInv'
  BY <1>1, <1>5, <1>7, <1>8, ConfKept DEF CountInv, TypeInv, Receive, rolloutVars, trainVars
<1>10. pc'[v] = "recv" => msgs[v] + 1 # PerCall
  <2> SUFFICES ASSUME msgs[v] + 1 = PerCall PROVE PerCall % RoundLength(v) = 0
    BY <1>8
  <2>1. PICK r \in Nat \ {0}, k \in Nat : r = RoundLength(v) /\ PerCall = k * r
    BY <1>1, CallType DEF Positive
  <2>2. (k * r + 0) % r = 0 /\ k * r \in Nat
    BY <2>1, Remainder
  <2>. QED  BY <2>1, <2>2
<1>11. ASSUME NEW w \in Actors
       PROVE  PlaceAt(w)' /\ ArrivedAt(w)'
  <2>1. PlaceAt(w) /\ ArrivedAt(w) /\ PerCall' = PerCall
    BY <1>1, ConfKept DEF CountInv
  <2>2. PlaceAt(w)'
    <3>1. CASE w # v
      BY <1>7, <1>8, <2>1, <3>1 DEF PlaceAt
    <3>2. CASE w = v
      <4>1. msgs[v] < PerCall /\ msgs[v] \in Nat
        BY <1>2, <2>1, <3>2 DEF PlaceAt
      <4>2. pc'[v] \in {"barrier", "recv"} /\ msgs'[v] = msgs[v] + 1
        BY <1>8
      <4>. QED  BY <1>1, <1>10, <2>1, <3>2, <4>1, <4>2 DEF PlaceAt
    <3>. QED  BY <3>1, <3>2
  <2>3. Arrived(w)' = Arrived(w)
    BY ArrivedKept DEF Receive, rolloutVars
  <2>4. w # v => MsgsOf(w)' = MsgsOf(w)
    BY <1>8 DEF MsgsOf
  <2>5. MsgsOf(v)' = MsgsOf(v) + 1
    BY <1>2, <1>8 DEF MsgsOf
  <2>6. MsgsOf(v) \in Nat
    BY <1>2 DEF MsgsOf
  <2>7. ArrivedAt(w)'
    <3>1. CASE w # v
      BY <1>5, <2>1, <2>3, <2>4, <3>1 DEF ArrivedAt
    <3>2. CASE w = v
      <4>1. PICK k \in Nat : k = MsgsOf(v)
        BY <2>6
      <4>2. Cardinality(Arrived(v)) = n + k
        BY <1>4, <2>1, <3>2, <4>1 DEF ArrivedAt
      <4>3. Len(q'[v]) + MsgsOf(v)' = n + k
        BY <1>5, <2>5, <4>1
      <4>. QED  BY <2>3, <3>2, <4>2, <4>3 DEF ArrivedAt
    <3>. QED  BY <3>1, <3>2
  <2>. QED  BY <2>2, <2>7
<1>. QED  BY <1>1, <1>9, <1>11, ConfKept DEF CountInv

\* When an actor has all it counts on, nothing is left on the way to it.
LEMMA DoneEmpty ==
  ASSUME CountInv, NEW w \in Actors, pc[w] \in {"last", "drain", "done"}
  PROVE  q[w] = <<>> /\ \A p \in Sources(w) : outbox[p] = <<>> /\ shipped[p[1]] = NumEpochs
<1>1. PerCall \in Nat \ {0}
  BY CallType DEF CountInv, TypeInv, Positive
<1>2. Cardinality(Arrived(w)) = Len(q[w]) + PerCall /\ q[w] \in Seq(Current)
  BY DEF CountInv, TypeInv, PlaceAt, ArrivedAt, MsgsOf
<1>3. /\ Cardinality(Arrived(w)) \in Nat /\ Cardinality(Arrived(w)) <= PerCall
      /\ Cardinality(Arrived(w)) = PerCall =>
           \A p \in Sources(w) : outbox[p] = <<>> /\ shipped[p[1]] = NumEpochs
  BY ArrivedBound
<1>4. Len(q[w]) \in Nat
  BY <1>2
<1>5. Len(q[w]) = 0 /\ Cardinality(Arrived(w)) = PerCall
  BY <1>1, <1>2, <1>3, <1>4
<1>6. q[w] = <<>>
  BY <1>2, <1>5
<1>. QED  BY <1>3, <1>5, <1>6

LEMMA DrainCount ==
  ASSUME CountInv, NEW v \in Actors, Drain(v)
  PROVE  CountInv'
<1>1. conf \in Configs /\ conf' = conf /\ PerCall \in Nat \ {0}
  BY CallType DEF CountInv, TypeInv, Drain, Positive
<1>2. /\ q \in [Actors -> Seq(Current)] /\ batch \in [Actors -> Seq(Current)] /\ pc \in [Actors -> Places]
      /\ drained = [w \in Actors |-> 0] /\ pc[v] = "drain"
  BY DEF CountInv, TypeInv, Drain
<1>3. q[v] = <<>>
  BY <1>2, DoneEmpty
<1>4. q' = q
  BY <1>2, <1>3 DEF Drain
<1>5. drained' = drained
  <2>1. Len(q[v]) = 0
    BY <1>3
  <2>. QED  BY <1>2, <2>1 DEF Drain
<1>6. /\ batch' \in [Actors -> Seq(Current)] /\ pc' \in [Actors -> Places] /\ pc'[v] = "done" /\ batch'[v] = <<>>
      /\ \A w \in Actors : w # v => batch'[w] = batch[w] /\ pc'[w] = pc[w]
  BY <1>2 DEF Drain, Places
<1>7. TypeInv'
  BY <1>1, <1>4, <1>5, <1>6, ConfKept DEF CountInv, TypeInv, Drain, rolloutVars, trainVars
<1>8. ASSUME NEW w \in Actors
      PROVE  PlaceAt(w)' /\ ArrivedAt(w)'
  <2>1. PlaceAt(w) /\ ArrivedAt(w) /\ PerCall' = PerCall /\ msgs' = msgs
    BY <1>1, ConfKept DEF CountInv, Drain
  <2>2. PlaceAt(w)'
    BY <1>2, <1>6, <2>1 DEF PlaceAt
  <2>3. Arrived(w)' = Arrived(w)
    BY ArrivedKept DEF Drain, rolloutVars
  <2>4. MsgsOf(w)' = MsgsOf(w)
    BY <1>2, <1>6, <2>1 DEF MsgsOf
  <2>. QED  BY <1>4, <2>1, <2>2, <2>3, <2>4 DEF ArrivedAt
<1>. QED  BY <1>1, <1>7, <1>8, ConfKept DEF CountInv

\* What a collective does to an actor's place in its loop and to its buffer.
CollectiveStep ==
  /\ UNCHANGED <<conf, iter, shipped, outbox, q, msgs, drained>>
  /\ pc' \in [Actors -> Places] /\ batch' \in [Actors -> Seq(Current)]
  /\ acc' = [w \in Actors |-> acc'[w]] /\ unreduced' = [w \in Actors |-> unreduced'[w]]
  /\ trained' = [w \in Actors |-> trained'[w]]
  /\ \A w \in Actors :
       /\ pc[w] \in {"barrier", "slice", "step", "last"}
       /\ pc'[w] \in {"slice", "step", "recv", "last", "drain"}
       /\ pc'[w] = "recv" => msgs[w] < PerCall
       /\ pc'[w] \in {"last", "drain"} => ~(msgs[w] < PerCall)

LEMMA CollectiveCount ==
  ASSUME CountInv, CollectiveStep
  PROVE  CountInv'
<1>1. conf \in Configs /\ conf' = conf /\ PerCall \in Nat \ {0}
  BY CallType DEF CountInv, TypeInv, CollectiveStep, Positive
<1>2. TypeInv'
  BY <1>1, ConfKept DEF CountInv, TypeInv, CollectiveStep
<1>3. ASSUME NEW w \in Actors
      PROVE  PlaceAt(w)' /\ ArrivedAt(w)'
  <2>1. PlaceAt(w) /\ ArrivedAt(w) /\ PerCall' = PerCall /\ msgs' = msgs /\ q' = q /\ msgs[w] \in Nat
    BY <1>1, ConfKept DEF CountInv, TypeInv, CollectiveStep
  <2>2. PlaceAt(w)'
    BY <1>1, <2>1 DEF PlaceAt, CollectiveStep
  <2>3. Arrived(w)' = Arrived(w)
    BY ArrivedKept DEF CollectiveStep
  <2>4. MsgsOf(w)' = MsgsOf(w)
    BY <2>1 DEF MsgsOf, CollectiveStep
  <2>. QED  BY <2>1, <2>2, <2>3, <2>4 DEF ArrivedAt
<1>. QED  BY <1>1, <1>2, <1>3, ConfKept DEF CountInv

LEMMA NextIterationCount ==
  ASSUME CountInv, NextIteration
  PROVE  CountInv'
<1>1. conf \in Configs /\ conf' = conf /\ PerCall \in Nat \ {0} /\ NumActors \in Nat \ {0} /\ NumEpochs \in Nat
  BY CallType, ConfType DEF CountInv, TypeInv, NextIteration, Positive
<1>2. \A w \in Actors : pc[w] = "done" /\ q[w] = <<>> /\ batch[w] = <<>>
  BY DoneEmpty DEF CountInv, PlaceAt, NextIteration, StepOver, ActorsDone
<1>3. ASSUME NEW p \in Slots \X Pieces
      PROVE  outbox[p] = <<>>
  <2>1. p[1] \in Nat /\ p[2] \in Nat /\ SplitNum \in Nat
    BY <1>1, ConfType DEF Slots, Pieces, CountInv, TypeInv, Positive
  <2>2. p[1] * SplitNum + p[2] \in Nat
    BY <2>1
  <2>3. TargetActor(p[1], p[2]) \in Actors
    BY <1>1, <2>2, DivisionParts DEF TargetActor, Actors
  <2>. QED  BY <1>2, <2>3, DoneEmpty DEF Sources
<1>4. TypeInv'
  <2>1. iter' \in Nat /\ shipped' \in [Slots -> 0 .. NumEpochs] /\ \A s \in Slots : shipped'[s] = 0
    BY <1>1 DEF CountInv, TypeInv, NextIteration
  <2>2. outbox' \in [Slots \X Pieces -> Seq(Current')] /\ \A p \in Slots \X Pieces : outbox'[p] = <<>>
    BY <1>3 DEF CountInv, TypeInv, NextIteration
  <2>3. \A p \in Slots \X Pieces : Len(outbox'[p]) <= shipped'[p[1]]
    BY <2>1, <2>2
  <2>4. q' \in [Actors -> Seq(Current')] /\ batch' \in [Actors -> Seq(Current')] /\ pc' \in [Actors -> Places]
    BY <1>2 DEF CountInv, TypeInv, NextIteration, Places
  <2>. QED  BY <1>1, <2>1, <2>2, <2>3, <2>4, ConfKept DEF CountInv, TypeInv, NextIteration, trainVars
<1>5. ASSUME NEW w \in Actors
      PROVE  PlaceAt(w)' /\ ArrivedAt(w)'
  <2>1. PlaceAt(w) /\ PerCall' = PerCall /\ msgs' = msgs /\ q' = q /\ batch' = batch /\ msgs[w] \in Nat /\ pc'[w] = "idle"
    BY <1>1, ConfKept DEF CountInv, TypeInv, NextIteration
  <2>2. PlaceAt(w)'
    BY <1>2, <2>1 DEF PlaceAt
  <2>3. Arrived(w)' = {}
    <3> SUFFICES ASSUME NEW a \in Sources(w)', NEW k \in 0 .. NumEpochs - 1
                 PROVE  ~(k < shipped'[a[1]] - Len(outbox'[a]))
      BY DEF Arrived
    <3>1. a \in Slots \X Pieces /\ a[1] \in Slots
      BY <1>1, ConfKept DEF Sources
    <3>2. shipped'[a[1]] = 0 /\ outbox'[a] = <<>>
      BY <1>3, <3>1 DEF NextIteration
    <3>. QED  BY <3>2
  <2>. QED  BY <1>2, <2>1, <2>2, <2>3, FS_EmptySet DEF ArrivedAt, MsgsOf
<1>. QED  BY <1>1, <1>4, <1>5, ConfKept DEF CountInv

LEMMA AfterRoundPlace ==
  ASSUME CountInv, NEW w \in Actors, NEW a
  PROVE  /\ AfterRound(w, a) \in {"recv", "last", "drain"}
         /\ AfterRound(w, a) = "recv" <=> msgs[w] < PerCall
         /\ AfterRound(w, a) = "last" => a > 0 /\ Loop # "epoch"
         /\ AfterRound(w, a) = "drain" => ~(a > 0) \/ Loop = "epoch"
<1>1. TotalMessages(w) = PerCall
  BY CallType DEF CountInv, TypeInv
<1>. QED  BY <1>1 DEF AfterRound

LEMMA CollectiveIsStep ==
  ASSUME CountInv, CollectiveNext
  PROVE  CollectiveStep
<1>1. /\ batch \in [Actors -> Seq(Current)] /\ pc \in [Actors -> Places]
      /\ \A f \in {acc, unreduced, trained} : f = [w \in Actors |-> f[w]]
      /\ \A w \in Actors : PlaceAt(w)
  BY DEF CountInv, TypeInv
<1>2. ASSUME NEW w \in Actors, NEW o, NEW a
      PROVE  /\ GoesOn(w, o, a) \in {"slice", "recv", "last", "drain"}
             /\ GoesOn(w, o, a) = "recv" => msgs[w] < PerCall
             /\ GoesOn(w, o, a) \in {"last", "drain"} => ~(msgs[w] < PerCall)
  BY AfterRoundPlace DEF GoesOn
<1>3. CASE Barrier
  <2>1. ASSUME NEW w \in Actors
        PROVE  /\ pc[w] = "barrier" /\ pc'[w] \in {"slice", "recv", "last", "drain"}
               /\ pc'[w] = "recv" => msgs[w] < PerCall
               /\ pc'[w] \in {"last", "drain"} => ~(msgs[w] < PerCall)
               /\ batch'[w] \in Seq(Current)
    BY <1>1, <1>3, AfterRoundPlace DEF Barrier, AllAt, BufferAfter
  <2>2. pc' \in [Actors -> Places] /\ batch' \in [Actors -> Seq(Current)]
    <3>1. pc' = [w \in Actors |-> pc'[w]] /\ batch' = [w \in Actors |-> batch'[w]]
      BY <1>3 DEF Barrier
    <3>. QED  BY <2>1, <3>1 DEF Places
  <2>. QED  BY <1>1, <1>3, <2>1, <2>2 DEF CollectiveStep, Barrier, rolloutVars
<1>4. CASE Slice
  <2>1. ASSUME NEW w \in Actors
        PROVE  /\ pc[w] = "slice" /\ pc'[w] \in {"slice", "step", "recv", "last", "drain"}
               /\ pc'[w] = "recv" => msgs[w] < PerCall
               /\ pc'[w] \in {"last", "drain"} => ~(msgs[w] < PerCall)
    <3>1. pc'[w] = IF StepDue(w) THEN "step"
                   ELSE GoesOn(w, off[w] + SliceSize(w), acc[w] + SliceSize(w))
      BY <1>4 DEF Slice
    <3>. QED  BY <1>2, <1>4, <3>1 DEF Slice, AllAt
  <2>2. pc' \in [Actors -> Places]
    <3>1. pc' = [w \in Actors |-> pc'[w]]
      BY <1>4 DEF Slice
    <3>. QED  BY <2>1, <3>1 DEF Places
  <2>. QED  BY <1>1, <1>4, <2>1, <2>2 DEF CollectiveStep, Slice, rolloutVars
<1>5. CASE OptimizerStep
  <2>1. ASSUME NEW w \in Actors
        PROVE  /\ pc[w] = "step" /\ pc'[w] \in {"slice", "recv", "last", "drain"}
               /\ pc'[w] = "recv" => msgs[w] < PerCall
               /\ pc'[w] \in {"last", "drain"} => ~(msgs[w] < PerCall)
    <3>1. pc'[w] = GoesOn(w, off[w], 0)
      BY <1>5 DEF OptimizerStep
    <3>. QED  BY <1>2, <1>5, <3>1 DEF OptimizerStep, AllAt
  <2>2. pc' \in [Actors -> Places]
    <3>1. pc' = [w \in Actors |-> pc'[w]]
      BY <1>5 DEF OptimizerStep
    <3>. QED  BY <2>1, <3>1 DEF Places
  <2>. QED  BY <1>1, <1>5, <2>1, <2>2 DEF CollectiveStep, OptimizerStep, rolloutVars
<1>6. CASE LastStep
  <2>1. PerCall \in Nat
    BY CallType DEF CountInv, TypeInv, Positive
  <2>2. \A w \in Actors : pc[w] = "last" /\ pc'[w] = "drain" /\ ~(msgs[w] < PerCall)
    BY <1>1, <1>6, <2>1 DEF LastStep, AllAt, PlaceAt
  <2>3. pc' \in [Actors -> Places]
    BY <1>6 DEF LastStep, Places
  <2>. QED  BY <1>1, <1>6, <2>2, <2>3 DEF CollectiveStep, LastStep, rolloutVars
<1>. QED  BY <1>3, <1>4, <1>5, <1>6 DEF CollectiveNext

LEMMA CountStep ==
  ASSUME CountInv, [Next]_vars
  PROVE  CountInv'
<1>1. CASE UNCHANGED vars
  BY <1>1, ConfKept, ArrivedKept DEF CountInv, TypeInv, PlaceAt, ArrivedAt, MsgsOf, vars, rolloutVars, trainVars
<1>2. ASSUME NEW s \in Slots, RolloutNext(s)
      PROVE  CountInv'
  BY <1>2, ShipCount, ArriveCount DEF RolloutNext
<1>3. ASSUME NEW w \in Actors, ActorNext(w)
      PROVE  CountInv'
  BY <1>3, StartCount, ReceiveCount, DrainCount DEF ActorNext
<1>4. CASE CollectiveNext
  BY <1>4, CollectiveIsStep, CollectiveCount
<1>5. CASE NextIteration
  BY <1>5, NextIterationCount
<1>. QED  BY <1>1, <1>2, <1>3, <1>4, <1>5 DEF Next, Finished

LEMMA CountAlways == Spec => []CountInv
<1>1. Init => CountInv
  BY CountInit
<1>2. CountInv /\ [Next]_vars => CountInv'
  BY CountStep
<1>. QED  BY <1>1, <1>2, PTL DEF Spec

LEMMA CountGivesNoLeftovers ==
  ASSUME CountInv
  PROVE  NoLeftovers
<1> SUFFICES ASSUME NEW w \in Actors
             PROVE  /\ drained[w] = 0
                    /\ pc[w] = "done" => q[w] = <<>> /\ \A p \in DOMAIN outbox :
                                           TargetActor(p[1], p[2]) = w => outbox[p] = <<>>
                    /\ \A m \in ToSet(q[w]) \cup ToSet(batch[w]) : m.it = iter
  BY DEF NoLeftovers
<1>1. drained[w] = 0 /\ DOMAIN outbox = Slots \X Pieces
  BY DEF CountInv, TypeInv
<1>2. pc[w] = "done" => q[w] = <<>> /\ \A p \in Sources(w) : outbox[p] = <<>>
  BY DoneEmpty
<1>3. q[w] \in Seq(Current) /\ batch[w] \in Seq(Current)
  BY DEF CountInv, TypeInv
<1>4. \A b \in Seq(Current) : \A m \in ToSet(b) : m \in Current
  BY DEF ToSet
<1>5. \A m \in Current : m.it = iter
  BY DEF Current
<1>. QED  BY <1>1, <1>2, <1>3, <1>4, <1>5 DEF Sources

\* The actors' count of messages (get_messages_per_epoch) agrees with the
\* slots' choice of keys (the split of a trajectory and its target actors):
\* _drain_actor_rollout_messages finds an empty queue at the end of every
\* training step, nothing is on the way to an actor that is done, and no actor
\* holds a message of another training step.  Of every configuration.
THEOREM NothingDrained == Spec => []NoLeftovers
BY CountAlways, CountGivesNoLeftovers, PTL

-----------------------------------------------------------------------------
(***************************************************************************)
(* Sums of samples.                                                        *)
(***************************************************************************)

\* The sum over a sequence of messages of equal size.
LEMMA SumOfEqual ==
  ASSUME NEW k \in Nat, NEW b, NEW n \in Nat, DOMAIN b = 1 .. n, \A i \in 1 .. n : b[i].n = k
  PROVE  FoldLeft(LAMBDA sum, m : sum + m.n, 0, b) = k * n
<1> DEFINE D == 1 .. n
           Eq(g) == g = [T \in SUBSET D |-> IF T = {} THEN 0 ELSE g[T \ {Max(T)}] + b[Max(T)].n]
           card == [T \in SUBSET D |-> k * Cardinality(T)]
           s == CHOOSE g : Eq(g)
<1>1. IsFiniteSet(D) /\ Cardinality(D) = n
  BY FS_Interval
<1>2. \A T \in SUBSET D : T # {} => Max(T) \in T /\ b[Max(T)].n = k
  BY MaxInSet
<1>3. ASSUME NEW T \in SUBSET D, T # {}
      PROVE  card[T] = card[T \ {Max(T)}] + b[Max(T)].n
  <2>1. PICK x \in T : x = Max(T) /\ b[x].n = k
    BY <1>2, <1>3
  <2>2. k * Cardinality(T) = k * Cardinality(T \ {x}) + k
    BY <1>1, FS_Subset, OnePart
  <2>3. card[T \ {x}] = k * Cardinality(T \ {x}) /\ card[T] = k * Cardinality(T)
    OBVIOUS
  <2>. QED  BY <2>1, <2>2, <2>3, Zenon
<1>4. card[{}] = 0
  BY FS_EmptySet
<1>5. Eq(card)
  <2>1. ASSUME NEW T \in SUBSET D
        PROVE  card[T] = IF T = {} THEN 0 ELSE card[T \ {Max(T)}] + b[Max(T)].n
    BY <1>3, <1>4, Zenon
  <2>. QED  BY <2>1, Zenon
<1>6. FoldLeft(LAMBDA sum, m : sum + m.n, 0, b) = s[D]
  BY Zenon DEF FoldLeft, MapThenFoldSet
<1>7. Eq(s)
  BY <1>5, Zenon
<1> HIDE DEF s
<1>8. ASSUME NEW T \in SUBSET D
      PROVE  s[T] = IF T = {} THEN 0 ELSE s[T \ {Max(T)}] + b[Max(T)].n
  BY <1>7, Zenon
<1>9. /\ s[{}] = 0
      /\ \A T \in SUBSET D : T # {} => \E x \in T : s[T] = s[T \ {x}] + k \/ s[T] = k + s[T \ {x}]
  BY <1>2, <1>8, Zenon
<1>. QED  BY <1>1, <1>6, <1>9, EqualParts

\* The size of a piece of slot 0, and configurations where all pieces have it.
PieceSize == ChunkSize(Batch(0), SplitNum, 0)

EvenlyCut == \A s \in Slots, i \in Pieces : ChunkSize(Batch(s), SplitNum, i) = PieceSize

LEMMA PieceType ==
  ASSUME conf \in Configs
  PROVE  PieceSize \in Positive
<1>1. PICK n \in Nat \ {0}, k \in Nat \ {0} : n = conf.batch[1] /\ k = SplitNum
  BY ConfType DEF Positive
<1>2. PieceSize > 0
  <2>1. 1 \in 1 .. conf.slots /\ 0 \in 0 .. conf.split - 1
    BY ConfType DEF NumSlots, SplitNum, Positive
  <2>. QED  BY <2>1, EveryChunkExists DEF PieceSize, Batch, SplitNum
<1>3. CeilDiv(n, k) \in Nat
  <2>1. PICK j \in Nat : j = n + k - 1
    OBVIOUS
  <2>. QED  BY <2>1, DivisionParts DEF CeilDiv
<1>4. n - 0 * CeilDiv(n, k) = n
  BY <1>3
<1>5. PieceSize = Min({CeilDiv(n, k), n})
  <2>1. Batch(0) = n
    BY <1>1 DEF Batch
  <2>. QED  BY <1>1, <1>4, <2>1, Zenon DEF PieceSize, ChunkSize
<1>6. PieceSize \in Int
  BY <1>3, <1>5, MinOfTwo
<1>. QED  BY <1>2, <1>6 DEF Positive

LEMMA SamplesEven ==
  ASSUME conf \in Configs, EvenlyCut, NEW b \in Seq(Current)
  PROVE  Len(b) \in Nat /\ Samples(b) = PieceSize * Len(b)
<1>1. \A m \in Current : m.n = PieceSize
  BY DEF Current, EvenlyCut
<1>2. PICK n \in Nat : n = Len(b) /\ DOMAIN b = 1 .. n
  OBVIOUS
<1>3. \A i \in 1 .. n : b[i].n = PieceSize
  BY <1>1, <1>2
<1>4. PieceSize \in Nat
  BY PieceType DEF Positive
<1>5. FoldLeft(LAMBDA sum, m : sum + m.n, 0, b) = PieceSize * n
  BY ONLY <1>2, <1>3, <1>4, SumOfEqual, Zenon
<1>. QED  BY <1>2, <1>5, Zenon DEF Samples

\* What is sent to an actor in a training step, by the recursion of
\* MapThenSumSet.
LEMMA SentEven ==
  ASSUME conf \in Configs, EvenlyCut, NEW w \in Actors
  PROVE  SentTo(w) = NumEpochs * (PieceSize * PerEpoch)
<1> DEFINE D == Sources(w)
           f(p) == ChunkSize(Batch(p[1]), SplitNum, p[2])
           any(T) == CHOOSE x \in T : TRUE
           Eq(g) == g = [T \in SUBSET D |-> IF T = {} THEN 0 ELSE f(any(T)) + g[T \ {any(T)}]]
           card == [T \in SUBSET D |-> PieceSize * Cardinality(T)]
           s == CHOOSE g : Eq(g)
<1>1. IsFiniteSet(D) /\ Cardinality(D) = PerEpoch /\ PieceSize \in Nat /\ PerEpoch \in Nat
  BY SourcesCount, PieceType, TotalType DEF Positive
<1>2. \A T \in SUBSET D : T # {} => any(T) \in T /\ f(any(T)) = PieceSize
  <2> TAKE T \in SUBSET D
  <2>1. T # {} => any(T) \in T
    OBVIOUS
  <2>2. \A p \in D : f(p) = PieceSize
    BY DEF Sources, EvenlyCut
  <2>. QED  BY <2>1, <2>2
<1>3. ASSUME NEW T \in SUBSET D, T # {}
      PROVE  card[T] = f(any(T)) + card[T \ {any(T)}]
  <2>1. PICK x \in T : x = any(T) /\ f(x) = PieceSize
    BY <1>2, <1>3
  <2>2. PieceSize * Cardinality(T) = PieceSize * Cardinality(T \ {x}) + PieceSize
    BY <1>1, FS_Subset, OnePart
  <2>3. PICK n \in Nat : n = Cardinality(T \ {x})
    BY <1>1, FS_Subset, FS_CardinalityType
  <2>4. PieceSize * n + PieceSize = PieceSize + PieceSize * n
    BY <1>1
  <2>5. card[T \ {x}] = PieceSize * Cardinality(T \ {x}) /\ card[T] = PieceSize * Cardinality(T)
    OBVIOUS
  <2>. QED  BY <2>1, <2>2, <2>3, <2>4, <2>5, Zenon
<1>4. card[{}] = 0
  BY <1>1, FS_EmptySet
<1>5. Eq(card)
  <2>1. ASSUME NEW T \in SUBSET D
        PROVE  card[T] = IF T = {} THEN 0 ELSE f(any(T)) + card[T \ {any(T)}]
    BY <1>3, <1>4, Zenon
  <2>. QED  BY <2>1, Zenon
<1>6. MapThenSumSet(LAMBDA p : ChunkSize(Batch(p[1]), SplitNum, p[2]), D) = s[D]
  BY Zenon DEF MapThenSumSet, MapThenFoldSet
<1>7. Eq(s)
  BY <1>5, Zenon
<1> HIDE DEF s
<1>8. ASSUME NEW T \in SUBSET D
      PROVE  s[T] = IF T = {} THEN 0 ELSE f(any(T)) + s[T \ {any(T)}]
  BY <1>7, Zenon
<1>9. /\ s[{}] = 0
      /\ \A T \in SUBSET D : T # {} =>
           \E x \in T : s[T] = s[T \ {x}] + PieceSize \/ s[T] = PieceSize + s[T \ {x}]
  BY <1>2, <1>8, Zenon
<1>10. s[D] = PieceSize * Cardinality(D)
  BY <1>1, <1>9, EqualParts
<1>. QED  BY <1>1, <1>6, <1>10, Zenon DEF SentTo, Sources

-----------------------------------------------------------------------------
(***************************************************************************)
(* The actors stay together.                                               *)
(***************************************************************************)

\* The counts at which an actor has received whole rounds.
RoundEnds == {r * Round : r \in Nat}

LEMMA RoundEndsType ==
  ASSUME conf \in Configs
  PROVE  /\ 0 \in RoundEnds /\ PerCall \in RoundEnds
         /\ \A b \in RoundEnds : /\ b \in Nat /\ b + Round \in RoundEnds
                                 /\ \A m \in Nat : b <= m /\ m < b + Round =>
                                      ((m + 1) % Round = 0 <=> m + 1 = b + Round)
<1>1. PICK n \in Nat \ {0} : n = Round
  BY CallType DEF Positive
<1>2. RoundEnds = {r * n : r \in Nat}
  BY <1>1 DEF RoundEnds
<1>3. 0 \in RoundEnds /\ PerCall \in RoundEnds
  <2>1. 0 * n = 0
    OBVIOUS
  <2>. QED  BY <1>1, <1>2, <2>1, CallType
<1>4. ASSUME NEW b \in RoundEnds
      PROVE  /\ b \in Nat /\ b + n \in RoundEnds
             /\ \A m \in Nat : b <= m /\ m < b + n => ((m + 1) % n = 0 <=> m + 1 = b + n)
  <2>1. PICK r \in Nat : b = r * n
    BY <1>2
  <2>2. b \in Nat /\ (r + 1) * n = b + n
    BY <2>1
  <2>3. ASSUME NEW m \in Nat, b <= m, m < b + n
        PROVE  (m + 1) % n = 0 <=> m + 1 = b + n
    <3>1. PICK x \in Nat : x = m + 1 - b /\ m + 1 = b + x /\ 1 <= x /\ x <= n
      BY <2>2, <2>3
    <3>2. CASE x = n
      <4>1. ((r + 1) * n + 0) % n = 0
        BY Remainder, 0 < n
      <4>. QED  BY <2>2, <3>1, <3>2, <4>1
    <3>3. CASE x < n
      <4>1. (r * n + x) % n = x
        BY <3>3, Remainder
      <4>2. (m + 1) % n = x
        BY <2>1, <3>1, <4>1
      <4>. QED  BY <2>2, <3>1, <3>3, <4>2
    <3>. QED  BY <3>1, <3>2, <3>3
  <2>4. b + n \in RoundEnds
    <3>1. r + 1 \in Nat
      OBVIOUS
    <3>. QED  BY <1>2, <2>2, <3>1, Zenon
  <2>. QED  BY <2>2, <2>3, <2>4
<1>. QED  BY <1>1, <1>3, <1>4

AccOf(w) == IF pc[w] = "idle" THEN 0 ELSE acc[w]

\* The actor is in the round that began with b messages received and l left.
GatherAt(w, b, l) ==
  /\ pc[w] \in {"idle", "recv", "barrier"}
  /\ pc[w] = "idle" => b = 0 /\ l = 0
  /\ pc[w] # "idle" => b <= msgs[w] /\ Len(batch[w]) = l + (msgs[w] - b)
  /\ pc[w] = "recv" => msgs[w] < b + Round
  /\ pc[w] = "barrier" => msgs[w] = b + Round

Gathering ==
  /\ \E b \in RoundEnds, l \in Nat : \A w \in Actors : GatherAt(w, b, l)
  /\ \A v, w \in Actors : AccOf(v) = AccOf(w)

Alike(v, w) ==
  /\ pc[v] = pc[w] /\ msgs[v] = msgs[w] /\ Len(batch[v]) = Len(batch[w]) /\ acc[v] = acc[w]
  /\ pc[v] \in {"slice", "step"} => size[v] = size[w] /\ off[v] = off[w] /\ upd[v] = upd[w]

Training ==
  /\ \A w \in Actors : pc[w] \in {"slice", "step", "last"} /\ msgs[w] \in RoundEnds
  /\ \A v, w \in Actors : Alike(v, w)

Ending == \A w \in Actors : pc[w] \in {"drain", "done"}

Together == Gathering \/ Training \/ Ending

AllAlike ==
  /\ \A v, w \in Actors : Alike(v, w)
  /\ \A w \in Actors : msgs[w] \in RoundEnds /\ pc[w] \in {"slice", "step", "last", "recv", "drain"}

LEMMA AlikeTogether == CountInv /\ AllAlike => Together
<1> SUFFICES ASSUME CountInv, AllAlike
             PROVE  Together
  OBVIOUS
<1> USE DEF AllAlike
<1>1. conf \in Configs /\ Round \in Nat \ {0} /\ 0 \in Actors
  BY CallType, ConfType DEF CountInv, TypeInv, Actors, Positive
<1>2. CASE pc[0] \in {"slice", "step", "last"}
  BY <1>1, <1>2 DEF Together, Training, Alike
<1>3. CASE pc[0] = "drain"
  BY <1>1, <1>3 DEF Together, Ending, Alike
<1>4. CASE pc[0] = "recv"
  <2>1. PICK b \in RoundEnds, l \in Nat : b = msgs[0] /\ l = Len(batch[0])
    BY <1>1 DEF CountInv, TypeInv
  <2>2. b \in Nat
    BY <1>1, RoundEndsType
  <2>3. \A w \in Actors : GatherAt(w, b, l)
    BY <1>1, <1>4, <2>1, <2>2 DEF GatherAt, Alike
  <2>4. \A v, w \in Actors : AccOf(v) = AccOf(w)
    BY DEF Alike, AccOf
  <2>. QED  BY <2>3, <2>4 DEF Together, Gathering
<1>. QED  BY <1>1, <1>2, <1>3, <1>4

LEMMA AlikeTogetherNext == (CountInv /\ AllAlike => Together)'
BY AlikeTogether, PTL

LEMMA MatchTogether ==
  ASSUME CountInv, Together
  PROVE  CollectivesMatch
<1> SUFFICES ASSUME NEW v \in Actors, NEW w \in Actors, Collective(v) # None, Collective(w) # None
             PROVE  Collective(v) = Collective(w)
  BY DEF CollectivesMatch
<1>1. pc[v] \in {"slice", "barrier", "step", "last"} /\ pc[w] \in {"slice", "barrier", "step", "last"}
  BY DEF Collective
<1>2. CASE Gathering
  <2>1. pc[v] = "barrier" /\ pc[w] = "barrier"
    BY <1>1, <1>2 DEF Gathering, GatherAt
  <2>. QED  BY <2>1 DEF Collective
<1>3. CASE Training
  <2>1. Alike(v, w) /\ pc[v] = pc[w]
    BY <1>3 DEF Training, Alike
  <2>2. CASE pc[v] # "slice"
    BY <1>1, <2>1, <2>2 DEF Collective
  <2>3. CASE pc[v] = "slice"
    <3>1. acc[v] = acc[w] /\ size[v] = size[w] /\ off[v] = off[w] /\ upd[v] = upd[w] /\ msgs[v] = msgs[w]
      BY <2>1, <2>3 DEF Alike
    <3>2. TotalMessages(v) = TotalMessages(w)
      BY CallType DEF CountInv, TypeInv
    <3>3. StepSize(v) = StepSize(w)
      BY <3>1 DEF StepSize
    <3>4. SliceSize(v) = SliceSize(w)
      BY <3>1, <3>3 DEF SliceSize
    <3>5. Reduces(v) = Reduces(w)
      BY <3>1, <3>2, <3>3, <3>4 DEF Reduces, StepDue, ForcedReduce
    <3>. QED  BY <2>1, <2>3, <3>4, <3>5 DEF Collective
  <2>. QED  BY <2>2, <2>3
<1>4. CASE Ending
  BY <1>1, <1>4 DEF Ending
<1>. QED  BY <1>2, <1>3, <1>4 DEF Together

LEMMA EvenKept ==
  ASSUME conf' = conf
  PROVE  EvenlyCut' = EvenlyCut /\ PieceSize' = PieceSize /\ RoundEnds' = RoundEnds
BY DEF EvenlyCut, PieceSize, RoundEnds, Round, PerEpoch, Total, Slots, Pieces, Batch, NumSlots, SplitNum,
       NumActors, Loop

LEMMA SameAfterRound ==
  ASSUME CountInv, NEW v \in Actors, NEW w \in Actors, msgs[v] = msgs[w], NEW a
  PROVE  AfterRound(v, a) = AfterRound(w, a)
BY CallType DEF CountInv, TypeInv, AfterRound

LEMMA SameSlice ==
  ASSUME CountInv, NEW v \in Actors, NEW w \in Actors, Alike(v, w), pc[v] \in {"slice", "step"}
  PROVE  /\ SliceSize(v) = SliceSize(w) /\ StepDue(v) = StepDue(w)
         /\ \A o, a : /\ GoesOn(v, o, a) = GoesOn(w, o, a) /\ NextOff(v, o) = NextOff(w, o)
                      /\ NextPass(v, o) = NextPass(w, o)
<1>1. /\ acc[v] = acc[w] /\ size[v] = size[w] /\ off[v] = off[w] /\ upd[v] = upd[w] /\ msgs[v] = msgs[w]
  BY DEF Alike
<1>2. StepSize(v) = StepSize(w)
  BY <1>1 DEF StepSize
<1>3. SliceSize(v) = SliceSize(w)
  BY <1>1, <1>2 DEF SliceSize
<1>4. StepDue(v) = StepDue(w)
  BY <1>1, <1>2, <1>3 DEF StepDue
<1>5. LastPass(v) = LastPass(w) /\ \A o : PassOver(v, o) = PassOver(w, o)
  BY <1>1 DEF LastPass, PassOver
<1>6. \A o, a : GoesOn(v, o, a) = GoesOn(w, o, a)
  BY <1>1, <1>5, SameAfterRound DEF GoesOn
<1>. QED  BY <1>1, <1>3, <1>4, <1>5, <1>6 DEF NextOff, NextPass

LEMMA StartTogether ==
  ASSUME CountInv, Together, NEW v \in Actors, StartLoop(v)
  PROVE  Together'
<1>1. conf \in Configs /\ conf' = conf /\ Round \in Nat \ {0} /\ RoundEnds' = RoundEnds
  BY CallType, EvenKept DEF CountInv, TypeInv, StartLoop, Positive
<1>2. Gathering
  BY DEF Together, Training, Ending, StartLoop
<1>3. PICK b \in RoundEnds : \E l \in Nat : \A w \in Actors : GatherAt(w, b, l)
  BY <1>2 DEF Gathering
<1>4. PICK l \in Nat : \A w \in Actors : GatherAt(w, b, l)
  BY <1>3
<1>5. b = 0 /\ l = 0 /\ batch[v] = <<>> /\ pc[v] = "idle"
  BY <1>4 DEF GatherAt, CountInv, PlaceAt, StartLoop
<1>6. /\ \A w \in Actors : /\ pc'[w] = IF w = v THEN "recv" ELSE pc[w]
                           /\ msgs'[w] = IF w = v THEN 0 ELSE msgs[w]
                           /\ acc'[w] = IF w = v THEN 0 ELSE acc[w]
      /\ batch' = batch
  BY DEF CountInv, TypeInv, StartLoop
<1>7. ASSUME NEW w \in Actors
      PROVE  GatherAt(w, b, l)'
  <2>1. CASE w # v
    BY <1>1, <1>4, <1>6, <2>1, ConfKept DEF GatherAt
  <2>2. CASE w = v
    BY <1>1, <1>5, <1>6, <2>2, ConfKept DEF GatherAt
  <2>. QED  BY <2>1, <2>2
<1>8. \A w \in Actors : AccOf(w)' = AccOf(w)
  BY <1>5, <1>6 DEF AccOf
<1>. QED  BY <1>1, <1>2, <1>7, <1>8, ConfKept DEF Together, Gathering

LEMMA ReceiveTogether ==
  ASSUME CountInv, Together, NEW v \in Actors, Receive(v)
  PROVE  Together'
<1>1. conf \in Configs /\ conf' = conf /\ Round \in Nat \ {0} /\ RoundEnds' = RoundEnds /\ RoundLength(v) = Round
  BY CallType, EvenKept DEF CountInv, TypeInv, Receive, Positive
<1>2. Gathering
  BY DEF Together, Training, Ending, Receive
<1>3. PICK b \in RoundEnds : \E l \in Nat : \A w \in Actors : GatherAt(w, b, l)
  BY <1>2 DEF Gathering
<1>4. PICK l \in Nat : \A w \in Actors : GatherAt(w, b, l)
  BY <1>3
<1>5. PICK m \in Nat, k \in Nat : /\ m = msgs[v] /\ k = Len(batch[v]) /\ batch[v] \in Seq(Current)
                                  /\ q[v] \in Seq(Current) /\ q[v] # <<>> /\ pc[v] = "recv"
  <2>1. msgs[v] \in Nat /\ batch[v] \in Seq(Current) /\ q[v] \in Seq(Current)
    BY DEF CountInv, TypeInv
  <2>2. q[v] # <<>> /\ pc[v] = "recv"
    BY DEF Receive
  <2>. QED  BY <2>1, <2>2
<1>6. b \in Nat /\ b <= m /\ m < b + Round /\ k = l + (m - b)
  BY <1>1, <1>4, <1>5, RoundEndsType DEF GatherAt
<1>7. (m + 1) % Round = 0 <=> m + 1 = b + Round
  BY <1>1, <1>6, RoundEndsType
<1>8. \A w \in Actors : /\ pc'[w] = IF w = v THEN (IF m + 1 = b + Round THEN "barrier" ELSE "recv") ELSE pc[w]
                        /\ msgs'[w] = IF w = v THEN m + 1 ELSE msgs[w]
  <2> TAKE w \in Actors
  <2>1. pc \in [Actors -> Places] /\ msgs \in [Actors -> Nat]
    BY DEF CountInv, TypeInv
  <2>2. /\ pc' = [pc EXCEPT ![v] = IF m + 1 = b + Round THEN "barrier" ELSE "recv"]
        /\ msgs' = [msgs EXCEPT ![v] = m + 1]
    BY <1>1, <1>5, <1>7 DEF Receive
  <2>. QED  BY <2>1, <2>2
<1>9. Len(batch'[v]) = k + 1 /\ \A w \in Actors : w # v => batch'[w] = batch[w]
  <2>1. PICK x \in Current : x = Head(q[v])
    BY <1>5
  <2>2. batch' = [batch EXCEPT ![v] = Append(batch[v], x)]
    BY <2>1, Zenon DEF Receive
  <2>. QED  BY <1>5, <2>2 DEF CountInv, TypeInv
<1>10. ASSUME NEW w \in Actors
       PROVE  GatherAt(w, b, l)'
  <2>1. CASE w # v
    BY <1>1, <1>4, <1>8, <1>9, <2>1, ConfKept DEF GatherAt
  <2>2. CASE w = v
    BY <1>1, <1>6, <1>8, <1>9, <2>2, ConfKept DEF GatherAt
  <2>. QED  BY <2>1, <2>2
<1>11. \A w \in Actors : AccOf(w)' = AccOf(w)
  BY <1>5, <1>8 DEF AccOf, Receive, trainVars
<1>. QED  BY <1>1, <1>2, <1>10, <1>11, ConfKept DEF Together, Gathering

LEMMA BarrierTogether ==
  ASSUME CountInv, CountInv', EvenlyCut, Together, Barrier
  PROVE  Together'
<1>1. /\ conf \in Configs /\ conf' = conf /\ Round \in Nat \ {0} /\ RoundEnds' = RoundEnds
      /\ Actors' = Actors /\ 0 \in Actors
  BY CallType, EvenKept, ConfKept, ConfType DEF CountInv, TypeInv, Barrier, Actors, Positive
<1>2. \A w \in Actors : pc[w] = "barrier"
  BY DEF Barrier, AllAt
<1>3. Gathering
  BY <1>1, <1>2 DEF Together, Training, Ending
<1>4. PICK b \in RoundEnds : \E l \in Nat : \A w \in Actors : GatherAt(w, b, l)
  BY <1>3 DEF Gathering
<1>5. PICK l \in Nat : \A w \in Actors : GatherAt(w, b, l)
  BY <1>4
<1>6. b \in Nat /\ b + Round \in RoundEnds
  BY <1>1, RoundEndsType
<1>7. \A w \in Actors : msgs[w] = b + Round /\ Len(batch[w]) = l + Round /\ batch[w] \in Seq(Current)
  <2> TAKE w \in Actors
  <2>1. msgs[w] \in Nat /\ batch[w] \in Seq(Current)
    BY DEF CountInv, TypeInv
  <2>2. msgs[w] = b + Round /\ Len(batch[w]) = l + (msgs[w] - b)
    BY <1>2, <1>5 DEF GatherAt
  <2>. QED  BY <1>1, <1>6, <2>1, <2>2
<1>8. \A v, w \in Actors : acc[v] = acc[w]
  BY <1>2, <1>3 DEF Gathering, AccOf
<1>9. \A v, w \in Actors : Samples(batch[v]) = Samples(batch[w])
  BY <1>1, <1>7, SamplesEven
<1>10. \A v, w \in Actors : WholeGroups(v) = WholeGroups(w)
  BY <1>9 DEF WholeGroups
<1>11. \A v, w \in Actors : AfterRound(v, acc[v]) = AfterRound(w, acc[w])
  BY <1>7, <1>8, SameAfterRound
<1>12. \A w \in Actors : /\ pc'[w] = (IF WholeGroups(w) THEN "slice" ELSE AfterRound(w, acc[w]))
                         /\ size'[w] = (IF WholeGroups(w) THEN Samples(batch[w]) ELSE size[w])
                         /\ batch'[w] = (IF WholeGroups(w) THEN <<>> ELSE batch[w])
                         /\ off'[w] = 0 /\ upd'[w] = 0 /\ msgs'[w] = msgs[w] /\ acc'[w] = acc[w]
                         /\ AfterRound(w, acc[w]) \in {"recv", "last", "drain"}
  BY AfterRoundPlace DEF Barrier, BufferAfter
<1>13. ASSUME NEW v \in Actors, NEW w \in Actors
       PROVE  Alike(v, w)'
  <2>1. pc'[v] = pc'[w] /\ msgs'[v] = msgs'[w] /\ acc'[v] = acc'[w] /\ off'[v] = off'[w] /\ upd'[v] = upd'[w]
    BY <1>7, <1>8, <1>10, <1>11, <1>12
  <2>2. Len(batch'[v]) = Len(batch'[w])
    BY <1>7, <1>10, <1>12
  <2>3. pc'[v] \in {"slice", "step"} => size'[v] = size'[w]
    BY <1>9, <1>10, <1>12
  <2>. QED  BY <2>1, <2>2, <2>3 DEF Alike
<1>14. \A w \in Actors : msgs'[w] \in RoundEnds' /\ pc'[w] \in {"slice", "step", "last", "recv", "drain"}
  BY <1>1, <1>6, <1>7, <1>12
<1>. QED  BY <1>1, <1>13, <1>14, AlikeTogetherNext DEF AllAlike

LEMMA SliceTogether ==
  ASSUME CountInv, CountInv', Together, Slice
  PROVE  Together'
<1>1. conf \in Configs /\ conf' = conf /\ RoundEnds' = RoundEnds /\ Actors' = Actors /\ 0 \in Actors
  BY EvenKept, ConfKept, ConfType DEF CountInv, TypeInv, Slice, Actors, Positive
<1>2. \A w \in Actors : pc[w] = "slice"
  BY DEF Slice, AllAt
<1>3. Training
  BY <1>1, <1>2 DEF Together, Gathering, GatherAt, Ending
<1>4. ASSUME NEW w \in Actors
      PROVE  /\ acc'[w] = acc[w] + SliceSize(w) /\ msgs'[w] = msgs[w] /\ batch'[w] = batch[w] /\ size'[w] = size[w]
             /\ pc'[w] = IF StepDue(w) THEN "step"
                         ELSE GoesOn(w, off[w] + SliceSize(w), acc[w] + SliceSize(w))
             /\ off'[w] = IF StepDue(w) THEN off[w] + SliceSize(w) ELSE NextOff(w, off[w] + SliceSize(w))
             /\ upd'[w] = IF StepDue(w) THEN upd[w] ELSE NextPass(w, off[w] + SliceSize(w))
  BY DEF Slice
<1>5. ASSUME NEW v \in Actors, NEW w \in Actors
      PROVE  Alike(v, w)'
  <2>1. /\ acc[v] = acc[w] /\ size[v] = size[w] /\ off[v] = off[w] /\ upd[v] = upd[w] /\ msgs[v] = msgs[w]
        /\ Len(batch[v]) = Len(batch[w])
    BY <1>2, <1>3 DEF Training, Alike
  <2>2. /\ SliceSize(v) = SliceSize(w) /\ StepDue(v) = StepDue(w)
        /\ \A o, a : /\ GoesOn(v, o, a) = GoesOn(w, o, a) /\ NextOff(v, o) = NextOff(w, o)
                     /\ NextPass(v, o) = NextPass(w, o)
    BY <1>2, <1>3, SameSlice DEF Training
  <2>3. pc'[v] = pc'[w] /\ off'[v] = off'[w] /\ upd'[v] = upd'[w]
    BY <1>4, <2>1, <2>2
  <2>. QED  BY <1>4, <2>1, <2>2, <2>3 DEF Alike
<1>6. ASSUME NEW w \in Actors
      PROVE  msgs'[w] \in RoundEnds' /\ pc'[w] \in {"slice", "step", "last", "recv", "drain"}
  BY <1>1, <1>3, <1>4, AfterRoundPlace DEF Training, GoesOn
<1>. QED  BY <1>1, <1>5, <1>6, AlikeTogetherNext DEF AllAlike

LEMMA StepTogether ==
  ASSUME CountInv, CountInv', Together, OptimizerStep
  PROVE  Together'
<1>1. conf \in Configs /\ conf' = conf /\ RoundEnds' = RoundEnds /\ Actors' = Actors /\ 0 \in Actors
  BY EvenKept, ConfKept, ConfType DEF CountInv, TypeInv, OptimizerStep, Actors, Positive
<1>2. \A w \in Actors : pc[w] = "step"
  BY DEF OptimizerStep, AllAt
<1>3. Training
  BY <1>1, <1>2 DEF Together, Gathering, GatherAt, Ending
<1>4. ASSUME NEW w \in Actors
      PROVE  /\ acc'[w] = 0 /\ msgs'[w] = msgs[w] /\ batch'[w] = batch[w] /\ size'[w] = size[w]
             /\ pc'[w] = GoesOn(w, off[w], 0)
             /\ off'[w] = NextOff(w, off[w]) /\ upd'[w] = NextPass(w, off[w])
  BY DEF OptimizerStep
<1>5. ASSUME NEW v \in Actors, NEW w \in Actors
      PROVE  Alike(v, w)'
  <2>1. /\ size[v] = size[w] /\ off[v] = off[w] /\ msgs[v] = msgs[w] /\ Len(batch[v]) = Len(batch[w])
    BY <1>2, <1>3 DEF Training, Alike
  <2>2. \A o, a : /\ GoesOn(v, o, a) = GoesOn(w, o, a) /\ NextOff(v, o) = NextOff(w, o)
                  /\ NextPass(v, o) = NextPass(w, o)
    BY <1>2, <1>3, SameSlice DEF Training
  <2>3. pc'[v] = pc'[w] /\ off'[v] = off'[w] /\ upd'[v] = upd'[w]
    BY <1>4, <2>1, <2>2
  <2>. QED  BY <1>4, <2>1, <2>3 DEF Alike
<1>6. ASSUME NEW w \in Actors
      PROVE  msgs'[w] \in RoundEnds' /\ pc'[w] \in {"slice", "step", "last", "recv", "drain"}
  BY <1>1, <1>3, <1>4, AfterRoundPlace DEF Training, GoesOn
<1>. QED  BY <1>1, <1>5, <1>6, AlikeTogetherNext DEF AllAlike

LEMMA TogetherStep ==
  ASSUME CountInv, CountInv', EvenlyCut, Together, [Next]_vars
  PROVE  Together'
<1>1. CASE UNCHANGED vars
  <2>1. conf' = conf /\ UNCHANGED <<pc, msgs, batch, acc, size, off, upd>>
    BY <1>1 DEF vars, trainVars
  <2>. QED  BY <2>1, ConfKept, EvenKept
            DEF Together, Gathering, GatherAt, AccOf, Training, Alike, Ending
<1>2. ASSUME NEW s \in Slots, RolloutNext(s)
      PROVE  Together'
  <2>1. conf' = conf /\ UNCHANGED <<pc, msgs, batch, acc, size, off, upd>>
    BY <1>2 DEF RolloutNext, Ship, Arrive, trainVars
  <2>. QED  BY <2>1, ConfKept, EvenKept
            DEF Together, Gathering, GatherAt, AccOf, Training, Alike, Ending
<1>3. ASSUME NEW w \in Actors, ActorNext(w)
      PROVE  Together'
  <2>1. CASE StartLoop(w)
    BY <2>1, StartTogether
  <2>2. CASE Receive(w)
    BY <2>2, ReceiveTogether
  <2>3. CASE Drain(w)
    <3>1. Ending
      BY <2>3 DEF Drain, Together, Gathering, GatherAt, Training
    <3>2. conf' = conf /\ pc \in [Actors -> Places] /\ pc' = [pc EXCEPT ![w] = "done"]
      BY <2>3 DEF Drain, CountInv, TypeInv
    <3>. QED  BY <3>1, <3>2, ConfKept DEF Together, Ending
  <2>. QED  BY <1>3, <2>1, <2>2, <2>3 DEF ActorNext
<1>4. CASE CollectiveNext
  <2>1. CASE LastStep
    <3>1. conf' = conf /\ \A w \in Actors : pc'[w] = "drain"
      BY <2>1 DEF LastStep
    <3>. QED  BY <3>1, ConfKept DEF Together, Ending
  <2>. QED  BY <1>4, <2>1, BarrierTogether, SliceTogether, StepTogether DEF CollectiveNext
<1>5. CASE NextIteration
  <2>1. conf' = conf /\ \A w \in Actors : pc'[w] = "idle"
    BY <1>5 DEF NextIteration
  <2>2. 0 \in RoundEnds /\ RoundEnds' = RoundEnds /\ 0 \in Nat
    BY <2>1, RoundEndsType, EvenKept DEF CountInv, TypeInv
  <2>3. \A w \in Actors : GatherAt(w, 0, 0)'
    BY <2>1 DEF GatherAt
  <2>4. \A w \in Actors : AccOf(w)' = 0
    BY <2>1 DEF AccOf
  <2>. QED  BY <2>1, <2>2, <2>3, <2>4, ConfKept DEF Together, Gathering
<1>. QED  BY <1>1, <1>2, <1>3, <1>4, <1>5 DEF Next, Finished

LEMMA TogetherInit ==
  ASSUME Init
  PROVE  Together
<1>1. conf \in Configs /\ \A w \in Actors : pc[w] = "idle"
  BY DEF Init
<1>2. 0 \in RoundEnds /\ 0 \in Nat
  BY <1>1, RoundEndsType
<1>. QED  BY <1>1, <1>2 DEF Together, Gathering, GatherAt, AccOf

EvenTogether == EvenlyCut => Together

LEMMA TogetherAlways == Spec => []EvenTogether
<1>1. Init => EvenTogether
  BY TogetherInit DEF EvenTogether
<1>2. CountInv /\ CountInv' /\ EvenTogether /\ [Next]_vars => EvenTogether'
  <2> SUFFICES ASSUME CountInv, CountInv', EvenTogether, [Next]_vars, EvenlyCut'
               PROVE  Together'
    BY DEF EvenTogether
  <2>1. conf' = conf
    BY DEF Next, vars, RolloutNext, Ship, Arrive, ActorNext, StartLoop, Receive, Drain, CollectiveNext, Barrier, Slice,
           OptimizerStep, LastStep, NextIteration, Finished
  <2>2. EvenlyCut
    BY <2>1, EvenKept
  <2>. QED  BY <2>2, TogetherStep DEF EvenTogether
<1>. QED  BY <1>1, <1>2, CountAlways, PTL DEF Spec

\* Actors that stand at a collective stand at the same one, with the same
\* number of micro-batches and the same decision to reduce-scatter: the three
\* loops of fsdp_actor_worker.py, each counting its own messages and samples,
\* keep the ranks of the FSDP group in step, if all trajectories are cut into
\* pieces of one size.
THEOREM CollectivesAlwaysMatch == Spec => [](EvenlyCut => CollectivesMatch)
<1>1. CountInv /\ EvenTogether => (EvenlyCut => CollectivesMatch)
  BY MatchTogether DEF EvenTogether
<1>. QED  BY <1>1, CountAlways, TogetherAlways, PTL

-----------------------------------------------------------------------------
(***************************************************************************)
(* Every sample is trained on.                                             *)
(***************************************************************************)

\* Samples an actor trains on, over all passes, for every message.
Work == UpdateEpoch * PieceSize

\* An actor inside a batch: what is applied and accumulated, and what the
\* passes still have to go through, is what it has received.
InBatch(w) ==
  /\ size[w] \in Positive /\ off[w] \in 0 .. size[w] /\ upd[w] \in 0 .. UpdateEpoch - 1 /\ batch[w] = <<>>
  /\ trained[w] + acc[w] + ((UpdateEpoch - upd[w]) * size[w] - off[w]) = Work * msgs[w]
  /\ pc[w] = "slice" => off[w] < size[w] /\ acc[w] < StepSize(w)
  /\ Loop = "epoch" => off[w] % StepSize(w) = 0 /\ size[w] % StepSize(w) = 0

\* The account of an actor at every point of its loop.
SampleAt(w) ==
  /\ pc[w] # "idle" => trained[w] \in Nat /\ acc[w] \in Nat
  /\ pc[w] \in {"recv", "barrier", "last"} => trained[w] + acc[w] + Work * Len(batch[w]) = Work * msgs[w]
  /\ pc[w] = "drain" => trained[w] + Work * Len(batch[w]) = Work * msgs[w]
  /\ pc[w] = "barrier" => batch[w] # <<>>
  /\ pc[w] \in {"slice", "step"} => InBatch(w)
  /\ pc[w] \in {"recv", "barrier", "slice"} => IF Loop = "epoch" THEN acc[w] = 0 ELSE acc[w] < TargetBatch

SampleInv == \A w \in Actors : SampleAt(w)

LEMMA WorkType ==
  ASSUME conf \in Configs
  PROVE  Work \in Nat /\ UpdateEpoch \in Nat \ {0} /\ TargetBatch \in Nat \ {0}
<1>1. PICK u \in Nat \ {0}, p \in Nat : u = UpdateEpoch /\ p = PieceSize
  BY ConfType, PieceType DEF Positive
<1>. QED  BY <1>1, ConfType DEF Work, Positive

LEMMA StepSizeType ==
  ASSUME conf \in Configs, NEW w \in Actors, size[w] \in Positive
  PROVE  /\ StepSize(w) \in Nat \ {0}
         /\ Loop # "epoch" => StepSize(w) = TargetBatch
         /\ Loop = "epoch" => size[w] % StepSize(w) = 0 /\ 0 % StepSize(w) = 0
<1>1. PICK z \in Nat \ {0}, t \in Nat \ {0} : z = size[w] /\ t = TargetBatch
  BY WorkType DEF Positive
<1>2. StepSize(w) = IF Loop = "epoch" /\ z % t # 0 THEN z ELSE t
  BY <1>1 DEF StepSize
<1>3. z % z = 0 /\ 0 % z = 0 /\ 0 % t = 0
  <2>1. (1 * z + 0) % z = 0 /\ (0 * z + 0) % z = 0 /\ (0 * t + 0) % t = 0
    BY Remainder
  <2>. QED  BY <2>1
<1>. QED  BY <1>1, <1>2, <1>3

\* A slice is not empty, ends where the batch or the update ends, and in the
\* per-epoch loop always at an update.
LEMMA SliceFacts ==
  ASSUME conf \in Configs, NEW w \in Actors, SampleAt(w), pc[w] = "slice"
  PROVE  /\ SliceSize(w) \in Nat \ {0} /\ StepSize(w) \in Nat \ {0}
         /\ off[w] + SliceSize(w) <= size[w] /\ acc[w] + SliceSize(w) <= StepSize(w)
         /\ StepDue(w) <=> acc[w] + SliceSize(w) = StepSize(w)
         /\ ~StepDue(w) => off[w] + SliceSize(w) = size[w] /\ Loop # "epoch"
         /\ Loop = "epoch" => (off[w] + SliceSize(w)) % StepSize(w) = 0
<1>1. InBatch(w) /\ acc[w] \in Nat /\ (Loop = "epoch" => acc[w] = 0)
  BY DEF SampleAt
<1>2. PICK z \in Nat \ {0}, o \in Nat, a \in Nat, t \in Nat \ {0} :
        z = size[w] /\ o = off[w] /\ a = acc[w] /\ t = StepSize(w)
  BY <1>1, StepSizeType DEF InBatch, Positive
<1>3. o < z /\ a < t
  BY <1>1, <1>2 DEF InBatch
<1>4. SliceSize(w) = IF t - a <= z - o THEN t - a ELSE z - o
  <2>1. SliceSize(w) = Min({t - a, z - o})
    BY <1>2 DEF SliceSize
  <2>2. t - a \in Int /\ z - o \in Int
    OBVIOUS
  <2>. QED  BY <2>1, <2>2, MinOfTwo
<1>5. PICK k \in Nat \ {0} : k = SliceSize(w) /\ o + k <= z /\ a + k <= t /\ (a + k = t \/ o + k = z)
  BY <1>3, <1>4
<1>6. StepDue(w) <=> a + k = t
  BY <1>2, <1>5 DEF StepDue
<1>7. Loop = "epoch" => k = t /\ (o + k) % t = 0
  <2> SUFFICES ASSUME Loop = "epoch" PROVE k = t /\ (o + k) % t = 0
    OBVIOUS
  <2>1. a = 0 /\ o % t = 0 /\ z % t = 0
    BY <1>1, <1>2 DEF InBatch
  <2>2. o + t <= z /\ (o + t) % t = 0
    BY <1>3, <2>1, NextMultiple
  <2>3. k = t
    BY <1>4, <1>5, <2>1, <2>2
  <2>. QED  BY <2>2, <2>3
<1>. QED  BY <1>1, <1>2, <1>5, <1>6, <1>7

\* Going on at offset o keeps the account of the samples.
LEMMA GoesOnFacts ==
  ASSUME conf \in Configs, NEW w \in Actors, InBatch(w), NEW o \in 0 .. size[w], NEW a \in Nat,
         NEW x \in Nat, NEW y \in Nat, x + ((UpdateEpoch - upd[w]) * size[w] - o) = y
  PROVE  \/ /\ GoesOn(w, o, a) = "slice" /\ NextOff(w, o) \in 0 .. size[w] /\ NextOff(w, o) < size[w]
            /\ NextOff(w, o) \in {0, o} /\ NextPass(w, o) \in 0 .. UpdateEpoch - 1
            /\ x + ((UpdateEpoch - NextPass(w, o)) * size[w] - NextOff(w, o)) = y
         \/ /\ GoesOn(w, o, a) = AfterRound(w, a) /\ x = y
            /\ o = size[w] /\ upd[w] = UpdateEpoch - 1
<1>1. PICK z \in Nat \ {0}, u \in Nat, n \in Nat \ {0} :
        z = size[w] /\ u = upd[w] /\ n = UpdateEpoch /\ u <= n - 1 /\ o \in Nat /\ o <= z
  BY WorkType DEF InBatch, Positive
<1>2. x + ((n - u) * z - o) = y
  BY <1>1
<1>3. /\ GoesOn(w, o, a) = (IF o >= z /\ u = n - 1 THEN AfterRound(w, a) ELSE "slice")
      /\ NextPass(w, o) = (IF o >= z /\ ~(u = n - 1) THEN u + 1 ELSE u)
      /\ NextOff(w, o) = (IF o >= z THEN 0 ELSE o)
  BY <1>1 DEF GoesOn, NextPass, NextOff, PassOver, LastPass
<1>4. CASE o < z
  BY <1>1, <1>2, <1>3, <1>4
<1>5. CASE o = z /\ u = n - 1
  <2>1. (n - u) * z = z
    BY <1>5
  <2>. QED  BY <1>1, <1>2, <1>3, <1>5, <2>1
<1>6. CASE o = z /\ u # n - 1
  <2>1. (n - u) * z = (n - (u + 1)) * z + z
    OBVIOUS
  <2>2. (n - (u + 1)) * z \in Int
    OBVIOUS
  <2>3. x + ((n - (u + 1)) * z - 0) = y
    BY <1>2, <1>6, <2>1, <2>2
  <2>4. GoesOn(w, o, a) = "slice" /\ NextOff(w, o) = 0 /\ NextPass(w, o) = u + 1
    BY <1>3, <1>6
  <2>5. u + 1 \in 0 .. n - 1 /\ 0 \in 0 .. z /\ 0 < z
    <3>1. u <= n - 1 /\ u # n - 1
      BY <1>1, <1>6
    <3>2. u < n - 1
      BY <3>1
    <3>. QED  BY <3>2
  <2>. QED  BY <1>1, <2>3, <2>4, <2>5, Zenon
<1>. QED  BY <1>1, <1>4, <1>5, <1>6

LEMMA SampleKept ==
  ASSUME conf' = conf, NEW w \in Actors,
         pc'[w] = pc[w], batch'[w] = batch[w], msgs'[w] = msgs[w], size'[w] = size[w], off'[w] = off[w],
         upd'[w] = upd[w], acc'[w] = acc[w], trained'[w] = trained[w]
  PROVE  SampleAt(w) => SampleAt(w)'
<1>1. /\ UpdateEpoch' = UpdateEpoch /\ TargetBatch' = TargetBatch /\ Loop' = Loop /\ Work' = Work
  BY EvenKept DEF UpdateEpoch, TargetBatch, Loop, Work
<1>2. StepSize(w)' = StepSize(w)
  BY <1>1 DEF StepSize
<1>3. InBatch(w) => InBatch(w)'
  BY <1>1, <1>2 DEF InBatch
<1>. QED  BY <1>1, <1>3 DEF SampleAt

LEMMA WorkKept ==
  ASSUME conf' = conf
  PROVE  /\ UpdateEpoch' = UpdateEpoch /\ TargetBatch' = TargetBatch /\ Loop' = Loop /\ Work' = Work
         /\ \A w : size'[w] = size[w] => StepSize(w)' = StepSize(w)
BY EvenKept DEF UpdateEpoch, TargetBatch, Loop, Work, StepSize

LEMMA StartSample ==
  ASSUME CountInv, EvenlyCut, SampleInv, NEW v \in Actors, StartLoop(v), NEW w \in Actors
  PROVE  SampleAt(w)'
<1>1. conf \in Configs /\ conf' = conf /\ Work \in Nat /\ TargetBatch \in Nat \ {0}
  BY WorkType DEF CountInv, TypeInv, StartLoop
<1>2. /\ pc'[w] = IF w = v THEN "recv" ELSE pc[w]
      /\ msgs'[w] = IF w = v THEN 0 ELSE msgs[w]
      /\ acc'[w] = IF w = v THEN 0 ELSE acc[w]
      /\ trained'[w] = IF w = v THEN 0 ELSE trained[w]
      /\ UNCHANGED <<batch, size, off, upd>>
  BY DEF CountInv, TypeInv, StartLoop
<1>3. CASE w # v
  BY <1>1, <1>2, <1>3, SampleKept DEF SampleInv
<1>4. CASE w = v
  <2>1. Len(batch'[w]) = 0
    BY <1>2, <1>4 DEF CountInv, PlaceAt, StartLoop
  <2>2. Work * 0 = 0
    BY <1>1
  <2>. QED  BY <1>1, <1>2, <1>4, <2>1, <2>2, WorkKept DEF SampleAt
<1>. QED  BY <1>3, <1>4

LEMMA ReceiveSample ==
  ASSUME CountInv, EvenlyCut, SampleInv, NEW v \in Actors, Receive(v), NEW w \in Actors
  PROVE  SampleAt(w)'
<1>1. conf \in Configs /\ conf' = conf /\ Work \in Nat /\ TargetBatch \in Nat \ {0}
  BY WorkType DEF CountInv, TypeInv, Receive
<1>2. /\ q[v] \in Seq(Current) /\ q[v] # <<>> /\ batch \in [Actors -> Seq(Current)] /\ pc[v] = "recv"
      /\ msgs \in [Actors -> Nat] /\ pc \in [Actors -> Places]
  BY DEF CountInv, TypeInv, Receive
<1>3. PICK x \in Current : x = Head(q[v])
  BY <1>2
<1>4. batch' = [batch EXCEPT ![v] = Append(batch[v], x)]
  BY <1>3, Zenon DEF Receive
<1>5. /\ w # v => batch'[w] = batch[w] /\ pc'[w] = pc[w] /\ msgs'[w] = msgs[w]
      /\ UNCHANGED <<size, off, upd, acc, trained>>
  BY <1>2, <1>4 DEF Receive, trainVars
<1>6. CASE w # v
  BY <1>1, <1>5, <1>6, SampleKept DEF SampleInv
<1>7. CASE w = v
  <2>1. PICK l \in Nat, m \in Nat : l = Len(batch[v]) /\ m = msgs[v]
    BY <1>2
  <2>2. msgs'[v] = m + 1 /\ pc'[v] \in {"recv", "barrier"}
    BY <1>2, <2>1 DEF Receive
  <2>3. Len(batch'[v]) = l + 1 /\ batch'[v] # <<>>
    BY <1>2, <1>4, <2>1
  <2>4. PICK t \in Nat, a \in Nat, k \in Nat : t = trained[v] /\ a = acc[v] /\ k = Work
    BY <1>1, <1>2 DEF SampleInv, SampleAt
  <2>5. t + a + k * l = k * m
    BY <1>2, <2>1, <2>4 DEF SampleInv, SampleAt
  <2>6. k * (l + 1) = k * l + k /\ k * (m + 1) = k * m + k /\ k * l \in Nat /\ k * m \in Nat
    OBVIOUS
  <2>7. t + a + k * (l + 1) = k * (m + 1)
    BY <2>5, <2>6
  <2>8. trained'[v] + acc'[v] + Work' * Len(batch'[v]) = Work' * msgs'[v]
    BY <1>1, <1>5, <2>2, <2>3, <2>4, <2>7, WorkKept
  <2>9. IF Loop = "epoch" THEN acc[v] = 0 ELSE acc[v] < TargetBatch
    BY <1>2 DEF SampleInv, SampleAt
  <2>. QED  BY <1>1, <1>5, <1>7, <2>2, <2>3, <2>4, <2>8, <2>9, WorkKept DEF SampleAt
<1>. QED  BY <1>6, <1>7

LEMMA BarrierSample ==
  ASSUME CountInv, EvenlyCut, SampleInv, Barrier, NEW w \in Actors
  PROVE  SampleAt(w)'
<1>1. /\ conf \in Configs /\ conf' = conf /\ Work \in Nat /\ UpdateEpoch \in Nat \ {0} /\ TargetBatch \in Nat \ {0}
      /\ batch[w] \in Seq(Current) /\ msgs[w] \in Nat
  BY WorkType DEF CountInv, TypeInv, Barrier
<1>2. pc[w] = "barrier" /\ SampleAt(w)
  BY DEF Barrier, AllAt, SampleInv
<1>3. /\ pc'[w] = (IF WholeGroups(w) THEN "slice" ELSE AfterRound(w, acc[w]))
      /\ size'[w] = (IF WholeGroups(w) THEN Samples(batch[w]) ELSE size[w])
      /\ batch'[w] = (IF WholeGroups(w) THEN <<>> ELSE batch[w])
      /\ off'[w] = 0 /\ upd'[w] = 0 /\ msgs'[w] = msgs[w] /\ acc'[w] = acc[w] /\ trained'[w] = trained[w]
  BY DEF Barrier, BufferAfter
<1>4. PICK t \in Nat, a \in Nat, k \in Nat, m \in Nat, l \in Nat \ {0}, p \in Nat \ {0}, u \in Nat \ {0} :
        /\ t = trained[w] /\ a = acc[w] /\ k = Work /\ m = msgs[w] /\ l = Len(batch[w])
        /\ p = PieceSize /\ u = UpdateEpoch
  <2>1. trained[w] \in Nat /\ acc[w] \in Nat /\ batch[w] # <<>>
    BY <1>2 DEF SampleAt
  <2>2. Len(batch[w]) \in Nat \ {0}
    BY <1>1, <2>1
  <2>3. PieceSize \in Nat \ {0}
    BY <1>1, PieceType DEF Positive
  <2>. QED  BY <1>1, <2>1, <2>2, <2>3
<1>5. t + a + k * l = k * m
  BY <1>2, <1>4 DEF SampleAt
<1>6. CASE WholeGroups(w)
  <2>1. size'[w] = p * l
    BY <1>1, <1>3, <1>4, <1>6, SamplesEven
  <2>2. PICK z \in Nat \ {0} : z = p * l
    OBVIOUS
  <2>3. (u - 0) * z - 0 = k * l
    <3>1. k = u * p
      BY <1>4 DEF Work
    <3>2. u * (p * l) = (u * p) * l
      OBVIOUS
    <3>3. (u - 0) * z - 0 = u * z
      OBVIOUS
    <3>. QED  BY <2>2, <3>1, <3>2, <3>3
  <2>4. t + a + ((u - 0) * z - 0) = k * m
    BY <1>5, <2>3
  <2>5. /\ StepSize(w)' \in Nat \ {0}
        /\ Loop # "epoch" => StepSize(w)' = TargetBatch
        /\ Loop = "epoch" => size'[w] % StepSize(w)' = 0 /\ 0 % StepSize(w)' = 0
    <3>1. StepSize(w)' = IF Loop = "epoch" /\ z % TargetBatch # 0 THEN z ELSE TargetBatch
      BY <1>1, <2>1, <2>2, WorkKept DEF StepSize
    <3>2. z % z = 0 /\ 0 % z = 0 /\ 0 % TargetBatch = 0
      <4>1. (1 * z + 0) % z = 0 /\ (0 * z + 0) % z = 0 /\ (0 * TargetBatch + 0) % TargetBatch = 0
        BY <1>1, Remainder
      <4>. QED  BY <1>1, <4>1
    <3>. QED  BY <1>1, <2>1, <2>2, <3>1, <3>2
  <2>6. IF Loop = "epoch" THEN a = 0 ELSE a < TargetBatch
    BY <1>2, <1>4 DEF SampleAt
  <2>7. InBatch(w)'
    <3>1. /\ size'[w] \in Positive /\ off'[w] \in 0 .. size'[w] /\ upd'[w] \in 0 .. UpdateEpoch' - 1
          /\ batch'[w] = <<>>
      BY <1>1, <1>3, <1>6, <2>1, <2>2, WorkKept DEF Positive
    <3>2. trained'[w] + acc'[w] + ((UpdateEpoch' - upd'[w]) * size'[w] - off'[w]) = Work' * msgs'[w]
      BY <1>1, <1>3, <1>4, <2>1, <2>2, <2>4, WorkKept
    <3>3. off'[w] < size'[w] /\ acc'[w] < StepSize(w)'
      BY <1>3, <1>4, <2>1, <2>2, <2>5, <2>6
    <3>4. Loop' = "epoch" => off'[w] % StepSize(w)' = 0 /\ size'[w] % StepSize(w)' = 0
      BY <1>1, <1>3, <2>5, WorkKept
    <3>. QED  BY <3>1, <3>2, <3>3, <3>4 DEF InBatch
  <2>. QED  BY <1>1, <1>3, <1>4, <1>6, <2>6, <2>7, WorkKept DEF SampleAt
<1>7. CASE ~WholeGroups(w)
  <2>1. Loop # "epoch"
    BY <1>7 DEF WholeGroups
  <2>2. pc'[w] \in {"recv", "last", "drain"} /\ (pc'[w] = "drain" => ~(acc[w] > 0))
    BY <1>3, <1>7, <2>1, AfterRoundPlace
  <2>3. pc'[w] = "drain" => trained[w] + k * l = k * m
    BY <1>4, <1>5, <2>2
  <2>4. a < TargetBatch
    BY <1>2, <1>4, <2>1 DEF SampleAt
  <2>. QED  BY <1>1, <1>3, <1>4, <1>5, <1>7, <2>1, <2>2, <2>3, <2>4, WorkKept DEF SampleAt
<1>. QED  BY <1>6, <1>7

\* An actor that leaves a collective at offset o with t samples applied and a
\* accumulated: it is in its batch again, or at the end of the round.
LEMMA GoesOnSample ==
  ASSUME CountInv, EvenlyCut, NEW w \in Actors, InBatch(w), conf' = conf,
         NEW o \in 0 .. size[w], NEW a \in Nat, NEW t \in Nat,
         t + a + ((UpdateEpoch - upd[w]) * size[w] - o) = Work * msgs[w],
         Loop = "epoch" => a = 0 /\ o % StepSize(w) = 0, Loop # "epoch" => a < TargetBatch,
         pc'[w] = GoesOn(w, o, a), off'[w] = NextOff(w, o), upd'[w] = NextPass(w, o),
         trained'[w] = t, acc'[w] = a, msgs'[w] = msgs[w], batch'[w] = batch[w], size'[w] = size[w]
  PROVE  SampleAt(w)'
<1>1. /\ conf \in Configs /\ Work \in Nat /\ UpdateEpoch \in Nat \ {0} /\ TargetBatch \in Nat \ {0}
      /\ msgs[w] \in Nat /\ size[w] \in Positive /\ batch[w] = <<>>
  BY WorkType DEF CountInv, TypeInv, InBatch
<1>2. PICK x \in Nat, y \in Nat : x = t + a /\ y = Work * msgs[w]
  BY <1>1
<1>3. x + ((UpdateEpoch - upd[w]) * size[w] - o) = y
  BY <1>2
<1>4. \/ /\ GoesOn(w, o, a) = "slice" /\ NextOff(w, o) \in 0 .. size[w] /\ NextOff(w, o) < size[w]
         /\ NextOff(w, o) \in {0, o} /\ NextPass(w, o) \in 0 .. UpdateEpoch - 1
         /\ x + ((UpdateEpoch - NextPass(w, o)) * size[w] - NextOff(w, o)) = y
      \/ /\ GoesOn(w, o, a) = AfterRound(w, a) /\ x = y
         /\ o = size[w] /\ upd[w] = UpdateEpoch - 1
  <2>1. conf \in Configs /\ InBatch(w)
    BY <1>1
  <2>. QED  BY <2>1, <1>3, GoesOnFacts
<1>5. /\ StepSize(w)' = StepSize(w) /\ StepSize(w) \in Nat \ {0}
      /\ Loop # "epoch" => StepSize(w) = TargetBatch
      /\ Loop = "epoch" => size[w] % StepSize(w) = 0 /\ 0 % StepSize(w) = 0
  BY <1>1, StepSizeType, WorkKept
<1>6. CASE /\ GoesOn(w, o, a) = "slice" /\ NextOff(w, o) \in 0 .. size[w] /\ NextOff(w, o) < size[w]
           /\ NextOff(w, o) \in {0, o} /\ NextPass(w, o) \in 0 .. UpdateEpoch - 1
           /\ x + ((UpdateEpoch - NextPass(w, o)) * size[w] - NextOff(w, o)) = y
  <2>1. trained'[w] + acc'[w] + ((UpdateEpoch' - upd'[w]) * size'[w] - off'[w]) = Work' * msgs'[w]
    BY <1>2, <1>6, WorkKept, Zenon
  <2>2. acc'[w] < StepSize(w)'
    <3>1. a < StepSize(w)
      BY <1>5
    <3>. QED  BY <1>5, <3>1
  <2>3. Loop' = "epoch" => off'[w] % StepSize(w)' = 0 /\ size'[w] % StepSize(w)' = 0
    BY <1>5, <1>6, WorkKept
  <2>4. /\ size'[w] \in Positive /\ off'[w] \in 0 .. size'[w] /\ upd'[w] \in 0 .. UpdateEpoch' - 1
        /\ batch'[w] = <<>> /\ off'[w] < size'[w]
    BY <1>1, <1>6, WorkKept
  <2>5. InBatch(w)'
    BY <2>1, <2>2, <2>3, <2>4 DEF InBatch
  <2>. QED  BY <1>1, <1>6, <2>5, WorkKept DEF SampleAt
<1>7. CASE GoesOn(w, o, a) = AfterRound(w, a) /\ x = y
  <2>1. /\ pc'[w] \in {"recv", "last", "drain"} /\ (pc'[w] = "last" => Loop # "epoch")
        /\ pc'[w] = "drain" => ~(a > 0) \/ Loop = "epoch"
    BY <1>7, AfterRoundPlace
  <2>2. pc'[w] = "drain" => a = 0
    BY <2>1
  <2>3. Work * Len(batch'[w]) = 0
    BY <1>1
  <2>4. trained'[w] + acc'[w] + Work' * Len(batch'[w]) = Work' * msgs'[w]
    BY <1>2, <1>7, <2>3, WorkKept
  <2>5. a = 0 => trained'[w] + Work' * Len(batch'[w]) = Work' * msgs'[w]
    BY <1>2, <1>7, <2>3, WorkKept
  <2>. QED  BY <1>1, <2>1, <2>2, <2>4, <2>5, WorkKept DEF SampleAt
<1>. QED  BY <1>4, <1>6, <1>7

LEMMA SliceSample ==
  ASSUME CountInv, EvenlyCut, SampleInv, Slice, NEW w \in Actors
  PROVE  SampleAt(w)'
<1>1. /\ conf \in Configs /\ conf' = conf /\ Work \in Nat /\ UpdateEpoch \in Nat \ {0} /\ TargetBatch \in Nat \ {0}
      /\ msgs[w] \in Nat
  BY WorkType DEF CountInv, TypeInv, Slice
<1>2. pc[w] = "slice" /\ SampleAt(w) /\ InBatch(w)
  BY DEF Slice, AllAt, SampleInv, SampleAt
<1>3. PICK k \in Nat \ {0}, s \in Nat \ {0} :
        /\ k = SliceSize(w) /\ s = StepSize(w)
        /\ off[w] + k <= size[w] /\ acc[w] + k <= s
        /\ StepDue(w) <=> acc[w] + k = s
        /\ ~StepDue(w) => off[w] + k = size[w] /\ Loop # "epoch"
        /\ Loop = "epoch" => (off[w] + k) % s = 0
  BY <1>1, <1>2, SliceFacts
<1>4. /\ acc'[w] = acc[w] + k /\ msgs'[w] = msgs[w] /\ batch'[w] = batch[w] /\ size'[w] = size[w]
      /\ trained'[w] = trained[w]
      /\ pc'[w] = IF StepDue(w) THEN "step" ELSE GoesOn(w, off[w] + k, acc[w] + k)
      /\ off'[w] = IF StepDue(w) THEN off[w] + k ELSE NextOff(w, off[w] + k)
      /\ upd'[w] = IF StepDue(w) THEN upd[w] ELSE NextPass(w, off[w] + k)
  BY <1>3, Zenon DEF Slice
<1>5. PICK t \in Nat, a \in Nat, o \in Nat, z \in Nat, r \in Int, y \in Nat :
        /\ t = trained[w] /\ a = acc[w] /\ o = off[w] /\ z = size[w]
        /\ r = (UpdateEpoch - upd[w]) * size[w] /\ y = Work * msgs[w]
  <2>1. trained[w] \in Nat /\ acc[w] \in Nat /\ off[w] \in Nat /\ size[w] \in Nat /\ upd[w] \in Nat
    BY <1>2 DEF SampleAt, InBatch, Positive
  <2>2. (UpdateEpoch - upd[w]) * size[w] \in Int /\ Work * msgs[w] \in Nat
    BY <1>1, <2>1
  <2>. QED  BY <2>1, <2>2
<1>6. t + a + (r - o) = y
  BY <1>2, <1>5, Zenon DEF InBatch
<1>7. t + (a + k) + (r - (o + k)) = y
  BY <1>6
<1>8. o + k \in 0 .. size[w] /\ a + k \in Nat
  BY <1>3, <1>5
<1>9. t + (a + k) + ((UpdateEpoch - upd[w]) * size[w] - (o + k)) = Work * msgs[w]
  BY <1>5, <1>7, Zenon
<1>10. CASE StepDue(w)
  <2>1. trained'[w] + acc'[w] + ((UpdateEpoch' - upd'[w]) * size'[w] - off'[w]) = Work' * msgs'[w]
    BY <1>1, <1>4, <1>5, <1>9, <1>10, WorkKept, Zenon
  <2>2. /\ size'[w] \in Positive /\ off'[w] \in 0 .. size'[w] /\ upd'[w] \in 0 .. UpdateEpoch' - 1
        /\ batch'[w] = <<>> /\ pc'[w] = "step"
    BY <1>1, <1>2, <1>4, <1>5, <1>8, <1>10, WorkKept DEF InBatch
  <2>3. Loop' = "epoch" => off'[w] % StepSize(w)' = 0 /\ size'[w] % StepSize(w)' = 0
    BY <1>1, <1>2, <1>3, <1>4, <1>10, WorkKept DEF InBatch
  <2>4. InBatch(w)'
    BY <2>1, <2>2, <2>3 DEF InBatch
  <2>. QED  BY <1>4, <1>5, <1>8, <2>2, <2>4 DEF SampleAt
<1>11. CASE ~StepDue(w)
  <2>1. Loop # "epoch" /\ s = TargetBatch
    BY <1>1, <1>2, <1>3, <1>11, StepSizeType DEF InBatch
  <2>2. a + k < TargetBatch
    BY <1>3, <1>5, <1>8, <1>11, <2>1
  <2>3. /\ pc'[w] = GoesOn(w, o + k, a + k) /\ off'[w] = NextOff(w, o + k) /\ upd'[w] = NextPass(w, o + k)
        /\ trained'[w] = t /\ acc'[w] = a + k
    BY <1>4, <1>5, <1>11, Zenon
  <2>. QED  BY <1>1, <1>2, <1>4, <1>8, <1>9, <2>1, <2>2, <2>3, GoesOnSample
<1>. QED  BY <1>10, <1>11

LEMMA StepSample ==
  ASSUME CountInv, EvenlyCut, SampleInv, OptimizerStep, NEW w \in Actors
  PROVE  SampleAt(w)'
<1>1. /\ conf \in Configs /\ conf' = conf /\ Work \in Nat /\ UpdateEpoch \in Nat \ {0} /\ TargetBatch \in Nat \ {0}
      /\ msgs[w] \in Nat
  BY WorkType DEF CountInv, TypeInv, OptimizerStep
<1>2. pc[w] = "step" /\ SampleAt(w) /\ InBatch(w)
  BY DEF OptimizerStep, AllAt, SampleInv, SampleAt
<1>3. PICK t \in Nat, a \in Nat, r \in Int, y \in Nat :
        /\ t = trained[w] /\ a = acc[w]
        /\ r = (UpdateEpoch - upd[w]) * size[w] - off[w] /\ y = Work * msgs[w]
  <2>1. trained[w] \in Nat /\ acc[w] \in Nat /\ off[w] \in Nat /\ size[w] \in Nat /\ upd[w] \in Nat
    BY <1>2 DEF SampleAt, InBatch, Positive
  <2>2. (UpdateEpoch - upd[w]) * size[w] \in Int /\ Work * msgs[w] \in Nat
    BY <1>1, <2>1
  <2>. QED  BY <2>1, <2>2
<1>4. /\ acc'[w] = 0 /\ trained'[w] = t + a /\ msgs'[w] = msgs[w] /\ batch'[w] = batch[w] /\ size'[w] = size[w]
      /\ pc'[w] = GoesOn(w, off[w], 0) /\ off'[w] = NextOff(w, off[w]) /\ upd'[w] = NextPass(w, off[w])
  BY <1>3 DEF OptimizerStep
<1>5. t + a + r = y
  BY <1>2, <1>3, Zenon DEF InBatch
<1>6. t + a \in Nat /\ t + a + 0 + r = y
  BY <1>5
<1>7. t + a + 0 + ((UpdateEpoch - upd[w]) * size[w] - off[w]) = Work * msgs[w]
  BY <1>3, <1>6, Zenon
<1>8. /\ off[w] \in 0 .. size[w] /\ (Loop = "epoch" => off[w] % StepSize(w) = 0) /\ 0 \in Nat
      /\ 0 < TargetBatch
  BY <1>1, <1>2 DEF InBatch
<1>. QED  BY <1>1, <1>2, <1>4, <1>6, <1>7, <1>8, GoesOnSample

LEMMA LastSample ==
  ASSUME CountInv, EvenlyCut, SampleInv, LastStep, NEW w \in Actors
  PROVE  SampleAt(w)'
<1>1. pc[w] = "last" /\ SampleAt(w)
  BY DEF LastStep, AllAt, SampleInv
<1>2. /\ acc'[w] = 0 /\ trained'[w] = trained[w] + acc[w] /\ msgs'[w] = msgs[w] /\ batch'[w] = batch[w]
      /\ pc'[w] = "drain" /\ conf' = conf
  BY DEF LastStep
<1>. QED  BY <1>1, <1>2, WorkKept DEF SampleAt

LEMMA ConfConstant ==
  ASSUME [Next]_vars
  PROVE  conf' = conf
BY DEF Next, vars, RolloutNext, Ship, Arrive, ActorNext, StartLoop, Receive, Drain, CollectiveNext, Barrier, Slice,
       OptimizerStep, LastStep, NextIteration, Finished

LEMMA SampleStep ==
  ASSUME CountInv, EvenlyCut, SampleInv, [Next]_vars
  PROVE  SampleInv'
<1>1. conf' = conf /\ Actors' = Actors
  BY ConfConstant, ConfKept
<1> SUFFICES ASSUME NEW w \in Actors
             PROVE  SampleAt(w)'
  BY <1>1 DEF SampleInv
<1>2. CASE UNCHANGED <<pc, batch, msgs, size, off, upd, acc, trained>>
  BY <1>1, <1>2, SampleKept DEF SampleInv
<1>3. ASSUME NEW s \in Slots, RolloutNext(s)
      PROVE  SampleAt(w)'
  BY <1>2, <1>3 DEF RolloutNext, Ship, Arrive, trainVars
<1>4. ASSUME NEW v \in Actors, ActorNext(v)
      PROVE  SampleAt(w)'
  <2>1. CASE Drain(v)
    <3>1. CASE w # v
      <4>1. batch'[w] = batch[w] /\ pc'[w] = pc[w] /\ UNCHANGED <<msgs, size, off, upd, acc, trained>>
        BY <2>1, <3>1 DEF Drain, CountInv, TypeInv, trainVars
      <4>. QED  BY <1>1, <4>1, SampleKept DEF SampleInv
    <3>2. CASE w = v
      <4>1. pc[w] = "drain" /\ pc'[w] = "done" /\ UNCHANGED <<acc, trained>>
        BY <2>1, <3>2 DEF Drain, CountInv, TypeInv, trainVars
      <4>. QED  BY <4>1 DEF SampleInv, SampleAt
    <3>. QED  BY <3>1, <3>2
  <2>. QED  BY <1>4, <2>1, StartSample, ReceiveSample DEF ActorNext
<1>5. CASE CollectiveNext
  BY <1>5, BarrierSample, SliceSample, StepSample, LastSample DEF CollectiveNext
<1>6. CASE NextIteration
  <2>1. pc'[w] = "idle"
    BY <1>6 DEF NextIteration
  <2>. QED  BY <2>1 DEF SampleAt
<1>. QED  BY <1>2, <1>3, <1>4, <1>5, <1>6 DEF Next, Finished, vars, trainVars

EvenSamples == EvenlyCut => SampleInv

LEMMA SamplesAlways == Spec => []EvenSamples
<1>1. Init => EvenSamples
  BY DEF Init, EvenSamples, SampleInv, SampleAt
<1>2. CountInv /\ EvenSamples /\ [Next]_vars => EvenSamples'
  BY ConfConstant, EvenKept, SampleStep DEF EvenSamples
<1>. QED  BY <1>1, <1>2, CountAlways, PTL DEF Spec

LEMMA TrainedGivesAll ==
  ASSUME CountInv, EvenlyCut, SampleInv
  PROVE  AllSamplesTrained
<1> SUFFICES ASSUME NEW w \in Actors, pc[w] = "drain"
             PROVE  trained[w] + UpdateEpoch * Samples(batch[w]) = UpdateEpoch * SentTo(w)
  BY DEF AllSamplesTrained
<1>1. conf \in Configs /\ batch[w] \in Seq(Current)
  BY DEF CountInv, TypeInv
<1>2. PICK u \in Nat, p \in Nat, l \in Nat, e \in Nat, c \in Nat :
        u = UpdateEpoch /\ p = PieceSize /\ l = Len(batch[w]) /\ e = NumEpochs /\ c = PerEpoch
  BY <1>1, SamplesEven, WorkType, PieceType, TotalType, ConfType DEF Positive
<1>3. trained[w] + (u * p) * l = (u * p) * (e * c)
  <2>1. msgs[w] = PerCall
    BY DEF CountInv, PlaceAt
  <2>2. trained[w] + Work * Len(batch[w]) = Work * msgs[w]
    BY DEF SampleInv, SampleAt
  <2>. QED  BY <1>2, <2>1, <2>2, Zenon DEF Work, PerCall
<1>4. Samples(batch[w]) = p * l /\ SentTo(w) = e * (p * c)
  BY <1>1, <1>2, SamplesEven, SentEven
<1>5. u * (p * l) = (u * p) * l /\ u * (e * (p * c)) = (u * p) * (e * c)
  OBVIOUS
<1>. QED  BY <1>2, <1>3, <1>4, <1>5, Zenon

\* When an actor's loop is over, every sample sent to it in this training step
\* has been part of an optimizer step once per update epoch, but for those of
\* an incomplete group; and nothing is left for the next training step.
\* Slices that straddle messages, passes and epochs lose and repeat no sample.
THEOREM StepsAlwaysSeparate == Spec => [](EvenlyCut => StepsSeparate)
<1>1. CountInv /\ EvenSamples => (EvenlyCut => StepsSeparate)
  BY CountGivesNoLeftovers, TrainedGivesAll DEF EvenSamples, StepsSeparate
<1>. QED  BY <1>1, CountAlways, SamplesAlways, PTL

-----------------------------------------------------------------------------
(***************************************************************************)
(* Every gradient is reduced before it is applied.                         *)
(***************************************************************************)

\* What an actor trains on in a training step fills its updates and its groups.
WholeBatches ==
  /\ Loop = "accumulate" => \A w \in Actors : (UpdateEpoch * SentTo(w)) % TargetBatch = 0
  /\ Loop = "stream" => \A w \in Actors : SentTo(w) % GroupSize = 0

\* The same of an evenly cut configuration, in messages.
WholeCalls ==
  /\ Loop = "accumulate" => (Work * PerCall) % TargetBatch = 0
  /\ Loop = "stream" => (PieceSize * PerCall) % GroupSize = 0

\* A number of samples in whole groups has been taken out of the buffer.
WholeTaken(w) == \E c \in Nat : c % GroupSize = 0 /\ c + PieceSize * Len(batch[w]) = PieceSize * msgs[w]

\* In the accumulating loop what is applied is whole updates; in the streaming
\* loop whole groups leave the buffer.
ReduceAt(w) ==
  /\ pc[w] \in {"step", "last"} => unreduced[w] = 0
  /\ Loop = "accumulate" =>
       /\ pc[w] \in {"recv", "barrier", "slice", "step"} => trained[w] % TargetBatch = 0
       /\ pc[w] = "step" => acc[w] = TargetBatch
  /\ Loop = "stream" /\ pc[w] \in {"recv", "barrier", "slice", "step"} => WholeTaken(w)

ReduceInv == \A w \in Actors : ReduceAt(w)

LEMMA ReduceKept ==
  ASSUME conf' = conf, NEW w \in Actors,
         pc'[w] = pc[w], batch'[w] = batch[w], msgs'[w] = msgs[w],
         acc'[w] = acc[w], trained'[w] = trained[w], unreduced'[w] = unreduced[w]
  PROVE  ReduceAt(w) => ReduceAt(w)'
<1>1. /\ TargetBatch' = TargetBatch /\ Loop' = Loop /\ PieceSize' = PieceSize /\ GroupSize' = GroupSize
  BY EvenKept, WorkKept DEF GroupSize
<1>2. WholeTaken(w)' = WholeTaken(w)
  BY <1>1 DEF WholeTaken
<1>. QED  BY <1>1, <1>2 DEF ReduceAt

LEMMA WholeKept ==
  ASSUME conf' = conf
  PROVE  /\ WholeCalls' = WholeCalls
         /\ \A w : batch'[w] = batch[w] /\ msgs'[w] = msgs[w] => WholeTaken(w)' = WholeTaken(w)
BY EvenKept, WorkKept, ConfKept DEF WholeCalls, WholeTaken, GroupSize

LEMMA ReduceType ==
  ASSUME CountInv, NEW w \in Actors
  PROVE  /\ conf \in Configs /\ TargetBatch \in Nat \ {0} /\ GroupSize \in Nat \ {0} /\ PieceSize \in Nat
         /\ msgs[w] \in Nat /\ Len(batch[w]) \in Nat /\ Loop \in {"epoch", "accumulate", "stream"}
<1>1. conf \in Configs /\ msgs[w] \in Nat /\ batch[w] \in Seq(Current)
  BY DEF CountInv, TypeInv
<1>. QED  BY <1>1, ConfType, PieceType DEF Positive

LEMMA StartReduce ==
  ASSUME CountInv, ReduceInv, NEW v \in Actors, StartLoop(v), NEW w \in Actors
  PROVE  ReduceAt(w)'
<1>1. conf' = conf /\ TargetBatch \in Nat \ {0} /\ GroupSize \in Nat \ {0} /\ PieceSize \in Nat
  BY ReduceType DEF StartLoop
<1>2. /\ pc'[w] = IF w = v THEN "recv" ELSE pc[w]
      /\ msgs'[w] = IF w = v THEN 0 ELSE msgs[w]
      /\ acc'[w] = IF w = v THEN 0 ELSE acc[w]
      /\ trained'[w] = IF w = v THEN 0 ELSE trained[w]
      /\ unreduced'[w] = IF w = v THEN 0 ELSE unreduced[w]
      /\ batch' = batch
  BY DEF CountInv, TypeInv, StartLoop
<1>3. CASE w # v
  BY <1>1, <1>2, <1>3, ReduceKept DEF ReduceInv
<1>4. CASE w = v
  <2>1. Len(batch'[w]) = 0 /\ msgs'[w] = 0
    BY <1>2, <1>4 DEF CountInv, PlaceAt, StartLoop
  <2>2. PieceSize * 0 = 0 /\ 0 % GroupSize = 0 /\ 0 % TargetBatch = 0
    <3>1. (0 * GroupSize + 0) % GroupSize = 0 /\ (0 * TargetBatch + 0) % TargetBatch = 0
      BY <1>1, Remainder
    <3>. QED  BY <1>1, <3>1
  <2>3. PieceSize' = PieceSize /\ GroupSize' = GroupSize /\ TargetBatch' = TargetBatch
    BY <1>1, EvenKept DEF GroupSize, TargetBatch
  <2>4. 0 % GroupSize' = 0 /\ 0 + PieceSize' * Len(batch'[w]) = PieceSize' * msgs'[w]
    BY <1>1, <2>1, <2>2, <2>3
  <2>5. WholeTaken(w)'
    BY <2>4 DEF WholeTaken
  <2>. QED  BY <1>2, <1>4, <2>2, <2>3, <2>5 DEF ReduceAt
<1>. QED  BY <1>3, <1>4

LEMMA ReceiveReduce ==
  ASSUME CountInv, ReduceInv, NEW v \in Actors, Receive(v), NEW w \in Actors
  PROVE  ReduceAt(w)'
<1>1. conf' = conf /\ TargetBatch \in Nat \ {0} /\ GroupSize \in Nat \ {0} /\ PieceSize \in Nat
  BY ReduceType DEF Receive
<1>2. /\ q[v] \in Seq(Current) /\ q[v] # <<>> /\ batch \in [Actors -> Seq(Current)] /\ pc[v] = "recv"
      /\ msgs \in [Actors -> Nat] /\ pc \in [Actors -> Places]
  BY DEF CountInv, TypeInv, Receive
<1>3. PICK x \in Current : x = Head(q[v])
  BY <1>2
<1>4. batch' = [batch EXCEPT ![v] = Append(batch[v], x)]
  BY <1>3, Zenon DEF Receive
<1>5. /\ w # v => batch'[w] = batch[w] /\ pc'[w] = pc[w] /\ msgs'[w] = msgs[w]
      /\ UNCHANGED <<acc, trained, unreduced>>
  BY <1>2, <1>4 DEF Receive, trainVars
<1>6. CASE w # v
  BY <1>1, <1>5, <1>6, ReduceKept DEF ReduceInv
<1>7. CASE w = v
  <2>1. PICK l \in Nat, m \in Nat, p \in Nat : l = Len(batch[v]) /\ m = msgs[v] /\ p = PieceSize
    BY <1>1, <1>2
  <2>2. msgs'[v] = m + 1 /\ pc'[v] \in {"recv", "barrier"}
    BY <1>2, <2>1 DEF Receive
  <2>3. Len(batch'[v]) = l + 1
    BY <1>2, <1>4, <2>1
  <2>4. PieceSize' = PieceSize /\ GroupSize' = GroupSize /\ TargetBatch' = TargetBatch /\ Loop' = Loop
    BY <1>1, EvenKept, WorkKept DEF GroupSize
  <2>5. p * (l + 1) = p * l + p /\ p * (m + 1) = p * m + p /\ p * l \in Nat /\ p * m \in Nat
    OBVIOUS
  <2>6. WholeTaken(v) => WholeTaken(v)'
    <3> SUFFICES ASSUME WholeTaken(v) PROVE WholeTaken(v)'
      OBVIOUS
    <3>1. PICK c \in Nat : c % GroupSize = 0 /\ c + p * l = p * m
      BY <2>1 DEF WholeTaken
    <3>2. c + p * (l + 1) = p * (m + 1)
      BY <2>5, <3>1
    <3>. QED  BY <2>1, <2>2, <2>3, <2>4, <3>1, <3>2 DEF WholeTaken
  <2>. QED  BY <1>2, <1>5, <1>7, <2>2, <2>4, <2>6 DEF ReduceInv, ReduceAt
<1>. QED  BY <1>6, <1>7

LEMMA BarrierReduce ==
  ASSUME CountInv, EvenlyCut, WholeCalls, SampleInv, ReduceInv, Barrier, NEW w \in Actors
  PROVE  ReduceAt(w)'
<1>1. conf' = conf /\ PieceSize' = PieceSize /\ GroupSize' = GroupSize /\ TargetBatch' = TargetBatch /\ Loop' = Loop
  BY EvenKept, WorkKept DEF GroupSize, Barrier
<1>2. pc[w] = "barrier" /\ SampleAt(w) /\ ReduceAt(w) /\ batch[w] \in Seq(Current)
  BY DEF Barrier, AllAt, SampleInv, ReduceInv, CountInv, TypeInv
<1>3. /\ pc'[w] = (IF WholeGroups(w) THEN "slice" ELSE AfterRound(w, acc[w]))
      /\ batch'[w] = (IF WholeGroups(w) THEN <<>> ELSE batch[w])
      /\ msgs'[w] = msgs[w] /\ acc'[w] = acc[w] /\ trained'[w] = trained[w] /\ unreduced'[w] = unreduced[w]
  BY DEF Barrier, BufferAfter
<1>4. PICK p \in Nat, l \in Nat, m \in Nat, g \in Nat \ {0} :
        p = PieceSize /\ l = Len(batch[w]) /\ m = msgs[w] /\ g = GroupSize
  BY ReduceType
<1>5. Samples(batch[w]) = p * l
  BY <1>2, <1>4, ReduceType, SamplesEven
<1>6. CASE WholeGroups(w)
  <2>1. ASSUME Loop = "stream"
        PROVE  WholeTaken(w)'
    <3>1. (p * l) % g = 0
      BY <1>4, <1>5, <1>6, <2>1 DEF WholeGroups
    <3>2. PICK c \in Nat : c % g = 0 /\ c + p * l = p * m
      BY <1>2, <1>4, <2>1 DEF ReduceAt, WholeTaken
    <3>3. (c + p * l) % g = 0 /\ p * m \in Nat
      <4>1. p * l \in Nat /\ p * m \in Nat
        OBVIOUS
      <4>. QED  BY <3>1, <3>2, <4>1, MultipleSum
    <3>4. (p * m) % g = 0 /\ p * m + p * 0 = p * m
      BY <3>2, <3>3
    <3>5. Len(batch'[w]) = 0
      BY <1>3, <1>6
    <3>. QED  BY <1>1, <1>3, <1>4, <3>3, <3>4, <3>5, Zenon DEF WholeTaken
  <2>. QED  BY <1>1, <1>2, <1>3, <1>6, <2>1 DEF ReduceAt
<1>7. CASE ~WholeGroups(w)
  <2>1. Loop = "stream" /\ (p * l) % g # 0
    BY <1>4, <1>5, <1>7 DEF WholeGroups
  <2>2. pc'[w] \in {"recv", "last", "drain"} /\ (pc'[w] = "recv" <=> msgs[w] < PerCall)
    BY <1>3, <1>7, AfterRoundPlace
  <2>3. PICK c \in Nat : c % g = 0 /\ c + p * l = p * m
    BY <1>2, <1>4, <2>1 DEF ReduceAt, WholeTaken
  <2>4. m # PerCall
    <3> SUFFICES ASSUME m = PerCall PROVE FALSE
      OBVIOUS
    <3>1. (p * m) % g = 0
      BY <1>4, <2>1 DEF WholeCalls
    <3>2. (c + p * l) % g = 0 /\ p * l \in Nat
      BY <2>3, <3>1
    <3>3. (p * l) % g = 0
      BY <2>3, <3>2, MultipleSum
    <3>. QED  BY <2>1, <3>3
  <2>5. pc'[w] = "recv"
    <3>1. m <= PerCall /\ PerCall \in Nat
      BY <1>4, ReduceType, CallType DEF CountInv, PlaceAt, Positive
    <3>. QED  BY <1>4, <2>2, <2>4, <3>1
  <2>6. WholeTaken(w)'
    BY <1>1, <1>2, <1>3, <1>7, <2>1, WholeKept DEF ReduceAt
  <2>. QED  BY <1>1, <2>1, <2>5, <2>6 DEF ReduceAt
<1>. QED  BY <1>6, <1>7

LEMMA SliceReduce ==
  ASSUME CountInv, EvenlyCut, WholeCalls, SampleInv, ReduceInv, Slice, NEW w \in Actors
  PROVE  ReduceAt(w)'
<1>1. conf' = conf /\ TargetBatch' = TargetBatch /\ Loop' = Loop /\ conf \in Configs
  BY WorkKept, ReduceType DEF Slice
<1>2. pc[w] = "slice" /\ SampleAt(w) /\ ReduceAt(w) /\ InBatch(w)
  BY DEF Slice, AllAt, SampleInv, SampleAt, ReduceInv
<1>3. /\ acc'[w] = acc[w] + SliceSize(w) /\ msgs'[w] = msgs[w] /\ batch'[w] = batch[w] /\ trained'[w] = trained[w]
      /\ unreduced'[w] = IF Reduces(w) THEN 0 ELSE unreduced[w] + SliceSize(w)
      /\ pc'[w] = IF StepDue(w) THEN "step" ELSE GoesOn(w, off[w] + SliceSize(w), acc[w] + SliceSize(w))
  BY DEF Slice
<1>4. Loop = "stream" => WholeTaken(w)'
  BY <1>1, <1>2, <1>3, WholeKept DEF ReduceAt
<1>5. CASE StepDue(w)
  <2>1. pc'[w] = "step" /\ unreduced'[w] = 0
    BY <1>3, <1>5 DEF Reduces
  <2>2. Loop = "accumulate" => acc'[w] = TargetBatch
    BY <1>1, <1>2, <1>3, <1>5, SliceFacts, StepSizeType DEF InBatch
  <2>. QED  BY <1>1, <1>2, <1>3, <1>4, <2>1, <2>2 DEF ReduceAt
<1>6. CASE ~StepDue(w)
  <2> DEFINE o == off[w] + SliceSize(w)
             a == acc[w] + SliceSize(w)
  <2>1. o = size[w] /\ o \in Nat
    BY <1>1, <1>2, <1>6, SliceFacts DEF InBatch, Positive
  <2>2. pc'[w] = GoesOn(w, o, a)
    BY <1>3, <1>6, Zenon
  <2>3. pc'[w] \in {"slice", "recv", "last", "drain"}
    BY <2>2, AfterRoundPlace DEF GoesOn
  <2>4. ASSUME pc'[w] = "last"
        PROVE  unreduced'[w] = 0
    <3>1. AfterRound(w, a) = "last" /\ LastPass(w)
      BY <2>2, <2>4 DEF GoesOn
    <3>2. Loop # "epoch" /\ a > 0 /\ ~(msgs[w] < PerCall)
      BY <3>1, AfterRoundPlace
    <3>3. msgs[w] = PerCall /\ PerCall \in Nat
      BY <3>2, ReduceType, CallType DEF CountInv, PlaceAt, Positive
    <3>4. CASE Loop = "stream"
      <4>1. TotalMessages(w) = PerCall
        BY <1>1, CallType
      <4>2. ForcedReduce(w)
        BY <2>1, <3>1, <3>3, <3>4, <4>1 DEF ForcedReduce, LastPass
      <4>. QED  BY <1>3, <4>2 DEF Reduces
    <3>5. CASE Loop = "accumulate"
      <4>1. SampleAt(w)'
        BY SliceSample
      <4>2. /\ trained'[w] \in Nat /\ acc'[w] \in Nat
            /\ trained'[w] + acc'[w] + Work' * Len(batch'[w]) = Work' * msgs'[w]
        BY <2>4, <4>1 DEF SampleAt
      <4>3. Work' = Work /\ Work \in Nat
        BY <1>1, WorkKept, WorkType
      <4>4. Len(batch'[w]) = 0 /\ Work * 0 = 0
        BY <1>2, <1>3, <4>3 DEF InBatch
      <4>5. PICK t \in Nat, n \in Nat \ {0}, b \in Nat \ {0} :
              t = trained[w] /\ n = a /\ b = TargetBatch /\ n < b
        <5>1. trained[w] \in Nat /\ a \in Nat
          BY <1>3, <4>2
        <5>2. a < TargetBatch
          <6>1. StepSize(w) = TargetBatch /\ TargetBatch \in Nat
            BY <1>1, <1>2, <3>2, StepSizeType, ReduceType DEF InBatch
          <6>2. a <= StepSize(w) /\ a # StepSize(w)
            BY <1>1, <1>2, <1>6, SliceFacts
          <6>. QED  BY <5>1, <6>1, <6>2
        <5>. QED  BY <3>2, <5>1, <5>2, ReduceType
      <4>6. t + n + 0 = Work * PerCall
        BY <1>3, <3>3, <4>2, <4>3, <4>4, <4>5
      <4>7. t % b = 0 /\ (t + n) % b = 0
        BY <1>2, <3>5, <4>5, <4>6 DEF ReduceAt, WholeCalls
      <4>8. n % b = 0
        BY <4>7, MultipleSum
      <4>9. (0 * b + n) % b = n
        BY <4>5, Remainder
      <4>. QED  BY <4>8, <4>9
    <3>. QED  BY <3>2, <3>4, <3>5, ReduceType
  <2>. QED  BY <1>1, <1>2, <1>3, <1>4, <2>3, <2>4 DEF ReduceAt
<1>. QED  BY <1>5, <1>6

LEMMA StepReduce ==
  ASSUME CountInv, EvenlyCut, SampleInv, ReduceInv, OptimizerStep, NEW w \in Actors
  PROVE  ReduceAt(w)'
<1>1. conf' = conf /\ TargetBatch' = TargetBatch /\ Loop' = Loop /\ conf \in Configs
  BY WorkKept, ReduceType DEF OptimizerStep
<1>2. pc[w] = "step" /\ SampleAt(w) /\ ReduceAt(w)
  BY DEF OptimizerStep, AllAt, SampleInv, ReduceInv
<1>3. /\ acc'[w] = 0 /\ trained'[w] = trained[w] + acc[w] /\ msgs'[w] = msgs[w] /\ batch'[w] = batch[w]
      /\ pc'[w] = GoesOn(w, off[w], 0)
  BY DEF OptimizerStep
<1>4. Loop = "stream" => WholeTaken(w)'
  BY <1>1, <1>2, <1>3, WholeKept DEF ReduceAt
<1>5. pc'[w] \in {"slice", "recv", "drain"}
  BY <1>3, AfterRoundPlace DEF GoesOn
<1>6. ASSUME Loop = "accumulate"
      PROVE  trained'[w] % TargetBatch = 0
  <2>1. PICK t \in Nat, b \in Nat \ {0} : t = trained[w] /\ b = TargetBatch /\ t % b = 0 /\ acc[w] = b
    BY <1>2, <1>6, ReduceType DEF SampleAt, ReduceAt
  <2>2. (1 * b + 0) % b = 0
    BY Remainder
  <2>3. b % b = 0
    BY <2>2
  <2>4. (t + b) % b = 0
    BY <2>1, <2>3, MultipleSum
  <2>. QED  BY <1>3, <2>1, <2>4
<1>. QED  BY <1>1, <1>4, <1>5, <1>6 DEF ReduceAt

LEMMA ReduceStep ==
  ASSUME CountInv, EvenlyCut, WholeCalls, SampleInv, ReduceInv, [Next]_vars
  PROVE  ReduceInv'
<1>1. conf' = conf /\ Actors' = Actors
  BY ConfConstant, ConfKept
<1> SUFFICES ASSUME NEW w \in Actors
             PROVE  ReduceAt(w)'
  BY <1>1 DEF ReduceInv
<1>2. CASE UNCHANGED <<pc, batch, msgs, acc, trained, unreduced>>
  BY <1>1, <1>2, ReduceKept DEF ReduceInv
<1>3. ASSUME NEW s \in Slots, RolloutNext(s)
      PROVE  ReduceAt(w)'
  BY <1>2, <1>3 DEF RolloutNext, Ship, Arrive, trainVars
<1>4. ASSUME NEW v \in Actors, ActorNext(v)
      PROVE  ReduceAt(w)'
  <2>1. CASE Drain(v)
    <3>1. CASE w # v
      <4>1. batch'[w] = batch[w] /\ pc'[w] = pc[w] /\ UNCHANGED <<msgs, acc, trained, unreduced>>
        BY <2>1, <3>1 DEF Drain, CountInv, TypeInv, trainVars
      <4>. QED  BY <1>1, <4>1, ReduceKept DEF ReduceInv
    <3>2. CASE w = v
      <4>1. pc'[w] = "done"
        BY <2>1, <3>2 DEF Drain, CountInv, TypeInv
      <4>. QED  BY <4>1 DEF ReduceAt
    <3>. QED  BY <3>1, <3>2
  <2>. QED  BY <1>4, <2>1, StartReduce, ReceiveReduce DEF ActorNext
<1>5. CASE CollectiveNext
  <2>1. CASE LastStep
    <3>1. pc'[w] = "drain"
      BY <2>1 DEF LastStep
    <3>. QED  BY <3>1 DEF ReduceAt
  <2>. QED  BY <1>5, <2>1, BarrierReduce, SliceReduce, StepReduce DEF CollectiveNext
<1>6. CASE NextIteration
  <2>1. pc'[w] = "idle"
    BY <1>6 DEF NextIteration
  <2>. QED  BY <2>1 DEF ReduceAt
<1>. QED  BY <1>2, <1>3, <1>4, <1>5, <1>6 DEF Next, Finished, vars, trainVars

EvenReduce == EvenlyCut /\ WholeCalls => ReduceInv

LEMMA ReduceAlways == Spec => []EvenReduce
<1>1. Init => EvenReduce
  BY DEF Init, EvenReduce, ReduceInv, ReduceAt
<1>2. CountInv /\ EvenSamples /\ EvenReduce /\ [Next]_vars => EvenReduce'
  BY ConfConstant, EvenKept, WholeKept, ReduceStep DEF EvenReduce, EvenSamples
<1>. QED  BY <1>1, <1>2, CountAlways, SamplesAlways, PTL DEF Spec

LEMMA CallsWhole ==
  ASSUME CountInv, EvenlyCut, WholeBatches
  PROVE  WholeCalls
<1>1. conf \in Configs /\ 0 \in Actors
  BY ConfType DEF CountInv, TypeInv, Actors, Positive
<1>2. PICK u \in Nat, p \in Nat, e \in Nat, c \in Nat :
        u = UpdateEpoch /\ p = PieceSize /\ e = NumEpochs /\ c = PerEpoch
  BY <1>1, WorkType, PieceType, TotalType, ConfType DEF Positive
<1>3. SentTo(0) = e * (p * c)
  BY <1>1, <1>2, SentEven
<1>4. e * (p * c) = p * (e * c) /\ u * (e * (p * c)) = (u * p) * (e * c)
  OBVIOUS
<1>5. PerCall = e * c /\ Work = u * p
  BY <1>2 DEF PerCall, Work
<1>6. PieceSize * PerCall = SentTo(0) /\ Work * PerCall = UpdateEpoch * SentTo(0)
  BY <1>2, <1>3, <1>4, <1>5, Zenon
<1>. QED  BY <1>1, <1>6, Zenon DEF WholeBatches, WholeCalls

\* No optimizer step runs on gradients that no reduce-scatter has included
\* (is_last_slice_before_update), if what an actor trains on in a training
\* step fills its updates, in the accumulating loop, and its groups, in the
\* streaming one.  In the streaming loop updates may come out uneven: the last
\* slice of the last message is forced to reduce.  Where they come out uneven
\* in the accumulating loop the last update is not reduced.
THEOREM AlwaysReducedBeforeStep == Spec => [](EvenlyCut /\ WholeBatches => ReducedBeforeStep)
<1>1. CountInv /\ EvenReduce => (EvenlyCut /\ WholeBatches => ReducedBeforeStep)
  BY CallsWhole DEF EvenReduce, ReducedBeforeStep, ReduceInv, ReduceAt
<1>. QED  BY <1>1, CountAlways, ReduceAlways, PTL
=============================================================================
