----------------------- MODULE EmbodiedPipelineProofs -----------------------
(***************************************************************************)
(* Theorems about EmbodiedPipeline, for every configuration: any number of *)
(* environments, rollout workers, stages, steps, epochs and training       *)
(* steps, all three programs.                                              *)
(*                                                                         *)
(* Both ends of a link only count.  What is on a link is a line: from the  *)
(* position its reader waits for to the position its writer comes to next, *)
(* one position after the other.  TrainInv and EvalInv say so of the two   *)
(* directions of every link; the position a worker writes next follows     *)
(* from where it is (Emits, Replies).  Since positions only grow, a line   *)
(* that ends where it begins is empty: that is why nothing is left when a  *)
(* call has returned, and the next one starts to count from zero.          *)
(*                                                                         *)
(* RecordInv has the lists of a trajectory the same way, as stretches of   *)
(* the sequence of all steps or of all observations of a stage, which end  *)
(* where the rollout worker's position says.                               *)
(*                                                                         *)
(* StockInv says which pieces of trajectories there are, and that each     *)
(* lies in one place, a queue or the hands of an actor.  It follows from   *)
(* where the rollout workers are; and since the actors take together as    *)
(* many pieces as are made, none is left when all have theirs.             *)
(***************************************************************************)
EXTENDS EmbodiedPipeline, SetSeqLemmas, SequenceTheorems

-----------------------------------------------------------------------------
(***************************************************************************)
(* Positions and lines.                                                    *)
(***************************************************************************)
Pos  == [ep : Nat, st : Nat, stage : Nat]
Msgs == [round : Nat, at : Pos]

EpochStart(k) == Cursor(k, 0, 0)

\* After, of S stages.
Follows(S, c, last) ==
  IF c.stage < S - 1 THEN Cursor(c.ep, c.st, c.stage + 1)
  ELSE IF c.st < last THEN Cursor(c.ep, c.st + 1, 0)
  ELSE EpochStart(c.ep + 1)

\* The queue holds the messages of round n from position c on, up to d.
Line(S, queue, n, c, d, last) ==
  /\ \A k \in DOMAIN queue :
       queue[k] = [round |-> n, at |-> IF k = 1 THEN c ELSE Follows(S, queue[k - 1].at, last)]
  /\ d = IF queue = <<>> THEN c ELSE Follows(S, queue[Len(queue)].at, last)

\* Positions in the order of the loops.
Earlier(c, d) ==
  \/ c.ep < d.ep
  \/ c.ep = d.ep /\ c.st < d.st
  \/ c.ep = d.ep /\ c.st = d.st /\ c.stage < d.stage

LEMMA CursorPos ==
  ASSUME NEW k \in Nat, NEW n \in Nat, NEW i \in Nat
  PROVE  /\ Cursor(k, n, i) \in Pos /\ EpochStart(k) \in Pos
         /\ Cursor(k, n, i).ep = k /\ Cursor(k, n, i).st = n /\ Cursor(k, n, i).stage = i
         /\ EpochStart(k).ep = k /\ EpochStart(k).st = 0 /\ EpochStart(k).stage = 0
BY DEF Cursor, EpochStart, Pos

LEMMA PosEqual ==
  ASSUME NEW c \in Pos
  PROVE  /\ c.ep \in Nat /\ c.st \in Nat /\ c.stage \in Nat
         /\ c = Cursor(c.ep, c.st, c.stage)
         /\ [c EXCEPT !.st = @ + 1] = Cursor(c.ep, c.st + 1, c.stage)
         /\ [c EXCEPT !.stage = @ + 1] = Cursor(c.ep, c.st, c.stage + 1)
BY DEF Cursor, Pos

LEMMA AfterFollows ==
  ASSUME NEW c \in Pos, NEW last
  PROVE  After(c, last) = Follows(conf.stages, c, last)
<1>1. [c EXCEPT !.stage = @ + 1] = Cursor(c.ep, c.st, c.stage + 1)
  BY PosEqual
<1>. QED  BY <1>1 DEF After, Follows, EpochStart

LEMMA FollowsPos ==
  ASSUME NEW S \in Nat, NEW c \in Pos, NEW last \in Int
  PROVE  Follows(S, c, last) \in Pos /\ Earlier(c, Follows(S, c, last))
<1>1. c.ep \in Nat /\ c.st \in Nat /\ c.stage \in Nat
  BY PosEqual
<1>2. CASE c.stage < S - 1
  <2>0. PICK h \in Nat, i \in Nat, j \in Nat : h = c.ep /\ i = c.st /\ j = c.stage + 1
    BY <1>1
  <2>1. PICK d \in Pos : d = Cursor(h, i, j) /\ d.ep = h /\ d.st = i /\ d.stage = j
    <3>1. Cursor(h, i, j) \in Pos /\ Cursor(h, i, j).ep = h /\ Cursor(h, i, j).st = i /\ Cursor(h, i, j).stage = j
      BY DEF Cursor, Pos
    <3>. QED  BY <3>1
  <2>2. Follows(S, c, last) = d
    BY <1>2, <2>0, <2>1 DEF Follows
  <2>. QED  BY <1>1, <2>0, <2>1, <2>2 DEF Earlier
<1>3. CASE ~(c.stage < S - 1) /\ c.st < last
  <2>1. PICK d \in Pos : d = Cursor(c.ep, c.st + 1, 0) /\ d.ep = c.ep /\ d.st = c.st + 1
    BY <1>1, CursorPos, c.st + 1 \in Nat
  <2>2. Follows(S, c, last) = d
    BY <1>3, <2>1 DEF Follows
  <2>. QED  BY <1>1, <2>1, <2>2 DEF Earlier
<1>4. CASE ~(c.stage < S - 1) /\ ~(c.st < last)
  <2>1. PICK d \in Pos : d = EpochStart(c.ep + 1) /\ d.ep = c.ep + 1
    BY <1>1, CursorPos, c.ep + 1 \in Nat
  <2>2. Follows(S, c, last) = d
    BY <1>4, <2>1 DEF Follows
  <2>. QED  BY <1>1, <2>1, <2>2 DEF Earlier
<1>. QED  BY <1>2, <1>3, <1>4

LEMMA EarlierTrans ==
  ASSUME NEW b \in Pos, NEW c \in Pos, NEW d \in Pos, b = c \/ Earlier(b, c), Earlier(c, d)
  PROVE  Earlier(b, d)
<1>1. /\ b.ep \in Nat /\ b.st \in Nat /\ b.stage \in Nat /\ c.ep \in Nat /\ c.st \in Nat /\ c.stage \in Nat
      /\ d.ep \in Nat /\ d.st \in Nat /\ d.stage \in Nat
  BY PosEqual
<1>. QED  BY <1>1 DEF Earlier

LEMMA EmptyLine ==
  ASSUME NEW S, NEW n, NEW c, NEW d, NEW last
  PROVE  Line(S, <<>>, n, c, d, last) <=> c = d
BY DEF Line

\* A message more at the end, and one less in front.
LEMMA LinePut ==
  ASSUME NEW S \in Nat, NEW u \in Seq(Msgs), NEW n \in Nat, NEW c \in Pos, NEW d \in Pos,
         NEW last \in Int, Line(S, u, n, c, d, last), NEW m, m = [round |-> n, at |-> d]
  PROVE  u \o <<m>> \in Seq(Msgs) /\ Line(S, u \o <<m>>, n, c, Follows(S, d, last), last)
<1>1. m \in Msgs /\ m.at = d
  BY DEF Msgs
<1>2. PICK l \in Nat : l = Len(u)
  BY LenProperties
<1>3. PICK r \in Seq(Msgs) : r = u \o <<m>>
  BY <1>1, <<m>> \in Seq(Msgs), ConcatProperties
<1>4. /\ Len(r) = l + 1 /\ DOMAIN r = 1 .. l + 1 /\ DOMAIN u = 1 .. l
      /\ r[l + 1] = m /\ \A k \in 1 .. l : r[k] = u[k]
  <2>1. <<m>> \in Seq(Msgs) /\ Len(<<m>>) = 1 /\ <<m>>[1] = m
    BY <1>1
  <2>2. Len(r) = l + 1 /\ \A k \in 1 .. l + 1 : r[k] = IF k <= l THEN u[k] ELSE <<m>>[k - l]
    BY <1>2, <1>3, <2>1, ConcatProperties
  <2>3. r[l + 1] = <<m>>[1]
    BY <2>2, l + 1 \in 1 .. l + 1, (l + 1) - l = 1
  <2>. QED  BY <1>2, <2>1, <2>2, <2>3, LenProperties
<1>5. r # <<>> /\ Follows(S, r[Len(r)].at, last) = Follows(S, d, last)
  BY <1>1, <1>4
<1>6. ASSUME NEW k \in 1 .. l + 1
      PROVE  r[k] = [round |-> n, at |-> IF k = 1 THEN c ELSE Follows(S, r[k - 1].at, last)]
  <2>1. CASE k \in 1 .. l
    <3>1. r[k] = u[k] /\ (k # 1 => k - 1 \in 1 .. l)
      BY <1>4, <2>1
    <3>2. u[k] = [round |-> n, at |-> IF k = 1 THEN c ELSE Follows(S, u[k - 1].at, last)]
      BY <1>4, <2>1 DEF Line
    <3>. QED  BY <1>4, <3>1, <3>2
  <2>2. CASE k = l + 1
    <3>1. d = IF k = 1 THEN c ELSE Follows(S, r[k - 1].at, last)
      <4>1. CASE l = 0
        <5>1. u = <<>>
          BY <1>2, <4>1, EmptySeq
        <5>2. k = 1
          BY <2>2, <4>1
        <5>. QED  BY <5>1, <5>2 DEF Line
      <4>2. CASE l # 0
        <5>1. u # <<>> /\ k # 1 /\ k - 1 = l /\ l \in 1 .. l
          BY <1>2, <2>2, <4>2, EmptySeq
        <5>2. r[k - 1] = u[Len(u)]
          BY <1>2, <1>4, <5>1
        <5>. QED  BY <5>1, <5>2 DEF Line
      <4>. QED  BY <4>1, <4>2
    <3>. QED  BY <1>4, <2>2, <3>1
  <2>. QED  BY <2>1, <2>2
<1>7. Line(S, r, n, c, Follows(S, d, last), last)
  BY <1>4, <1>5, <1>6 DEF Line
<1>. QED  BY <1>3, <1>7

LEMMA LineTake ==
  ASSUME NEW S \in Nat, NEW u \in Seq(Msgs), u # <<>>, NEW n \in Nat, NEW c \in Pos, NEW d,
         NEW last \in Int, Line(S, u, n, c, d, last)
  PROVE  /\ Tail(u) \in Seq(Msgs) /\ Line(S, Tail(u), n, Follows(S, c, last), d, last)
<1>1. PICK l \in Nat : l + 1 = Len(u)
  <2>1. Len(u) \in Nat /\ Len(u) # 0
    BY EmptySeq
  <2>2. Len(u) - 1 \in Nat /\ (Len(u) - 1) + 1 = Len(u)
    BY <2>1
  <2>. QED  BY <2>2
<1>2. PICK r \in Seq(Msgs) : r = Tail(u)
  BY HeadTailProperties
<1>3. Len(r) = l /\ DOMAIN r = 1 .. l /\ DOMAIN u = 1 .. l + 1 /\ \A k \in 1 .. l : r[k] = u[k + 1]
  <2>1. Len(r) = l /\ \A k \in 1 .. Len(r) : r[k] = u[k + 1]
    BY <1>1, <1>2, HeadTailProperties
  <2>. QED  BY <1>1, <2>1, LenProperties
<1>4. u[1].at = c
  BY <1>3 DEF Line
<1>5. ASSUME NEW k \in 1 .. l
      PROVE  r[k] = [round |-> n, at |-> IF k = 1 THEN Follows(S, c, last) ELSE Follows(S, r[k - 1].at, last)]
  <2>1. k + 1 \in 1 .. l + 1 /\ k + 1 # 1 /\ (k + 1) - 1 = k
    OBVIOUS
  <2>2. u[k + 1] = [round |-> n, at |-> Follows(S, u[k].at, last)]
    BY <1>3, <2>1 DEF Line
  <2>3. k # 1 => k - 1 \in 1 .. l /\ r[k - 1] = u[(k - 1) + 1] /\ (k - 1) + 1 = k
    BY <1>3
  <2>. QED  BY <1>3, <1>4, <2>2, <2>3
<1>6. d = IF r = <<>> THEN Follows(S, c, last) ELSE Follows(S, r[Len(r)].at, last)
  <2>1. d = Follows(S, u[l + 1].at, last)
    BY <1>1 DEF Line
  <2>2. CASE l = 0
    <3>1. r = <<>> /\ l + 1 = 1
      BY <1>3, <2>2, EmptySeq
    <3>. QED  BY <1>4, <2>1, <3>1
  <2>3. CASE l # 0
    <3>1. r # <<>> /\ r[Len(r)] = u[l + 1]
      BY <1>3, <2>3, EmptySeq, l \in 1 .. l
    <3>. QED  BY <2>1, <3>1
  <2>. QED  BY <2>2, <2>3
<1>7. Line(S, r, n, Follows(S, c, last), d, last)
  BY <1>3, <1>5, <1>6 DEF Line
<1>. QED  BY <1>2, <1>7

\* The observations an epoch starts with, one for each stage.
LEMMA LineOpening ==
  ASSUME NEW S \in Nat \ {0}, NEW u \in Seq(Msgs), NEW n \in Nat, NEW c \in Pos, NEW k \in Nat,
         NEW last \in Int, Line(S, u, n, c, EpochStart(k), last),
         NEW o, o = [i \in 1 .. S |-> [round |-> n, at |-> Cursor(k, 0, i - 1)]]
  PROVE  /\ o \in Seq(Msgs) /\ u \o o \in Seq(Msgs)
         /\ Line(S, u \o o, n, c, IF 0 < last THEN Cursor(k, 1, 0) ELSE EpochStart(k + 1), last)
<1>1. o \in Seq(Msgs) /\ Len(o) = S /\ DOMAIN o = 1 .. S
  <2>1. \A i \in 1 .. S : i - 1 \in Nat
    OBVIOUS
  <2>2. \A i \in 1 .. S : [round |-> n, at |-> Cursor(k, 0, i - 1)] \in Msgs
    BY <2>1, CursorPos DEF Msgs
  <2>. QED  BY <2>2
<1>2. PICK l \in Nat : l = Len(u)
  BY LenProperties
<1>3. PICK r \in Seq(Msgs) : r = u \o o
  BY <1>1, ConcatProperties
<1>4. /\ Len(r) = l + S /\ DOMAIN r = 1 .. l + S /\ DOMAIN u = 1 .. l
      /\ \A j \in 1 .. l : r[j] = u[j]
      /\ \A i \in 1 .. S : r[l + i] = [round |-> n, at |-> Cursor(k, 0, i - 1)]
  <2>1. Len(r) = l + S /\ \A j \in 1 .. l + S : r[j] = IF j <= l THEN u[j] ELSE o[j - l]
    BY <1>1, <1>2, <1>3, ConcatProperties
  <2>2. ASSUME NEW i \in 1 .. S  PROVE r[l + i] = o[i]
    <3>1. l + i \in 1 .. l + S /\ ~(l + i <= l) /\ (l + i) - l = i
      OBVIOUS
    <3>. QED  BY <2>1, <3>1
  <2>. QED  BY <1>2, <2>1, <2>2, LenProperties
<1>5. ASSUME NEW j \in 1 .. l + S
      PROVE  r[j] = [round |-> n, at |-> IF j = 1 THEN c ELSE Follows(S, r[j - 1].at, last)]
  <2>1. CASE j \in 1 .. l
    <3>1. r[j] = u[j]
      BY <1>4, <2>1
    <3>0. j # 1 => j - 1 \in 1 .. l
      BY <2>1
    <3>2. u[j] = [round |-> n, at |-> IF j = 1 THEN c ELSE Follows(S, u[j - 1].at, last)]
      BY <1>4, <2>1 DEF Line
    <3>. QED  BY <1>4, <3>0, <3>1, <3>2
  <2>2. CASE j = l + 1
    <3>1. r[j] = [round |-> n, at |-> EpochStart(k)]
      BY <1>4, <2>2 DEF EpochStart
    <3>2. EpochStart(k) = IF j = 1 THEN c ELSE Follows(S, r[j - 1].at, last)
      <4>1. CASE l = 0
        <5>1. u = <<>>
          BY <1>2, <4>1, EmptySeq
        <5>2. j = 1
          BY <2>2, <4>1
        <5>. QED  BY <5>1, <5>2 DEF Line
      <4>2. CASE l # 0
        <5>1. u # <<>> /\ j # 1 /\ j - 1 = l /\ l \in 1 .. l
          BY <1>2, <2>2, <4>2, EmptySeq
        <5>2. r[j - 1] = u[Len(u)]
          BY <1>2, <1>4, <5>1
        <5>. QED  BY <5>1, <5>2 DEF Line
      <4>. QED  BY <4>1, <4>2
    <3>. QED  BY <3>1, <3>2
  <2>3. CASE ~(j \in 1 .. l) /\ j # l + 1
    <3>1. PICK i \in 1 .. S : j = l + i /\ i - 1 \in 1 .. S /\ j - 1 = l + (i - 1) /\ i - 2 \in Nat /\ i - 2 < S - 1
      <4>1. j - l \in 1 .. S /\ j = l + (j - l) /\ (j - l) - 1 \in 1 .. S /\ j - 1 = l + ((j - l) - 1)
            /\ (j - l) - 2 \in Nat /\ (j - l) - 2 < S - 1
        BY <2>3
      <4>. QED  BY <4>1
    <3>2. r[j] = [round |-> n, at |-> Cursor(k, 0, i - 1)]
      BY <1>4, <3>1
    <3>5. r[j - 1] = [round |-> n, at |-> Cursor(k, 0, (i - 1) - 1)]
      BY <1>4, <3>1
    <3>6. r[j - 1].at = Cursor(k, 0, (i - 1) - 1)
      BY <3>5
    <3>3. (i - 1) - 1 = i - 2 /\ (i - 2) + 1 = i - 1 /\ j # 1
      BY <2>3, <3>1
    <3>4. Follows(S, Cursor(k, 0, i - 2), last) = Cursor(k, 0, (i - 2) + 1)
      <4>1. PICK h \in Nat : h = i - 2 /\ h < S - 1
        BY <3>1
      <4>2. Cursor(k, 0, h).ep = k /\ Cursor(k, 0, h).st = 0 /\ Cursor(k, 0, h).stage = h
        BY DEF Cursor
      <4>. QED  BY <4>1, <4>2 DEF Follows
    <3>. QED  BY <3>2, <3>3, <3>4, <3>6
  <2>. QED  BY <2>1, <2>2, <2>3
<1>6. /\ r # <<>>
      /\ Follows(S, r[Len(r)].at, last) = IF 0 < last THEN Cursor(k, 1, 0) ELSE EpochStart(k + 1)
  <2>1. r # <<>> /\ r[Len(r)].at = Cursor(k, 0, S - 1) /\ S - 1 \in Nat /\ ~(S - 1 < S - 1)
    <3>1. r[l + S] = [round |-> n, at |-> Cursor(k, 0, S - 1)]
      BY <1>4, S \in 1 .. S
    <3>2. l + S # 0 /\ Len(<<>>) = 0
      BY EmptySeq
    <3>. QED  BY <1>4, <3>1, <3>2
  <2>3. PICK h \in Nat : h = S - 1
    BY <2>1
  <2>4. Cursor(k, 0, h).ep = k /\ Cursor(k, 0, h).st = 0 /\ Cursor(k, 0, h).stage = h
    BY DEF Cursor
  <2>2. Cursor(k, 0, S - 1).ep = k /\ Cursor(k, 0, S - 1).st = 0 /\ Cursor(k, 0, S - 1).stage = S - 1
    BY <2>3, <2>4
  <2>. QED  BY <2>1, <2>2 DEF Follows
<1>7. Line(S, r, n, c, IF 0 < last THEN Cursor(k, 1, 0) ELSE EpochStart(k + 1), last)
  BY <1>4, <1>5, <1>6, Zenon DEF Line
<1>. QED  BY <1>1, <1>3, <1>7

\* Positions grow along a line.  Otherwise there would be a first message at
\* a position that is not later than c.
LEMMA LineGrows ==
  ASSUME NEW S \in Nat, NEW u \in Seq(Msgs), NEW n, NEW c \in Pos, NEW d, NEW last \in Int,
         Line(S, u, n, c, d, last), ~Earlier(c, d)
  PROVE  u = <<>>
<1>2. DOMAIN u = 1 .. Len(u) /\ Len(u) \in Nat
  BY LenProperties
<1>1. ASSUME NEW k \in DOMAIN u  PROVE u[k].at \in Pos
  <2>1. u[k] \in Msgs
    BY <1>2, ElementOfSeq
  <2>. QED  BY <2>1 DEF Msgs
<1> DEFINE W == {k \in 1 .. Len(u) : ~(u[k].at = c \/ Earlier(c, u[k].at))}
<1>3. W = {}
  <2> SUFFICES ASSUME W # {} PROVE FALSE
    OBVIOUS
  <2>1. W \in SUBSET Nat /\ IsFiniteSet(W)
    <3>1. IsFiniteSet(1 .. Len(u)) /\ W \subseteq 1 .. Len(u)
      BY <1>2, FS_Interval
    <3>. QED  BY <3>1, FS_Subset
  <2>2. PICK k \in W : \A j \in W : k <= j
    BY <2>1, MinInSet
  <2>3. k \in 1 .. Len(u) /\ ~(u[k].at = c \/ Earlier(c, u[k].at))
    OBVIOUS
  <2>4. k # 1
    BY <1>2, <2>3 DEF Line
  <2>5. k - 1 \in 1 .. Len(u) /\ k - 1 < k
    BY <1>2, <2>3, <2>4
  <2>6. u[k - 1].at = c \/ Earlier(c, u[k - 1].at)
    <3>1. k - 1 \notin W
      BY <1>2, <2>2, <2>5
    <3>. QED  BY <2>5, <3>1
  <2>7. u[k].at = Follows(S, u[k - 1].at, last)
    <3>1. u[k] = [round |-> n, at |-> IF k = 1 THEN c ELSE Follows(S, u[k - 1].at, last)]
      BY <1>2, <2>3, Zenon DEF Line
    <3>2. PICK e : e = Follows(S, u[k - 1].at, last)
      OBVIOUS
    <3>3. u[k] = [round |-> n, at |-> e]
      BY <2>4, <3>1, <3>2, Zenon
    <3>. QED  BY <3>2, <3>3
  <2>8. PICK b \in Pos : b = u[k - 1].at
    BY <1>1, <1>2, <2>5
  <2>9. u[k].at \in Pos /\ Earlier(b, u[k].at)
    BY <2>7, <2>8, FollowsPos
  <2>. QED  BY <2>3, <2>6, <2>8, <2>9, EarlierTrans
<1>4. ASSUME u # <<>>  PROVE FALSE
  <2>1. Len(u) \in 1 .. Len(u)
    BY <1>2, <1>4
  <2>2. PICK b \in Pos : b = u[Len(u)].at /\ (b = c \/ Earlier(c, b))
    BY <1>1, <1>2, <1>3, <2>1
  <2>3. d = Follows(S, b, last)
    BY <1>4, <2>2 DEF Line
  <2>4. d \in Pos /\ Earlier(b, d)
    BY <2>3, FollowsPos
  <2>. QED  BY <2>2, <2>4, EarlierTrans
<1>. QED  BY <1>4

\* In the words of the property.
LEMMA LineInStep ==
  ASSUME NEW u \in Seq(Msgs), NEW mode, NEW c, NEW d, NEW last,
         Line(conf.stages, u, Round(mode), c, d, last)
  PROVE  InStep(u, mode, c, last)
<1> SUFFICES ASSUME NEW k \in DOMAIN u
             PROVE  u[k] = Msg(mode, IF k = 1 THEN c ELSE After(u[k - 1].at, last))
  BY DEF InStep
<1>1. u[k] = [round |-> Round(mode), at |-> IF k = 1 THEN c ELSE Follows(conf.stages, u[k - 1].at, last)]
  BY DEF Line
<1>2. k # 1 => k - 1 \in 1 .. Len(u)
  BY LenProperties
<1>3. k # 1 => u[k - 1].at \in Pos
  <2>1. k # 1 => u[k - 1] \in Msgs
    BY <1>2, ElementOfSeq
  <2>. QED  BY <2>1 DEF Msgs
<1>4. k # 1 => After(u[k - 1].at, last) = Follows(conf.stages, u[k - 1].at, last)
  BY <1>3, AfterFollows
<1>. QED  BY <1>1, <1>4 DEF Msg


-----------------------------------------------------------------------------
(***************************************************************************)
(* The turn of a worker, and the position it writes next.                  *)
(***************************************************************************)

\* What an environment that needs the action of c sends next, and what a
\* rollout worker that needs the observation of c does.
NextObs(c) == Cursor(c.ep, c.st + 1, c.stage)
NextAct(c, T) == IF c.st = T THEN EpochStart(c.ep + 1) ELSE c

\* In evaluate(): from the positions of the one epoch.
EvalOver == EpochStart(1)
NextEvalObs(c, last) == IF c.st < last THEN NextObs(c) ELSE EvalOver

LEMMA CursorEqual ==
  ASSUME NEW k \in Nat, NEW n \in Nat, NEW i \in Nat, NEW c \in Pos, c.ep = k, c.st = n, c.stage = i
  PROVE  c = Cursor(k, n, i)
BY DEF Cursor, Pos

LEMMA NextObsPos ==
  ASSUME NEW c \in Pos
  PROVE  /\ NextObs(c) \in Pos
         /\ NextObs(c).ep = c.ep /\ NextObs(c).st = c.st + 1 /\ NextObs(c).stage = c.stage
BY DEF NextObs, Cursor, Pos

\* The three ways to go on from a position.
Goes(S, c, last, a) ==
  /\ a \in Pos
  /\ c.stage < S - 1 => a.ep = c.ep /\ a.st = c.st /\ a.stage = c.stage + 1
  /\ ~(c.stage < S - 1) /\ c.st < last => a.ep = c.ep /\ a.st = c.st + 1 /\ a.stage = 0
  /\ ~(c.stage < S - 1) /\ ~(c.st < last) =>
       a = EpochStart(c.ep + 1) /\ a.ep = c.ep + 1 /\ a.st = 0 /\ a.stage = 0

LEMMA FollowsCases ==
  ASSUME NEW S \in Nat, NEW c \in Pos, NEW last \in Int
  PROVE  Goes(S, c, last, Follows(S, c, last))
<1>1. c.ep \in Nat /\ c.st \in Nat /\ c.stage \in Nat
  BY PosEqual
<1>2. CASE c.stage < S - 1
  <2>1. Follows(S, c, last) = [ep |-> c.ep, st |-> c.st, stage |-> c.stage + 1]
    BY <1>2 DEF Follows, Cursor
  <2>. QED  BY <1>1, <1>2, <2>1 DEF Pos, Goes
<1>3. CASE ~(c.stage < S - 1) /\ c.st < last
  <2>1. Follows(S, c, last) = [ep |-> c.ep, st |-> c.st + 1, stage |-> 0]
    BY <1>3 DEF Follows, Cursor
  <2>. QED  BY <1>1, <1>3, <2>1 DEF Pos, Goes
<1>4. CASE ~(c.stage < S - 1) /\ ~(c.st < last)
  <2>1. Follows(S, c, last) = EpochStart(c.ep + 1)
    BY <1>4 DEF Follows
  <2>2. EpochStart(c.ep + 1) = [ep |-> c.ep + 1, st |-> 0, stage |-> 0]
    BY DEF EpochStart, Cursor
  <2>. QED  BY <1>1, <1>4, <2>1, <2>2 DEF Pos, Goes
<1>. QED  BY <1>2, <1>3, <1>4

LEMMA SamePos ==
  ASSUME NEW c \in Pos, NEW d \in Pos, c.ep = d.ep, c.st = d.st, c.stage = d.stage
  PROVE  c = d
BY DEF Pos

LEMMA EnvTurn ==
  ASSUME NEW S \in Positive, NEW T \in Positive, NEW c \in Pos, c.stage < S, c.st < T
  PROVE  LET a == Follows(S, c, T - 1)  ends == c.st = T - 1 /\ c.stage = S - 1 IN
         /\ a \in Pos /\ a.stage < S /\ a.st < T
         /\ ~ends => a.ep = c.ep /\ Follows(S, NextObs(c), T) = NextObs(a)
         /\ ends => a.ep = c.ep + 1 /\ a = EpochStart(a.ep) /\ Follows(S, NextObs(c), T) = a
<1>0. S \in Nat /\ S > 0 /\ T \in Nat /\ T > 0 /\ T - 1 \in Int /\ T \in Int
  BY DEF Positive
<1>1. c.ep \in Nat /\ c.st \in Nat /\ c.stage \in Nat /\ S \in Nat /\ S > 0 /\ T \in Nat /\ T > 0 /\ T - 1 \in Int /\ T \in Int
  BY <1>0, PosEqual
<1>2. PICK d \in Pos : d = NextObs(c) /\ d.ep = c.ep /\ d.st = c.st + 1 /\ d.stage = c.stage
  BY NextObsPos
<1>3. PICK a \in Pos : a = Follows(S, c, T - 1)
  BY <1>1, FollowsPos
<1>4. PICK b \in Pos : b = Follows(S, d, T)
  BY <1>1, FollowsPos
<1>5. PICK n \in Pos : n = NextObs(a) /\ n.ep = a.ep /\ n.st = a.st + 1 /\ n.stage = a.stage
  BY NextObsPos
<1>6. Goes(S, c, T - 1, a)
  BY <1>1, <1>3, FollowsCases
<1>7. Goes(S, d, T, b)
  BY <1>1, <1>4, FollowsCases
<1>8. CASE c.st = T - 1 /\ c.stage = S - 1
  <2>1. a = EpochStart(c.ep + 1) /\ a.ep = c.ep + 1 /\ a.st = 0 /\ a.stage = 0
    BY <1>1, <1>6, <1>8 DEF Goes
  <2>2. b = EpochStart(d.ep + 1)
    BY <1>1, <1>2, <1>7, <1>8 DEF Goes
  <2>. QED  BY <1>1, <1>2, <1>3, <1>4, <1>8, <2>1, <2>2
<1>9. CASE ~(c.st = T - 1 /\ c.stage = S - 1)
  <2>1. a.ep = c.ep /\ a.st < T /\ a.stage < S
    BY <1>1, <1>6, <1>9 DEF Goes
  <2>2. b.ep = n.ep /\ b.st = n.st /\ b.stage = n.stage
    BY <1>1, <1>2, <1>5, <1>6, <1>7, <1>9 DEF Goes
  <2>3. b = n
    BY <2>2, SamePos
  <2>. QED  BY <1>2, <1>3, <1>4, <1>5, <1>9, <2>1, <2>3
<1>. QED  BY <1>8, <1>9

LEMMA RolTurn ==
  ASSUME NEW S \in Positive, NEW T \in Positive, NEW c \in Pos, c.stage < S, c.st <= T
  PROVE  LET a == Follows(S, c, T)  ends == c.st = T /\ c.stage = S - 1 IN
         /\ a \in Pos /\ a.stage < S /\ a.st <= T
         /\ ~ends => a.ep = c.ep
         /\ ends => a.ep = c.ep + 1 /\ a = EpochStart(a.ep)
         /\ c.st < T => NextAct(c, T) = c /\ NextAct(a, T) = Follows(S, c, T - 1)
         /\ ~(c.st < T) => NextAct(a, T) = NextAct(c, T)
<1>0. S \in Nat /\ S > 0 /\ T \in Nat /\ T > 0 /\ T - 1 \in Int /\ T \in Int
  BY DEF Positive
<1>1. c.ep \in Nat /\ c.st \in Nat /\ c.stage \in Nat /\ S \in Nat /\ S > 0 /\ T \in Nat /\ T > 0 /\ T - 1 \in Int /\ T \in Int
  BY <1>0, PosEqual
<1>3. PICK a \in Pos : a = Follows(S, c, T)
  BY <1>1, FollowsPos
<1>4. PICK b \in Pos : b = Follows(S, c, T - 1)
  BY <1>1, FollowsPos
<1>6. Goes(S, c, T, a)
  BY <1>1, <1>3, FollowsCases
<1>7. Goes(S, c, T - 1, b)
  BY <1>1, <1>4, FollowsCases
<1>8. a.stage < S /\ a.st <= T
  BY <1>1, <1>6 DEF Goes
<1>9. ~(c.st = T /\ c.stage = S - 1) => a.ep = c.ep
  BY <1>1, <1>6 DEF Goes
<1>10. c.st = T /\ c.stage = S - 1 => a.ep = c.ep + 1 /\ a = EpochStart(a.ep)
  BY <1>1, <1>6 DEF Goes
<1>11. c.st < T => NextAct(c, T) = c
  BY <1>1 DEF NextAct
<1>12. ASSUME c.st < T  PROVE NextAct(a, T) = b
  <2>1. CASE a.st = T
    <3>1. ~(c.stage < S - 1) /\ ~(c.st < T - 1) /\ a.ep = c.ep
      BY <1>1, <1>6, <1>12, <2>1 DEF Goes
    <3>. QED  BY <1>7, <2>1, <3>1 DEF NextAct, Goes
  <2>2. CASE a.st # T
    <3>1. a.ep = b.ep /\ a.st = b.st /\ a.stage = b.stage
      BY <1>1, <1>6, <1>7, <1>12, <2>2 DEF Goes
    <3>. QED  BY <2>2, <3>1, SamePos DEF NextAct
  <2>. QED  BY <2>1, <2>2
<1>13. ASSUME ~(c.st < T)  PROVE NextAct(a, T) = NextAct(c, T)
  <2>1. c.st = T
    BY <1>1, <1>13
  <2>2. CASE c.stage < S - 1
    <3>1. a.st = T /\ a.ep = c.ep
      BY <1>6, <2>1, <2>2 DEF Goes
    <3>. QED  BY <2>1, <3>1 DEF NextAct
  <2>3. CASE ~(c.stage < S - 1)
    <3>1. a = EpochStart(c.ep + 1) /\ a.st = 0 /\ a.st # T
      BY <1>1, <1>6, <1>13, <2>3 DEF Goes
    <3>. QED  BY <2>1, <3>1 DEF NextAct
  <2>. QED  BY <2>2, <2>3
<1>. QED  BY <1>3, <1>4, <1>8, <1>9, <1>10, <1>11, <1>12, <1>13

LEMMA EvalTurn ==
  ASSUME NEW S \in Positive, NEW last \in Nat, NEW c \in Pos, c.ep = 0, c.stage < S, c.st <= last
  PROVE  LET a == Follows(S, c, last)  ends == c.st = last /\ c.stage = S - 1 IN
         /\ ends => a = EvalOver
         /\ ~ends => a \in Pos /\ a.ep = 0 /\ a.stage < S /\ a.st <= last
         /\ c.st < last => ~ends /\ Follows(S, NextObs(c), last) = NextEvalObs(a, last)
         /\ ~(c.st < last) /\ ~ends => NextEvalObs(a, last) = EvalOver
<1>0. S \in Nat /\ S > 0 /\ last \in Int
  BY DEF Positive
<1>1. c.ep \in Nat /\ c.st \in Nat /\ c.stage \in Nat /\ S \in Nat /\ S > 0 /\ last \in Int
  BY <1>0, PosEqual
<1>2. PICK d \in Pos : d = NextObs(c) /\ d.ep = c.ep /\ d.st = c.st + 1 /\ d.stage = c.stage
  BY NextObsPos
<1>3. PICK a \in Pos : a = Follows(S, c, last)
  BY <1>1, FollowsPos
<1>4. PICK b \in Pos : b = Follows(S, d, last)
  BY <1>1, FollowsPos
<1>5. PICK n \in Pos : n = NextObs(a) /\ n.ep = a.ep /\ n.st = a.st + 1 /\ n.stage = a.stage
  BY NextObsPos
<1>6. Goes(S, c, last, a)
  BY <1>1, <1>3, FollowsCases
<1>7. Goes(S, d, last, b)
  BY <1>1, <1>4, FollowsCases
<1>8. c.st = last /\ c.stage = S - 1 => a = EvalOver
  <2>1. c.ep + 1 = 1
    OBVIOUS
  <2>2. c.st = last /\ c.stage = S - 1 => ~(c.stage < S - 1) /\ ~(c.st < last)
    BY <1>1
  <2>. QED  BY <1>6, <2>1, <2>2 DEF EvalOver, Goes
<1>9. ~(c.st = last /\ c.stage = S - 1) => a.ep = 0 /\ a.stage < S /\ a.st <= last
  BY <1>1, <1>6 DEF Goes
<1>10. c.st < last => ~(c.st = last /\ c.stage = S - 1)
  BY <1>1
<1>11. ASSUME c.st < last  PROVE b = NextEvalObs(a, last)
  <2>1. CASE a.st < last
    <3>1. b.ep = n.ep /\ b.st = n.st /\ b.stage = n.stage
      BY <1>1, <1>2, <1>5, <1>6, <1>7, <1>11, <2>1 DEF Goes
    <3>. QED  BY <1>5, <2>1, <3>1, SamePos DEF NextEvalObs
  <2>2. CASE ~(a.st < last)
    <3>1. ~(d.stage < S - 1) /\ ~(d.st < last)
      BY <1>1, <1>2, <1>6, <1>11, <2>2 DEF Goes
    <3>2. d.ep + 1 = 1
      BY <1>2
    <3>. QED  BY <1>7, <2>2, <3>1, <3>2 DEF NextEvalObs, EvalOver, Goes
  <2>. QED  BY <2>1, <2>2
<1>12. ~(c.st < last) /\ ~(c.st = last /\ c.stage = S - 1) => ~(a.st < last)
  BY <1>1, <1>6 DEF Goes
<1>13. ~(c.st < last) /\ ~(c.st = last /\ c.stage = S - 1) => NextEvalObs(a, last) = EvalOver
  BY <1>12 DEF NextEvalObs
<1>. QED  BY <1>2, <1>3, <1>4, <1>8, <1>9, <1>10, <1>11, <1>13

-----------------------------------------------------------------------------
(***************************************************************************)
(* The inductive invariant.                                                *)
(***************************************************************************)

EvalPos == {c \in Pos : c.ep = 0 /\ c.st <= NumEvalSteps - 1 /\ c.stage < conf.stages}
RolEvals == {{}} \cup {{c} : c \in EvalPos}
EnvEvals == RolEvals \cup {{Called}}

TypeInv ==
  /\ conf \in Configs /\ it \in Nat /\ evals \in Nat
  /\ obs \in [Links \X Modes -> Seq(Msgs)] /\ act \in [Links \X Modes -> Seq(Msgs)]
  /\ envPc \in [Envs -> {"idle", "start", "yield", "recv", "exit"}]
  /\ envAt \in [Envs -> Pos] /\ envStop \in [Envs -> SUBSET Nat]
  /\ rolPc \in [Rollouts -> {"idle", "recv", "exit"}] /\ rolAt \in [Rollouts -> Pos]
  /\ envEval \in [Envs -> EnvEvals] /\ rolEval \in [Rollouts -> RolEvals]

\* What an environment sends next on its links, and a rollout worker.
Emits(e)   == IF envPc[e] \in {"yield", "recv"} THEN NextObs(envAt[e]) ELSE envAt[e]
Replies(r) == NextAct(rolAt[r], NumSteps)

\* From what is expected to what will be sent, in both directions.
TrainLink(l) ==
  /\ Line(conf.stages, obs[<<l, "train">>], Round("train"), rolAt[l[2]], Emits(l[1]), NumSteps)
  /\ Line(conf.stages, act[<<l, "train">>], Round("train"), envAt[l[1]], Replies(l[2]), NumSteps - 1)

\* Where an environment and a rollout worker can be.
EnvPlace(e) ==
  /\ envAt[e].stage < conf.stages /\ envAt[e].st < NumSteps
  /\ envPc[e] \notin {"yield", "recv"} => envAt[e] = EpochStart(envAt[e].ep)
  /\ ~Stream => envAt[e].ep <= NumEpochs /\ (envPc[e] = "idle" <=> envAt[e].ep = NumEpochs)
  /\ ~Stream => envStop[e] = {}
  /\ Stream => envPc[e] # "idle"
RolPlace(r) ==
  /\ rolAt[r].stage < conf.stages /\ rolAt[r].st <= NumSteps
  /\ rolPc[r] = "idle" => rolAt[r] = EpochStart(rolAt[r].ep)
  /\ ~Stream => rolAt[r].ep <= NumEpochs /\ (rolPc[r] = "idle" <=> rolAt[r].ep = NumEpochs)
  /\ Stream => rolPc[r] # "idle"

Rest(mode) == \A l \in Links : obs[<<l, mode>>] = <<>> /\ act[<<l, mode>>] = <<>>

\* Between the steps everybody is idle and nothing is on the links.
TrainInv ==
  IF pc = "load"
  THEN /\ \A e \in Envs : envPc[e] = "idle" /\ envStop[e] = {}
       /\ \A r \in Rollouts : rolPc[r] = "idle"
       /\ Rest("train")
  ELSE /\ \A l \in Links : TrainLink(l)
       /\ \A e \in Envs : EnvPlace(e)
       /\ \A r \in Rollouts : RolPlace(r)

\* The same of evaluate(), by the set that says how far it is.
EvalNeeds(a) == IF a = {} THEN EvalOver ELSE IF a = {Called} THEN Start ELSE CHOOSE x \in a : TRUE
EvalEmits(a) ==
  IF a = {} THEN EvalOver ELSE IF a = {Called} THEN Start
  ELSE NextEvalObs(CHOOSE x \in a : TRUE, NumEvalSteps - 1)

EvalLink(l) ==
  /\ Line(conf.stages, obs[<<l, "eval">>], evals, EvalNeeds(rolEval[l[2]]), EvalEmits(envEval[l[1]]), NumEvalSteps - 1)
  /\ Line(conf.stages, act[<<l, "eval">>], evals, EvalNeeds(envEval[l[1]]), EvalNeeds(rolEval[l[2]]), NumEvalSteps - 1)

EvalInv ==
  IF pc = "eval"
  THEN \A l \in Links : EvalLink(l)
  ELSE /\ \A e \in Envs : envEval[e] = {}
       /\ \A r \in Rollouts : rolEval[r] = {}
       /\ Rest("eval")

\* Which program is where; without a stream, training begins when every
\* rollout worker has returned.
RunnerInv ==
  /\ pc \in {"loop", "reload", "stopEnv", "stopRollout"} => Stream
  /\ pc = "collect" => ~Stream
  /\ ~Stream /\ pc \in {"train", "evalLoad", "eval", "waitEnv", "done"} =>
       \A r \in Rollouts : rolPc[r] = "idle"

IInv == TypeInv /\ TrainInv /\ EvalInv /\ RunnerInv

-----------------------------------------------------------------------------
(***************************************************************************)
(* The configuration, the links, and puts and gets on them.                *)
(***************************************************************************)
LEMMA ConfType ==
  ASSUME conf \in Configs
  PROVE  /\ conf.envs \in Positive /\ conf.rollouts \in Positive
         /\ conf.stages \in Positive /\ conf.stages \in Nat /\ NumSteps \in Positive
         /\ NumSteps \in Int /\ NumSteps - 1 \in Int /\ NumEvalSteps - 1 \in Nat /\ NumEvalSteps - 1 \in Int
         /\ conf.envs % conf.rollouts = 0 \/ conf.rollouts % conf.envs = 0
<1>1. conf \in Config /\ (conf.envs % conf.rollouts = 0 \/ conf.rollouts % conf.envs = 0)
  BY EmbodiedAssumption
<1>2. /\ conf.envs \in Positive /\ conf.rollouts \in Positive
      /\ conf.stages \in Positive /\ conf.steps \in Positive
  BY <1>1 DEF Config
<1>3. /\ conf.stages \in Nat /\ conf.steps \in Int /\ conf.steps - 1 \in Int
  BY <1>2 DEF Positive
<1>4. NumEvalSteps - 1 \in Nat /\ NumEvalSteps - 1 \in Int
  BY EmbodiedAssumption DEF Positive
<1>. QED  BY <1>1, <1>2, <1>3, <1>4 DEF NumSteps

LEMMA ShareOf ==
  ASSUME NEW a \in Positive, NEW b \in Positive, a % b = 0, NEW i \in 0 .. a - 1
  PROVE  i \div (a \div b) \in 0 .. b - 1
<1>1. a \in Nat /\ b \in Nat \ {0} /\ i \in Nat /\ a > 0 /\ i < a
  BY DEF Positive
<1>2. PICK k \in Nat : k = a \div b /\ a = k * b
  BY <1>1, Divides
<1>3. k # 0
  <2>1. k = 0 => k * b = 0
    BY <1>1
  <2>. QED  BY <1>1, <1>2, <2>1
<1>4. k \in Nat \ {0}
  BY <1>3
<1>5. PICK n \in Nat, m \in 0 .. k - 1 : n = i \div k /\ i = n * k + m
  <2>1. i \div k \in Nat /\ i % k \in 0 .. k - 1 /\ i = (i \div k) * k + (i % k)
    BY <1>1, <1>4, DivisionParts
  <2>. QED  BY <2>1
<1>6. n < b
  <2> SUFFICES ASSUME b <= n PROVE FALSE
    BY <1>1
  <2>1. b * k <= n * k
    BY <1>1, <1>4
  <2>2. b * k = k * b /\ n * k \in Int /\ b * k \in Int
    BY <1>1, <1>4
  <2>. QED  BY <1>1, <1>2, <1>5, <2>1, <2>2
<1>. QED  BY <1>1, <1>2, <1>5, <1>6

\* A link leads from an environment worker to a rollout worker.
LEMMA LinkEnds ==
  ASSUME conf \in Configs, NEW l \in Links
  PROVE  l[1] \in Envs /\ l[2] \in Rollouts
<1>1. conf.envs \in Positive /\ conf.rollouts \in Positive /\ conf.envs \in Nat /\ conf.rollouts \in Nat
  BY ConfType DEF Positive
<1>2. conf.envs % conf.rollouts = 0 \/ conf.rollouts % conf.envs = 0
  BY ConfType
<1>3. CASE conf.rollouts >= conf.envs
  <2>1. conf.rollouts % conf.envs = 0
    <3>1. CASE conf.rollouts % conf.envs = 0
      BY <3>1
    <3>2. CASE conf.envs % conf.rollouts = 0
      <4>1. PICK a \in Positive, b \in Positive : a = conf.envs /\ b = conf.rollouts /\ b >= a /\ a % b = 0
        BY <1>1, <1>3, <3>2
      <4>2. a \in Nat /\ b \in Nat /\ a > 0 /\ b > 0
        BY DEF Positive
      <4>3. a = b
        <5> SUFFICES ASSUME a < b PROVE FALSE
          BY <4>1, <4>2
        <5>1. (0 * b + a) % b = a
          BY <4>2, Remainder
        <5>2. 0 * b + a = a
          BY <4>2
        <5>3. a % b = a
          BY <5>1, <5>2
        <5>. QED  BY <4>1, <4>2, <5>3
      <4>4. (1 * b + 0) % b = 0 /\ 1 * b + 0 = b
        BY <4>2, Remainder
      <4>. QED  BY <4>1, <4>3, <4>4
    <3>. QED  BY <1>2, <3>1, <3>2
  <2>2. PICK r \in Rollouts : l = <<r \div (conf.rollouts \div conf.envs), r>>
    BY <1>3 DEF Links
  <2>3. r \div (conf.rollouts \div conf.envs) \in Envs
    BY <1>1, <2>1, ShareOf DEF Rollouts, Envs
  <2>. QED  BY <2>2, <2>3
<1>4. CASE ~(conf.rollouts >= conf.envs)
  <2>1. conf.envs % conf.rollouts = 0
    <3>1. CASE conf.envs % conf.rollouts = 0
      BY <3>1
    <3>2. CASE conf.rollouts % conf.envs = 0
      <4>1. PICK a \in Nat, b \in Nat : a = conf.rollouts /\ b = conf.envs /\ a < b /\ a % b = 0 /\ a # 0
        BY <1>1, <1>4, <3>2 DEF Positive
      <4>2. (0 * b + a) % b = a /\ 0 * b + a = a
        BY <4>1, Remainder
      <4>. QED  BY <4>1, <4>2
    <3>. QED  BY <1>2, <3>1, <3>2
  <2>2. PICK e \in Envs : l = <<e, e \div (conf.envs \div conf.rollouts)>>
    BY <1>4 DEF Links
  <2>3. e \div (conf.envs \div conf.rollouts) \in Rollouts
    BY <1>1, <2>1, ShareOf DEF Rollouts, Envs
  <2>. QED  BY <2>2, <2>3
<1>. QED  BY <1>3, <1>4

Puts(new, ch, links, mode, msgs) ==
  /\ new \in [Links \X Modes -> Seq(Msgs)]
  /\ \A l \in Links, m \in Modes :
       new[<<l, m>>] = IF l \in links /\ m = mode THEN ch[<<l, m>>] \o msgs ELSE ch[<<l, m>>]
Takes(new, ch, links, mode) ==
  /\ new \in [Links \X Modes -> Seq(Msgs)]
  /\ \A l \in Links, m \in Modes :
       new[<<l, m>>] = IF l \in links /\ m = mode THEN Tail(ch[<<l, m>>]) ELSE ch[<<l, m>>]

LEMMA PutAt ==
  ASSUME NEW ch \in [Links \X Modes -> Seq(Msgs)], NEW links, NEW mode, NEW msgs \in Seq(Msgs)
  PROVE  Puts(PutAll(ch, links, mode, msgs), ch, links, mode, msgs)
<1>1. \A s \in Seq(Msgs) : s \o msgs \in Seq(Msgs)
  BY ConcatProperties
<1>2. ASSUME NEW x \in Links \X Modes
      PROVE  (IF x[1] \in links /\ x[2] = mode THEN ch[x] \o msgs ELSE ch[x]) \in Seq(Msgs)
  BY <1>1
<1>3. DOMAIN ch = Links \X Modes
  OBVIOUS
<1>. QED  BY <1>2, <1>3 DEF PutAll, Puts

LEMMA TakeAt ==
  ASSUME NEW ch \in [Links \X Modes -> Seq(Msgs)], NEW links, NEW mode, mode \in Modes,
         \A l \in links : ch[<<l, mode>>] # <<>>
  PROVE  Takes(TakeAll(ch, links, mode), ch, links, mode)
<1>1. ASSUME NEW x \in Links \X Modes
      PROVE  (IF x[1] \in links /\ x[2] = mode THEN Tail(ch[x]) ELSE ch[x]) \in Seq(Msgs)
  <2>1. CASE x[1] \in links /\ x[2] = mode
    <3>1. ch[x] \in Seq(Msgs) /\ ch[x] # <<>>
      <4>1. x = <<x[1], x[2]>>
        OBVIOUS
      <4>. QED  BY <2>1, <4>1
    <3>. QED  BY <2>1, <3>1, HeadTailProperties
  <2>2. CASE ~(x[1] \in links /\ x[2] = mode)
    BY <2>2
  <2>. QED  BY <2>1, <2>2
<1>2. DOMAIN ch = Links \X Modes
  OBVIOUS
<1>. QED  BY <1>1, <1>2 DEF TakeAll, Takes

LEMMA TypeAt ==
  ASSUME TypeInv, NEW l \in Links, NEW m \in Modes
  PROVE  /\ obs[<<l, m>>] \in Seq(Msgs) /\ act[<<l, m>>] \in Seq(Msgs)
         /\ l[1] \in Envs /\ l[2] \in Rollouts /\ envAt[l[1]] \in Pos /\ rolAt[l[2]] \in Pos
         /\ envEval[l[1]] \in EnvEvals /\ rolEval[l[2]] \in RolEvals
<1>1. l[1] \in Envs /\ l[2] \in Rollouts
  BY LinkEnds DEF TypeInv
<1>. QED  BY <1>1 DEF TypeInv

LEMMA MsgType ==
  ASSUME TypeInv, NEW mode, NEW c \in Pos
  PROVE  /\ Msg(mode, c) \in Msgs /\ Msg(mode, c) = [round |-> Round(mode), at |-> c]
         /\ <<Msg(mode, c)>> \in Seq(Msgs) /\ Round(mode) \in Nat
<1>1. Round(mode) \in Nat
  BY DEF TypeInv, Round
<1>2. Msg(mode, c) \in Msgs /\ Msg(mode, c) = [round |-> Round(mode), at |-> c]
  BY <1>1 DEF Msg, Msgs
<1>. QED  BY <1>1, <1>2

-----------------------------------------------------------------------------
(***************************************************************************)
(* What a step leaves alone.                                               *)
(***************************************************************************)
LEMMA ConfSame ==
  ASSUME conf' = conf
  PROVE  /\ Envs' = Envs /\ Rollouts' = Rollouts /\ Links' = Links /\ Stream' = Stream
         /\ NumSteps' = NumSteps /\ RolEvals' = RolEvals /\ EnvEvals' = EnvEvals
BY DEF Envs, Rollouts, Links, Stream, NumSteps, RolEvals, EnvEvals, EvalPos

LEMMA TypeNext ==
  ASSUME conf' = conf, conf \in Configs, it' \in Nat, evals' \in Nat,
         obs' \in [Links \X Modes -> Seq(Msgs)], act' \in [Links \X Modes -> Seq(Msgs)],
         envPc' \in [Envs -> {"idle", "start", "yield", "recv", "exit"}],
         envAt' \in [Envs -> Pos], envStop' \in [Envs -> SUBSET Nat],
         rolPc' \in [Rollouts -> {"idle", "recv", "exit"}], rolAt' \in [Rollouts -> Pos],
         envEval' \in [Envs -> EnvEvals], rolEval' \in [Rollouts -> RolEvals]
  PROVE  TypeInv'
<1>1. /\ Envs' = Envs /\ Rollouts' = Rollouts /\ Links' = Links /\ RolEvals' = RolEvals /\ EnvEvals' = EnvEvals
      /\ Modes = Modes'
  BY ConfSame DEF Modes
<1>. QED  BY <1>1, Zenon DEF TypeInv

\* The positions of training stay, and so does what is on the links.
LEMMA TrainSame ==
  ASSUME TypeInv, TrainInv, conf' = conf, envPc' = envPc, envAt' = envAt, rolPc' = rolPc, rolAt' = rolAt,
         envStop' = envStop \/ (Stream /\ pc # "load"),
         \A l \in Links : obs'[<<l, "train">>] = obs[<<l, "train">>] /\ act'[<<l, "train">>] = act[<<l, "train">>],
         pc' = "load" <=> pc = "load", Round("train")' = Round("train") \/ Rest("train")
  PROVE  TrainInv'
<1>1. Envs' = Envs /\ Rollouts' = Rollouts /\ Links' = Links /\ Stream' = Stream /\ NumSteps' = NumSteps
  BY ConfSame
<1>2. CASE pc = "load"
  BY <1>1, <1>2 DEF TrainInv, Rest
<1>3. CASE pc # "load"
  <2>1. ASSUME NEW l \in Links  PROVE TrainLink(l)'
    <3>1. TrainLink(l) /\ Emits(l[1])' = Emits(l[1]) /\ Replies(l[2])' = Replies(l[2])
      BY <1>1, <1>3 DEF TrainInv, Emits, Replies
    <3>2. CASE Round("train")' = Round("train")
      BY <1>1, <3>1, <3>2 DEF TrainLink
    <3>3. CASE Rest("train")
      <4>1. obs[<<l, "train">>] = <<>> /\ act[<<l, "train">>] = <<>>
        BY <3>3 DEF Rest
      <4>2. rolAt[l[2]] = Emits(l[1]) /\ envAt[l[1]] = Replies(l[2])
        BY <3>1, <4>1, EmptyLine DEF TrainLink
      <4>3. obs'[<<l, "train">>] = <<>> /\ act'[<<l, "train">>] = <<>>
        BY <4>1
      <4>4. rolAt'[l[2]] = Emits(l[1])' /\ envAt'[l[1]] = Replies(l[2])'
        BY <3>1, <4>2
      <4>5. /\ Line(conf.stages', obs'[<<l, "train">>], Round("train")', rolAt'[l[2]], Emits(l[1])', NumSteps')
            /\ Line(conf.stages', act'[<<l, "train">>], Round("train")', envAt'[l[1]], Replies(l[2])', NumSteps' - 1)
        BY <4>3, <4>4, EmptyLine
      <4>. QED  BY <4>5 DEF TrainLink
    <3>. QED  BY <3>2, <3>3
  <2>2. ASSUME NEW e \in Envs  PROVE EnvPlace(e)'
    <3>1. EnvPlace(e)
      BY <1>3 DEF TrainInv
    <3>. QED  BY <1>1, <3>1 DEF EnvPlace
  <2>3. ASSUME NEW r \in Rollouts  PROVE RolPlace(r)'
    <3>1. RolPlace(r)
      BY <1>3 DEF TrainInv
    <3>. QED  BY <1>1, <3>1 DEF RolPlace
  <2>. QED  BY <1>1, <1>3, <2>1, <2>2, <2>3 DEF TrainInv
<1>. QED  BY <1>2, <1>3

LEMMA EvalSame ==
  ASSUME EvalInv, conf' = conf, evals' = evals, envEval' = envEval, rolEval' = rolEval,
         \A l \in Links : obs'[<<l, "eval">>] = obs[<<l, "eval">>] /\ act'[<<l, "eval">>] = act[<<l, "eval">>],
         pc' = "eval" <=> pc = "eval"
  PROVE  EvalInv'
<1>1. Envs' = Envs /\ Rollouts' = Rollouts /\ Links' = Links
  BY ConfSame
<1>2. CASE pc = "eval"
  <2>1. ASSUME NEW l \in Links  PROVE EvalLink(l)'
    <3>1. EvalLink(l)
      BY <1>2 DEF EvalInv
    <3>. QED  BY <3>1 DEF EvalLink
  <2>. QED  BY <1>1, <1>2, <2>1 DEF EvalInv
<1>3. CASE pc # "eval"
  BY <1>1, <1>3 DEF EvalInv, Rest
<1>. QED  BY <1>2, <1>3

\* A step of the actors or of the buffers, and one that changes nothing.
linkVars == <<conf, pc, it, evals, envPc, envAt, envStop, rolPc, rolAt, envEval, rolEval, obs, act>>

LEMMA Apart ==
  ASSUME IInv, UNCHANGED linkVars
  PROVE  IInv'
<1>1. TypeInv'
  BY TypeNext DEF IInv, TypeInv, linkVars
<1>2. Round("train")' = Round("train") /\ Stream' = Stream /\ Rollouts' = Rollouts
  BY ConfSame DEF linkVars, Round
<1>3. TrainInv'
  BY <1>2, TrainSame DEF IInv, linkVars
<1>4. EvalInv'
  BY EvalSame DEF IInv, linkVars
<1>5. RunnerInv'
  BY <1>2 DEF IInv, RunnerInv, linkVars
<1>. QED  BY <1>1, <1>3, <1>4, <1>5 DEF IInv

-----------------------------------------------------------------------------
(***************************************************************************)
(* Environment workers.                                                    *)
(***************************************************************************)

\* Where a worker is in interact(): not between the steps.
LEMMA EnvActive ==
  ASSUME IInv, NEW e \in Envs, envPc[e] # "idle"
  PROVE  /\ pc # "load" /\ EnvPlace(e) /\ \A l \in Links : TrainLink(l)
         /\ envAt[e] \in Pos /\ envAt[e].stage < conf.stages /\ envAt[e].st < NumSteps
         /\ conf \in Configs
BY DEF IInv, TrainInv, EnvPlace, TypeInv

\* A step of one environment in interact(): it goes to the place p at position
\* a, and what is on its links leads to there and on from there.
EnvMoves(e, p, a) ==
  /\ p \in {"start", "yield", "recv", "exit", "idle"} /\ a \in Pos
  /\ conf' = conf /\ pc' = pc /\ it' = it /\ evals' = evals /\ envStop' = envStop /\ rolPc' = rolPc /\ rolAt' = rolAt
  /\ envEval' = envEval /\ rolEval' = rolEval
  /\ envPc' = [envPc EXCEPT ![e] = p] /\ envAt' = [envAt EXCEPT ![e] = a]
  /\ obs' \in [Links \X Modes -> Seq(Msgs)] /\ act' \in [Links \X Modes -> Seq(Msgs)]
  /\ \A l \in Links : obs'[<<l, "eval">>] = obs[<<l, "eval">>] /\ act'[<<l, "eval">>] = act[<<l, "eval">>]
  /\ \A l \in Links : l[1] # e =>
       obs'[<<l, "train">>] = obs[<<l, "train">>] /\ act'[<<l, "train">>] = act[<<l, "train">>]
  /\ \A l \in Links : l[1] = e =>
       /\ Line(conf.stages, obs'[<<l, "train">>], Round("train"), rolAt[l[2]],
               IF p \in {"yield", "recv"} THEN NextObs(a) ELSE a, NumSteps)
       /\ Line(conf.stages, act'[<<l, "train">>], Round("train"), a, Replies(l[2]), NumSteps - 1)
  /\ a.stage < conf.stages /\ a.st < NumSteps
  /\ p \notin {"yield", "recv"} => a = EpochStart(a.ep)
  /\ ~Stream => a.ep <= NumEpochs /\ (p = "idle" <=> a.ep = NumEpochs)
  /\ Stream => p # "idle"

LEMMA EnvTurnInv ==
  ASSUME IInv, NEW e \in Envs, pc # "load", NEW p, NEW a, EnvMoves(e, p, a)
  PROVE  IInv'
<1> USE DEF EnvMoves
<1>1. Envs' = Envs /\ Rollouts' = Rollouts /\ Links' = Links /\ Stream' = Stream /\ NumSteps' = NumSteps
  BY ConfSame
<1>2. TypeInv
  BY DEF IInv
<1>3. /\ envPc \in [Envs -> {"idle", "start", "yield", "recv", "exit"}] /\ envAt \in [Envs -> Pos]
      /\ \A l \in Links : l[1] \in Envs
  BY <1>2, LinkEnds DEF TypeInv
<1>4. envPc'[e] = p /\ envAt'[e] = a /\ \A x \in Envs : x # e => envPc'[x] = envPc[x] /\ envAt'[x] = envAt[x]
  BY <1>3
<1>5. TypeInv'
  <2>1. envPc' \in [Envs -> {"idle", "start", "yield", "recv", "exit"}]
    BY <1>3
  <2>2. envAt' \in [Envs -> Pos]
    BY <1>3
  <2>. QED  BY <1>2, <2>1, <2>2, TypeNext DEF TypeInv
<1>6. Round("train")' = Round("train")
  BY <1>1 DEF Round
<1>7. ASSUME NEW l \in Links  PROVE TrainLink(l)'
  <2>1. Replies(l[2])' = Replies(l[2])
    BY <1>1 DEF Replies
  <2>2. CASE l[1] = e
    <3>1. Emits(l[1])' = IF p \in {"yield", "recv"} THEN NextObs(a) ELSE a
      BY <1>4, <2>2 DEF Emits
    <3>2. envAt'[l[1]] = a
      BY <1>4, <2>2
    <3>. QED  BY <1>1, <1>6, <2>1, <2>2, <3>1, <3>2 DEF TrainLink
  <2>3. CASE l[1] # e
    <3>1. Emits(l[1])' = Emits(l[1]) /\ envAt'[l[1]] = envAt[l[1]]
      BY <1>3, <1>4, <2>3 DEF Emits
    <3>2. TrainLink(l)
      BY DEF IInv, TrainInv
    <3>. QED  BY <1>1, <1>6, <2>1, <2>3, <3>1, <3>2 DEF TrainLink
  <2>. QED  BY <2>2, <2>3
<1>8. ASSUME NEW x \in Envs  PROVE EnvPlace(x)'
  <2>1. EnvPlace(x)
    BY DEF IInv, TrainInv
  <2>2. CASE x = e
    BY <1>1, <1>4, <2>1, <2>2 DEF EnvPlace
  <2>3. CASE x # e
    BY <1>1, <1>4, <2>1, <2>3 DEF EnvPlace
  <2>. QED  BY <2>2, <2>3
<1>9. ASSUME NEW r \in Rollouts  PROVE RolPlace(r)'
  <2>1. RolPlace(r)
    BY DEF IInv, TrainInv
  <2>. QED  BY <1>1, <2>1 DEF RolPlace
<1>10. TrainInv'
  BY <1>1, <1>7, <1>8, <1>9 DEF TrainInv
<1>11. EvalInv'
  BY EvalSame DEF IInv
<1>12. RunnerInv'
  BY <1>1 DEF IInv, RunnerInv
<1>. QED  BY <1>5, <1>10, <1>11, <1>12 DEF IInv

LEMMA EnvYieldInv ==
  ASSUME IInv, NEW e \in Envs, EnvYield(e)
  PROVE  IInv'
<1>1. envPc[e] = "yield" /\ envPc' = [envPc EXCEPT ![e] = "recv"]
      /\ UNCHANGED <<conf, pc, it, evals, envAt, envStop, rolPc, rolAt, envEval, rolEval, obs, act>>
  BY DEF EnvYield, runnerVars, rolVars, evalVars
<1>2. pc # "load" /\ EnvPlace(e) /\ (\A l \in Links : TrainLink(l)) /\ envAt[e] \in Pos
  BY <1>1, EnvActive
<1>3. envAt' = [envAt EXCEPT ![e] = envAt[e]]
  BY <1>1 DEF IInv, TypeInv
<1>4. obs' \in [Links \X Modes -> Seq(Msgs)] /\ act' \in [Links \X Modes -> Seq(Msgs)]
  BY <1>1 DEF IInv, TypeInv
<1>5. ASSUME NEW l \in Links, l[1] = e
      PROVE  /\ Line(conf.stages, obs'[<<l, "train">>], Round("train"), rolAt[l[2]], NextObs(envAt[e]), NumSteps)
             /\ Line(conf.stages, act'[<<l, "train">>], Round("train"), envAt[e], Replies(l[2]), NumSteps - 1)
  BY <1>1, <1>2, <1>5 DEF TrainLink, Emits
<1>6. /\ envAt[e].stage < conf.stages /\ envAt[e].st < NumSteps
      /\ ~Stream => envAt[e].ep <= NumEpochs /\ ("recv" = "idle" <=> envAt[e].ep = NumEpochs)
  BY <1>1, <1>2 DEF EnvPlace
<1>7. PICK c \in Pos : c = envAt[e]
  BY <1>2
<1>8. EnvMoves(e, "recv", c)
  BY <1>1, <1>3, <1>4, <1>5, <1>6, <1>7 DEF EnvMoves
<1>. QED  BY <1>2, <1>8, EnvTurnInv

\* A put or a get on the links of one worker, seen from every link.
LEMMA PutApart ==
  ASSUME TypeInv, NEW links, NEW mode, NEW msgs \in Seq(Msgs), obs' = PutAll(obs, links, mode, msgs)
  PROVE  Puts(obs', obs, links, mode, msgs)
<1>1. obs \in [Links \X Modes -> Seq(Msgs)]
  BY DEF TypeInv
<1>2. Puts(PutAll(obs, links, mode, msgs), obs, links, mode, msgs)
  BY <1>1, PutAt
<1>. QED  BY <1>2, Zenon

LEMMA TakeApart ==
  ASSUME TypeInv, NEW links, NEW mode \in Modes, Waiting(obs, links, mode), obs' = TakeAll(obs, links, mode)
  PROVE  /\ obs' \in [Links \X Modes -> Seq(Msgs)]
         /\ \A l \in Links : \A m \in Modes : l \notin links \/ m # mode => obs'[<<l, m>>] = obs[<<l, m>>]
         /\ \A l \in Links : l \in links => obs[<<l, mode>>] # <<>> /\ obs'[<<l, mode>>] = Tail(obs[<<l, mode>>])
<1>1. obs \in [Links \X Modes -> Seq(Msgs)] /\ \A l \in links : obs[<<l, mode>>] # <<>>
  BY DEF TypeInv, Waiting
<1>2. Takes(TakeAll(obs, links, mode), obs, links, mode)
  BY <1>1, TakeAt
<1>3. Takes(obs', obs, links, mode)
  BY <1>2, Zenon
<1>. QED  BY <1>1, <1>3 DEF Takes

LEMMA PutActApart ==
  ASSUME TypeInv, NEW links, NEW mode, NEW msgs \in Seq(Msgs), act' = PutAll(act, links, mode, msgs)
  PROVE  Puts(act', act, links, mode, msgs)
<1>1. act \in [Links \X Modes -> Seq(Msgs)]
  BY DEF TypeInv
<1>2. Puts(PutAll(act, links, mode, msgs), act, links, mode, msgs)
  BY <1>1, PutAt
<1>. QED  BY <1>2, Zenon

LEMMA TakeActApart ==
  ASSUME TypeInv, NEW links, NEW mode \in Modes, Waiting(act, links, mode), act' = TakeAll(act, links, mode)
  PROVE  /\ act' \in [Links \X Modes -> Seq(Msgs)]
         /\ \A l \in Links : \A m \in Modes : l \notin links \/ m # mode => act'[<<l, m>>] = act[<<l, m>>]
         /\ \A l \in Links : l \in links => act[<<l, mode>>] # <<>> /\ act'[<<l, mode>>] = Tail(act[<<l, mode>>])
<1>1. act \in [Links \X Modes -> Seq(Msgs)] /\ \A l \in links : act[<<l, mode>>] # <<>>
  BY DEF TypeInv, Waiting
<1>2. Takes(TakeAll(act, links, mode), act, links, mode)
  BY <1>1, TakeAt
<1>3. Takes(act', act, links, mode)
  BY <1>2, Zenon
<1>. QED  BY <1>1, <1>3 DEF Takes

LEMMA EnvBeginInv ==
  ASSUME IInv, NEW e \in Envs, EnvBegin(e)
  PROVE  IInv'
<1>1. envPc[e] = "start"
      /\ UNCHANGED <<conf, pc, it, evals, envAt, envStop, rolPc, rolAt, envEval, rolEval, act>>
  BY DEF EnvBegin, runnerVars, rolVars, evalVars
<1>2. pc # "load" /\ EnvPlace(e) /\ (\A l \in Links : TrainLink(l)) /\ envAt[e] \in Pos /\ conf \in Configs
  BY <1>1, EnvActive
<1>3. TypeInv /\ envAt' = [envAt EXCEPT ![e] = envAt[e]]
  BY <1>1 DEF IInv, TypeInv
<1>4. /\ envAt[e].stage < conf.stages /\ envAt[e].st < NumSteps
      /\ envAt[e] = EpochStart(envAt[e].ep)
      /\ ~Stream => envAt[e].ep <= NumEpochs /\ envAt[e].ep # NumEpochs
  BY <1>1, <1>2 DEF EnvPlace
<1>5. PICK c \in Pos, k \in Nat : c = envAt[e] /\ k = envAt[e].ep
  BY <1>2, PosEqual
<1>6. \A l \in Links : l[1] = e =>
        /\ Line(conf.stages, obs[<<l, "train">>], Round("train"), rolAt[l[2]], c, NumSteps)
        /\ Line(conf.stages, act[<<l, "train">>], Round("train"), c, Replies(l[2]), NumSteps - 1)
  BY <1>1, <1>2, <1>5 DEF TrainLink, Emits
<1>7. "train" \in Modes /\ "eval" \in Modes /\ "train" # "eval"
  BY DEF Modes
<1>8. act' \in [Links \X Modes -> Seq(Msgs)]
  BY <1>1, <1>3 DEF TypeInv
<1>9. CASE envStop[e] # {}
  <2>1. envPc' = [envPc EXCEPT ![e] = "exit"] /\ obs' = obs
    BY <1>9 DEF EnvBegin
  <2>2. Stream
    BY <1>2, <1>9 DEF EnvPlace
  <2>3. obs' \in [Links \X Modes -> Seq(Msgs)]
    BY <2>1, <1>3 DEF TypeInv
  <2>4. \A l \in Links : l[1] = e =>
          /\ Line(conf.stages, obs'[<<l, "train">>], Round("train"), rolAt[l[2]], c, NumSteps)
          /\ Line(conf.stages, act'[<<l, "train">>], Round("train"), c, Replies(l[2]), NumSteps - 1)
    BY <1>1, <1>6, <2>1
  <2>5. EnvMoves(e, "exit", c)
    BY <1>1, <1>3, <1>4, <1>5, <1>8, <2>1, <2>2, <2>3, <2>4 DEF EnvMoves
  <2>. QED  BY <1>2, <2>5, EnvTurnInv
<1>10. CASE envStop[e] = {}
  <2>1. PICK p \in {"yield", "recv"} : envPc' = [envPc EXCEPT ![e] = p] /\ p # "idle"
    BY <1>10 DEF EnvBegin
  <2>2. PICK o : o = Opening("train", envAt[e].ep)
    OBVIOUS
  <2>3. obs' = PutAll(obs, LinksOfEnv(e), "train", o)
    BY <1>10, <2>2 DEF EnvBegin
  <2>4. PICK n \in Nat : n = Round("train")
    BY <1>3, MsgType, <1>2
  <2>5. o = [i \in 1 .. conf.stages |-> [round |-> n, at |-> Cursor(k, 0, i - 1)]]
    BY <1>5, <2>2, <2>4 DEF Opening, Msg
  <2>6. conf.stages \in Nat \ {0} /\ NumSteps \in Int /\ 0 < NumSteps
    BY <1>2, ConfType DEF Positive
  <2>7. NextObs(c) = Cursor(k, 1, 0)
    <3>1. c = EpochStart(k)
      BY <1>4, <1>5
    <3>. QED  BY <3>1 DEF NextObs, EpochStart, Cursor
  <2>8. c = EpochStart(k)
    BY <1>4, <1>5
  <2>9. o \in Seq(Msgs)
    <3>1. \A i \in 1 .. conf.stages : i - 1 \in Nat
      BY <2>6
    <3>2. \A i \in 1 .. conf.stages : [round |-> n, at |-> Cursor(k, 0, i - 1)] \in Msgs
      BY <3>1, CursorPos DEF Msgs
    <3>. QED  BY <2>5, <2>6, <3>2
  <2>10. /\ obs' \in [Links \X Modes -> Seq(Msgs)]
         /\ \A l \in Links : \A m \in Modes : l \notin LinksOfEnv(e) \/ m # "train" => obs'[<<l, m>>] = obs[<<l, m>>]
         /\ \A l \in Links : l \in LinksOfEnv(e) => obs'[<<l, "train">>] = obs[<<l, "train">>] \o o
    <3>1. Puts(obs', obs, LinksOfEnv(e), "train", o)
      BY <1>3, <1>7, <2>3, <2>9, PutApart
    <3>. QED  BY <1>7, <3>1 DEF Puts
  <2>11. ASSUME NEW l \in Links, l[1] = e
         PROVE  Line(conf.stages, obs'[<<l, "train">>], Round("train"), rolAt[l[2]], NextObs(c), NumSteps)
    <3>1. obs'[<<l, "train">>] = obs[<<l, "train">>] \o o
      BY <2>10, <2>11 DEF LinksOfEnv
    <3>2. obs[<<l, "train">>] \in Seq(Msgs) /\ rolAt[l[2]] \in Pos
      BY <1>3, <1>7, TypeAt
    <3>3. Line(conf.stages, obs[<<l, "train">>], n, rolAt[l[2]], EpochStart(k), NumSteps)
      BY <1>6, <2>4, <2>8, <2>11
    <3>4. Line(conf.stages, obs[<<l, "train">>] \o o, n, rolAt[l[2]],
               IF 0 < NumSteps THEN Cursor(k, 1, 0) ELSE EpochStart(k + 1), NumSteps)
      BY <2>5, <2>6, <3>2, <3>3, LineOpening
    <3>. QED  BY <2>4, <2>6, <2>7, <3>1, <3>4
  <2>12. \A l \in Links : l[1] = e =>
           Line(conf.stages, act'[<<l, "train">>], Round("train"), c, Replies(l[2]), NumSteps - 1)
    BY <1>1, <1>6
  <2>13. /\ \A l \in Links : obs'[<<l, "eval">>] = obs[<<l, "eval">>] /\ act'[<<l, "eval">>] = act[<<l, "eval">>]
         /\ \A l \in Links : l[1] # e =>
              obs'[<<l, "train">>] = obs[<<l, "train">>] /\ act'[<<l, "train">>] = act[<<l, "train">>]
    BY <1>1, <1>7, <2>10 DEF LinksOfEnv
  <2>14. /\ p \in {"start", "yield", "recv", "exit", "idle"} /\ c.stage < conf.stages /\ c.st < NumSteps
         /\ p \notin {"yield", "recv"} => c = EpochStart(c.ep)
         /\ ~Stream => c.ep <= NumEpochs /\ (p = "idle" <=> c.ep = NumEpochs)
         /\ Stream => p # "idle"
    BY <1>4, <1>5, <2>1
  <2>15. \A l \in Links : l[1] = e =>
           /\ Line(conf.stages, obs'[<<l, "train">>], Round("train"), rolAt[l[2]],
                   IF p \in {"yield", "recv"} THEN NextObs(c) ELSE c, NumSteps)
           /\ Line(conf.stages, act'[<<l, "train">>], Round("train"), c, Replies(l[2]), NumSteps - 1)
    BY <2>1, <2>11, <2>12
  <2>16. /\ conf' = conf /\ pc' = pc /\ it' = it /\ evals' = evals /\ envStop' = envStop /\ rolPc' = rolPc
         /\ rolAt' = rolAt /\ envEval' = envEval /\ rolEval' = rolEval /\ envAt' = [envAt EXCEPT ![e] = c]
    BY <1>1, <1>3, <1>5
  <2>17. obs' \in [Links \X Modes -> Seq(Msgs)]
    BY <2>10
  <2>18. EnvMoves(e, p, c)
    BY <1>8, <2>1, <2>13, <2>14, <2>15, <2>16, <2>17, Zenon DEF EnvMoves
  <2>. QED  BY <1>2, <2>18, EnvTurnInv
<1>. QED  BY <1>9, <1>10

LEMMA EnvStepInv ==
  ASSUME IInv, NEW e \in Envs, EnvStep(e)
  PROVE  IInv'
<1>1. envPc[e] = "recv" /\ Waiting(act, LinksOfEnv(e), "train") /\ act' = TakeAll(act, LinksOfEnv(e), "train")
      /\ UNCHANGED <<conf, pc, it, evals, envStop, rolPc, rolAt, envEval, rolEval>>
  BY DEF EnvStep, runnerVars, rolVars, evalVars
<1>2. pc # "load" /\ EnvPlace(e) /\ (\A l \in Links : TrainLink(l)) /\ envAt[e] \in Pos /\ conf \in Configs
  BY <1>1, EnvActive
<1>3. TypeInv
  BY DEF IInv
<1>4. PICK c \in Pos : c = envAt[e] /\ c.stage < conf.stages /\ c.st < NumSteps
  BY <1>2 DEF EnvPlace
<1>5. conf.stages \in Positive /\ conf.stages \in Nat /\ NumSteps \in Positive /\ NumSteps \in Int /\ NumSteps - 1 \in Int
  BY <1>2, ConfType
<1>6. PICK a \in Pos : a = Follows(conf.stages, c, NumSteps - 1)
  BY <1>5, FollowsPos
<1>7. /\ a.stage < conf.stages /\ a.st < NumSteps
      /\ ~EndsEpoch(c, NumSteps - 1) => a.ep = c.ep /\ Follows(conf.stages, NextObs(c), NumSteps) = NextObs(a)
      /\ EndsEpoch(c, NumSteps - 1) =>
           a.ep = c.ep + 1 /\ a = EpochStart(a.ep) /\ Follows(conf.stages, NextObs(c), NumSteps) = a
  BY <1>4, <1>5, <1>6, EnvTurn DEF EndsEpoch
<1>8. envAt' = [envAt EXCEPT ![e] = a]
  <2>1. After(c, NumSteps - 1) = a
    BY <1>6, AfterFollows
  <2>. QED  BY <1>4, <2>1 DEF EnvStep
<1>9. PICK p \in {"start", "idle", "yield", "recv"} :
        /\ envPc' = [envPc EXCEPT ![e] = p]
        /\ ~EndsEpoch(c, NumSteps - 1) => p \in {"yield", "recv"}
        /\ EndsEpoch(c, NumSteps - 1) => p = IF Stream \/ c.ep < NumEpochs - 1 THEN "start" ELSE "idle"
  BY <1>4 DEF EnvStep
<1>10. Follows(conf.stages, NextObs(c), NumSteps) = IF p \in {"yield", "recv"} THEN NextObs(a) ELSE a
  BY <1>7, <1>9
<1>11. PICK d \in Pos : d = NextObs(c)
  BY NextObsPos
<1>12. PICK m \in Msgs : m = Msg("train", d) /\ m = [round |-> Round("train"), at |-> d] /\ <<m>> \in Seq(Msgs)
  BY <1>3, MsgType
<1>13. obs' = PutAll(obs, LinksOfEnv(e), "train", <<m>>)
  <2>1. [c EXCEPT !.st = @ + 1] = d
    BY <1>11, PosEqual DEF NextObs
  <2>. QED  BY <1>4, <1>12, <2>1 DEF EnvStep
<1>14. "train" \in Modes /\ "eval" \in Modes /\ "train" # "eval"
  BY DEF Modes
<1>15. /\ obs' \in [Links \X Modes -> Seq(Msgs)]
       /\ \A l \in Links : \A x \in Modes : l \notin LinksOfEnv(e) \/ x # "train" => obs'[<<l, x>>] = obs[<<l, x>>]
       /\ \A l \in Links : l \in LinksOfEnv(e) => obs'[<<l, "train">>] = obs[<<l, "train">>] \o <<m>>
  <2>1. Puts(obs', obs, LinksOfEnv(e), "train", <<m>>)
    BY <1>3, <1>12, <1>13, <1>14, PutApart
  <2>. QED  BY <1>14, <2>1 DEF Puts
<1>16. /\ act' \in [Links \X Modes -> Seq(Msgs)]
       /\ \A l \in Links : \A x \in Modes : l \notin LinksOfEnv(e) \/ x # "train" => act'[<<l, x>>] = act[<<l, x>>]
       /\ \A l \in Links : l \in LinksOfEnv(e) =>
            act[<<l, "train">>] # <<>> /\ act'[<<l, "train">>] = Tail(act[<<l, "train">>])
  BY <1>1, <1>3, <1>14, TakeActApart
<1>17. ASSUME NEW l \in Links, l[1] = e
       PROVE  /\ Line(conf.stages, obs'[<<l, "train">>], Round("train"), rolAt[l[2]],
                      IF p \in {"yield", "recv"} THEN NextObs(a) ELSE a, NumSteps)
              /\ Line(conf.stages, act'[<<l, "train">>], Round("train"), a, Replies(l[2]), NumSteps - 1)
  <2>1. l \in LinksOfEnv(e)
    BY <1>17 DEF LinksOfEnv
  <2>2. PICK u \in Seq(Msgs), v \in Seq(Msgs), n \in Nat, b \in Pos :
          u = obs[<<l, "train">>] /\ v = act[<<l, "train">>] /\ n = Round("train") /\ b = rolAt[l[2]]
    BY <1>3, <1>4, <1>14, TypeAt, MsgType
  <2>3. Line(conf.stages, u, n, b, d, NumSteps) /\ Line(conf.stages, v, n, c, Replies(l[2]), NumSteps - 1)
    BY <1>1, <1>2, <1>4, <1>11, <1>17, <2>2 DEF TrainLink, Emits
  <2>4. Line(conf.stages, u \o <<m>>, n, b, Follows(conf.stages, d, NumSteps), NumSteps)
    BY <1>5, <1>12, <2>2, <2>3, LinePut
  <2>5. v # <<>> /\ act'[<<l, "train">>] = Tail(v) /\ obs'[<<l, "train">>] = u \o <<m>>
    BY <1>15, <1>16, <2>1, <2>2
  <2>6. Line(conf.stages, Tail(v), n, Follows(conf.stages, c, NumSteps - 1), Replies(l[2]), NumSteps - 1)
    BY <1>5, <2>3, <2>5, LineTake
  <2>7. Line(conf.stages, Tail(v), Round("train"), a, Replies(l[2]), NumSteps - 1)
    BY <1>6, <2>2, <2>6
  <2>8. Line(conf.stages, u \o <<m>>, Round("train"), rolAt[l[2]],
             IF p \in {"yield", "recv"} THEN NextObs(a) ELSE a, NumSteps)
    BY <1>10, <1>11, <2>2, <2>4
  <2>. QED  BY <2>5, <2>7, <2>8
<1>18. /\ \A l \in Links : obs'[<<l, "eval">>] = obs[<<l, "eval">>] /\ act'[<<l, "eval">>] = act[<<l, "eval">>]
       /\ \A l \in Links : l[1] # e =>
            obs'[<<l, "train">>] = obs[<<l, "train">>] /\ act'[<<l, "train">>] = act[<<l, "train">>]
  BY <1>14, <1>15, <1>16 DEF LinksOfEnv
<1>19. ~Stream => a.ep <= NumEpochs /\ (p = "idle" <=> a.ep = NumEpochs)
  <2>1. ~Stream => c.ep <= NumEpochs /\ c.ep # NumEpochs
    BY <1>1, <1>2, <1>4 DEF EnvPlace
  <2>2. NumEpochs \in Nat /\ c.ep \in Nat
    BY EmbodiedAssumption, PosEqual DEF Positive
  <2>. QED  BY <1>7, <1>9, <2>1, <2>2
<1>20. p \notin {"yield", "recv"} => a = EpochStart(a.ep)
  BY <1>7, <1>9
<1>21. Stream => p # "idle"
  BY <1>9
<1>22. /\ conf' = conf /\ pc' = pc /\ it' = it /\ evals' = evals /\ envStop' = envStop /\ rolPc' = rolPc
       /\ rolAt' = rolAt /\ envEval' = envEval /\ rolEval' = rolEval
  BY <1>1
<1>23. p \in {"start", "yield", "recv", "exit", "idle"} /\ envPc' = [envPc EXCEPT ![e] = p]
  BY <1>9
<1>24. /\ obs' \in [Links \X Modes -> Seq(Msgs)] /\ act' \in [Links \X Modes -> Seq(Msgs)]
       /\ a.stage < conf.stages /\ a.st < NumSteps
  BY <1>7, <1>15, <1>16
<1>25. \A l \in Links : l[1] = e =>
         /\ Line(conf.stages, obs'[<<l, "train">>], Round("train"), rolAt[l[2]],
                 IF p \in {"yield", "recv"} THEN NextObs(a) ELSE a, NumSteps)
         /\ Line(conf.stages, act'[<<l, "train">>], Round("train"), a, Replies(l[2]), NumSteps - 1)
  BY <1>17
<1>26. EnvMoves(e, p, a)
  BY <1>8, <1>18, <1>19, <1>20, <1>21, <1>22, <1>23, <1>24, <1>25, Zenon DEF EnvMoves
<1>. QED  BY <1>2, <1>26, EnvTurnInv

\* The sets that say how far an evaluate() is.
LEMMA EvalReads ==
  ASSUME conf \in Configs
  PROVE  /\ EvalNeeds({}) = EvalOver /\ EvalEmits({}) = EvalOver
         /\ EvalNeeds({Called}) = Start /\ EvalEmits({Called}) = Start
         /\ \A c \in EvalPos : /\ EvalNeeds({c}) = c /\ EvalEmits({c}) = NextEvalObs(c, NumEvalSteps - 1)
                               /\ c # Called /\ c \in Pos
         /\ Start \in EvalPos /\ EvalOver \in Pos /\ Start = EpochStart(0)
         /\ EvalOver.ep = 1 /\ EvalOver.st = 0 /\ EvalOver.stage = 0
<1>1. EvalOver \in Pos /\ EvalOver.ep = 1 /\ EvalOver.st = 0 /\ EvalOver.stage = 0
  BY DEF EvalOver, EpochStart, Cursor, Pos
<1>2. Start \in EvalPos /\ Start = EpochStart(0)
  <2>1. Start = [ep |-> 0, st |-> 0, stage |-> 0] /\ Start = EpochStart(0)
    BY DEF Start, EpochStart, Cursor
  <2>2. conf.stages \in Nat \ {0} /\ NumEvalSteps - 1 \in Nat
    BY ConfType DEF Positive
  <2>. QED  BY <2>1, <2>2 DEF EvalPos, Pos
<1>3. EvalNeeds({}) = EvalOver /\ EvalEmits({}) = EvalOver
  BY DEF EvalNeeds, EvalEmits
<1>4. EvalNeeds({Called}) = Start /\ EvalEmits({Called}) = Start
  <2>1. {Called} # {}
    OBVIOUS
  <2>. QED  BY <2>1, Zenon DEF EvalNeeds, EvalEmits
<1>5. ASSUME NEW c \in EvalPos
      PROVE  EvalNeeds({c}) = c /\ EvalEmits({c}) = NextEvalObs(c, NumEvalSteps - 1) /\ c # Called /\ c \in Pos
  <2>1. c \in Pos /\ c.ep = 0 /\ Called.ep = -1
    BY DEF EvalPos, Called, Cursor
  <2>2. {c} # {} /\ {c} # {Called} /\ (CHOOSE x \in {c} : TRUE) = c
    BY <2>1
  <2>. QED  BY <2>1, <2>2 DEF EvalNeeds, EvalEmits
<1>. QED  BY <1>1, <1>2, <1>3, <1>4, <1>5

LEMMA EvalNeedsPos ==
  ASSUME conf \in Configs, NEW s \in EnvEvals
  PROVE  EvalNeeds(s) \in Pos
<1>1. CASE s = {}
  BY <1>1, EvalReads
<1>2. CASE s = {Called}
  BY <1>2, EvalReads DEF EvalPos
<1>3. CASE s # {} /\ s # {Called}
  <2>1. PICK c \in EvalPos : s = {c}
    BY <1>3 DEF EnvEvals, RolEvals
  <2>. QED  BY <2>1, EvalReads
<1>. QED  BY <1>1, <1>2, <1>3

\* A step of evaluate().
EvalMoves ==
  /\ conf' = conf /\ pc' = pc /\ it' = it /\ evals' = evals
  /\ envPc' = envPc /\ envAt' = envAt /\ envStop' = envStop /\ rolPc' = rolPc /\ rolAt' = rolAt
  /\ obs' \in [Links \X Modes -> Seq(Msgs)] /\ act' \in [Links \X Modes -> Seq(Msgs)]
  /\ envEval' \in [Envs -> EnvEvals] /\ rolEval' \in [Rollouts -> RolEvals]
  /\ \A l \in Links : obs'[<<l, "train">>] = obs[<<l, "train">>] /\ act'[<<l, "train">>] = act[<<l, "train">>]
  /\ \A l \in Links :
       /\ Line(conf.stages, obs'[<<l, "eval">>], evals, EvalNeeds(rolEval'[l[2]]), EvalEmits(envEval'[l[1]]), NumEvalSteps - 1)
       /\ Line(conf.stages, act'[<<l, "eval">>], evals, EvalNeeds(envEval'[l[1]]), EvalNeeds(rolEval'[l[2]]), NumEvalSteps - 1)

LEMMA EvalTurnInv ==
  ASSUME IInv, pc = "eval", EvalMoves
  PROVE  IInv'
<1>1. Links' = Links /\ Stream' = Stream /\ Rollouts' = Rollouts
  BY ConfSame DEF EvalMoves
<1>2. TypeInv'
  BY TypeNext DEF IInv, TypeInv, EvalMoves
<1>3. Round("train")' = Round("train")
  BY <1>1 DEF Round, EvalMoves
<1>4. TrainInv'
  BY <1>3, TrainSame DEF IInv, EvalMoves
<1>5. ASSUME NEW l \in Links  PROVE EvalLink(l)'
  BY Zenon DEF EvalMoves, EvalLink, EvalNeeds, EvalEmits
<1>6. EvalInv'
  BY <1>1, <1>5 DEF EvalInv, EvalMoves
<1>7. RunnerInv'
  BY <1>1 DEF IInv, RunnerInv, EvalMoves
<1>. QED  BY <1>2, <1>4, <1>6, <1>7 DEF IInv

LEMMA EnvEvalBeginInv ==
  ASSUME IInv, NEW e \in Envs, EnvEvalBegin(e)
  PROVE  IInv'
<1>1. /\ envEval[e] = {Called} /\ envEval' = [envEval EXCEPT ![e] = {Start}]
      /\ conf' = conf /\ pc' = pc /\ it' = it /\ evals' = evals /\ envPc' = envPc /\ envAt' = envAt /\ envStop' = envStop
      /\ rolPc' = rolPc /\ rolAt' = rolAt /\ rolEval' = rolEval /\ act' = act
  BY DEF EnvEvalBegin, runnerVars, envVars, rolVars
<1>2. TypeInv /\ conf \in Configs /\ envEval \in [Envs -> EnvEvals] /\ rolEval \in [Rollouts -> RolEvals]
      /\ act \in [Links \X Modes -> Seq(Msgs)]
  BY DEF IInv, TypeInv
<1>3. pc = "eval" /\ \A l \in Links : EvalLink(l)
  <2>1. {Called} # {}
    OBVIOUS
  <2>. QED  BY <1>1, <2>1 DEF IInv, EvalInv
<1>4. conf.stages \in Nat \ {0} /\ NumEvalSteps - 1 \in Int /\ NumEvalSteps - 1 \in Nat
  BY <1>2, ConfType DEF Positive
<1>5. PICK last \in Int : last = NumEvalSteps - 1
  BY <1>4
<1>6. PICK o : o = Opening("eval", 0)
  OBVIOUS
<1>7. PICK n \in Nat : n = evals
  BY <1>2 DEF TypeInv
<1>8. o = [i \in 1 .. conf.stages |-> [round |-> n, at |-> Cursor(0, 0, i - 1)]]
  BY <1>6, <1>7 DEF Opening, Msg, Round
<1>9. o \in Seq(Msgs)
  <2>1. \A i \in 1 .. conf.stages : i - 1 \in Nat
    BY <1>4
  <2>2. \A i \in 1 .. conf.stages : [round |-> n, at |-> Cursor(0, 0, i - 1)] \in Msgs
    BY <2>1, CursorPos DEF Msgs
  <2>. QED  BY <1>4, <1>8, <2>2
<1>10. "train" \in Modes /\ "eval" \in Modes /\ "train" # "eval"
  BY DEF Modes
<1>11. obs' = PutAll(obs, LinksOfEnv(e), "eval", o)
  BY <1>6 DEF EnvEvalBegin
<1>12. /\ obs' \in [Links \X Modes -> Seq(Msgs)]
       /\ \A l \in Links : \A m \in Modes : l \notin LinksOfEnv(e) \/ m # "eval" => obs'[<<l, m>>] = obs[<<l, m>>]
       /\ \A l \in Links : l \in LinksOfEnv(e) => obs'[<<l, "eval">>] = obs[<<l, "eval">>] \o o
  <2>1. Puts(obs', obs, LinksOfEnv(e), "eval", o)
    BY <1>2, <1>9, <1>10, <1>11, PutApart
  <2>. QED  BY <1>10, <2>1 DEF Puts
<1>13. EvalEmits({Start}) = (IF 0 < last THEN Cursor(0, 1, 0) ELSE EpochStart(0 + 1)) /\ EvalNeeds({Start}) = Start
  <2>1. EvalEmits({Start}) = NextEvalObs(Start, last) /\ EvalNeeds({Start}) = Start
    BY <1>2, <1>5, EvalReads
  <2>2. Start.ep = 0 /\ Start.st = 0 /\ Start.stage = 0
    BY DEF Start, Cursor
  <2>. QED  BY <2>1, <2>2 DEF NextEvalObs, NextObs, EvalOver
<1>14. envEval' \in [Envs -> EnvEvals] /\ envEval'[e] = {Start} /\ \A x \in Envs : x # e => envEval'[x] = envEval[x]
  <2>1. {Start} \in EnvEvals
    BY <1>2, EvalReads DEF EnvEvals, RolEvals
  <2>. QED  BY <1>1, <1>2, <2>1
<1>15. ASSUME NEW l \in Links
       PROVE  /\ Line(conf.stages, obs'[<<l, "eval">>], evals, EvalNeeds(rolEval'[l[2]]), EvalEmits(envEval'[l[1]]), NumEvalSteps - 1)
              /\ Line(conf.stages, act'[<<l, "eval">>], evals, EvalNeeds(envEval'[l[1]]), EvalNeeds(rolEval'[l[2]]), NumEvalSteps - 1)
  <2>1. /\ Line(conf.stages, obs[<<l, "eval">>], n, EvalNeeds(rolEval[l[2]]), EvalEmits(envEval[l[1]]), last)
        /\ Line(conf.stages, act[<<l, "eval">>], n, EvalNeeds(envEval[l[1]]), EvalNeeds(rolEval[l[2]]), last)
    BY <1>3, <1>5, <1>7 DEF EvalLink
  <2>2. obs[<<l, "eval">>] \in Seq(Msgs) /\ rolEval[l[2]] \in RolEvals /\ l[1] \in Envs /\ l[2] \in Rollouts
    BY <1>2, <1>10, TypeAt
  <2>3. CASE l[1] = e
    <3>1. obs'[<<l, "eval">>] = obs[<<l, "eval">>] \o o
      BY <1>12, <2>3 DEF LinksOfEnv
    <3>2. EvalEmits(envEval[l[1]]) = EpochStart(0) /\ EvalNeeds(envEval[l[1]]) = Start
      BY <1>1, <1>2, <2>3, EvalReads
    <3>3. PICK c \in Pos : c = EvalNeeds(rolEval[l[2]])
      BY <1>2, <2>2, EvalNeedsPos DEF EnvEvals
    <3>4. Line(conf.stages, obs[<<l, "eval">>], n, c, EpochStart(0), last)
      BY <2>1, <3>2, <3>3
    <3>5. Line(conf.stages, obs[<<l, "eval">>] \o o, n, c, IF 0 < last THEN Cursor(0, 1, 0) ELSE EpochStart(0 + 1), last)
      BY <1>4, <1>8, <2>2, <3>4, LineOpening
    <3>6. EvalNeeds(envEval'[l[1]]) = Start /\ EvalEmits(envEval'[l[1]]) = IF 0 < last THEN Cursor(0, 1, 0) ELSE EpochStart(0 + 1)
      BY <1>13, <1>14, <2>3
    <3>. QED  BY <1>1, <1>5, <1>7, <2>1, <3>1, <3>2, <3>3, <3>5, <3>6
  <2>4. CASE l[1] # e
    <3>1. obs'[<<l, "eval">>] = obs[<<l, "eval">>]
      BY <1>10, <1>12, <2>4 DEF LinksOfEnv
    <3>2. envEval'[l[1]] = envEval[l[1]]
      BY <1>14, <2>2, <2>4
    <3>. QED  BY <1>1, <1>5, <1>7, <2>1, <3>1, <3>2
  <2>. QED  BY <2>3, <2>4
<1>16. \A l \in Links : obs'[<<l, "train">>] = obs[<<l, "train">>] /\ act'[<<l, "train">>] = act[<<l, "train">>]
  BY <1>1, <1>10, <1>12
<1>17. EvalMoves
  BY <1>1, <1>2, <1>12, <1>14, <1>15, <1>16 DEF EvalMoves
<1>. QED  BY <1>3, <1>17, EvalTurnInv

\* How far evaluate() is after the turn at position c.
NextEval(c) == IF EndsEpoch(c, NumEvalSteps - 1) THEN {} ELSE {After(c, NumEvalSteps - 1)}

LEMMA NextEvalReads ==
  ASSUME conf \in Configs, NEW c \in EvalPos
  PROVE  /\ NextEval(c) \in RolEvals /\ NextEval(c) \in EnvEvals
         /\ EvalNeeds(NextEval(c)) = Follows(conf.stages, c, NumEvalSteps - 1)
         /\ EvalSends(c) => Follows(conf.stages, NextObs(c), NumEvalSteps - 1) = EvalEmits(NextEval(c))
         /\ EvalSends(c) => EvalEmits({c}) = NextObs(c)
         /\ ~EvalSends(c) => EvalEmits({c}) = EvalOver /\ EvalEmits(NextEval(c)) = EvalOver
<1>1. PICK last \in Nat : last = NumEvalSteps - 1
  BY ConfType
<1>2. c \in Pos /\ c.ep = 0 /\ c.stage < conf.stages /\ c.st <= last /\ conf.stages \in Positive
  BY <1>1, ConfType DEF EvalPos
<1>3. PICK a : a = Follows(conf.stages, c, last)
  OBVIOUS
<1>4. /\ c.st = last /\ c.stage = conf.stages - 1 => a = EvalOver
      /\ ~(c.st = last /\ c.stage = conf.stages - 1) => a \in Pos /\ a.ep = 0 /\ a.stage < conf.stages /\ a.st <= last
      /\ c.st < last => ~(c.st = last /\ c.stage = conf.stages - 1)
                        /\ Follows(conf.stages, NextObs(c), last) = NextEvalObs(a, last)
      /\ ~(c.st < last) /\ ~(c.st = last /\ c.stage = conf.stages - 1) => NextEvalObs(a, last) = EvalOver
  BY <1>2, <1>3, EvalTurn
<1>5. EvalSends(c) <=> c.st < last
  BY <1>1 DEF EvalSends
<1>6. After(c, last) = a
  BY <1>2, <1>3, AfterFollows
<1>7. EvalEmits({c}) = NextEvalObs(c, last) /\ EvalNeeds({}) = EvalOver /\ EvalEmits({}) = EvalOver
  BY <1>1, EvalReads
<1>8. CASE EndsEpoch(c, last)
  <2>1. NextEval(c) = {} /\ c.st = last /\ c.stage = conf.stages - 1
    BY <1>1, <1>8 DEF NextEval, EndsEpoch
  <2>2. {} \in RolEvals /\ {} \in EnvEvals
    BY DEF RolEvals, EnvEvals
  <2>. QED  BY <1>1, <1>3, <1>4, <1>5, <1>7, <2>1, <2>2 DEF NextEvalObs
<1>9. CASE ~EndsEpoch(c, last)
  <2>1. NextEval(c) = {a} /\ ~(c.st = last /\ c.stage = conf.stages - 1)
    BY <1>1, <1>6, <1>9 DEF NextEval, EndsEpoch
  <2>2. a \in EvalPos
    BY <1>1, <1>4, <2>1 DEF EvalPos
  <2>3. {a} \in RolEvals /\ {a} \in EnvEvals
    BY <2>2 DEF RolEvals, EnvEvals
  <2>4. EvalNeeds({a}) = a /\ EvalEmits({a}) = NextEvalObs(a, last)
    BY <1>1, <2>2, EvalReads
  <2>. QED  BY <1>1, <1>3, <1>4, <1>5, <1>7, <2>1, <2>3, <2>4 DEF NextEvalObs
<1>. QED  BY <1>8, <1>9

LEMMA EnvEvalStepInv ==
  ASSUME IInv, NEW e \in Envs, EnvEvalStep(e)
  PROVE  IInv'
<1>1. PICK c \in envEval[e] \ {Called} :
        /\ Waiting(act, LinksOfEnv(e), "eval")
        /\ act' = TakeAll(act, LinksOfEnv(e), "eval")
        /\ obs' = IF EvalSends(c)
                  THEN PutAll(obs, LinksOfEnv(e), "eval", <<Msg("eval", [c EXCEPT !.st = @ + 1])>>)
                  ELSE obs
        /\ envEval' = [envEval EXCEPT ![e] = NextEval(c)]
        /\ UNCHANGED <<runnerVars, pc, weightVars, envVars, rolVars, rolEval, q, actorVars>>
  BY DEF EnvEvalStep, NextEval
<1>2. /\ conf' = conf /\ pc' = pc /\ it' = it /\ evals' = evals /\ envPc' = envPc /\ envAt' = envAt /\ envStop' = envStop
      /\ rolPc' = rolPc /\ rolAt' = rolAt /\ rolEval' = rolEval
  BY <1>1 DEF runnerVars, envVars, rolVars
<1>3. TypeInv /\ conf \in Configs /\ envEval \in [Envs -> EnvEvals] /\ rolEval \in [Rollouts -> RolEvals]
      /\ obs \in [Links \X Modes -> Seq(Msgs)]
  BY DEF IInv, TypeInv
<1>4. envEval[e] = {c} /\ c \in EvalPos
  <2>1. envEval[e] \in EnvEvals
    BY <1>3
  <2>. QED  BY <1>1, <2>1 DEF EnvEvals, RolEvals
<1>5. pc = "eval" /\ \A l \in Links : EvalLink(l)
  <2>1. envEval[e] # {}
    BY <1>4
  <2>. QED  BY <2>1 DEF IInv, EvalInv
<1>6. PICK last \in Int : last = NumEvalSteps - 1 /\ conf.stages \in Nat
  BY <1>3, ConfType
<1>7. PICK n \in Nat : n = evals /\ n = Round("eval")
  BY <1>3 DEF TypeInv, Round
<1>8. PICK d \in Pos : d = NextObs(c)
  BY <1>4, NextObsPos DEF EvalPos
<1>9. PICK m \in Msgs : m = Msg("eval", d) /\ m = [round |-> n, at |-> d] /\ <<m>> \in Seq(Msgs)
  BY <1>3, <1>7, MsgType
<1>10. obs' = IF EvalSends(c) THEN PutAll(obs, LinksOfEnv(e), "eval", <<m>>) ELSE obs
  <2>1. [c EXCEPT !.st = @ + 1] = d
    BY <1>4, <1>8, PosEqual DEF NextObs, EvalPos
  <2>. QED  BY <1>1, <1>9, <2>1
<1>11. "train" \in Modes /\ "eval" \in Modes /\ "train" # "eval"
  BY DEF Modes
<1>12. /\ obs' \in [Links \X Modes -> Seq(Msgs)]
       /\ \A l \in Links : \A x \in Modes : l \notin LinksOfEnv(e) \/ x # "eval" => obs'[<<l, x>>] = obs[<<l, x>>]
       /\ \A l \in Links : l \in LinksOfEnv(e) =>
            obs'[<<l, "eval">>] = IF EvalSends(c) THEN obs[<<l, "eval">>] \o <<m>> ELSE obs[<<l, "eval">>]
  <2>1. CASE EvalSends(c)
    <3>1. obs' = PutAll(obs, LinksOfEnv(e), "eval", <<m>>)
      BY <1>10, <2>1
    <3>2. Puts(PutAll(obs, LinksOfEnv(e), "eval", <<m>>), obs, LinksOfEnv(e), "eval", <<m>>)
      BY <1>3, <1>9, PutAt
    <3>3. Puts(obs', obs, LinksOfEnv(e), "eval", <<m>>)
      BY <3>1, <3>2, Zenon
    <3>. QED  BY <1>11, <2>1, <3>3 DEF Puts
  <2>2. CASE ~EvalSends(c)
    BY <1>3, <1>10, <2>2
  <2>. QED  BY <2>1, <2>2
<1>13. /\ act' \in [Links \X Modes -> Seq(Msgs)]
       /\ \A l \in Links : \A x \in Modes : l \notin LinksOfEnv(e) \/ x # "eval" => act'[<<l, x>>] = act[<<l, x>>]
       /\ \A l \in Links : l \in LinksOfEnv(e) => act[<<l, "eval">>] # <<>> /\ act'[<<l, "eval">>] = Tail(act[<<l, "eval">>])
  BY <1>1, <1>3, <1>11, TakeActApart
<1>14. /\ NextEval(c) \in EnvEvals
       /\ EvalNeeds(NextEval(c)) = Follows(conf.stages, c, last)
       /\ EvalSends(c) => Follows(conf.stages, NextObs(c), last) = EvalEmits(NextEval(c))
       /\ EvalSends(c) => EvalEmits({c}) = NextObs(c)
       /\ ~EvalSends(c) => EvalEmits({c}) = EvalOver /\ EvalEmits(NextEval(c)) = EvalOver
  BY <1>3, <1>4, <1>6, NextEvalReads
<1>15. /\ envEval' \in [Envs -> EnvEvals] /\ envEval'[e] = NextEval(c)
       /\ \A x \in Envs : x # e => envEval'[x] = envEval[x]
  BY <1>1, <1>3, <1>14
<1>16. ASSUME NEW l \in Links
       PROVE  /\ Line(conf.stages, obs'[<<l, "eval">>], evals, EvalNeeds(rolEval'[l[2]]), EvalEmits(envEval'[l[1]]), NumEvalSteps - 1)
              /\ Line(conf.stages, act'[<<l, "eval">>], evals, EvalNeeds(envEval'[l[1]]), EvalNeeds(rolEval'[l[2]]), NumEvalSteps - 1)
  <2>1. /\ Line(conf.stages, obs[<<l, "eval">>], n, EvalNeeds(rolEval[l[2]]), EvalEmits(envEval[l[1]]), last)
        /\ Line(conf.stages, act[<<l, "eval">>], n, EvalNeeds(envEval[l[1]]), EvalNeeds(rolEval[l[2]]), last)
    BY <1>5, <1>6, <1>7 DEF EvalLink
  <2>2. obs[<<l, "eval">>] \in Seq(Msgs) /\ act[<<l, "eval">>] \in Seq(Msgs)
        /\ rolEval[l[2]] \in RolEvals /\ l[1] \in Envs /\ l[2] \in Rollouts
    BY <1>3, <1>11, TypeAt
  <2>3. CASE l[1] = e
    <3>1. l \in LinksOfEnv(e) /\ envEval[l[1]] = {c} /\ EvalNeeds({c}) = c /\ c \in Pos
      BY <1>3, <1>4, <2>3, EvalReads DEF LinksOfEnv
    <3>2. PICK b \in Pos, f \in Pos : b = EvalNeeds(rolEval[l[2]]) /\ f = b
      BY <1>3, <2>2, EvalNeedsPos DEF EnvEvals
    <3>3. Line(conf.stages, act'[<<l, "eval">>], n, Follows(conf.stages, c, last), b, last)
      <4>1. Line(conf.stages, act[<<l, "eval">>], n, c, b, last)
        BY <2>1, <3>1, <3>2
      <4>2. Line(conf.stages, Tail(act[<<l, "eval">>]), n, Follows(conf.stages, c, last), b, last)
        BY <1>6, <1>13, <2>2, <3>1, <4>1, LineTake
      <4>. QED  BY <1>13, <3>1, <4>2
    <3>4. Line(conf.stages, obs'[<<l, "eval">>], n, b, EvalEmits(NextEval(c)), last)
      <4>1. CASE EvalSends(c)
        <5>1. Line(conf.stages, obs[<<l, "eval">>], n, b, d, last)
          BY <1>8, <1>14, <2>1, <3>1, <3>2, <4>1
        <5>2. Line(conf.stages, obs[<<l, "eval">>] \o <<m>>, n, b, Follows(conf.stages, d, last), last)
          BY <1>6, <1>9, <2>2, <5>1, LinePut
        <5>. QED  BY <1>8, <1>12, <1>14, <3>1, <4>1, <5>2
      <4>2. CASE ~EvalSends(c)
        BY <1>12, <1>14, <2>1, <3>1, <3>2, <4>2
      <4>. QED  BY <4>1, <4>2
    <3>5. envEval'[l[1]] = NextEval(c) /\ rolEval' = rolEval
      BY <1>2, <1>15, <2>3
    <3>. QED  BY <1>6, <1>7, <1>14, <3>2, <3>3, <3>4, <3>5
  <2>4. CASE l[1] # e
    <3>1. obs'[<<l, "eval">>] = obs[<<l, "eval">>] /\ act'[<<l, "eval">>] = act[<<l, "eval">>]
      BY <1>11, <1>12, <1>13, <2>4 DEF LinksOfEnv
    <3>2. envEval'[l[1]] = envEval[l[1]]
      BY <1>15, <2>2, <2>4
    <3>. QED  BY <1>2, <1>6, <1>7, <2>1, <3>1, <3>2
  <2>. QED  BY <2>3, <2>4
<1>17. \A l \in Links : obs'[<<l, "train">>] = obs[<<l, "train">>] /\ act'[<<l, "train">>] = act[<<l, "train">>]
  BY <1>11, <1>12, <1>13
<1>18. EvalMoves
  BY <1>2, <1>3, <1>12, <1>13, <1>15, <1>16, <1>17 DEF EvalMoves
<1>. QED  BY <1>5, <1>18, EvalTurnInv

-----------------------------------------------------------------------------
(***************************************************************************)
(* Rollout workers.                                                        *)
(***************************************************************************)
LEMMA RolloutEvalStepInv ==
  ASSUME IInv, NEW r \in Rollouts, RolloutEvalStep(r)
  PROVE  IInv'
<1>1. PICK c \in rolEval[r] :
        /\ Waiting(obs, LinksOfRollout(r), "eval")
        /\ obs' = TakeAll(obs, LinksOfRollout(r), "eval")
        /\ act' = PutAll(act, LinksOfRollout(r), "eval", <<Msg("eval", c)>>)
        /\ rolEval' = [rolEval EXCEPT ![r] = NextEval(c)]
        /\ UNCHANGED <<runnerVars, pc, weightVars, envVars, rolVars, envEval, q, actorVars>>
  BY DEF RolloutEvalStep, NextEval
<1>2. /\ conf' = conf /\ pc' = pc /\ it' = it /\ evals' = evals /\ envPc' = envPc /\ envAt' = envAt /\ envStop' = envStop
      /\ rolPc' = rolPc /\ rolAt' = rolAt /\ envEval' = envEval
  BY <1>1 DEF runnerVars, envVars, rolVars
<1>3. TypeInv /\ conf \in Configs /\ envEval \in [Envs -> EnvEvals] /\ rolEval \in [Rollouts -> RolEvals]
  BY DEF IInv, TypeInv
<1>4. rolEval[r] = {c} /\ c \in EvalPos /\ c \in Pos /\ EvalNeeds({c}) = c
  <2>1. rolEval[r] \in RolEvals
    BY <1>3
  <2>2. rolEval[r] = {c} /\ c \in EvalPos
    BY <1>1, <2>1 DEF RolEvals
  <2>. QED  BY <1>3, <2>2, EvalReads
<1>5. pc = "eval" /\ \A l \in Links : EvalLink(l)
  <2>1. rolEval[r] # {}
    BY <1>4
  <2>. QED  BY <2>1 DEF IInv, EvalInv
<1>6. PICK last \in Int : last = NumEvalSteps - 1 /\ conf.stages \in Nat
  BY <1>3, ConfType
<1>7. PICK n \in Nat : n = evals /\ n = Round("eval")
  BY <1>3 DEF TypeInv, Round
<1>8. PICK m \in Msgs : m = Msg("eval", c) /\ m = [round |-> n, at |-> c] /\ <<m>> \in Seq(Msgs)
  BY <1>3, <1>4, <1>7, MsgType
<1>9. "train" \in Modes /\ "eval" \in Modes /\ "train" # "eval"
  BY DEF Modes
<1>10. /\ act' \in [Links \X Modes -> Seq(Msgs)]
       /\ \A l \in Links : \A x \in Modes : l \notin LinksOfRollout(r) \/ x # "eval" => act'[<<l, x>>] = act[<<l, x>>]
       /\ \A l \in Links : l \in LinksOfRollout(r) => act'[<<l, "eval">>] = act[<<l, "eval">>] \o <<m>>
  <2>1. Puts(act', act, LinksOfRollout(r), "eval", <<m>>)
    BY <1>1, <1>3, <1>8, <1>9, PutActApart
  <2>. QED  BY <1>9, <2>1 DEF Puts
<1>11. /\ obs' \in [Links \X Modes -> Seq(Msgs)]
       /\ \A l \in Links : \A x \in Modes : l \notin LinksOfRollout(r) \/ x # "eval" => obs'[<<l, x>>] = obs[<<l, x>>]
       /\ \A l \in Links : l \in LinksOfRollout(r) => obs[<<l, "eval">>] # <<>> /\ obs'[<<l, "eval">>] = Tail(obs[<<l, "eval">>])
  BY <1>1, <1>3, <1>9, TakeApart
<1>12. NextEval(c) \in RolEvals /\ EvalNeeds(NextEval(c)) = Follows(conf.stages, c, last)
  BY <1>3, <1>4, <1>6, NextEvalReads
<1>13. /\ rolEval' \in [Rollouts -> RolEvals] /\ rolEval'[r] = NextEval(c)
       /\ \A x \in Rollouts : x # r => rolEval'[x] = rolEval[x]
  BY <1>1, <1>3, <1>12
<1>14. ASSUME NEW l \in Links
       PROVE  /\ Line(conf.stages, obs'[<<l, "eval">>], evals, EvalNeeds(rolEval'[l[2]]), EvalEmits(envEval'[l[1]]), NumEvalSteps - 1)
              /\ Line(conf.stages, act'[<<l, "eval">>], evals, EvalNeeds(envEval'[l[1]]), EvalNeeds(rolEval'[l[2]]), NumEvalSteps - 1)
  <2>1. /\ Line(conf.stages, obs[<<l, "eval">>], n, EvalNeeds(rolEval[l[2]]), EvalEmits(envEval[l[1]]), last)
        /\ Line(conf.stages, act[<<l, "eval">>], n, EvalNeeds(envEval[l[1]]), EvalNeeds(rolEval[l[2]]), last)
    BY <1>5, <1>6, <1>7 DEF EvalLink
  <2>2. obs[<<l, "eval">>] \in Seq(Msgs) /\ act[<<l, "eval">>] \in Seq(Msgs)
        /\ envEval[l[1]] \in EnvEvals /\ l[1] \in Envs /\ l[2] \in Rollouts
    BY <1>3, <1>9, TypeAt
  <2>3. CASE l[2] = r
    <3>1. l \in LinksOfRollout(r) /\ rolEval[l[2]] = {c}
      BY <1>4, <2>3 DEF LinksOfRollout
    <3>2. PICK b \in Pos : b = EvalNeeds(envEval[l[1]])
      BY <1>3, <2>2, EvalNeedsPos
    <3>3. Line(conf.stages, act'[<<l, "eval">>], n, b, Follows(conf.stages, c, last), last)
      <4>1. Line(conf.stages, act[<<l, "eval">>], n, b, c, last)
        BY <1>4, <2>1, <3>1, <3>2
      <4>2. Line(conf.stages, act[<<l, "eval">>] \o <<m>>, n, b, Follows(conf.stages, c, last), last)
        BY <1>4, <1>6, <1>8, <2>2, <4>1, LinePut
      <4>. QED  BY <1>10, <3>1, <4>2
    <3>4. Line(conf.stages, obs'[<<l, "eval">>], n, Follows(conf.stages, c, last), EvalEmits(envEval[l[1]]), last)
      <4>1. PICK z : z = EvalEmits(envEval[l[1]])
        OBVIOUS
      <4>2. Line(conf.stages, obs[<<l, "eval">>], n, c, z, last)
        BY <1>4, <2>1, <3>1, <4>1
      <4>3. Line(conf.stages, Tail(obs[<<l, "eval">>]), n, Follows(conf.stages, c, last), z, last)
        BY <1>4, <1>6, <1>11, <2>2, <3>1, <4>2, LineTake
      <4>. QED  BY <1>11, <3>1, <4>1, <4>3
    <3>5. rolEval'[l[2]] = NextEval(c) /\ envEval' = envEval
      BY <1>2, <1>13, <2>3
    <3>. QED  BY <1>6, <1>7, <1>12, <3>2, <3>3, <3>4, <3>5
  <2>4. CASE l[2] # r
    <3>1. obs'[<<l, "eval">>] = obs[<<l, "eval">>] /\ act'[<<l, "eval">>] = act[<<l, "eval">>]
      BY <1>9, <1>10, <1>11, <2>4 DEF LinksOfRollout
    <3>2. rolEval'[l[2]] = rolEval[l[2]]
      BY <1>13, <2>2, <2>4
    <3>. QED  BY <1>2, <1>6, <1>7, <2>1, <3>1, <3>2
  <2>. QED  BY <2>3, <2>4
<1>15. \A l \in Links : obs'[<<l, "train">>] = obs[<<l, "train">>] /\ act'[<<l, "train">>] = act[<<l, "train">>]
  BY <1>9, <1>10, <1>11
<1>16. EvalMoves
  BY <1>2, <1>3, <1>10, <1>11, <1>13, <1>14, <1>15 DEF EvalMoves
<1>. QED  BY <1>5, <1>16, EvalTurnInv

LEMMA RolloutStepInv ==
  ASSUME IInv, NEW r \in Rollouts, RolloutStep(r)
  PROVE  IInv'
<1>1. /\ rolPc[r] = "recv" /\ Waiting(obs, LinksOfRollout(r), "train") /\ obs' = TakeAll(obs, LinksOfRollout(r), "train")
      /\ conf' = conf /\ pc' = pc /\ it' = it /\ evals' = evals /\ envPc' = envPc /\ envAt' = envAt /\ envStop' = envStop
      /\ envEval' = envEval /\ rolEval' = rolEval
  BY DEF RolloutStep, runnerVars, envVars, evalVars
<1>2. /\ TypeInv /\ conf \in Configs /\ obs \in [Links \X Modes -> Seq(Msgs)] /\ act \in [Links \X Modes -> Seq(Msgs)]
      /\ rolPc \in [Rollouts -> {"idle", "recv", "exit"}] /\ rolAt \in [Rollouts -> Pos]
  BY DEF IInv, TypeInv
<1>3. pc # "load" /\ RolPlace(r) /\ (\A l \in Links : TrainLink(l))
  BY <1>1 DEF IInv, TrainInv
<1>4. PICK c \in Pos : c = rolAt[r] /\ c.stage < conf.stages /\ c.st <= NumSteps
  BY <1>2, <1>3 DEF RolPlace
<1>5. /\ conf.stages \in Positive /\ conf.stages \in Nat
      /\ NumSteps \in Positive /\ NumSteps \in Int /\ NumSteps - 1 \in Int
  BY <1>2, ConfType
<1>6. PICK a \in Pos : a = Follows(conf.stages, c, NumSteps)
  BY <1>5, FollowsPos
<1>7. /\ a.stage < conf.stages /\ a.st <= NumSteps
      /\ ~EndsEpoch(c, NumSteps) => a.ep = c.ep
      /\ EndsEpoch(c, NumSteps) => a.ep = c.ep + 1 /\ a = EpochStart(a.ep)
      /\ c.st < NumSteps => NextAct(c, NumSteps) = c /\ NextAct(a, NumSteps) = Follows(conf.stages, c, NumSteps - 1)
      /\ ~(c.st < NumSteps) => NextAct(a, NumSteps) = NextAct(c, NumSteps)
  BY <1>4, <1>5, <1>6, RolTurn DEF EndsEpoch
<1>8. rolAt' = [rolAt EXCEPT ![r] = a]
  <2>1. After(c, NumSteps) = a
    BY <1>6, AfterFollows
  <2>. QED  BY <1>4, <2>1 DEF RolloutStep
<1>9. PICK p \in {"recv", "exit", "idle"} :
        /\ rolPc' = [rolPc EXCEPT ![r] = p]
        /\ ~EndsEpoch(c, NumSteps) => p = "recv"
        /\ EndsEpoch(c, NumSteps) /\ Stream => p # "idle"
        /\ EndsEpoch(c, NumSteps) /\ ~Stream => p = IF c.ep < NumEpochs - 1 THEN "recv" ELSE "idle"
  BY <1>4 DEF RolloutStep
<1>10. /\ rolAt' \in [Rollouts -> Pos] /\ rolPc' \in [Rollouts -> {"idle", "recv", "exit"}]
       /\ rolAt'[r] = a /\ rolPc'[r] = p
       /\ \A x \in Rollouts : x # r => rolAt'[x] = rolAt[x] /\ rolPc'[x] = rolPc[x]
  BY <1>2, <1>8, <1>9
<1>11. "train" \in Modes /\ "eval" \in Modes /\ "train" # "eval"
  BY DEF Modes
<1>12. PICK n \in Nat : n = Round("train")
  BY <1>2, <1>4, MsgType
<1>13. PICK m \in Msgs : m = Msg("train", c) /\ m = [round |-> n, at |-> c] /\ <<m>> \in Seq(Msgs)
  BY <1>2, <1>12, MsgType
<1>14. /\ obs' \in [Links \X Modes -> Seq(Msgs)]
       /\ \A l \in Links : \A x \in Modes : l \notin LinksOfRollout(r) \/ x # "train" => obs'[<<l, x>>] = obs[<<l, x>>]
       /\ \A l \in Links : l \in LinksOfRollout(r) =>
            obs[<<l, "train">>] # <<>> /\ obs'[<<l, "train">>] = Tail(obs[<<l, "train">>])
  BY <1>1, <1>2, <1>11, TakeApart
<1>15. /\ act' \in [Links \X Modes -> Seq(Msgs)]
       /\ \A l \in Links : \A x \in Modes : l \notin LinksOfRollout(r) \/ x # "train" => act'[<<l, x>>] = act[<<l, x>>]
       /\ \A l \in Links : l \in LinksOfRollout(r) =>
            act'[<<l, "train">>] = IF c.st < NumSteps THEN act[<<l, "train">>] \o <<m>> ELSE act[<<l, "train">>]
  <2>1. CASE c.st < NumSteps
    <3>1. act' = PutAll(act, LinksOfRollout(r), "train", <<m>>)
      BY <1>4, <1>13, <2>1 DEF RolloutStep
    <3>2. Puts(PutAll(act, LinksOfRollout(r), "train", <<m>>), act, LinksOfRollout(r), "train", <<m>>)
      BY <1>2, <1>13, PutAt
    <3>3. Puts(act', act, LinksOfRollout(r), "train", <<m>>)
      BY <3>1, <3>2, Zenon
    <3>. QED  BY <1>11, <2>1, <3>3 DEF Puts
  <2>2. CASE ~(c.st < NumSteps)
    <3>1. act' = act
      BY <1>4, <2>2 DEF RolloutStep
    <3>. QED  BY <1>2, <2>2, <3>1
  <2>. QED  BY <2>1, <2>2
<1>16. Envs' = Envs /\ Rollouts' = Rollouts /\ Links' = Links /\ Stream' = Stream /\ NumSteps' = NumSteps
  BY <1>1, ConfSame
<1>17. Round("train")' = Round("train")
  BY <1>1, <1>16 DEF Round
<1>18. TypeInv'
  BY <1>1, <1>2, <1>10, <1>14, <1>15, TypeNext DEF TypeInv
<1>19. ASSUME NEW l \in Links  PROVE TrainLink(l)'
  <2>1. Emits(l[1])' = Emits(l[1])
    BY <1>1 DEF Emits
  <2>2. /\ Line(conf.stages, obs[<<l, "train">>], n, rolAt[l[2]], Emits(l[1]), NumSteps)
        /\ Line(conf.stages, act[<<l, "train">>], n, envAt[l[1]], Replies(l[2]), NumSteps - 1)
    BY <1>3, <1>12 DEF TrainLink
  <2>3. obs[<<l, "train">>] \in Seq(Msgs) /\ act[<<l, "train">>] \in Seq(Msgs) /\ l[2] \in Rollouts
    BY <1>2, <1>11, TypeAt
  <2>4. CASE l[2] = r
    <3>1. l \in LinksOfRollout(r)
      BY <2>4 DEF LinksOfRollout
    <3>2. PICK b \in Pos : b = envAt[l[1]]
      BY <1>2, <1>11, TypeAt
    <3>6. PICK z : z = Emits(l[1])
      OBVIOUS
    <3>3. Line(conf.stages, obs'[<<l, "train">>], n, a, z, NumSteps)
      <4>1. Line(conf.stages, obs[<<l, "train">>], n, c, z, NumSteps)
        BY <1>4, <2>2, <2>4, <3>6
      <4>2. Line(conf.stages, Tail(obs[<<l, "train">>]), n, Follows(conf.stages, c, NumSteps), z, NumSteps)
        BY <1>5, <1>14, <2>3, <3>1, <4>1, LineTake
      <4>. QED  BY <1>6, <1>14, <3>1, <4>2
    <3>4. Line(conf.stages, act'[<<l, "train">>], n, b, NextAct(a, NumSteps), NumSteps - 1)
      <4>1. Line(conf.stages, act[<<l, "train">>], n, b, NextAct(c, NumSteps), NumSteps - 1)
        BY <1>4, <2>2, <2>4, <3>2 DEF Replies
      <4>2. CASE c.st < NumSteps
        <5>1. Line(conf.stages, act[<<l, "train">>], n, b, c, NumSteps - 1)
          BY <1>7, <4>1, <4>2
        <5>2. Line(conf.stages, act[<<l, "train">>] \o <<m>>, n, b, Follows(conf.stages, c, NumSteps - 1), NumSteps - 1)
          BY <1>5, <1>13, <2>3, <5>1, LinePut
        <5>. QED  BY <1>7, <1>15, <3>1, <4>2, <5>2
      <4>3. CASE ~(c.st < NumSteps)
        BY <1>7, <1>15, <3>1, <4>1, <4>3
      <4>. QED  BY <4>2, <4>3
    <3>5. Replies(l[2])' = NextAct(a, NumSteps) /\ rolAt'[l[2]] = a
      BY <1>10, <1>16, <2>4 DEF Replies
    <3>. QED  BY <1>1, <1>12, <1>16, <1>17, <2>1, <3>2, <3>3, <3>4, <3>5, <3>6 DEF TrainLink
  <2>5. CASE l[2] # r
    <3>1. obs'[<<l, "train">>] = obs[<<l, "train">>] /\ act'[<<l, "train">>] = act[<<l, "train">>]
      BY <1>11, <1>14, <1>15, <2>5 DEF LinksOfRollout
    <3>2. rolAt'[l[2]] = rolAt[l[2]]
      BY <1>10, <2>3, <2>5
    <3>3. Replies(l[2])' = Replies(l[2])
      BY <1>16, <3>2 DEF Replies
    <3>. QED  BY <1>1, <1>12, <1>16, <1>17, <2>1, <2>2, <3>1, <3>2, <3>3 DEF TrainLink
  <2>. QED  BY <2>4, <2>5
<1>20. ASSUME NEW e \in Envs  PROVE EnvPlace(e)'
  <2>1. EnvPlace(e)
    BY <1>3 DEF IInv, TrainInv
  <2>. QED  BY <1>1, <1>16, <2>1 DEF EnvPlace
<1>21. ASSUME NEW x \in Rollouts  PROVE RolPlace(x)'
  <2>1. RolPlace(x)
    BY <1>3 DEF IInv, TrainInv
  <2>2. CASE x = r
    <3>1. NumEpochs \in Nat /\ c.ep \in Nat
      BY EmbodiedAssumption, PosEqual DEF Positive
    <3>2. ~Stream => c.ep <= NumEpochs /\ c.ep # NumEpochs
      BY <1>1, <1>3, <1>4 DEF RolPlace
    <3>3. ~Stream => a.ep <= NumEpochs /\ (p = "idle" <=> a.ep = NumEpochs)
      BY <1>7, <1>9, <3>1, <3>2
    <3>4. (p = "idle" => a = EpochStart(a.ep)) /\ (Stream => p # "idle")
      BY <1>7, <1>9
    <3>5. rolAt'[x] = a /\ rolPc'[x] = p /\ conf.stages' = conf.stages
      BY <1>1, <1>10, <2>2
    <3>. QED  BY <1>7, <1>16, <3>3, <3>4, <3>5 DEF RolPlace
  <2>3. CASE x # r
    BY <1>1, <1>10, <1>16, <2>1, <2>3 DEF RolPlace
  <2>. QED  BY <2>2, <2>3
<1>22. TrainInv'
  BY <1>1, <1>3, <1>16, <1>19, <1>20, <1>21 DEF TrainInv
<1>23. EvalInv'
  <2>1. \A l \in Links : obs'[<<l, "eval">>] = obs[<<l, "eval">>] /\ act'[<<l, "eval">>] = act[<<l, "eval">>]
    BY <1>11, <1>14, <1>15
  <2>. QED  BY <1>1, <2>1, EvalSame DEF IInv
<1>24. RunnerInv'
  <2>1. Stream \/ pc \notin {"train", "evalLoad", "eval", "waitEnv", "done"}
    BY <1>1 DEF IInv, RunnerInv
  <2>. QED  BY <1>1, <1>16, <2>1 DEF IInv, RunnerInv
<1>. QED  BY <1>18, <1>22, <1>23, <1>24 DEF IInv

-----------------------------------------------------------------------------
(***************************************************************************)
(* Nothing is left on a link when a call has returned.                     *)
(***************************************************************************)
LEMMA EpochsEnd ==
         /\ NumEpochs \in Nat /\ NumEpochs # 0 /\ EpochStart(NumEpochs) \in Pos
         /\ \A k \in Nat : EpochStart(k).ep = k /\ EpochStart(k).st = 0 /\ EpochStart(k).stage = 0
BY EmbodiedAssumption DEF Positive, EpochStart, Cursor, Pos

\* An epoch's start is not before a position of an epoch before, or before itself.
LEMMA NotEarlier ==
  ASSUME NEW k \in Nat, NEW z \in Pos, z.ep < k \/ (z.ep = k /\ z.st = 0 /\ z.stage = 0)
  PROVE  EpochStart(k) \in Pos /\ ~Earlier(EpochStart(k), z)
<1>1. EpochStart(k) \in Pos /\ EpochStart(k).ep = k /\ EpochStart(k).st = 0 /\ EpochStart(k).stage = 0
  BY DEF EpochStart, Cursor, Pos
<1>2. z.ep \in Nat
  BY PosEqual
<1>. QED  BY <1>1, <1>2 DEF Earlier

LEMMA IdleEnv ==
  ASSUME IInv, NEW l \in Links, pc # "load", ~Stream, envPc[l[1]] = "idle"
  PROVE  act[<<l, "train">>] = <<>>
<1>1. TypeInv /\ conf \in Configs /\ "train" \in Modes
  BY DEF IInv, TypeInv, Modes
<1>2. act[<<l, "train">>] \in Seq(Msgs) /\ l[1] \in Envs /\ l[2] \in Rollouts /\ rolAt[l[2]] \in Pos
  BY <1>1, TypeAt
<1>3. TrainLink(l) /\ EnvPlace(l[1]) /\ RolPlace(l[2])
  BY <1>2 DEF IInv, TrainInv
<1>4. envAt[l[1]] = EpochStart(NumEpochs)
  BY <1>3 DEF EnvPlace
<1>5. PICK c \in Pos : c = rolAt[l[2]]
  BY <1>2
<1>6. /\ c.ep \in Nat /\ c.st \in Nat /\ c.stage \in Nat
      /\ NumEpochs \in Nat /\ \A k \in Nat : EpochStart(k).ep = k /\ EpochStart(k).st = 0 /\ EpochStart(k).stage = 0
  BY PosEqual, EpochsEnd
<1>7. c.ep <= NumEpochs /\ (c.ep = NumEpochs => c.st = 0 /\ c.stage = 0)
  <2>1. c.ep <= NumEpochs /\ (c.ep = NumEpochs => c = EpochStart(c.ep))
    BY <1>3, <1>5 DEF RolPlace
  <2>. QED  BY <1>6, <2>1
<1>8. NumSteps # 0
  BY <1>1, ConfType DEF Positive
<1>9. PICK z \in Pos : z = NextAct(c, NumSteps) /\ (z.ep < NumEpochs \/ (z.ep = NumEpochs /\ z.st = 0 /\ z.stage = 0))
  <2>1. CASE c.st = NumSteps
    <3>1. NextAct(c, NumSteps) = EpochStart(c.ep + 1) /\ c.ep + 1 \in Nat /\ c.ep < NumEpochs
      BY <1>6, <1>7, <1>8, <2>1 DEF NextAct
    <3>2. PICK k \in Nat : k = c.ep + 1 /\ k <= NumEpochs
      BY <1>6, <3>1
    <3>3. EpochStart(k) \in Pos
      BY CursorPos
    <3>. QED  BY <1>6, <3>1, <3>2, <3>3
  <2>2. CASE c.st # NumSteps
    BY <1>6, <1>7, <2>2 DEF NextAct
  <2>. QED  BY <2>1, <2>2
<1>10. Line(conf.stages, act[<<l, "train">>], Round("train"), EpochStart(NumEpochs), z, NumSteps - 1)
  BY <1>3, <1>4, <1>5, <1>9 DEF TrainLink, Replies
<1>11. EpochStart(NumEpochs) \in Pos /\ ~Earlier(EpochStart(NumEpochs), z)
  BY <1>6, <1>9, NotEarlier
<1>12. conf.stages \in Nat /\ NumSteps - 1 \in Int
  BY <1>1, ConfType
<1>. QED  BY <1>2, <1>10, <1>11, <1>12, LineGrows

LEMMA IdleRollout ==
  ASSUME IInv, NEW l \in Links, pc # "load", ~Stream, rolPc[l[2]] = "idle"
  PROVE  obs[<<l, "train">>] = <<>> /\ act[<<l, "train">>] = <<>>
<1>1. TypeInv /\ conf \in Configs /\ "train" \in Modes
  BY DEF IInv, TypeInv, Modes
<1>2. obs[<<l, "train">>] \in Seq(Msgs) /\ l[1] \in Envs /\ l[2] \in Rollouts /\ envAt[l[1]] \in Pos
  BY <1>1, TypeAt
<1>3. TrainLink(l) /\ EnvPlace(l[1]) /\ RolPlace(l[2])
  BY <1>2 DEF IInv, TrainInv
<1>4. rolAt[l[2]] = EpochStart(NumEpochs)
  BY <1>3 DEF RolPlace
<1>5. PICK c \in Pos : c = envAt[l[1]]
  BY <1>2
<1>6. /\ c.ep \in Nat /\ c.st \in Nat /\ c.stage \in Nat
      /\ NumEpochs \in Nat /\ \A k \in Nat : EpochStart(k).ep = k /\ EpochStart(k).st = 0 /\ EpochStart(k).stage = 0
  BY PosEqual, EpochsEnd
<1>7. c.ep <= NumEpochs /\ (envPc[l[1]] = "idle" <=> c.ep = NumEpochs)
      /\ (envPc[l[1]] \notin {"yield", "recv"} => c = EpochStart(c.ep))
  BY <1>3, <1>5 DEF EnvPlace
<1>8. PICK z \in Pos : z = Emits(l[1]) /\ z.ep = c.ep /\ (z.ep < NumEpochs \/ (z.ep = NumEpochs /\ z.st = 0 /\ z.stage = 0))
  <2>1. CASE envPc[l[1]] \in {"yield", "recv"}
    <3>1. Emits(l[1]) = NextObs(c) /\ c.ep < NumEpochs
      BY <1>5, <1>6, <1>7, <2>1 DEF Emits
    <3>. QED  BY <3>1, NextObsPos
  <2>2. CASE envPc[l[1]] \notin {"yield", "recv"}
    <3>1. Emits(l[1]) = c /\ c.st = 0 /\ c.stage = 0
      BY <1>5, <1>6, <1>7, <2>2 DEF Emits
    <3>. QED  BY <1>6, <1>7, <3>1
  <2>. QED  BY <2>1, <2>2
<1>9. Line(conf.stages, obs[<<l, "train">>], Round("train"), EpochStart(NumEpochs), z, NumSteps)
  BY <1>3, <1>4, <1>8 DEF TrainLink
<1>10. EpochStart(NumEpochs) \in Pos /\ ~Earlier(EpochStart(NumEpochs), z)
  BY <1>6, <1>8, NotEarlier
<1>11. conf.stages \in Nat /\ NumSteps \in Int
  BY <1>1, ConfType
<1>12. obs[<<l, "train">>] = <<>>
  BY <1>2, <1>9, <1>10, <1>11, LineGrows
<1>13. EpochStart(NumEpochs) = z
  BY <1>9, <1>12, EmptyLine
<1>14. envPc[l[1]] = "idle"
  BY <1>6, <1>7, <1>8, <1>13
<1>. QED  BY <1>12, <1>14, IdleEnv

LEMMA RestEmpty ==
  ASSUME IInv, pc # "load", ~Stream, \A r \in Rollouts : rolPc[r] = "idle"
  PROVE  Rest("train")
<1> SUFFICES ASSUME NEW l \in Links  PROVE obs[<<l, "train">>] = <<>> /\ act[<<l, "train">>] = <<>>
  BY DEF Rest
<1>1. l[2] \in Rollouts
  BY LinkEnds DEF IInv, TypeInv
<1>. QED  BY <1>1, IdleRollout

\* In evaluate() there is one epoch.
LEMMA EvalEnds ==
  ASSUME conf \in Configs, NEW s \in EnvEvals
  PROVE  /\ EvalNeeds(s) \in Pos /\ EvalEmits(s) \in Pos
         /\ ~Earlier(EvalOver, EvalNeeds(s)) /\ ~Earlier(EvalOver, EvalEmits(s))
<1>1. EvalOver = EpochStart(1) /\ EvalOver \in Pos /\ EvalOver.ep = 1 /\ EvalOver.st = 0 /\ EvalOver.stage = 0
  BY EvalReads DEF EvalOver
<1>2. ~Earlier(EvalOver, EvalOver)
  BY <1>1 DEF Earlier
<1>3. ASSUME NEW c \in Pos, c.ep = 0  PROVE ~Earlier(EvalOver, c)
  BY <1>1, <1>3 DEF Earlier
<1>4. CASE s = {}
  BY <1>1, <1>2, <1>4, EvalReads
<1>5. CASE s = {Called}
  <2>1. Start \in Pos /\ Start.ep = 0
    BY DEF Start, Cursor, Pos
  <2>. QED  BY <1>3, <1>5, <2>1, EvalReads
<1>6. CASE s # {} /\ s # {Called}
  <2>1. PICK c \in EvalPos : s = {c}
    BY <1>6 DEF EnvEvals, RolEvals
  <2>2. c \in Pos /\ c.ep = 0 /\ NextObs(c) \in Pos /\ NextObs(c).ep = 0
    BY NextObsPos DEF EvalPos
  <2>3. EvalNeeds(s) = c /\ EvalEmits(s) = NextEvalObs(c, NumEvalSteps - 1)
    BY <2>1, EvalReads
  <2>. QED  BY <1>1, <1>2, <1>3, <2>2, <2>3 DEF NextEvalObs
<1>. QED  BY <1>4, <1>5, <1>6

LEMMA EvalRest ==
  ASSUME IInv, NEW l \in Links, pc = "eval"
  PROVE  /\ rolEval[l[2]] = {} => obs[<<l, "eval">>] = <<>>
         /\ envEval[l[1]] = {} => act[<<l, "eval">>] = <<>>
<1>1. TypeInv /\ conf \in Configs /\ "eval" \in Modes
  BY DEF IInv, TypeInv, Modes
<1>2. /\ obs[<<l, "eval">>] \in Seq(Msgs) /\ act[<<l, "eval">>] \in Seq(Msgs)
      /\ envEval[l[1]] \in EnvEvals /\ rolEval[l[2]] \in EnvEvals
  BY <1>1, TypeAt DEF EnvEvals
<1>3. PICK a \in Pos, b \in Pos :
        a = EvalEmits(envEval[l[1]]) /\ b = EvalNeeds(rolEval[l[2]]) /\ ~Earlier(EvalOver, a) /\ ~Earlier(EvalOver, b)
  BY <1>1, <1>2, EvalEnds
<1>4. EvalNeeds({}) = EvalOver /\ EvalOver \in Pos /\ conf.stages \in Nat
  BY <1>1, EvalReads, ConfType
<1>5. PICK last \in Int : last = NumEvalSteps - 1
  BY <1>1, ConfType
<1>6. EvalLink(l)
  BY DEF IInv, EvalInv
<1>7. ASSUME rolEval[l[2]] = {}  PROVE obs[<<l, "eval">>] = <<>>
  <2>1. Line(conf.stages, obs[<<l, "eval">>], evals, EvalOver, a, last)
    BY <1>3, <1>4, <1>5, <1>6, <1>7 DEF EvalLink
  <2>. QED  BY <1>2, <1>3, <1>4, <2>1, LineGrows
<1>8. ASSUME envEval[l[1]] = {}  PROVE act[<<l, "eval">>] = <<>>
  <2>1. Line(conf.stages, act[<<l, "eval">>], evals, EvalOver, b, last)
    BY <1>3, <1>4, <1>5, <1>6, <1>8 DEF EvalLink
  <2>. QED  BY <1>2, <1>3, <1>4, <2>1, LineGrows
<1>. QED  BY <1>7, <1>8

-----------------------------------------------------------------------------
(***************************************************************************)
(* The runner.                                                             *)
(***************************************************************************)

\* What the actions of the runner that only wait and count leave alone.
workerVars == <<conf, envPc, envAt, envStop, rolPc, rolAt, obs, act>>

LEMMA RunnerTurnInv ==
  ASSUME IInv, UNCHANGED workerVars, evals' = evals, envEval' = envEval, rolEval' = rolEval, it' \in Nat,
         pc # "load", pc' # "load", pc # "eval", pc' # "eval", RunnerInv',
         it' = it \/ Stream \/ Rest("train")
  PROVE  IInv'
<1>1. TypeInv'
  BY TypeNext DEF IInv, TypeInv, workerVars
<1>2. Stream' = Stream
  BY ConfSame DEF workerVars
<1>3. Round("train")' = Round("train") \/ Rest("train")
  BY <1>2 DEF Round
<1>4. TrainInv'
  BY <1>3, TrainSame DEF IInv, workerVars
<1>5. EvalInv'
  BY EvalSame DEF IInv, workerVars
<1>. QED  BY <1>1, <1>4, <1>5 DEF IInv

LEMMA StartStepInv ==
  ASSUME IInv, StartStep
  PROVE  IInv'
<1>1. /\ pc = "load" /\ pc' = IF Stream THEN "loop" ELSE "collect"
      /\ envPc' = [e \in Envs |-> "start"] /\ envAt' = [e \in Envs |-> Start]
      /\ rolPc' = [r \in Rollouts |-> "recv"] /\ rolAt' = [r \in Rollouts |-> Start]
      /\ conf' = conf /\ it' = it /\ evals' = evals /\ envStop' = envStop /\ envEval' = envEval /\ rolEval' = rolEval
      /\ obs' = obs /\ act' = act
  BY DEF StartStep, runnerVars, evalVars
<1>2. TypeInv /\ conf \in Configs
  BY DEF IInv, TypeInv
<1>3. Envs' = Envs /\ Rollouts' = Rollouts /\ Links' = Links /\ Stream' = Stream /\ NumSteps' = NumSteps
  BY <1>1, ConfSame
<1>4. Start \in Pos /\ Start.ep = 0 /\ Start.st = 0 /\ Start.stage = 0 /\ Start = EpochStart(0)
  BY DEF Start, EpochStart, Cursor, Pos
<1>5. TypeInv'
  BY <1>1, <1>2, <1>4, TypeNext DEF TypeInv
<1>6. 0 < conf.stages /\ 0 < NumSteps /\ NumSteps # 0 /\ 0 <= NumSteps
  BY <1>2, ConfType DEF Positive
<1>7. \A e \in Envs : envPc'[e] = "start" /\ envAt'[e] = Start
  BY <1>1
<1>8. \A r \in Rollouts : rolPc'[r] = "recv" /\ rolAt'[r] = Start
  BY <1>1
<1>9. ASSUME NEW l \in Links  PROVE TrainLink(l)'
  <2>1. l[1] \in Envs /\ l[2] \in Rollouts
    BY <1>2, LinkEnds
  <2>2. Emits(l[1])' = Start /\ envAt'[l[1]] = Start
    BY <1>7, <2>1 DEF Emits
  <2>3. Replies(l[2])' = Start /\ rolAt'[l[2]] = Start
    BY <1>3, <1>4, <1>6, <1>8, <2>1 DEF Replies, NextAct
  <2>4. obs'[<<l, "train">>] = <<>> /\ act'[<<l, "train">>] = <<>>
    BY <1>1 DEF IInv, TrainInv, Rest
  <2>5. /\ Line(conf.stages', obs'[<<l, "train">>], Round("train")', Start, Start, NumSteps')
        /\ Line(conf.stages', act'[<<l, "train">>], Round("train")', Start, Start, NumSteps' - 1)
    BY <2>4, EmptyLine
  <2>. QED  BY <2>2, <2>3, <2>5 DEF TrainLink
<1>10. ASSUME NEW e \in Envs  PROVE EnvPlace(e)'
  <2>1. envStop'[e] = {}
    BY <1>1 DEF IInv, TrainInv
  <2>2. NumEpochs \in Nat /\ NumEpochs # 0
    BY EpochsEnd
  <2>. QED  BY <1>1, <1>3, <1>4, <1>6, <1>7, <2>1, <2>2 DEF EnvPlace
<1>11. ASSUME NEW r \in Rollouts  PROVE RolPlace(r)'
  <2>1. NumEpochs \in Nat /\ NumEpochs # 0
    BY EpochsEnd
  <2>. QED  BY <1>1, <1>3, <1>4, <1>6, <1>8, <2>1 DEF RolPlace
<1>12. pc' # "load" /\ pc' # "eval" /\ pc # "eval"
  BY <1>1
<1>13. TrainInv'
  BY <1>3, <1>9, <1>10, <1>11, <1>12 DEF TrainInv
<1>14. EvalInv'
  BY <1>1, <1>12, EvalSame DEF IInv
<1>15. RunnerInv'
  BY <1>1, <1>3 DEF RunnerInv
<1>. QED  BY <1>5, <1>13, <1>14, <1>15 DEF IInv

LEMMA CollectedInv ==
  ASSUME IInv, Collected
  PROVE  IInv'
<1>1. /\ pc = "collect" /\ pc' = "train" /\ \A r \in Rollouts : rolPc[r] = "idle"
      /\ UNCHANGED workerVars /\ it' = it /\ evals' = evals /\ envEval' = envEval /\ rolEval' = rolEval
  BY DEF Collected, runnerVars, envVars, rolVars, evalVars, workerVars
<1>2. Stream' = Stream /\ Rollouts' = Rollouts /\ rolPc' = rolPc
  BY <1>1, ConfSame DEF workerVars
<1>3. RunnerInv'
  BY <1>1, <1>2 DEF RunnerInv
<1>4. it' \in Nat
  BY <1>1 DEF IInv, TypeInv
<1>. QED  BY <1>1, <1>3, <1>4, RunnerTurnInv

\* A training step: without a stream nothing is on the links while it is counted.
LEMMA CountedInv ==
  ASSUME IInv, pc = "train", NEW n \in Nat, it' = n, UNCHANGED workerVars, evals' = evals, envEval' = envEval,
         rolEval' = rolEval, pc' \in {"reload", "loop", "evalLoad", "waitEnv"},
         ~Stream => pc' \notin {"reload", "loop"}
  PROVE  IInv'
<1>1. Stream' = Stream /\ Rollouts' = Rollouts /\ rolPc' = rolPc
  BY ConfSame DEF workerVars
<1>2. ~Stream => \A r \in Rollouts : rolPc[r] = "idle"
  BY DEF IInv, RunnerInv
<1>3. Stream \/ Rest("train")
  BY <1>2, RestEmpty
<1>4. RunnerInv'
  BY <1>1, <1>2 DEF RunnerInv
<1>. QED  BY <1>3, <1>4, RunnerTurnInv

LEMMA TrainOnPolicyInv ==
  ASSUME IInv, TrainOnPolicy
  PROVE  IInv'
<1>1. /\ pc = "train" /\ ~conf.sac /\ it' = it + 1 /\ pc' = AfterTraining(TRUE)
      /\ UNCHANGED workerVars /\ evals' = evals /\ envEval' = envEval /\ rolEval' = rolEval
  BY DEF TrainOnPolicy, envVars, rolVars, evalVars, workerVars
<1>2. ~Stream
  <2>1. conf \in Configs
    BY DEF IInv, TypeInv
  <2>2. conf.kind = "stream" => conf.sac
    BY <2>1, EmbodiedAssumption
  <2>. QED  BY <1>1, <2>2 DEF Stream
<1>3. pc' \in {"evalLoad", "waitEnv"}
  BY <1>1, <1>2 DEF AfterTraining
<1>4. it + 1 \in Nat
  BY DEF IInv, TypeInv
<1>. QED  BY <1>1, <1>3, <1>4, CountedInv

LEMMA TrainedInv ==
  ASSUME IInv, Trained
  PROVE  IInv'
<1>1. /\ pc = "train" /\ UNCHANGED workerVars /\ evals' = evals /\ envEval' = envEval /\ rolEval' = rolEval
      /\ it' \in {it, it + 1} /\ \E b \in BOOLEAN : pc' = AfterTraining(b)
  BY DEF Trained, envVars, rolVars, evalVars, workerVars
<1>2. PICK n \in Nat : it' = n
  BY <1>1 DEF IInv, TypeInv
<1>3. pc' \in {"reload", "loop", "evalLoad", "waitEnv"} /\ (~Stream => pc' \notin {"reload", "loop"})
  BY <1>1 DEF AfterTraining
<1>. QED  BY <1>1, <1>2, <1>3, CountedInv

LEMMA LoopInv ==
  ASSUME IInv, Loop
  PROVE  IInv'
<1>1. /\ pc \in {"loop", "reload"} /\ pc' \in {"stopEnv", "evalLoad", "train", "loop"}
      /\ UNCHANGED workerVars /\ it' = it /\ evals' = evals /\ envEval' = envEval /\ rolEval' = rolEval
  BY DEF Loop, runnerVars, envVars, rolVars, evalVars, workerVars
<1>2. Stream' = Stream /\ Stream
  BY <1>1, ConfSame DEF IInv, RunnerInv, workerVars
<1>3. RunnerInv'
  BY <1>1, <1>2 DEF RunnerInv
<1>4. it' \in Nat
  BY <1>1 DEF IInv, TypeInv
<1>. QED  BY <1>1, <1>3, <1>4, RunnerTurnInv

LEMMA EvalStartInv ==
  ASSUME IInv, EvalStart
  PROVE  IInv'
<1>1. /\ pc = "evalLoad" /\ pc' = "eval" /\ evals' = (evals + 1) % 2
      /\ envEval' = [e \in Envs |-> {Called}] /\ rolEval' = [r \in Rollouts |-> {Start}]
      /\ conf' = conf /\ it' = it /\ envPc' = envPc /\ envAt' = envAt /\ envStop' = envStop
      /\ rolPc' = rolPc /\ rolAt' = rolAt /\ obs' = obs /\ act' = act
  BY DEF EvalStart, envVars, rolVars
<1>2. TypeInv /\ conf \in Configs
  BY DEF IInv, TypeInv
<1>3. Envs' = Envs /\ Rollouts' = Rollouts /\ Links' = Links /\ Stream' = Stream
  BY <1>1, ConfSame
<1>4. EvalNeeds({Called}) = Start /\ EvalEmits({Called}) = Start /\ EvalNeeds({Start}) = Start /\ Start \in EvalPos
  BY <1>2, EvalReads
<1>5. {Called} \in EnvEvals /\ {Start} \in RolEvals
  BY <1>4 DEF EnvEvals, RolEvals
<1>6. envEval' \in [Envs -> EnvEvals] /\ rolEval' \in [Rollouts -> RolEvals]
  BY <1>1, <1>5
<1>7. evals' \in Nat
  BY <1>1, <1>2 DEF TypeInv
<1>8. TypeInv'
  BY <1>1, <1>2, <1>6, <1>7, TypeNext DEF TypeInv
<1>9. Round("train")' = Round("train")
  BY <1>1, <1>3 DEF Round
<1>10. TrainInv'
  BY <1>1, <1>2, <1>9, TrainSame DEF IInv
<1>11. ASSUME NEW l \in Links  PROVE EvalLink(l)'
  <2>1. l[1] \in Envs /\ l[2] \in Rollouts
    BY <1>2, LinkEnds
  <2>2. envEval'[l[1]] = {Called} /\ rolEval'[l[2]] = {Start}
    BY <1>1, <2>1
  <2>3. obs'[<<l, "eval">>] = <<>> /\ act'[<<l, "eval">>] = <<>>
    BY <1>1 DEF IInv, EvalInv, Rest
  <2>4. /\ Line(conf.stages', obs'[<<l, "eval">>], evals', EvalNeeds(rolEval'[l[2]]), EvalEmits(envEval'[l[1]]), NumEvalSteps - 1)
        /\ Line(conf.stages', act'[<<l, "eval">>], evals', EvalNeeds(envEval'[l[1]]), EvalNeeds(rolEval'[l[2]]), NumEvalSteps - 1)
    BY <1>4, <2>2, <2>3, EmptyLine
  <2>. QED  BY <2>4, Zenon DEF EvalLink, EvalNeeds, EvalEmits
<1>12. EvalInv'
  BY <1>1, <1>3, <1>11 DEF EvalInv
<1>13. RunnerInv'
  BY <1>1, <1>3 DEF IInv, RunnerInv
<1>. QED  BY <1>8, <1>10, <1>12, <1>13 DEF IInv

LEMMA EvalEndInv ==
  ASSUME IInv, EvalEnd
  PROVE  IInv'
<1>1. /\ pc = "eval" /\ pc' \in {"train", "waitEnv"} /\ (\A e \in Envs : envEval[e] = {}) /\ (\A r \in Rollouts : rolEval[r] = {})
      /\ UNCHANGED workerVars /\ it' = it /\ evals' = evals /\ envEval' = envEval /\ rolEval' = rolEval
  BY DEF EvalEnd, runnerVars, envVars, rolVars, evalVars, workerVars
<1>2. TypeInv /\ conf \in Configs
  BY DEF IInv, TypeInv
<1>3. Envs' = Envs /\ Rollouts' = Rollouts /\ Links' = Links /\ Stream' = Stream
  BY <1>1, ConfSame DEF workerVars
<1>4. TypeInv'
  BY <1>1, TypeNext DEF IInv, TypeInv, workerVars
<1>5. Round("train")' = Round("train")
  BY <1>1, <1>3 DEF Round
<1>6. TrainInv'
  BY <1>1, <1>5, TrainSame DEF IInv, workerVars
<1>7. \A l \in Links : obs[<<l, "eval">>] = <<>> /\ act[<<l, "eval">>] = <<>>
  BY <1>1, <1>2, LinkEnds, EvalRest
<1>8. EvalInv'
  <2>1. pc' # "eval" /\ obs' = obs /\ act' = act /\ envEval' = envEval /\ rolEval' = rolEval
    BY <1>1 DEF workerVars
  <2>. QED  BY <1>1, <1>3, <1>7, <2>1 DEF EvalInv, Rest
<1>9. RunnerInv'
  BY <1>1, <1>3 DEF IInv, RunnerInv, workerVars
<1>. QED  BY <1>4, <1>6, <1>8, <1>9 DEF IInv

LEMMA StepEndInv ==
  ASSUME IInv, StepEnd
  PROVE  IInv'
<1>1. /\ pc = "waitEnv" /\ ~Stream /\ pc' \in {"load", "done"} /\ \A e \in Envs : envPc[e] = "idle"
      /\ conf' = conf /\ it' = it /\ evals' = evals /\ envPc' = envPc /\ envAt' = envAt /\ envStop' = envStop
      /\ rolPc' = rolPc /\ rolAt' = rolAt /\ envEval' = envEval /\ rolEval' = rolEval /\ obs' = obs /\ act' = act
  BY DEF StepEnd, runnerVars, envVars, rolVars, evalVars
<1>2. Envs' = Envs /\ Rollouts' = Rollouts /\ Links' = Links /\ Stream' = Stream
  BY <1>1, ConfSame
<1>3. \A r \in Rollouts : rolPc[r] = "idle"
  BY <1>1 DEF IInv, RunnerInv
<1>4. RunnerInv'
  BY <1>1, <1>2, <1>3 DEF RunnerInv
<1>5. CASE pc' = "done"
  <2>1. UNCHANGED workerVars /\ it' \in Nat
    BY <1>1 DEF workerVars, IInv, TypeInv
  <2>. QED  BY <1>1, <1>4, <1>5, <2>1, RunnerTurnInv
<1>6. CASE pc' = "load"
  <2>1. TypeInv'
    BY <1>1, TypeNext DEF IInv, TypeInv
  <2>2. Rest("train")
    BY <1>1, <1>3, RestEmpty
  <2>3. \A e \in Envs : envStop[e] = {}
    BY <1>1 DEF IInv, TrainInv, EnvPlace
  <2>4. TrainInv'
    BY <1>1, <1>2, <1>3, <1>6, <2>2, <2>3 DEF TrainInv, Rest
  <2>5. EvalInv'
    BY <1>1, <1>6, EvalSame DEF IInv
  <2>. QED  BY <1>4, <2>1, <2>4, <2>5 DEF IInv
<1>. QED  BY <1>1, <1>5, <1>6

LEMMA ShutdownInv ==
  ASSUME IInv, Shutdown
  PROVE  IInv'
<1>1. /\ pc \in {"stopEnv", "stopRollout"} \/ (pc = "waitEnv" /\ Stream)
      /\ pc' \in {"stopRollout", "waitEnv", "done"} /\ pc # "eval" /\ pc # "load"
      /\ UNCHANGED workerVars /\ it' = it /\ evals' = evals /\ envEval' = envEval /\ rolEval' = rolEval
  BY DEF Shutdown, runnerVars, envVars, rolVars, evalVars, workerVars
<1>2. Stream' = Stream /\ Stream
  BY <1>1, ConfSame DEF IInv, RunnerInv, workerVars
<1>3. RunnerInv'
  BY <1>1, <1>2 DEF RunnerInv
<1>4. it' \in Nat
  BY <1>1 DEF IInv, TypeInv
<1>. QED  BY <1>1, <1>3, <1>4, RunnerTurnInv

\* stop() of an environment worker.
LEMMA EnvStopInv ==
  ASSUME IInv, NEW e \in Envs, EnvStop(e)
  PROVE  IInv'
<1>1. /\ pc = "stopEnv" /\ envStop' = [envStop EXCEPT ![e] = {envAt[e].ep}]
      /\ conf' = conf /\ pc' = pc /\ it' = it /\ evals' = evals /\ envPc' = envPc /\ envAt' = envAt
      /\ rolPc' = rolPc /\ rolAt' = rolAt /\ envEval' = envEval /\ rolEval' = rolEval /\ obs' = obs /\ act' = act
  BY DEF EnvStop, runnerVars, rolVars, evalVars
<1>2. TypeInv
  BY DEF IInv
<1>3. envStop' \in [Envs -> SUBSET Nat]
  <2>1. envAt[e] \in Pos /\ envStop \in [Envs -> SUBSET Nat]
    BY <1>2 DEF TypeInv
  <2>2. {envAt[e].ep} \in SUBSET Nat
    BY <2>1, PosEqual
  <2>. QED  BY <1>1, <2>1, <2>2
<1>4. TypeInv'
  BY <1>1, <1>2, <1>3, TypeNext DEF TypeInv
<1>5. Stream /\ Stream' = Stream /\ Rollouts' = Rollouts
  BY <1>1, ConfSame DEF IInv, RunnerInv
<1>6. Round("train")' = Round("train")
  BY <1>1, <1>5 DEF Round
<1>7. TrainInv'
  BY <1>1, <1>2, <1>5, <1>6, TrainSame DEF IInv
<1>8. EvalInv'
  BY <1>1, EvalSame DEF IInv
<1>9. RunnerInv'
  BY <1>1, <1>5 DEF IInv, RunnerInv
<1>. QED  BY <1>4, <1>7, <1>8, <1>9 DEF IInv

-----------------------------------------------------------------------------
(***************************************************************************)
(* The invariant holds, and what it says of the messages.                  *)
(***************************************************************************)
LEMMA InitInv ==
  ASSUME Init
  PROVE  IInv
<1>1. /\ conf \in Configs /\ pc = "load" /\ it = 0 /\ evals = 0
      /\ envPc = [e \in Envs |-> "idle"] /\ envAt = [e \in Envs |-> Start] /\ envStop = [e \in Envs |-> {}]
      /\ rolPc = [r \in Rollouts |-> "idle"] /\ rolAt = [r \in Rollouts |-> Start]
      /\ envEval = [e \in Envs |-> {}] /\ rolEval = [r \in Rollouts |-> {}]
      /\ obs = [x \in Links \X Modes |-> <<>>] /\ act = [x \in Links \X Modes |-> <<>>]
  BY DEF Init
<1>2. Start \in Pos /\ <<>> \in Seq(Msgs) /\ {} \in RolEvals /\ {} \in EnvEvals
  BY DEF Start, Cursor, Pos, RolEvals, EnvEvals
<1>3. TypeInv
  BY <1>1, <1>2 DEF TypeInv
<1>4. Rest("train") /\ Rest("eval")
  BY <1>1 DEF Rest, Modes
<1>5. TrainInv
  BY <1>1, <1>4 DEF TrainInv
<1>6. EvalInv
  BY <1>1, <1>4 DEF EvalInv
<1>7. RunnerInv
  BY <1>1 DEF RunnerInv
<1>. QED  BY <1>3, <1>5, <1>6, <1>7 DEF IInv

LEMMA NextInv ==
  ASSUME IInv, [Next]_vars
  PROVE  IInv'
<1>1. CASE Runner
  BY <1>1, StartStepInv, CollectedInv, TrainOnPolicyInv, TrainedInv, LoopInv, EvalStartInv, EvalEndInv, StepEndInv,
     ShutdownInv DEF Runner
<1>2. CASE \E e \in Envs : EnvWork(e) \/ EnvStop(e) \/ EnvEvalBegin(e)
  BY <1>2, EnvBeginInv, EnvYieldInv, EnvStepInv, EnvEvalStepInv, EnvStopInv, EnvEvalBeginInv DEF EnvWork
<1>3. ASSUME NEW r \in Rollouts, RolloutWork(r) \/ RolloutStop(r)
      PROVE  IInv'
  <2>1. CASE RolloutStep(r)
    BY <2>1, RolloutStepInv
  <2>2. CASE RolloutEvalStep(r)
    BY <2>2, RolloutEvalStepInv
  <2>3. CASE LoadWeights(r)
    <3>1. UNCHANGED linkVars
      BY <2>3 DEF LoadWeights, runnerVars, envVars, rolVars, evalVars, linkVars
    <3>. QED  BY <3>1, Apart
  <2>4. CASE RolloutStop(r)
    <3>1. UNCHANGED linkVars
      BY <2>4 DEF RolloutStop, runnerVars, envVars, evalVars, linkVars
    <3>. QED  BY <3>1, Apart
  <2>. QED  BY <1>3, <2>1, <2>2, <2>3, <2>4 DEF RolloutWork
<1>4. ASSUME NEW b \in Buffers, BufferSend(b[1], b[2])
      PROVE  IInv'
  <2>1. UNCHANGED linkVars
    BY <1>4 DEF BufferSend, runnerVars, envVars, evalVars, linkVars
  <2>. QED  BY <2>1, Apart
<1>5. ASSUME NEW a \in Actors, TakePiece(a) \/ Train(a)
      PROVE  IInv'
  <2>1. CASE TakePiece(a)
    <3>1. UNCHANGED linkVars
      BY <2>1 DEF TakePiece, runnerVars, envVars, rolVars, evalVars, linkVars
    <3>. QED  BY <3>1, Apart
  <2>2. CASE Decide(a) \/ Join(a)
    <3>1. UNCHANGED linkVars
      BY <2>2 DEF Decide, Join, runnerVars, envVars, rolVars, evalVars, linkVars
    <3>. QED  BY <3>1, Apart
  <2>. QED  BY <1>5, <2>1, <2>2 DEF Train
<1>6. CASE UNCHANGED vars
  <2>1. UNCHANGED linkVars
    BY <1>6 DEF vars, runnerVars, envVars, rolVars, evalVars, linkVars
  <2>. QED  BY <2>1, Apart
<1>. QED  BY <1>1, <1>2, <1>3, <1>4, <1>5, <1>6 DEF Next

LEMMA Fits ==
  ASSUME IInv
  PROVE  MessagesFit
<1>1. TypeInv /\ conf \in Configs /\ "train" \in Modes /\ "eval" \in Modes
  BY DEF IInv, TypeInv, Modes
<1>2. \A mode, c, last : InStep(<<>>, mode, c, last)
  BY EmptySeq DEF InStep
<1>3. ASSUME NEW l \in Links
      PROVE  /\ InStep(obs[<<l, "train">>], "train", rolAt[l[2]], NumSteps)
             /\ InStep(act[<<l, "train">>], "train", envAt[l[1]], NumSteps - 1)
             /\ rolPc[l[2]] = "idle" => obs[<<l, "train">>] = <<>>
             /\ envPc[l[1]] = "idle" => act[<<l, "train">>] = <<>>
  <2>1. CASE pc = "load"
    <3>1. obs[<<l, "train">>] = <<>> /\ act[<<l, "train">>] = <<>>
      BY <2>1 DEF IInv, TrainInv, Rest
    <3>. QED  BY <1>2, <3>1
  <2>2. CASE pc # "load"
    <3>1. /\ obs[<<l, "train">>] \in Seq(Msgs) /\ act[<<l, "train">>] \in Seq(Msgs)
          /\ l[1] \in Envs /\ l[2] \in Rollouts
      BY <1>1, TypeAt
    <3>2. TrainLink(l) /\ EnvPlace(l[1]) /\ RolPlace(l[2])
      BY <2>2, <3>1 DEF IInv, TrainInv
    <3>3. InStep(obs[<<l, "train">>], "train", rolAt[l[2]], NumSteps)
      BY <3>1, <3>2, LineInStep DEF TrainLink
    <3>4. InStep(act[<<l, "train">>], "train", envAt[l[1]], NumSteps - 1)
      BY <3>1, <3>2, LineInStep DEF TrainLink
    <3>5. CASE Stream
      BY <3>2, <3>3, <3>4, <3>5 DEF EnvPlace, RolPlace
    <3>6. CASE ~Stream
      BY <2>2, <3>3, <3>4, <3>6, IdleEnv, IdleRollout
    <3>. QED  BY <3>5, <3>6
  <2>. QED  BY <2>1, <2>2
<1>4. ASSUME NEW l \in Links
      PROVE  /\ \A c \in rolEval[l[2]] : InStep(obs[<<l, "eval">>], "eval", c, NumEvalSteps - 1)
             /\ \A c \in envEval[l[1]] \ {Called} : InStep(act[<<l, "eval">>], "eval", c, NumEvalSteps - 1)
             /\ rolEval[l[2]] = {} => obs[<<l, "eval">>] = <<>>
             /\ envEval[l[1]] = {} => act[<<l, "eval">>] = <<>>
  <2>1. CASE pc # "eval"
    <3>1. l[1] \in Envs /\ l[2] \in Rollouts
      BY <1>1, LinkEnds
    <3>2. obs[<<l, "eval">>] = <<>> /\ act[<<l, "eval">>] = <<>>
      BY <2>1 DEF IInv, EvalInv, Rest
    <3>. QED  BY <1>2, <3>2
  <2>2. CASE pc = "eval"
    <3>1. /\ obs[<<l, "eval">>] \in Seq(Msgs) /\ act[<<l, "eval">>] \in Seq(Msgs)
          /\ envEval[l[1]] \in EnvEvals /\ rolEval[l[2]] \in RolEvals
      BY <1>1, TypeAt
    <3>2. EvalLink(l) /\ Round("eval") = evals
      BY <2>2 DEF IInv, EvalInv, Round
    <3>3. ASSUME NEW c \in rolEval[l[2]]
          PROVE  InStep(obs[<<l, "eval">>], "eval", c, NumEvalSteps - 1)
      <4>1. c \in EvalPos /\ rolEval[l[2]] = {c}
        BY <3>1 DEF RolEvals
      <4>2. EvalNeeds(rolEval[l[2]]) = c
        BY <1>1, <4>1, EvalReads
      <4>. QED  BY <3>1, <3>2, <4>2, LineInStep DEF EvalLink
    <3>4. ASSUME NEW c \in envEval[l[1]] \ {Called}
          PROVE  InStep(act[<<l, "eval">>], "eval", c, NumEvalSteps - 1)
      <4>1. c \in EvalPos /\ envEval[l[1]] = {c}
        BY <3>1 DEF EnvEvals, RolEvals
      <4>2. EvalNeeds(envEval[l[1]]) = c
        BY <1>1, <4>1, EvalReads
      <4>. QED  BY <3>1, <3>2, <4>2, LineInStep DEF EvalLink
    <3>. QED  BY <2>2, <3>3, <3>4, EvalRest
  <2>. QED  BY <2>1, <2>2
<1>. QED  BY <1>3, <1>4 DEF MessagesFit

\* Whatever the number of workers, stages, steps and epochs: every observation
\* and every action under way is the one its reader comes to, in its order and
\* of its call, and a call that has returned leaves none behind
\* (send_env_batch, recv_env_output, send_chunk_actions, recv_chunk_actions).
THEOREM LinksStayInStep == Spec => []MessagesFit
<1>1. Init => IInv
  BY InitInv
<1>2. IInv /\ [Next]_vars => IInv'
  BY NextInv
<1>3. IInv => MessagesFit
  BY Fits
<1>. QED  BY <1>1, <1>2, <1>3, PTL DEF Spec

-----------------------------------------------------------------------------
(***************************************************************************)
(* The lists of a trajectory.  RecordInv has them in full, by the position *)
(* of their rollout worker: each is a stretch of the sequence of all steps *)
(* or of all observations of the stage.                                    *)
(***************************************************************************)
Tag(n, k)      == <<k \div n, k % n>>
AllTags(n)     == [k \in Nat |-> Tag(n, k)]
AllOutcomes(n) == [k \in Nat |-> <<Tag(n, k)[1], Tag(n, k)[2] + 1>>]   \* rewards of these steps
Pairs               == Nat \X Nat
Stretch(all, a, d)  == [k \in 1 .. d - a |-> all[a + k - 1]]
Tags(n, a, d)       == Stretch(AllTags(n), a, d)
Outcomes(n, a, d)   == Stretch(AllOutcomes(n), a, d)

\* Of stage i, in configuration f, by the rollout worker's position: the
\* observations of the epoch seen; the observations, the steps with their
\* outcome and the answers recorded so far.
Seen(c, i)         == c.st + (IF i < c.stage THEN 1 ELSE 0)
ObsSeen(f, c, i)   == c.ep * (f.steps + 1) + Seen(c, i)
StepsDone(f, c, i) == c.ep * f.steps + (IF Seen(c, i) = 0 THEN 0 ELSE Seen(c, i) - 1)
Answered(f, c, i)  ==
  IF f.kind = "stream" THEN StepsDone(f, c, i)
  ELSE c.ep * f.steps + (IF Seen(c, i) <= f.steps THEN Seen(c, i) ELSE f.steps)
\* The epoch the lists of the "async" program are of.
BaseEpoch(c, i)    == IF Seen(c, i) = 0 /\ c.ep > 0 THEN c.ep - 1 ELSE c.ep

\* Lists of steps a .. d-1, of answers up to m and of observations o .. n-1.
Lists(f, a, d, m, o, n) ==
  [logprobs    |-> Tags(f.steps, a, m),
   values      |-> IF f.kind = "stream" THEN <<>> ELSE Tags(f.steps + 1, o, n),
   dones       |-> Tags(f.steps + 1, o, n),
   rewards     |-> Outcomes(f.steps, a, d),
   inputs      |-> Tags(f.steps, a, d),
   transitions |-> IF f.sac THEN Tags(f.steps, a, d) ELSE <<>>]

\* What of it has left: nothing, the epochs before, or what a buffer sent.
Begins(f, c, i, a, o) ==
  /\ a <= StepsDone(f, c, i) /\ StepsDone(f, c, i) <= Answered(f, c, i) /\ o <= ObsSeen(f, c, i)
  /\ f.kind = "sync" => a = 0 /\ o = 0
  /\ f.kind = "async" => a = BaseEpoch(c, i) * f.steps /\ o = BaseEpoch(c, i) * (f.steps + 1)
  /\ f.kind = "stream" => a = o

Holds(f, c, i, b) ==
  \E a, o \in Nat :
    /\ Begins(f, c, i, a, o)
    /\ b = Lists(f, a, StepsDone(f, c, i), Answered(f, c, i), o, ObsSeen(f, c, i))

\* What a stream's queue carries.
PieceSet == [round : Nat, rank : Nat, stage : Nat, k : Nat, at : Nat \X Nat, done : Nat \X Nat, version : Nat]
Carried  == {p \in PieceSet : p.done = Tag(NumSteps + 1, p.at[1] * NumSteps + p.at[2])}

RecordInv ==
  /\ \A x \in Buffers : Holds(conf, rolAt[x[1]], x[2], buf[x])
  /\ DOMAIN buf = Buffers
  /\ version \in Nat /\ rolVersion \in [Rollouts -> Nat]
  /\ IF Stream THEN q \in [Actors \cup {DefaultKey} -> Seq(Carried)]
     ELSE \A x \in Buffers : task[x] # "run"

LEMMA StretchPut ==
  ASSUME NEW all \in [Nat -> Pairs], NEW a \in Nat, NEW d \in Nat, a <= d
  PROVE  /\ Stretch(all, a, d) \in Seq(Pairs) /\ Len(Stretch(all, a, d)) = d - a
         /\ Append(Stretch(all, a, d), all[d]) = Stretch(all, a, d + 1)
<1>1. PICK e \in Nat : e = d - a /\ d + 1 - a = e + 1 /\ a + (e + 1) - 1 = d
  OBVIOUS
<1>2. Stretch(all, a, d) = [k \in 1 .. e |-> all[a + k - 1]]
  BY <1>1 DEF Stretch
<1>3. Stretch(all, a, d + 1) = [k \in 1 .. e + 1 |-> all[a + k - 1]]
  BY <1>1 DEF Stretch
<1>4. \A k \in 1 .. e : all[a + k - 1] \in Pairs
  OBVIOUS
<1>5. Stretch(all, a, d) \in Seq(Pairs) /\ Len(Stretch(all, a, d)) = e
  BY <1>2, <1>4
<1>6. PICK t \in Pairs : t = all[d]
  OBVIOUS
<1>7. Append(Stretch(all, a, d), t) = Stretch(all, a, d + 1)
  <2>1. \A k \in 1 .. e + 1 : all[a + k - 1] = IF k = e + 1 THEN t ELSE Stretch(all, a, d)[k]
    <3> SUFFICES ASSUME NEW k \in 1 .. e + 1
                 PROVE  all[a + k - 1] = IF k = e + 1 THEN t ELSE Stretch(all, a, d)[k]
      OBVIOUS
    <3>1. CASE k = e + 1
      BY <1>1, <1>6, <3>1
    <3>2. CASE k # e + 1
      <4>1. k \in 1 .. e
        BY <3>2
      <4>. QED  BY <1>2, <3>2, <4>1
    <3>. QED  BY <3>1, <3>2
  <2>2. Stretch(all, a, d + 1) = [k \in 1 .. e + 1 |-> IF k = e + 1 THEN t ELSE Stretch(all, a, d)[k]]
    BY <1>3, <2>1
  <2>3. PICK w \in Seq(Pairs) : w = Stretch(all, a, d) /\ Len(w) = e
    BY <1>5, Zenon
  <2>4. Append(w, t) = [k \in 1 .. e + 1 |-> IF k = e + 1 THEN t ELSE w[k]]
    <3>1. PICK v \in Seq(Pairs) : v = Append(w, t) /\ Len(v) = e + 1
      BY <2>3, AppendProperties
    <3>2. \A k \in 1 .. e + 1 : v[k] = IF k = e + 1 THEN t ELSE w[k]
      BY <2>3, <3>1, AppendProperties
    <3>3. v = [k \in 1 .. e + 1 |-> v[k]]
      <4>1. v \in [1 .. Len(v) -> Pairs]
        BY LenProperties, Zenon
      <4>. QED  BY <3>1, <4>1, Zenon
    <3>. QED  BY <3>1, <3>2, <3>3
  <2>. QED  BY <2>2, <2>3, <2>4, Zenon
<1>. QED  BY <1>1, <1>5, <1>6, <1>7, Zenon

LEMMA StretchTake ==
  ASSUME NEW all \in [Nat -> Pairs], NEW a \in Nat, NEW d \in Nat, a < d
  PROVE  /\ Stretch(all, a, d) # <<>> /\ Head(Stretch(all, a, d)) = all[a]
         /\ Tail(Stretch(all, a, d)) = Stretch(all, a + 1, d)
<1>1. PICK e \in Nat : e = d - (a + 1) /\ d - a = e + 1
  OBVIOUS
<1>2. Stretch(all, a, d) = [k \in 1 .. e + 1 |-> all[a + k - 1]]
  BY <1>1 DEF Stretch
<1>3. Stretch(all, a + 1, d) = [k \in 1 .. e |-> all[a + 1 + k - 1]]
  BY <1>1 DEF Stretch
<1>4. Stretch(all, a, d) \in Seq(Pairs) /\ Len(Stretch(all, a, d)) = e + 1
  <2>1. a <= d
    OBVIOUS
  <2>2. Stretch(all, a, d) \in Seq(Pairs) /\ Len(Stretch(all, a, d)) = d - a
    BY <2>1, StretchPut
  <2>. QED  BY <1>1, <2>2
<1>5. Head(Stretch(all, a, d)) = all[a]
  <2>1. a + 1 - 1 = a /\ 1 \in 1 .. e + 1
    OBVIOUS
  <2>2. Stretch(all, a, d)[1] = all[a]
    BY <1>2, <2>1
  <2>. QED  BY <1>4, <2>2
<1>6. Tail(Stretch(all, a, d)) = [k \in 1 .. e |-> Stretch(all, a, d)[k + 1]]
  <2>1. PICK s \in Seq(Pairs) : s = Stretch(all, a, d) /\ Len(s) = e + 1
    BY <1>4
  <2>2. Tail(s) = [k \in 1 .. e |-> s[k + 1]]
    <3>1. Len(s) - 1 = e
      BY <2>1
    <3>2. Tail(s) \in Seq(Pairs) /\ Len(Tail(s)) = e /\ \A k \in 1 .. e : Tail(s)[k] = s[k + 1]
      BY <2>1, <3>1, HeadTailProperties, Len(s) # 0, EmptySeq
    <3>3. PICK z \in Seq(Pairs) : z = Tail(s)
      BY <3>2
    <3>4. Len(z) = e /\ \A k \in 1 .. e : z[k] = s[k + 1]
      BY <3>2, <3>3, Zenon
    <3>5. z = [k \in 1 .. e |-> s[k + 1]]
      BY <3>4
    <3>. QED  BY <3>3, <3>5, Zenon
  <2>. QED  BY <2>1, <2>2, Zenon
<1>7. \A k \in 1 .. e : Stretch(all, a, d)[k + 1] = all[a + 1 + k - 1]
  <2>1. \A k \in 1 .. e : k + 1 \in 1 .. e + 1 /\ a + (k + 1) - 1 = a + 1 + k - 1
    OBVIOUS
  <2>. QED  BY <1>2, <2>1
<1>8. Stretch(all, a, d) # <<>>
  BY <1>4
<1>9. Tail(Stretch(all, a, d)) = Stretch(all, a + 1, d)
  BY <1>3, <1>6, <1>7
<1>. QED  BY <1>5, <1>8, <1>9

LEMMA AllType ==
  ASSUME NEW n \in Positive
  PROVE  /\ AllTags(n) \in [Nat -> Pairs] /\ AllOutcomes(n) \in [Nat -> Pairs]
         /\ \A k \in Nat : AllTags(n)[k] = Tag(n, k) /\ AllOutcomes(n)[k] = <<Tag(n, k)[1], Tag(n, k)[2] + 1>>
         /\ \A k \in Nat : Tag(n, k) \in Pairs
<1>1. ASSUME NEW k \in Nat
      PROVE  Tag(n, k) \in Pairs /\ <<Tag(n, k)[1], Tag(n, k)[2] + 1>> \in Pairs
  <2>1. k \div n \in Nat /\ k % n \in 0 .. n - 1
    BY DivisionParts DEF Positive
  <2>2. k % n \in Nat
    BY <2>1
  <2>. QED  BY <2>1, <2>2 DEF Tag, Pairs
<1>. QED  BY <1>1 DEF AllTags, AllOutcomes

LEMMA TagsPut ==
  ASSUME NEW n \in Positive, NEW a \in Nat, NEW d \in Nat, a <= d
  PROVE  /\ Tags(n, a, d) \in Seq(Pairs) /\ Len(Tags(n, a, d)) = d - a
         /\ Append(Tags(n, a, d), Tag(n, d)) = Tags(n, a, d + 1)
BY AllType, StretchPut, Zenon DEF Tags

LEMMA OutcomesPut ==
  ASSUME NEW n \in Positive, NEW a \in Nat, NEW d \in Nat, a <= d
  PROVE  /\ Outcomes(n, a, d) \in Seq(Pairs) /\ Len(Outcomes(n, a, d)) = d - a
         /\ Append(Outcomes(n, a, d), <<Tag(n, d)[1], Tag(n, d)[2] + 1>>) = Outcomes(n, a, d + 1)
BY AllType, StretchPut, Zenon DEF Outcomes

\* The first item goes.
LEMMA TagsTake ==
  ASSUME NEW n \in Positive, NEW a \in Nat, NEW d \in Nat, a < d
  PROVE  /\ Tags(n, a, d) # <<>> /\ Head(Tags(n, a, d)) = Tag(n, a) /\ Tail(Tags(n, a, d)) = Tags(n, a + 1, d)
         /\ Tail(Outcomes(n, a, d)) = Outcomes(n, a + 1, d)
BY AllType, StretchTake, Zenon DEF Tags, Outcomes

\* The same, as one fact to hand around.
FirstGoes(n, a, d) ==
  /\ Head(Tags(n, a, d)) = Tag(n, a) /\ Tail(Tags(n, a, d)) = Tags(n, a + 1, d)
  /\ Tail(Outcomes(n, a, d)) = Outcomes(n, a + 1, d)

LEMMA TagsGo ==
  ASSUME NEW n \in Positive, NEW a \in Nat, NEW d \in Nat, a < d
  PROVE  FirstGoes(n, a, d)
BY TagsTake, Zenon DEF FirstGoes

LEMMA NoTags ==
  ASSUME NEW n, NEW a \in Nat
  PROVE  Tags(n, a, a) = <<>> /\ Outcomes(n, a, a) = <<>>
<1>1. 1 .. a - a = {}
  OBVIOUS
<1>. QED  BY <1>1 DEF Tags, Outcomes, Stretch

LEMMA TagOf ==
  ASSUME NEW n \in Positive, NEW e \in Nat, NEW t \in Nat, t < n
  PROVE  Tag(n, e * n + t) = <<e, t>>
<1>1. (e * n + t) % n = t /\ (e * n + t) \div n = e
  BY Remainder DEF Positive
<1>. QED  BY <1>1 DEF Tag

-----------------------------------------------------------------------------
(***************************************************************************)
(* What a turn of a rollout worker does to the counts and to the lists.    *)
(***************************************************************************)
\* The counts of a stage, in numbers.
Counts(f, c, i, p, o, s) ==
  /\ ObsSeen(f, c, i) = o + s
  /\ StepsDone(f, c, i) = p + (IF s = 0 THEN 0 ELSE s - 1)
  /\ Answered(f, c, i) = IF f.kind = "stream" THEN p + (IF s = 0 THEN 0 ELSE s - 1)
                         ELSE p + (IF s <= f.steps THEN s ELSE f.steps)

LEMMA CountsAre ==
  ASSUME NEW f, f.steps \in Positive, NEW c \in Pos, NEW i \in Nat
  PROVE  /\ Seen(c, i) \in Nat /\ c.ep * f.steps \in Nat /\ c.ep * (f.steps + 1) \in Nat
         /\ Counts(f, c, i, c.ep * f.steps, c.ep * (f.steps + 1), Seen(c, i))
         /\ (c.ep + 1) * f.steps = c.ep * f.steps + f.steps
         /\ (c.ep + 1) * (f.steps + 1) = c.ep * (f.steps + 1) + f.steps + 1
<1>1. c.ep \in Nat /\ c.st \in Nat /\ c.stage \in Nat
  BY PosEqual
<1>2. PICK n \in Nat : n = f.steps
  BY DEF Positive
<1>3. PICK k \in Nat : k = c.ep
  BY <1>1
<1>4. k * n \in Nat /\ k * (n + 1) \in Nat /\ (k + 1) * n = k * n + n /\ (k + 1) * (n + 1) = k * (n + 1) + n + 1
  OBVIOUS
<1>5. Seen(c, i) \in Nat
  BY <1>1 DEF Seen
<1>6. Counts(f, c, i, c.ep * f.steps, c.ep * (f.steps + 1), Seen(c, i))
  BY DEF Counts, ObsSeen, StepsDone, Answered
<1>. QED  BY <1>2, <1>3, <1>4, <1>5, <1>6

\* Another stage's counts stay, also over the end of an epoch.
SameCounts(f, c, a, i) ==
  /\ ObsSeen(f, a, i) = ObsSeen(f, c, i) /\ StepsDone(f, a, i) = StepsDone(f, c, i)
  /\ Answered(f, a, i) = Answered(f, c, i) /\ BaseEpoch(a, i) = BaseEpoch(c, i)

LEMMA OtherStage ==
  ASSUME NEW f, f.steps \in Positive, NEW S \in Nat, NEW c \in Pos, c.stage < S, c.st <= f.steps,
         NEW i \in Nat, i < S, i # c.stage
  PROVE  SameCounts(f, c, Follows(S, c, f.steps), i)
<1>0. PICK n \in Nat : n = f.steps /\ n > 0
  BY DEF Positive
<1>1. c.ep \in Nat /\ c.st \in Nat /\ c.stage \in Nat
  BY PosEqual
<1>2. PICK a \in Pos : a = Follows(S, c, n) /\ Goes(S, c, n, a)
  <2>1. n \in Int
    OBVIOUS
  <2>. QED  BY <2>1, FollowsPos, FollowsCases
<1>3. PICK p \in Nat, o \in Nat : p = c.ep * f.steps /\ o = c.ep * (f.steps + 1)
  BY CountsAre
<1>4. PICK s \in Nat : s = Seen(c, i)
  BY CountsAre
<1>5. Counts(f, c, i, p, o, s)
  BY <1>3, <1>4, CountsAre
<1>6. CASE a.ep = c.ep
  <2>1. Seen(a, i) = s
    BY <1>0, <1>1, <1>2, <1>4, <1>6 DEF Goes, Seen
  <2>2. Counts(f, a, i, p, o, s)
    BY <1>3, <1>6, <2>1, CountsAre
  <2>3. BaseEpoch(a, i) = BaseEpoch(c, i)
    BY <1>4, <1>6, <2>1 DEF BaseEpoch
  <2>4. SameCounts(f, c, a, i)
    BY <1>5, <2>2, <2>3 DEF Counts, SameCounts
  <2>. QED  BY <1>0, <1>2, <2>4
<1>7. CASE a.ep # c.ep
  <2>1. c.stage = S - 1 /\ c.st = n /\ a.ep = c.ep + 1 /\ a.st = 0 /\ a.stage = 0
    BY <1>0, <1>1, <1>2, <1>7 DEF Goes
  <2>2. s = n + 1 /\ Seen(a, i) = 0
    BY <1>1, <1>4, <2>1 DEF Seen
  <2>3. a.ep * f.steps = p + n /\ a.ep * (f.steps + 1) = o + n + 1
    BY <1>0, <1>3, <2>1, CountsAre
  <2>4. Counts(f, a, i, p + n, o + n + 1, 0)
    BY <2>2, <2>3, CountsAre
  <2>5. BaseEpoch(a, i) = BaseEpoch(c, i)
    BY <1>1, <1>4, <2>1, <2>2 DEF BaseEpoch
  <2>6. SameCounts(f, c, a, i)
    BY <1>0, <1>5, <2>2, <2>4, <2>5 DEF Counts, SameCounts
  <2>. QED  BY <1>0, <1>2, <2>6
<1>. QED  BY <1>6, <1>7

\* The stage whose turn it is has seen one observation more, and with it the
\* outcome of the step before; its answer is one more, but for the last one.
LEMMA OwnStage ==
  ASSUME NEW f, f.steps \in Positive, NEW S \in Nat, NEW c \in Pos, c.stage < S, c.st <= f.steps,
         NEW p \in Nat, NEW o \in Nat, p = c.ep * f.steps, o = c.ep * (f.steps + 1)
  PROVE  /\ Counts(f, c, c.stage, p, o, c.st)
         /\ Counts(f, Follows(S, c, f.steps), c.stage, p, o, c.st + 1)
         /\ BaseEpoch(Follows(S, c, f.steps), c.stage) = c.ep
         /\ c.st > 0 => BaseEpoch(c, c.stage) = c.ep
<1>0. PICK n \in Nat : n = f.steps /\ n > 0
  BY DEF Positive
<1>1. c.ep \in Nat /\ c.st \in Nat /\ c.stage \in Nat
  BY PosEqual
<1>2. PICK a \in Pos : a = Follows(S, c, n) /\ Goes(S, c, n, a)
  <2>1. n \in Int
    OBVIOUS
  <2>. QED  BY <2>1, FollowsPos, FollowsCases
<1>3. Seen(c, c.stage) = c.st
  BY <1>1 DEF Seen
<1>4. Counts(f, c, c.stage, p, o, c.st)
  BY <1>1, <1>3, CountsAre
<1>5. c.st > 0 => BaseEpoch(c, c.stage) = c.ep
  BY <1>1, <1>3 DEF BaseEpoch
<1>6. CASE a.ep = c.ep
  <2>1. Seen(a, c.stage) = c.st + 1
    BY <1>0, <1>1, <1>2, <1>6 DEF Goes, Seen
  <2>2. Counts(f, a, c.stage, p, o, c.st + 1)
    BY <1>1, <1>6, <2>1, CountsAre
  <2>3. BaseEpoch(a, c.stage) = c.ep
    BY <1>1, <1>6, <2>1 DEF BaseEpoch
  <2>. QED  BY <1>0, <1>2, <1>4, <1>5, <2>2, <2>3
<1>7. CASE a.ep # c.ep
  <2>1. c.stage = S - 1 /\ c.st = n /\ a.ep = c.ep + 1 /\ a.st = 0 /\ a.stage = 0
    BY <1>0, <1>1, <1>2, <1>7 DEF Goes
  <2>2. Seen(a, c.stage) = 0
    BY <1>1, <2>1 DEF Seen
  <2>3. a.ep * f.steps = p + n /\ a.ep * (f.steps + 1) = o + n + 1
    BY <1>0, <2>1, CountsAre
  <2>4. Counts(f, a, c.stage, p + n, o + n + 1, 0)
    BY <1>1, <2>2, <2>3, CountsAre
  <2>5. BaseEpoch(a, c.stage) = c.ep
    BY <1>1, <2>1, <2>2 DEF BaseEpoch
  <2>6. Counts(f, a, c.stage, p, o, c.st + 1)
    BY <1>0, <1>1, <2>1, <2>4 DEF Counts
  <2>. QED  BY <1>0, <1>2, <1>4, <1>5, <2>5, <2>6
<1>. QED  BY <1>6, <1>7

LEMMA ConfFits ==
  ASSUME conf \in Configs
  PROVE  /\ conf.steps \in Positive /\ conf.steps + 1 \in Positive /\ conf.stages \in Positive
         /\ conf.kind \in {"sync", "async", "stream"} /\ conf.sac \in BOOLEAN
         /\ Stream <=> conf.kind = "stream"
         /\ Stream => conf.sac = TRUE
<1>1. conf \in Config /\ (conf.kind = "stream" => conf.sac)
  BY EmbodiedAssumption
<1>2. /\ conf.steps \in Positive /\ conf.stages \in Positive
      /\ conf.kind \in {"sync", "async", "stream"} /\ conf.sac \in BOOLEAN
  BY <1>1 DEF Config
<1>3. conf.steps + 1 \in Positive
  BY <1>2 DEF Positive
<1>. QED  BY <1>1, <1>2, <1>3 DEF Stream

\* The lists a turn adds to: those of the stage, or in the "async" program new
\* ones with every epoch.
TurnLists(f, c, p, h, b) ==
  \E a, o \in Nat :
    /\ a <= StepsDone(f, c, c.stage) /\ o <= ObsSeen(f, c, c.stage)
    /\ f.kind = "sync" => a = 0 /\ o = 0
    /\ f.kind = "async" => a = p /\ o = h
    /\ f.kind = "stream" => a = o
    /\ b = Lists(f, a, StepsDone(f, c, c.stage), Answered(f, c, c.stage), o, ObsSeen(f, c, c.stage))

LEMMA TurnBegins ==
  ASSUME conf \in Configs, NEW c \in Pos, c.stage < conf.stages, c.st <= conf.steps,
         NEW b, Holds(conf, c, c.stage, b),
         NEW p \in Nat, NEW h \in Nat, p = c.ep * conf.steps, h = c.ep * (conf.steps + 1)
  PROVE  TurnLists(conf, c, p, h, IF conf.kind = "async" /\ c.st = 0 THEN NoTrajectory ELSE b)
<1>1. /\ Counts(conf, c, c.stage, p, h, c.st)
      /\ c.st > 0 => BaseEpoch(c, c.stage) = c.ep
  BY ConfFits, OwnStage, conf.stages \in Nat DEF Positive
<1>2. c.st \in Nat
  BY PosEqual
<1>3. PICK a \in Nat, o \in Nat :
        /\ Begins(conf, c, c.stage, a, o)
        /\ b = Lists(conf, a, StepsDone(conf, c, c.stage), Answered(conf, c, c.stage), o, ObsSeen(conf, c, c.stage))
  BY DEF Holds
<1>4. CASE conf.kind = "async" /\ c.st = 0
  <2>1. /\ StepsDone(conf, c, c.stage) = p /\ Answered(conf, c, c.stage) = p /\ ObsSeen(conf, c, c.stage) = h
    BY <1>1, <1>4, ConfFits DEF Counts, Positive
  <2>2. NoTrajectory = Lists(conf, p, p, p, h, h)
    BY <1>4, NoTags DEF NoTrajectory, Lists
  <2>. QED  BY <1>4, <2>1, <2>2 DEF TurnLists
<1>5. CASE conf.kind = "async" /\ c.st > 0
  BY <1>1, <1>3, <1>5 DEF Begins, TurnLists
<1>6. CASE conf.kind # "async"
  BY <1>3, <1>6 DEF Begins, TurnLists
<1>. QED  BY <1>2, <1>4, <1>5, <1>6

LEMMA OwnRecord ==
  ASSUME conf \in Configs, NEW r \in Rollouts, NEW c \in Pos, c.stage < conf.stages, c.st <= conf.steps,
         Holds(conf, c, c.stage, buf[<<r, c.stage>>])
  PROVE  Holds(conf, Follows(conf.stages, c, conf.steps), c.stage, Recorded(r, c))
<1>1. PICK n \in Nat : n = conf.steps /\ n > 0
  BY ConfFits DEF Positive
<1>2. c.ep \in Nat /\ c.st \in Nat /\ c.stage \in Nat
  BY PosEqual
<1>3. PICK p \in Nat, h \in Nat : p = c.ep * conf.steps /\ h = c.ep * (conf.steps + 1)
  BY ConfFits, CountsAre
<1>4. PICK g \in Pos : g = Follows(conf.stages, c, conf.steps)
  <2>1. conf.stages \in Nat /\ conf.steps \in Int
    BY ConfFits DEF Positive
  <2>. QED  BY <2>1, FollowsPos
<1>5. /\ Counts(conf, c, c.stage, p, h, c.st) /\ Counts(conf, g, c.stage, p, h, c.st + 1)
      /\ BaseEpoch(g, c.stage) = c.ep
  BY <1>3, <1>4, ConfFits, OwnStage, conf.stages \in Nat DEF Positive
<1>6. PICK d \in Nat, m \in Nat, k \in Nat :
        /\ d = StepsDone(conf, c, c.stage) /\ m = Answered(conf, c, c.stage) /\ k = ObsSeen(conf, c, c.stage)
        /\ d = p + (IF c.st = 0 THEN 0 ELSE c.st - 1) /\ d <= m /\ k = h + c.st
        /\ m = IF conf.kind = "stream" THEN d ELSE p + c.st
  BY <1>1, <1>2, <1>5 DEF Counts
<1>7. PICK e \in Nat, w \in Nat :
        /\ e = StepsDone(conf, g, c.stage) /\ w = Answered(conf, g, c.stage) /\ k + 1 = ObsSeen(conf, g, c.stage)
        /\ e = IF c.st > 0 THEN d + 1 ELSE d
        /\ w = IF conf.kind = "stream" THEN e ELSE IF c.st < n THEN m + 1 ELSE m
        /\ e <= w
  BY <1>1, <1>2, <1>5, <1>6 DEF Counts
<1>8. PICK b : b = IF conf.kind = "async" /\ c.st = 0 THEN NoTrajectory ELSE buf[<<r, c.stage>>]
  OBVIOUS
<1>9. PICK a \in Nat, o \in Nat :
        /\ a <= d /\ o <= k
        /\ conf.kind = "sync" => a = 0 /\ o = 0
        /\ conf.kind = "async" => a = p /\ o = h
        /\ conf.kind = "stream" => a = o
        /\ b = Lists(conf, a, d, m, o, k)
  <2>1. TurnLists(conf, c, p, h, b)
    BY <1>3, <1>8, TurnBegins
  <2>. QED  BY <1>6, <2>1, Zenon DEF TurnLists
<1>10. PICK here, before : here = <<c.ep, c.st>> /\ before = <<c.ep, c.st - 1>>
  OBVIOUS
<1>11. c.st > 0 => Tag(n, d) = before /\ <<Tag(n, d)[1], Tag(n, d)[2] + 1>> = here
  <2> SUFFICES ASSUME c.st > 0 PROVE Tag(n, d) = before /\ <<Tag(n, d)[1], Tag(n, d)[2] + 1>> = here
    OBVIOUS
  <2>1. PICK t \in Nat : t = c.st - 1 /\ t < n
    BY <1>1, <1>2
  <2>2. d = c.ep * n + t
    BY <1>1, <1>3, <1>6, <2>1
  <2>5. n \in Positive
    BY <1>1 DEF Positive
  <2>3. Tag(n, d) = <<c.ep, t>>
    BY <1>2, <2>1, <2>2, <2>5, TagOf
  <2>4. Tag(n, d)[1] = c.ep /\ Tag(n, d)[2] + 1 = c.st
    BY <1>2, <2>1, <2>3
  <2>. QED  BY <1>10, <2>1, <2>3, <2>4
<1>12. Tag(n + 1, k) = here
  <2>1. k = c.ep * (n + 1) + c.st /\ n + 1 \in Positive /\ c.st < n + 1
    BY <1>1, <1>2, <1>3, <1>6 DEF Positive
  <2>. QED  BY <1>2, <1>10, <2>1, TagOf
<1>13. conf.kind # "stream" /\ c.st < n => Tag(n, m) = here
  <2> SUFFICES ASSUME conf.kind # "stream" /\ c.st < n PROVE Tag(n, m) = here
    OBVIOUS
  <2>1. m = c.ep * n + c.st /\ n \in Positive
    BY <1>1, <1>3, <1>6 DEF Positive
  <2>. QED  BY <1>2, <1>10, <2>1, TagOf
<1>14. n \in Positive /\ n + 1 \in Positive
  BY <1>1 DEF Positive
<1>15. AppendIf(Tags(n, a, d), c.st > 0, before) = Tags(n, a, e)
  <2>1. Append(Tags(n, a, d), Tag(n, d)) = Tags(n, a, d + 1)
    BY <1>9, <1>14, TagsPut
  <2>. QED  BY <1>7, <1>11, <2>1, Zenon DEF AppendIf
<1>16. AppendIf(Outcomes(n, a, d), c.st > 0, here) = Outcomes(n, a, e)
  <2>1. Append(Outcomes(n, a, d), <<Tag(n, d)[1], Tag(n, d)[2] + 1>>) = Outcomes(n, a, d + 1)
    BY <1>9, <1>14, OutcomesPut
  <2>. QED  BY <1>7, <1>11, <2>1, Zenon DEF AppendIf
<1>17. Append(Tags(n + 1, o, k), here) = Tags(n + 1, o, k + 1)
  <2>1. Append(Tags(n + 1, o, k), Tag(n + 1, k)) = Tags(n + 1, o, k + 1)
    BY <1>9, <1>14, TagsPut
  <2>. QED  BY <1>12, <2>1, Zenon
<1>18. conf.kind # "stream" => AppendIf(Tags(n, a, m), c.st < n, here) = Tags(n, a, w)
  <2>1. a <= m
    BY <1>6, <1>9
  <2>2. Append(Tags(n, a, m), Tag(n, m)) = Tags(n, a, m + 1)
    BY <1>14, <2>1, TagsPut
  <2>. QED  BY <1>7, <1>13, <2>2, Zenon DEF AppendIf
<1>19. Begins(conf, g, c.stage, a, o)
  <2>1. a <= e /\ e <= w /\ o <= k + 1
    BY <1>7, <1>9
  <2>. QED  BY <1>3, <1>5, <1>7, <1>9, <2>1 DEF Begins
<1>20. Recorded(r, c) = Lists(conf, a, e, w, o, k + 1)
  <2>1. Recorded(r, c) = IF Stream THEN AddResult(b, c) ELSE AppendResult(b, c)
    BY <1>8 DEF Recorded
  <2>2. NumSteps = n /\ conf.steps = n
    BY <1>1 DEF NumSteps
  <2>3. CASE Stream
    <3>1. conf.kind = "stream" /\ conf.sac = TRUE /\ m = d /\ w = e
      BY <1>6, <1>7, <2>3, ConfFits
    <3>2. b = [logprobs |-> Tags(n, a, d), values |-> <<>>, dones |-> Tags(n + 1, o, k),
               rewards |-> Outcomes(n, a, d), inputs |-> Tags(n, a, d), transitions |-> Tags(n, a, d)]
      BY <1>9, <2>2, <3>1, Zenon DEF Lists
    <3>3. AddResult(b, c) =
            [logprobs |-> AppendIf(Tags(n, a, d), c.st > 0, before), values |-> <<>>,
             dones |-> Append(Tags(n + 1, o, k), here),
             rewards |-> AppendIf(Outcomes(n, a, d), c.st > 0, here),
             inputs |-> AppendIf(Tags(n, a, d), c.st > 0, before),
             transitions |-> AppendIf(Tags(n, a, d), c.st > 0, before)]
      <4>1. PICK x1, x2, x3, x4 : x1 = AppendIf(b.logprobs, c.st > 0, before) /\ x2 = Append(b.dones, here)
                                  /\ x3 = AppendIf(b.rewards, c.st > 0, here)
                                  /\ x4 = AppendIf(b.transitions, c.st > 0, before)
        OBVIOUS
      <4>2. PICK x5 : x5 = AppendIf(b.inputs, c.st > 0, before)
        OBVIOUS
      <4>3. AddResult(b, c) = [b EXCEPT !.dones = x2, !.rewards = x3, !.logprobs = x1, !.inputs = x5, !.transitions = x4]
        BY <1>10, <4>1, <4>2, Zenon DEF AddResult, HasInputs
      <4>4. AddResult(b, c) =
              [logprobs |-> x1, values |-> <<>>, dones |-> x2, rewards |-> x3, inputs |-> x5, transitions |-> x4]
        BY <3>2, <4>3
      <4>5. b.logprobs = Tags(n, a, d) /\ b.dones = Tags(n + 1, o, k) /\ b.rewards = Outcomes(n, a, d)
            /\ b.inputs = Tags(n, a, d) /\ b.transitions = Tags(n, a, d)
        BY <3>2
      <4>. QED  BY <4>1, <4>2, <4>4, <4>5, Zenon
    <3>4. Lists(conf, a, e, w, o, k + 1) =
            [logprobs |-> Tags(n, a, e), values |-> <<>>, dones |-> Tags(n + 1, o, k + 1),
             rewards |-> Outcomes(n, a, e), inputs |-> Tags(n, a, e), transitions |-> Tags(n, a, e)]
      BY <2>2, <3>1, Zenon DEF Lists
    <3>. QED  BY <1>15, <1>16, <1>17, <2>1, <2>3, <3>3, <3>4, Zenon
  <2>4. CASE ~Stream
    <3>1. conf.kind # "stream"
      BY <2>4, ConfFits
    <3>2. PICK tr, tt : tr = (IF conf.sac THEN Tags(n, a, d) ELSE <<>>) /\ tt = (IF conf.sac THEN Tags(n, a, e) ELSE <<>>)
      OBVIOUS
    <3>3. b = [logprobs |-> Tags(n, a, m), values |-> Tags(n + 1, o, k), dones |-> Tags(n + 1, o, k),
               rewards |-> Outcomes(n, a, d), inputs |-> Tags(n, a, d), transitions |-> tr]
      BY <1>9, <2>2, <3>1, <3>2, Zenon DEF Lists
    <3>4. AppendResult(b, c) =
            [logprobs |-> AppendIf(Tags(n, a, m), c.st < n, here), values |-> Append(Tags(n + 1, o, k), here),
             dones |-> Append(Tags(n + 1, o, k), here),
             rewards |-> AppendIf(Outcomes(n, a, d), c.st > 0, here),
             inputs |-> AppendIf(Tags(n, a, d), c.st > 0, before),
             transitions |-> AppendIf(tr, conf.sac /\ c.st > 0, before)]
      BY <1>10, <2>2, <3>3 DEF AppendResult, HasInputs
    <3>5. Lists(conf, a, e, w, o, k + 1) =
            [logprobs |-> Tags(n, a, w), values |-> Tags(n + 1, o, k + 1), dones |-> Tags(n + 1, o, k + 1),
             rewards |-> Outcomes(n, a, e), inputs |-> Tags(n, a, e), transitions |-> tt]
      BY <2>2, <3>1, <3>2, Zenon DEF Lists
    <3>6. AppendIf(tr, conf.sac /\ c.st > 0, before) = tt
      <4>1. CASE conf.sac
        BY <1>15, <3>2, <4>1, Zenon DEF AppendIf
      <4>2. CASE ~conf.sac
        BY <3>2, <4>2, Zenon DEF AppendIf
      <4>. QED  BY <4>1, <4>2
    <3>. QED  BY <1>15, <1>16, <1>17, <1>18, <2>1, <2>4, <3>1, <3>4, <3>5, <3>6, Zenon
  <2>. QED  BY <2>3, <2>4
<1>. QED  BY <1>4, <1>7, <1>19, <1>20 DEF Holds

-----------------------------------------------------------------------------
(***************************************************************************)
(* Every step keeps RecordInv.                                             *)
(***************************************************************************)
LEMMA BufferOf ==
  ASSUME conf \in Configs, NEW x \in Buffers
  PROVE  /\ x[1] \in Rollouts /\ x[1] \in Nat /\ x[2] \in Nat /\ x[2] < conf.stages /\ x = <<x[1], x[2]>>
<1>1. conf.rollouts \in Nat /\ conf.stages \in Nat
  BY ConfType DEF Positive
<1>2. x[1] \in Rollouts /\ x[2] \in Stages /\ x = <<x[1], x[2]>>
  BY DEF Buffers
<1>. QED  BY <1>1, <1>2 DEF Rollouts, Stages

LEMMA SplitType ==
  ASSUME conf \in Configs
  PROVE  SplitNum \in Nat
<1>1. conf.actors \in Nat \ {0} /\ conf.rollouts \in Nat \ {0} /\ conf.stages \in Nat \ {0}
  <2>1. conf \in Config
    BY EmbodiedAssumption
  <2>. QED  BY <2>1 DEF Config, Positive
<1>2. PICK a \in Nat \ {0}, b \in Nat \ {0} : a = conf.actors /\ b = conf.rollouts * conf.stages
  <2>1. conf.rollouts * conf.stages \in Nat \ {0}
    BY <1>1
  <2>. QED  BY <1>1, <2>1
<1>3. Lcm(a, b) \in Nat \ {0} /\ Lcm(a, b) % b = 0
  BY LeastMultiple DEF Lcm
<1>4. Lcm(a, b) \div b \in Nat
  BY <1>3, Divides
<1>. QED  BY <1>2, <1>4 DEF SplitNum, ComputeSplitNum

LEMMA RecordNext ==
  ASSUME conf' = conf, conf \in Configs,
         \A x \in Buffers : Holds(conf, rolAt'[x[1]], x[2], buf'[x]),
         DOMAIN buf' = Buffers, version' \in Nat, rolVersion' \in [Rollouts -> Nat],
         Stream => q' \in [Actors \cup {DefaultKey} -> Seq(Carried)],
         ~Stream => \A x \in Buffers : task'[x] # "run"
  PROVE  RecordInv'
<1>1. /\ Buffers' = Buffers /\ Rollouts' = Rollouts /\ Actors' = Actors /\ Stream' = Stream
      /\ Carried' = Carried /\ DefaultKey' = DefaultKey
  BY DEF Buffers, Rollouts, Stages, Actors, Stream, Carried, NumSteps, DefaultKey
<1>2. \A x \in Buffers : Holds(conf', rolAt'[x[1]], x[2], buf'[x])
  OBVIOUS
<1>. QED  BY <1>1, <1>2, Zenon DEF RecordInv

recordVars == <<conf, rolAt, buf, task, version, rolVersion, q>>
LEMMA RecordsApart ==
  ASSUME RecordInv, conf \in Configs, UNCHANGED recordVars
  PROVE  RecordInv'
<1>1. /\ conf' = conf /\ rolAt' = rolAt /\ buf' = buf /\ task' = task /\ version' = version
      /\ rolVersion' = rolVersion /\ q' = q
  BY DEF recordVars
<1>2. \A x \in Buffers : Holds(conf, rolAt'[x[1]], x[2], buf'[x])
  BY <1>1 DEF RecordInv
<1>. QED  BY <1>1, <1>2, RecordNext DEF RecordInv

LEMMA HoldsStays ==
  ASSUME NEW f, NEW c, NEW a, NEW i, NEW b, SameCounts(f, c, a, i), Holds(f, c, i, b)
  PROVE  Holds(f, a, i, b)
BY DEF Holds, Begins, SameCounts

LEMMA HoldsNothing ==
  ASSUME conf \in Configs, NEW i \in Nat
  PROVE  Holds(conf, Start, i, NoTrajectory)
<1>1. conf.steps \in Positive
  BY ConfFits
<1>2. Start \in Pos /\ Start.ep = 0 /\ Start.st = 0 /\ Start.stage = 0
  BY DEF Start, Cursor, Pos
<1>3. Seen(Start, i) = 0 /\ BaseEpoch(Start, i) = 0
  BY <1>2 DEF Seen, BaseEpoch
<1>4. 0 * conf.steps = 0 /\ 0 * (conf.steps + 1) = 0 /\ conf.steps \in Nat
  BY <1>1 DEF Positive
<1>5. Counts(conf, Start, i, 0, 0, 0)
  BY <1>1, <1>2, <1>3, <1>4, CountsAre
<1>6. StepsDone(conf, Start, i) = 0 /\ Answered(conf, Start, i) = 0 /\ ObsSeen(conf, Start, i) = 0
  BY <1>4, <1>5 DEF Counts
<1>7. NoTrajectory = Lists(conf, 0, 0, 0, 0, 0)
  BY NoTags DEF NoTrajectory, Lists
<1>8. Begins(conf, Start, i, 0, 0)
  BY <1>3, <1>4, <1>6 DEF Begins
<1>. QED  BY <1>6, <1>7, <1>8 DEF Holds

LEMMA RolloutStepRecords ==
  ASSUME IInv, RecordInv, NEW r \in Rollouts, RolloutStep(r)
  PROVE  RecordInv'
<1>1. /\ rolPc[r] = "recv" /\ conf' = conf /\ task' = task /\ version' = version /\ rolVersion' = rolVersion
  BY DEF RolloutStep, runnerVars, weightVars
<1>2. conf \in Configs /\ rolAt \in [Rollouts -> Pos]
  BY DEF IInv, TypeInv
<1>3. RolPlace(r)
  BY <1>1 DEF IInv, TrainInv
<1>4. PICK c \in Pos : c = rolAt[r] /\ c.stage < conf.stages /\ c.st <= conf.steps
  BY <1>2, <1>3 DEF RolPlace, NumSteps
<1>5. PICK a : a = Follows(conf.stages, c, conf.steps)
  OBVIOUS
<1>6. rolAt' = [rolAt EXCEPT ![r] = a]
  <2>1. After(c, NumSteps) = a
    BY <1>5, AfterFollows DEF NumSteps
  <2>. QED  BY <1>4, <2>1 DEF RolloutStep
<1>7. PICK b : b = Recorded(r, c)
  OBVIOUS
<1>8. buf' = [buf EXCEPT ![<<r, c.stage>>] = b] /\ DOMAIN buf = Buffers
  BY <1>4, <1>7 DEF RolloutStep, RecordInv
<1>9. c.stage \in Nat /\ conf.stages \in Nat
  BY <1>2, PosEqual, ConfType DEF Positive
<1>10. <<r, c.stage>> \in Buffers
  <2>1. c.stage \in Stages
    BY <1>4, <1>9 DEF Stages
  <2>. QED  BY <2>1 DEF Buffers
<1>11. ASSUME NEW x \in Buffers
       PROVE  Holds(conf, rolAt'[x[1]], x[2], buf'[x])
  <2>1. x[1] \in Rollouts /\ x[2] \in Nat /\ x[2] < conf.stages /\ x = <<x[1], x[2]>>
    BY <1>2, BufferOf
  <2>2. Holds(conf, rolAt[x[1]], x[2], buf[x])
    BY DEF RecordInv
  <2>3. CASE x[1] # r
    <3>1. rolAt'[x[1]] = rolAt[x[1]] /\ buf'[x] = buf[x]
      BY <1>2, <1>6, <1>8, <2>1, <2>3
    <3>. QED  BY <2>2, <3>1
  <2>4. CASE x[1] = r /\ x[2] # c.stage
    <3>1. rolAt'[x[1]] = a /\ buf'[x] = buf[x]
      BY <1>2, <1>6, <1>8, <2>1, <2>4
    <3>2. SameCounts(conf, c, a, x[2])
      BY <1>2, <1>4, <1>5, <1>9, <2>1, <2>4, ConfFits, OtherStage
    <3>3. Holds(conf, c, x[2], buf[x])
      BY <1>4, <2>2, <2>4
    <3>. QED  BY <3>1, <3>2, <3>3, HoldsStays
  <2>5. CASE x = <<r, c.stage>>
    <3>1. rolAt'[x[1]] = a /\ buf'[x] = b /\ x[1] = r /\ x[2] = c.stage
      BY <1>2, <1>6, <1>8, <1>10, <2>5
    <3>2. Holds(conf, c, c.stage, buf[<<r, c.stage>>])
      BY <1>4, <2>2, <2>5, <3>1
    <3>3. Holds(conf, a, c.stage, b)
      BY <1>2, <1>4, <1>5, <1>7, <3>2, OwnRecord
    <3>. QED  BY <3>1, <3>3
  <2>. QED  BY <2>1, <2>3, <2>4, <2>5
<1>12. DOMAIN buf' = Buffers
  BY <1>8
<1>13. Stream => q' = q
  <2>1. Stream => ~Ships(c)
    BY DEF Ships, Stream
  <2>. QED  BY <1>4, <2>1 DEF RolloutStep
<1>. QED  BY <1>1, <1>2, <1>11, <1>12, <1>13, RecordNext DEF RecordInv

\* A record leaves a stream's buffer with the flag of the observation that is as
\* far from the first.
LEMMA BufferSendRecords ==
  ASSUME IInv, RecordInv, NEW y \in Buffers, BufferSend(y[1], y[2])
  PROVE  RecordInv'
<1>1. conf \in Configs /\ rolAt \in [Rollouts -> Pos]
  BY DEF IInv, TypeInv
<1>2. y[1] \in Rollouts /\ y[1] \in Nat /\ y[2] \in Nat /\ y = <<y[1], y[2]>>
  BY <1>1, BufferOf
<1>3. PICK b : b = buf[y]
  OBVIOUS
<1>4. /\ task[y] = "run" /\ b.inputs # <<>> /\ b.dones # <<>>
      /\ conf' = conf /\ rolAt' = rolAt /\ version' = version /\ rolVersion' = rolVersion
  BY <1>2, <1>3 DEF BufferSend, runnerVars, weightVars
<1>5. Stream /\ conf.kind = "stream" /\ conf.sac = TRUE
  BY <1>1, <1>4, ConfFits DEF RecordInv
<1>6. PICK c \in Pos : c = rolAt[y[1]]
  BY <1>1, <1>2
<1>7. PICK n \in Nat : n = conf.steps /\ n \in Positive /\ n + 1 \in Positive
  BY <1>1, ConfFits DEF Positive
<1>8. PICK d \in Nat, k \in Nat :
        d = StepsDone(conf, c, y[2]) /\ d = Answered(conf, c, y[2]) /\ k = ObsSeen(conf, c, y[2])
  <2>1. PICK p \in Nat, h \in Nat, s \in Nat : Counts(conf, c, y[2], p, h, s)
    BY <1>1, <1>2, ConfFits, CountsAre
  <2>. QED  BY <1>5, <2>1 DEF Counts
<1>9. PICK a \in Nat : a <= d /\ a <= k /\ b = Lists(conf, a, d, d, a, k)
  <2>1. Holds(conf, c, y[2], b)
    BY <1>3, <1>6 DEF RecordInv
  <2>. QED  BY <1>5, <1>8, <2>1 DEF Holds, Begins
<1>10. b = [logprobs |-> Tags(n, a, d), values |-> <<>>, dones |-> Tags(n + 1, a, k),
            rewards |-> Outcomes(n, a, d), inputs |-> Tags(n, a, d), transitions |-> Tags(n, a, d)]
  BY <1>5, <1>7, <1>9, Zenon DEF Lists
<1>11. a < d /\ a < k
  <2>1. b.inputs = Tags(n, a, d) /\ b.dones = Tags(n + 1, a, k)
    BY <1>10
  <2>2. a # d /\ a # k
    BY <1>4, <2>1, NoTags
  <2>. QED  BY <1>9, <2>2
<1>12. /\ Head(Tags(n, a, d)) = Tag(n, a) /\ Tail(Tags(n, a, d)) = Tags(n, a + 1, d)
       /\ Tail(Outcomes(n, a, d)) = Outcomes(n, a + 1, d)
       /\ Head(Tags(n + 1, a, k)) = Tag(n + 1, a) /\ Tail(Tags(n + 1, a, k)) = Tags(n + 1, a + 1, k)
  <2>1. FirstGoes(n, a, d) /\ FirstGoes(n + 1, a, k)
    BY <1>7, <1>11, TagsGo
  <2>. QED  BY <2>1 DEF FirstGoes
<1>13. PICK g : g = [l \in DOMAIN b |-> IF l = "values" THEN b[l] ELSE Tail(b[l])]
  OBVIOUS
<1>14. g = Lists(conf, a + 1, d, d, a + 1, k)
  <2>1. g = [logprobs |-> Tail(Tags(n, a, d)), values |-> <<>>, dones |-> Tail(Tags(n + 1, a, k)),
             rewards |-> Tail(Outcomes(n, a, d)), inputs |-> Tail(Tags(n, a, d)), transitions |-> Tail(Tags(n, a, d))]
    BY <1>10, <1>13
  <2>2. Lists(conf, a + 1, d, d, a + 1, k) =
          [logprobs |-> Tags(n, a + 1, d), values |-> <<>>, dones |-> Tags(n + 1, a + 1, k),
           rewards |-> Outcomes(n, a + 1, d), inputs |-> Tags(n, a + 1, d), transitions |-> Tags(n, a + 1, d)]
    BY <1>5, <1>7, Zenon DEF Lists
  <2>. QED  BY <1>12, <2>1, <2>2, Zenon
<1>15. Holds(conf, c, y[2], g)
  <2>1. Begins(conf, c, y[2], a + 1, a + 1)
    BY <1>5, <1>8, <1>11 DEF Begins
  <2>2. a + 1 \in Nat
    OBVIOUS
  <2>. QED  BY <1>8, <1>14, <2>1, <2>2 DEF Holds
<1>16. buf' = [buf EXCEPT ![y] = g] /\ DOMAIN buf = Buffers
  BY <1>2, <1>3, <1>13 DEF BufferSend, RecordInv
<1>17. \A x \in Buffers : Holds(conf, rolAt'[x[1]], x[2], buf'[x])
  <2> SUFFICES ASSUME NEW x \in Buffers PROVE Holds(conf, rolAt'[x[1]], x[2], buf'[x])
    OBVIOUS
  <2>1. CASE x = y
    BY <1>4, <1>6, <1>15, <1>16, <2>1
  <2>2. CASE x # y
    BY <1>4, <1>16, <2>2 DEF RecordInv
  <2>. QED  BY <2>1, <2>2
<1>18. DOMAIN buf' = Buffers
  BY <1>16
<1>19. q' \in [Actors \cup {DefaultKey} -> Seq(Carried)]
  <2>1. PICK at, done : at = Tag(n, a) /\ done = Tag(n + 1, a)
    OBVIOUS
  <2>2. at \in Nat \X Nat /\ done \in Nat \X Nat /\ done = Tag(NumSteps + 1, at[1] * NumSteps + at[2])
    <3>1. at \in Pairs /\ done \in Pairs
      BY <1>7, <2>1, AllType
    <3>2. a = (a \div n) * n + (a % n)
      BY <1>7, DivisionParts DEF Positive
    <3>3. at[1] = a \div n /\ at[2] = a % n
      BY <2>1 DEF Tag
    <3>4. a = at[1] * n + at[2]
      BY <3>2, <3>3
    <3>. QED  BY <1>7, <2>1, <3>1, <3>4 DEF Pairs, NumSteps
  <2>3. Head(b.inputs) = at /\ Head(b.dones) = done
    <3>1. b.inputs = Tags(n, a, d) /\ b.dones = Tags(n + 1, a, k)
      BY <1>10
    <3>. QED  BY <1>12, <2>1, <3>1
  <2>4. PICK v \in Nat : v = rolVersion[y[1]]
    BY <1>2 DEF RecordInv
  <2>5. ASSUME NEW j \in Nat \ {0}
        PROVE  Piece(y[1], y[2], j - 1, at, done) \in Carried
    <3>1. Piece(y[1], y[2], j - 1, at, done) =
            [round |-> 0, rank |-> y[1], stage |-> y[2], k |-> j - 1, at |-> at, done |-> done, version |-> v]
      BY <1>5, <2>4 DEF Piece, Round
    <3>2. PICK z : z = Piece(y[1], y[2], j - 1, at, done)
      OBVIOUS
    <3>3. j - 1 \in Nat
      OBVIOUS
    <3>4. /\ z \in PieceSet
          /\ z.done = done /\ z.at = at
      BY <1>2, <2>2, <3>1, <3>2, <3>3 DEF PieceSet
    <3>5. z.done = Tag(NumSteps + 1, z.at[1] * NumSteps + z.at[2])
      BY <2>2, <3>4, Zenon
    <3>6. z \in Carried
      BY <3>4, <3>5, Zenon DEF Carried
    <3>. QED  BY <3>2, <3>6
  <2>6. PICK pieces : pieces = [j \in 1 .. SplitNum |-> Piece(y[1], y[2], j - 1, at, done)]
    OBVIOUS
  <2>7. pieces \in Seq(Carried)
    <3>1. SplitNum \in Nat
      BY <1>1, SplitType
    <3>. QED  BY <2>5, <2>6, <3>1
  <2>8. q' = [q EXCEPT ![DefaultKey] = @ \o pieces]
    <3>1. q' = PutPieces(y[1], pieces)
      BY <1>2, <1>3, <2>3, <2>6 DEF BufferSend
    <3>. QED  BY <1>5, <3>1 DEF PutPieces
  <2>9. q \in [Actors \cup {DefaultKey} -> Seq(Carried)]
    BY <1>5 DEF RecordInv
  <2>10. q[DefaultKey] \o pieces \in Seq(Carried)
    BY <2>7, <2>9, ConcatProperties
  <2>. QED  BY <2>8, <2>9, <2>10
<1>. QED  BY <1>1, <1>4, <1>5, <1>17, <1>18, <1>19, RecordNext DEF RecordInv

LEMMA StartStepRecords ==
  ASSUME conf \in Configs, RecordInv, StartStep
  PROVE  RecordInv'
<1>1. /\ conf' = conf /\ version' = version /\ rolVersion' = rolVersion /\ q' = q
      /\ rolAt' = [r \in Rollouts |-> Start] /\ buf' = [b \in Buffers |-> NoTrajectory]
      /\ task' = [b \in Buffers |-> IF Stream THEN "run" ELSE "off"]
  BY DEF StartStep, runnerVars
<1>2. \A x \in Buffers : Holds(conf, rolAt'[x[1]], x[2], buf'[x])
  BY <1>1, BufferOf, HoldsNothing
<1>3. DOMAIN buf' = Buffers /\ (~Stream => \A x \in Buffers : task'[x] # "run")
  BY <1>1
<1>. QED  BY <1>1, <1>2, <1>3, RecordNext DEF RecordInv

\* New weights, and pieces that are taken.
LEMMA LedgerRecords ==
  ASSUME conf \in Configs, RecordInv, conf' = conf, rolAt' = rolAt, buf' = buf, task' = task,
         version' \in Nat, rolVersion' \in [Rollouts -> Nat],
         Stream => q' \in [Actors \cup {DefaultKey} -> Seq(Carried)]
  PROVE  RecordInv'
<1>1. \A x \in Buffers : Holds(conf, rolAt'[x[1]], x[2], buf'[x])
  BY DEF RecordInv
<1>2. DOMAIN buf' = Buffers /\ (~Stream => \A x \in Buffers : task'[x] # "run")
  BY DEF RecordInv
<1>. QED  BY <1>1, <1>2, RecordNext

LEMMA TakePieceRecords ==
  ASSUME conf \in Configs, RecordInv, NEW a \in Actors, TakePiece(a)
  PROVE  RecordInv'
<1>1. /\ conf' = conf /\ rolAt' = rolAt /\ buf' = buf /\ task' = task
      /\ version' = version /\ rolVersion' = rolVersion
      /\ q[KeyOf(a)] # <<>> /\ q' = [q EXCEPT ![KeyOf(a)] = Tail(@)]
  BY DEF TakePiece, runnerVars, weightVars, rolVars
<1>2. Stream => q' \in [Actors \cup {DefaultKey} -> Seq(Carried)]
  <2> SUFFICES ASSUME Stream PROVE q' \in [Actors \cup {DefaultKey} -> Seq(Carried)]
    OBVIOUS
  <2>1. q \in [Actors \cup {DefaultKey} -> Seq(Carried)]
    BY DEF RecordInv
  <2>2. KeyOf(a) \in Actors \cup {DefaultKey}
    BY DEF KeyOf
  <2>3. Tail(q[KeyOf(a)]) \in Seq(Carried)
    BY <1>1, <2>1, <2>2, HeadTailProperties
  <2>. QED  BY <1>1, <2>1, <2>3
<1>. QED  BY <1>1, <1>2, LedgerRecords DEF RecordInv

LEMMA WeightsRecords ==
  ASSUME conf \in Configs, RecordInv, TrainOnPolicy \/ Trained \/ (\E r \in Rollouts : LoadWeights(r))
  PROVE  RecordInv'
<1>0. version \in Nat /\ version + 1 \in Nat /\ rolVersion \in [Rollouts -> Nat]
  BY DEF RecordInv
<1>1. CASE TrainOnPolicy \/ Trained
  <2>1. /\ conf' = conf /\ rolAt' = rolAt /\ buf' = buf /\ task' = task /\ rolVersion' = rolVersion /\ q' = q
    BY <1>1 DEF TrainOnPolicy, Trained, weightVars, rolVars
  <2>2. version' \in Nat
    BY <1>0, <1>1 DEF TrainOnPolicy, Trained
  <2>. QED  BY <1>0, <2>1, <2>2, LedgerRecords DEF RecordInv
<1>2. ASSUME NEW r \in Rollouts, LoadWeights(r)
      PROVE  RecordInv'
  <2>1. /\ conf' = conf /\ rolAt' = rolAt /\ buf' = buf /\ task' = task /\ version' = version /\ q' = q
        /\ rolVersion' = [rolVersion EXCEPT ![r] = version]
    BY <1>2 DEF LoadWeights, runnerVars, rolVars
  <2>2. rolVersion' \in [Rollouts -> Nat]
    BY <1>0, <2>1
  <2>. QED  BY <1>0, <2>1, <2>2, LedgerRecords DEF RecordInv
<1>. QED  BY <1>1, <1>2

LEMMA InitRecords ==
  ASSUME Init
  PROVE  RecordInv
<1>1. /\ conf \in Configs /\ version = 0 /\ rolVersion = [r \in Rollouts |-> 0]
      /\ rolAt = [r \in Rollouts |-> Start] /\ buf = [b \in Buffers |-> NoTrajectory]
      /\ task = [b \in Buffers |-> "off"] /\ q = [k \in Actors \cup {DefaultKey} |-> <<>>]
  BY DEF Init
<1>2. \A x \in Buffers : Holds(conf, rolAt[x[1]], x[2], buf[x])
  BY <1>1, BufferOf, HoldsNothing
<1>3. <<>> \in Seq(Carried)
  OBVIOUS
<1>4. q \in [Actors \cup {DefaultKey} -> Seq(Carried)]
  BY <1>1, <1>3
<1>. QED  BY <1>1, <1>2, <1>4 DEF RecordInv

LEMMA NextRecords ==
  ASSUME IInv, RecordInv, [Next]_vars
  PROVE  RecordInv'
<1>0. conf \in Configs
  BY DEF IInv, TypeInv
<1>1. CASE Runner
  <2>1. CASE Collected \/ Loop \/ EvalStart \/ EvalEnd \/ StepEnd \/ Shutdown
    <3>1. UNCHANGED recordVars
      BY <2>1 DEF Collected, Loop, EvalStart, EvalEnd, StepEnd, Shutdown, runnerVars, weightVars, rolVars, recordVars
    <3>. QED  BY <1>0, <3>1, RecordsApart
  <2>. QED  BY <1>0, <1>1, <2>1, StartStepRecords, WeightsRecords DEF Runner
<1>2. ASSUME NEW e \in Envs, EnvWork(e) \/ EnvStop(e) \/ EnvEvalBegin(e)
      PROVE  RecordInv'
  <2>1. UNCHANGED recordVars
    BY <1>2 DEF EnvWork, EnvBegin, EnvYield, EnvStep, EnvEvalStep, EnvStop, EnvEvalBegin,
                runnerVars, weightVars, rolVars, recordVars
  <2>. QED  BY <1>0, <2>1, RecordsApart
<1>3. ASSUME NEW r \in Rollouts, RolloutWork(r) \/ RolloutStop(r)
      PROVE  RecordInv'
  <2>1. CASE RolloutEvalStep(r) \/ RolloutStop(r)
    <3>1. UNCHANGED recordVars
      BY <2>1 DEF RolloutEvalStep, RolloutStop, runnerVars, weightVars, rolVars, recordVars
    <3>. QED  BY <1>0, <3>1, RecordsApart
  <2>. QED  BY <1>0, <1>3, <2>1, RolloutStepRecords, WeightsRecords DEF RolloutWork
<1>4. ASSUME NEW b \in Buffers, BufferSend(b[1], b[2])
      PROVE  RecordInv'
  BY <1>4, BufferSendRecords
<1>5. ASSUME NEW a \in Actors, TakePiece(a) \/ Train(a)
      PROVE  RecordInv'
  <2>1. CASE Train(a)
    <3>1. UNCHANGED recordVars
      BY <2>1 DEF Train, Decide, Join, runnerVars, weightVars, rolVars, recordVars
    <3>. QED  BY <1>0, <3>1, RecordsApart
  <2>. QED  BY <1>0, <1>5, <2>1, TakePieceRecords
<1>6. CASE UNCHANGED vars
  <2>1. UNCHANGED recordVars
    BY <1>6 DEF vars, runnerVars, weightVars, rolVars, recordVars
  <2>. QED  BY <1>0, <2>1, RecordsApart
<1>. QED  BY <1>1, <1>2, <1>3, <1>4, <1>5, <1>6 DEF Next

-----------------------------------------------------------------------------
(***************************************************************************)
(* What RecordInv says of the trajectories.                                *)
(***************************************************************************)
\* At the end of a training step the lists are whole.
LEMMA Whole ==
  ASSUME conf \in Configs, NEW c \in Pos, c = EpochStart(NumEpochs), NEW i \in Nat, NEW b, Holds(conf, c, i, b),
         conf.kind # "stream", NEW epochs, epochs = (IF conf.kind = "sync" THEN NumEpochs ELSE 1),
         NEW base, base = (IF conf.kind = "sync" THEN 0 ELSE NumEpochs - 1)
  PROVE  /\ Len(b.inputs) = epochs * NumSteps /\ b.values = b.dones
         /\ b.dones = [n \in 1 .. epochs * (NumSteps + 1) |-> Observation(base * (NumSteps + 1) + n - 1)]
<1>1. PICK n \in Nat : n = conf.steps /\ n = NumSteps /\ n \in Positive /\ n + 1 \in Positive
  BY ConfFits DEF Positive, NumSteps
<1>2. PICK z \in Nat : z = NumEpochs /\ z > 0
  BY EmbodiedAssumption DEF Positive
<1>3. c.ep = z /\ Seen(c, i) = 0
  <2>1. c.ep = z /\ c.st = 0 /\ c.stage = 0
    BY <1>2, CursorPos
  <2>. QED  BY <2>1 DEF Seen
<1>4. PICK p \in Nat, h \in Nat : p = z * n /\ h = z * (n + 1)
  OBVIOUS
<1>5. /\ StepsDone(conf, c, i) = p /\ Answered(conf, c, i) = p /\ ObsSeen(conf, c, i) = h
  <2>1. Counts(conf, c, i, p, h, 0)
    BY <1>1, <1>3, <1>4, CountsAre
  <2>2. conf.steps = n /\ 0 <= n /\ p + 0 = p /\ h + 0 = h
    BY <1>1
  <2>. QED  BY <2>1, <2>2 DEF Counts
<1>6. PICK a \in Nat, o \in Nat : Begins(conf, c, i, a, o) /\ b = Lists(conf, a, p, p, o, h)
  BY <1>5 DEF Holds
<1>7. conf.kind \in {"sync", "async"}
  BY ConfFits
<1>8. PICK y \in Nat : y = base
  BY <1>2, <1>7
<1>9. PICK f \in Nat : f = epochs /\ z = y + f
  BY <1>2, <1>7, <1>8
<1>10. a = y * n /\ o = y * (n + 1) /\ a <= p /\ o <= h
  <2>1. CASE conf.kind = "sync"
    <3>1. y = 0 /\ a = 0 /\ o = 0
      BY <1>6, <1>8, <2>1 DEF Begins
    <3>. QED  BY <1>5, <1>6, <3>1
  <2>2. CASE conf.kind = "async"
    <3>1. BaseEpoch(c, i) = y
      BY <1>2, <1>3, <1>8, <2>2 DEF BaseEpoch
    <3>. QED  BY <1>1, <1>5, <1>6, <2>2, <3>1 DEF Begins
  <2>. QED  BY <1>7, <2>1, <2>2
<1>11. p - a = f * n /\ h - o = f * (n + 1)
  <2>1. (y + f) * n = y * n + f * n /\ (y + f) * (n + 1) = y * (n + 1) + f * (n + 1)
    OBVIOUS
  <2>2. f * n \in Nat /\ f * (n + 1) \in Nat
    OBVIOUS
  <2>. QED  BY <1>4, <1>9, <1>10, <2>1, <2>2
<1>12. /\ b.inputs = Tags(n, a, p) /\ b.dones = Tags(n + 1, o, h) /\ b.values = b.dones
  BY <1>1, <1>6 DEF Lists
<1>13. Len(b.inputs) = f * n
  <2>1. Len(Tags(n, a, p)) = p - a
    BY <1>1, <1>10, TagsPut
  <2>. QED  BY <1>11, <1>12, <2>1
<1>14. Tags(n + 1, o, h) = [k \in 1 .. f * (n + 1) |-> Observation(y * (n + 1) + k - 1)]
  <2>1. Tags(n + 1, o, h) = [k \in 1 .. f * (n + 1) |-> AllTags(n + 1)[o + k - 1]]
    BY <1>11 DEF Tags, Stretch
  <2>2. \A k \in 1 .. f * (n + 1) : AllTags(n + 1)[o + k - 1] = Observation(y * (n + 1) + k - 1)
    <3> SUFFICES ASSUME NEW k \in 1 .. f * (n + 1)
                 PROVE  AllTags(n + 1)[o + k - 1] = Observation(y * (n + 1) + k - 1)
      OBVIOUS
    <3>1. PICK j \in Nat : j = o + k - 1
      OBVIOUS
    <3>2. AllTags(n + 1)[j] = Tag(n + 1, j)
      BY <1>1, AllType
    <3>3. Observation(j) = Tag(n + 1, j)
      BY <1>1 DEF Observation, Tag
    <3>. QED  BY <1>10, <3>1, <3>2, <3>3
  <2>. QED  BY <2>1, <2>2
<1>. QED  BY <1>1, <1>8, <1>9, <1>12, <1>13, <1>14

LEMMA RecordsFit ==
  ASSUME IInv, RecordInv
  PROVE  TrajectoriesFit
<1>1. conf \in Configs /\ rolAt \in [Rollouts -> Pos]
  BY DEF IInv, TypeInv
<1>2. PICK n \in Nat : n = conf.steps /\ n = NumSteps /\ n \in Positive /\ n + 1 \in Positive
  BY <1>1, ConfFits DEF Positive, NumSteps
<1>3. ASSUME NEW x \in Buffers
      PROVE  /\ Len(buf[x].rewards) = Len(buf[x].inputs)
             /\ \A k \in DOMAIN buf[x].inputs :
                  /\ buf[x].rewards[k] = <<buf[x].inputs[k][1], buf[x].inputs[k][2] + 1>>
                  /\ buf[x].logprobs[k] = buf[x].inputs[k]
             /\ buf[x].transitions = IF conf.sac THEN buf[x].inputs ELSE <<>>
  <2>1. x[1] \in Rollouts /\ x[2] \in Nat
    BY <1>1, BufferOf
  <2>2. PICK c \in Pos : c = rolAt[x[1]]
    BY <1>1, <2>1
  <2>3. PICK d \in Nat, m \in Nat, k \in Nat :
          d = StepsDone(conf, c, x[2]) /\ m = Answered(conf, c, x[2]) /\ k = ObsSeen(conf, c, x[2])
    <3>1. PICK p \in Nat, h \in Nat, s \in Nat : Counts(conf, c, x[2], p, h, s)
      BY <1>2, <2>1, CountsAre
    <3>2. PICK e \in Nat : e = IF s = 0 THEN 0 ELSE s - 1
      OBVIOUS
    <3>3. PICK e1 \in Nat : e1 = IF s <= n THEN s ELSE n
      OBVIOUS
    <3>4. /\ StepsDone(conf, c, x[2]) = p + e /\ ObsSeen(conf, c, x[2]) = h + s
          /\ Answered(conf, c, x[2]) = IF conf.kind = "stream" THEN p + e ELSE p + e1
      BY <1>2, <3>1, <3>2, <3>3, Zenon DEF Counts
    <3>5. p + e \in Nat /\ p + e1 \in Nat /\ h + s \in Nat
      OBVIOUS
    <3>. QED  BY <3>4, <3>5, Zenon
  <2>4. PICK a \in Nat, o \in Nat : a <= d /\ d <= m /\ buf[x] = Lists(conf, a, d, m, o, k)
    <3>1. Holds(conf, c, x[2], buf[x])
      BY <2>2 DEF RecordInv
    <3>. QED  BY <2>3, <3>1 DEF Holds, Begins
  <2>5. /\ buf[x].inputs = Tags(n, a, d) /\ buf[x].rewards = Outcomes(n, a, d) /\ buf[x].logprobs = Tags(n, a, m)
        /\ buf[x].transitions = IF conf.sac THEN Tags(n, a, d) ELSE <<>>
    <3>1. PICK v, tr : /\ v = (IF conf.kind = "stream" THEN <<>> ELSE Tags(n + 1, o, k))
                       /\ tr = (IF conf.sac THEN Tags(n, a, d) ELSE <<>>)
      OBVIOUS
    <3>2. buf[x] = [logprobs |-> Tags(n, a, m), values |-> v, dones |-> Tags(n + 1, o, k),
                    rewards |-> Outcomes(n, a, d), inputs |-> Tags(n, a, d), transitions |-> tr]
      BY <1>2, <2>4, <3>1, Zenon DEF Lists
    <3>. QED  BY <3>1, <3>2
  <2>6. Len(Outcomes(n, a, d)) = Len(Tags(n, a, d)) /\ DOMAIN Tags(n, a, d) = 1 .. d - a
    <3>1. Len(Outcomes(n, a, d)) = d - a /\ Len(Tags(n, a, d)) = d - a
      <4>1. a <= d
        BY <2>4, Zenon
      <4>2. Len(Outcomes(n, a, d)) = d - a
        BY <1>2, <4>1, OutcomesPut
      <4>3. Len(Tags(n, a, d)) = d - a
        BY <1>2, <4>1, TagsPut
      <4>. QED  BY <4>2, <4>3, Zenon
    <3>2. DOMAIN Tags(n, a, d) = 1 .. d - a
      BY DEF Tags, Stretch
    <3>. QED  BY <3>1, <3>2
  <2>7. ASSUME NEW k1 \in 1 .. d - a
        PROVE  /\ Outcomes(n, a, d)[k1] = <<Tags(n, a, d)[k1][1], Tags(n, a, d)[k1][2] + 1>>
               /\ Tags(n, a, m)[k1] = Tags(n, a, d)[k1]
    <3>1. PICK j \in Nat : j = a + k1 - 1
      OBVIOUS
    <3>2. k1 \in 1 .. m - a
      BY <2>4
    <3>3. Tags(n, a, d)[k1] = AllTags(n)[j] /\ Tags(n, a, m)[k1] = AllTags(n)[j] /\ Outcomes(n, a, d)[k1] = AllOutcomes(n)[j]
      BY <3>1, <3>2 DEF Tags, Outcomes, Stretch
    <3>4. AllTags(n)[j] = Tag(n, j) /\ AllOutcomes(n)[j] = <<Tag(n, j)[1], Tag(n, j)[2] + 1>>
      BY <1>2, AllType
    <3>. QED  BY <3>3, <3>4, Zenon
  <2>. QED  BY <2>5, <2>6, <2>7, Zenon
<1>4. ASSUME NEW x \in Buffers, ~Stream, rolPc[x[1]] = "idle", pc = "train",
             NEW epochs, epochs = (IF conf.kind = "sync" THEN NumEpochs ELSE 1),
             NEW base, base = (IF conf.kind = "sync" THEN 0 ELSE NumEpochs - 1)
      PROVE  /\ Len(buf[x].inputs) = epochs * NumSteps /\ buf[x].values = buf[x].dones
             /\ buf[x].dones = [l \in 1 .. epochs * (NumSteps + 1) |-> Observation(base * (NumSteps + 1) + l - 1)]
  <2>1. x[1] \in Rollouts /\ x[2] \in Nat
    BY <1>1, BufferOf
  <2>2. RolPlace(x[1])
    BY <1>4, <2>1 DEF IInv, TrainInv
  <2>3. rolAt[x[1]] = EpochStart(NumEpochs) /\ rolAt[x[1]] \in Pos
    BY <1>1, <1>4, <2>1, <2>2 DEF RolPlace
  <2>4. Holds(conf, rolAt[x[1]], x[2], buf[x])
    BY DEF RecordInv
  <2>5. conf.kind # "stream"
    BY <1>4 DEF Stream
  <2>. QED  BY <1>1, <1>4, <2>1, <2>3, <2>4, <2>5, Whole
<1>5. ASSUME Stream, NEW k \in DOMAIN q, NEW j \in DOMAIN q[k]
      PROVE  q[k][j].done = Observation(q[k][j].at[1] * NumSteps + q[k][j].at[2])
  <2>1. q[k] \in Seq(Carried)
    BY <1>5 DEF RecordInv
  <2>2. q[k][j] \in Carried
    BY <2>1
  <2>. QED  BY <2>2 DEF Carried, Observation, Tag
<1>6. PICK epochs, base : /\ epochs = (IF conf.kind = "sync" THEN NumEpochs ELSE 1)
                          /\ base = (IF conf.kind = "sync" THEN 0 ELSE NumEpochs - 1)
  OBVIOUS
<1>7. ASSUME NEW x \in Buffers, ~Stream, rolPc[x[1]] = "idle", pc = "train"
      PROVE  /\ Len(buf[x].inputs) = epochs * NumSteps /\ buf[x].values = buf[x].dones
             /\ buf[x].dones = [l \in 1 .. epochs * (NumSteps + 1) |-> Observation(base * (NumSteps + 1) + l - 1)]
  BY <1>4, <1>6, <1>7
<1>. QED  BY <1>3, <1>5, <1>6, <1>7, Zenon DEF TrajectoriesFit

\* The lists of a trajectory, which grow at different places of generate(), stay
\* side by side: a reward beside the action it is for, and a whole trajectory
\* with one observation more than actions in each epoch; a stream's record leaves
\* its buffer with the flag of its own observation in the first epoch, and in
\* epoch ep with that of the observation ep before it (EmbodiedRolloutResult,
\* AsyncEmbodiedRolloutBuffer.send_data).
THEOREM ListsStaySideBySide == Spec => []TrajectoriesFit
<1>1. Init => IInv /\ RecordInv
  BY InitInv, InitRecords
<1>2. IInv /\ RecordInv /\ [Next]_vars => IInv' /\ RecordInv'
  BY NextInv, NextRecords
<1>3. IInv /\ RecordInv => TrajectoriesFit
  BY RecordsFit
<1>. QED  BY <1>1, <1>2, <1>3, PTL DEF Spec

-----------------------------------------------------------------------------
(***************************************************************************)
(* The pieces.  They lie in piles: the queues, and for each actor what it  *)
(* has taken.  StockInv says which pieces there are and that each lies in  *)
(* one place.  A stream has sent the steps of a stage up to the first one  *)
(* that is still in its buffer, each in all its parts.  In the other       *)
(* programs what is queued and what the actors have got in this training   *)
(* step are the trajectories of the epochs that are over (Current), made   *)
(* with this step's weights; all else is of earlier steps.                 *)
(***************************************************************************)
Keys   == Actors \cup {DefaultKey}
Places == 1 .. 2 * conf.actors + 1

\* The queues and what the actors have in their hands.
Piles(queues, hands) ==
  [n \in Places |-> IF n <= conf.actors + 1 THEN queues[n - 2] ELSE hands[n - conf.actors - 2]]
AllTaken == [a \in Actors |-> Taken(a)]
Stock    == Piles(q, AllTaken)
OfStep   == Piles(q, got)

In(F)     == UNION {ToSet(F[n]) : n \in DOMAIN F}
Spread(F) ==
  /\ \A n \in DOMAIN F : F[n] \in Seq(PieceSet) /\ IsInjective(F[n])
  /\ \A n, m \in DOMAIN F : n # m => ToSet(F[n]) \cap ToSet(F[m]) = {}

\* The trajectories a rollout worker has sent in this training step.
Shipped(r, ep) == ep < rolAt[r].ep /\ (conf.kind = "sync" => ep = NumEpochs - 1)
Shares  == {t \in Buffers \X ((0 .. SplitNum - 1) \X (0 .. NumEpochs - 1)) : Shipped(t[1][1], t[2][2])}
Made(t) == [round |-> it, rank |-> t[1][1], stage |-> t[1][2], k |-> t[2][1], at |-> <<t[2][2], 0>>,
            done |-> <<t[2][2], 0>>, version |-> version]
Current == {Made(t) : t \in Shares}

StepInv ==
  IF pc \in {"collect", "train"}
  THEN /\ Spread(OfStep) /\ In(OfStep) = Current
       /\ \A p \in In(Stock) : p \in In(OfStep) \/ p.round < it
  ELSE /\ \A k \in Keys : q[k] = <<>>
       /\ \A p \in In(Stock) : p.round < it

\* What a stream's buffer has sent.
Left(x) == StepsDone(conf, rolAt[x[1]], x[2]) - Len(buf[x].inputs)
Of(x)   == {p \in In(Stock) : p.rank = x[1] /\ p.stage = x[2]}
SentAs(pieces, left, n, steps) ==
  /\ left \in Nat
  /\ \A p \in pieces : p.k \in 0 .. n - 1 /\ \E m \in 0 .. left - 1 : p.at = Tag(steps, m)
  /\ \A m \in 0 .. left - 1, k \in 0 .. n - 1 : \E p \in pieces : p.at = Tag(steps, m) /\ p.k = k
  /\ \A p, s \in pieces : p.at = s.at /\ p.k = s.k => p = s
SentInv(x) == SentAs(Of(x), Left(x), SplitNum, NumSteps)
StreamInv ==
  IF pc = "load" THEN In(Stock) = {} /\ \A x \in Buffers : task[x] # "run"
  ELSE \A x \in Buffers : SentInv(x)

\* Who has which weights.
Calm == {"collect", "train", "eval", "waitEnv", "done", "loop", "stopEnv", "stopRollout"}
WeightInv ==
  /\ pc \in Calm \cup {"load", "reload", "evalLoad"}
  /\ loaded \subseteq Rollouts /\ \A r \in loaded : rolVersion[r] = version
  /\ pc \in Calm => loaded = {}
  /\ ~Stream /\ pc \in {"collect", "train"} => \A r \in Rollouts : rolVersion[r] = version

HandsInv(a) ==
  /\ got[a] \in Seq(PieceSet) /\ added[a] \in Seq(PieceSet)
  /\ acPc[a] \in {"idle", "collect", "have"}
  /\ acPc[a] = "idle" => pc = "load" /\ got[a] = <<>>
  /\ acPc[a] = "collect" => Len(got[a]) < Need(a) /\ (IF Stream THEN pc # "load" ELSE pc = "collect")
  /\ acPc[a] = "have" => Len(got[a]) = Need(a) /\ ~Stream
  /\ pc = "train" /\ ~Stream => acPc[a] = "have"

RingInv(a) ==
  /\ HoldsLatest(a)
  /\ ring[a].pos \in 0 .. conf.capacity - 1 /\ DOMAIN ring[a].slots = 0 .. conf.capacity - 1

StockInv ==
  /\ q \in [Keys -> Seq(PieceSet)] /\ got \in [Actors -> Seq(PieceSet)] /\ added \in [Actors -> Seq(PieceSet)]
  /\ DOMAIN acPc = Actors /\ DOMAIN ring = Actors
  /\ WeightInv
  /\ \A a \in Actors : HandsInv(a) /\ RingInv(a)
  /\ Spread(Stock)
  /\ IF Stream THEN StreamInv ELSE StepInv

-----------------------------------------------------------------------------
\* The first of a sequence without repetition leaves it.
LEMMA TailOf ==
  ASSUME NEW S, NEW s \in Seq(S), s # <<>>, IsInjective(s)
  PROVE  /\ Head(s) \in S /\ Tail(s) \in Seq(S) /\ IsInjective(Tail(s))
         /\ ToSet(Tail(s)) = ToSet(s) \ {Head(s)} /\ Head(s) \in ToSet(s)
<1>1. PICK n \in Nat : n = Len(s) /\ DOMAIN s = 1 .. n /\ n # 0
  BY EmptySeq
<1>2. PICK t : t = Tail(s)
  OBVIOUS
<1>3. /\ t \in Seq(S) /\ DOMAIN t = 1 .. n - 1 /\ Head(s) \in S /\ Head(s) = s[1]
      /\ \A i \in 1 .. n - 1 : t[i] = s[i + 1]
  BY <1>1, <1>2
<1>4. \A i, j \in 1 .. n : s[i] = s[j] => i = j
  BY <1>1 DEF IsInjective
<1>5. IsInjective(t)
  <2> SUFFICES ASSUME NEW i \in 1 .. n - 1, NEW j \in 1 .. n - 1, t[i] = t[j] PROVE i = j
    BY <1>3 DEF IsInjective
  <2>1. i + 1 \in 1 .. n /\ j + 1 \in 1 .. n
    BY <1>1
  <2>2. s[i + 1] = s[j + 1]
    BY <1>3, Zenon
  <2>3. i + 1 = j + 1
    BY <1>4, <2>1, <2>2, Zenon
  <2>. QED  BY <2>3
<1>6. ToSet(s) = {s[i] : i \in 1 .. n} /\ ToSet(t) = {t[i] : i \in 1 .. n - 1}
  BY <1>1, <1>3 DEF ToSet
<1>7. ToSet(t) = ToSet(s) \ {s[1]}
  <2>1. ASSUME NEW i \in 1 .. n - 1 PROVE t[i] \in ToSet(s) /\ t[i] # s[1]
    <3>1. i + 1 \in 1 .. n /\ 1 \in 1 .. n /\ i + 1 # 1
      BY <1>1
    <3>. QED  BY <1>3, <1>4, <1>6, <3>1
  <2>2. ASSUME NEW i \in 1 .. n, s[i] # s[1] PROVE s[i] \in ToSet(t)
    <3>1. i - 1 \in 1 .. n - 1 /\ (i - 1) + 1 = i
      BY <1>1, <2>2
    <3>. QED  BY <1>3, <1>6, <3>1
  <2>. QED  BY <1>6, <2>1, <2>2
<1>8. s[1] \in ToSet(s)
  BY <1>1, <1>6
<1>. QED  BY <1>2, <1>3, <1>5, <1>7, <1>8

\* The first of one pile goes to the end of another one.
LEMMA FirstGoesOver ==
  ASSUME NEW F, Spread(F), NEW x \in DOMAIN F, NEW y \in DOMAIN F, x # y, F[x] # <<>>,
         NEW G, DOMAIN G = DOMAIN F, G[x] = Tail(F[x]), G[y] = Append(F[y], Head(F[x])),
         \A n \in DOMAIN F \ {x, y} : G[n] = F[n]
  PROVE  Spread(G) /\ In(G) = In(F)
<1>1. F[x] \in Seq(PieceSet) /\ IsInjective(F[x]) /\ F[y] \in Seq(PieceSet) /\ IsInjective(F[y])
  BY DEF Spread
<1>2. PICK p : p = Head(F[x])
  OBVIOUS
<1>3. /\ p \in PieceSet /\ Tail(F[x]) \in Seq(PieceSet) /\ IsInjective(Tail(F[x]))
      /\ ToSet(Tail(F[x])) = ToSet(F[x]) \ {p} /\ p \in ToSet(F[x])
  BY <1>1, <1>2, TailOf
<1>4. p \notin ToSet(F[y])
  BY <1>3 DEF Spread
<1>5. /\ G[y] \in Seq(PieceSet) /\ IsInjective(G[y]) /\ ToSet(G[y]) = ToSet(F[y]) \cup {p}
  BY <1>1, <1>2, <1>3, <1>4, Appended
<1>6. /\ G[x] \in Seq(PieceSet) /\ IsInjective(G[x]) /\ ToSet(G[x]) = ToSet(F[x]) \ {p}
  BY <1>3
<1>7. \A n \in DOMAIN G : ToSet(G[n]) = IF n = x THEN ToSet(F[x]) \ {p} ELSE IF n = y THEN ToSet(F[y]) \cup {p}
                                         ELSE ToSet(F[n])
  BY <1>5, <1>6
<1>8. \A n \in DOMAIN G : G[n] \in Seq(PieceSet) /\ IsInjective(G[n])
  BY <1>5, <1>6 DEF Spread
<1>9. ASSUME NEW n \in DOMAIN G, NEW m \in DOMAIN G, n # m PROVE ToSet(G[n]) \cap ToSet(G[m]) = {}
  <2>1. ToSet(F[n]) \cap ToSet(F[m]) = {} /\ (n # x => p \notin ToSet(F[n])) /\ (m # x => p \notin ToSet(F[m]))
    BY <1>3, <1>9 DEF Spread
  <2>. QED  BY <1>7, <1>9, <2>1
<1>10. In(G) = In(F)
  <2>1. \A e : (\E n \in DOMAIN G : e \in ToSet(G[n])) <=> (\E n \in DOMAIN F : e \in ToSet(F[n]))
    BY <1>3, <1>7
  <2>. QED  BY <2>1 DEF In
<1>. QED  BY <1>8, <1>9, <1>10 DEF Spread

\* New pieces are added to the piles, each to one.
GrowsBy(F, V, G) ==
  /\ DOMAIN V = DOMAIN F /\ In(F) \cap In(V) = {}
  /\ DOMAIN G = DOMAIN F /\ \A n \in DOMAIN F : G[n] = F[n] \o V[n]
LEMMA PilesGrow ==
  ASSUME NEW F, Spread(F), NEW V, Spread(V), NEW G, GrowsBy(F, V, G)
  PROVE  Spread(G) /\ In(G) = In(F) \cup In(V)
<1>0. /\ DOMAIN V = DOMAIN F /\ In(F) \cap In(V) = {}
      /\ DOMAIN G = DOMAIN F /\ \A n \in DOMAIN F : G[n] = F[n] \o V[n]
  BY DEF GrowsBy
<1>1. ASSUME NEW n \in DOMAIN F
      PROVE  G[n] \in Seq(PieceSet) /\ IsInjective(G[n]) /\ ToSet(G[n]) = ToSet(F[n]) \cup ToSet(V[n])
  <2>1. F[n] \in Seq(PieceSet) /\ IsInjective(F[n]) /\ V[n] \in Seq(PieceSet) /\ IsInjective(V[n])
    BY <1>0 DEF Spread
  <2>2. \A e \in ToSet(F[n]) : e \notin ToSet(V[n])
    BY <1>0 DEF In
  <2>3. PICK s \in Seq(PieceSet), t \in Seq(PieceSet) : s = F[n] /\ t = V[n]
    BY <2>1
  <2>4. s \o t \in Seq(PieceSet) /\ IsInjective(s \o t) /\ ToSet(s \o t) = ToSet(s) \cup ToSet(t)
    BY <2>1, <2>2, <2>3, Joined
  <2>5. G[n] = s \o t
    BY <1>0, <2>3
  <2>. QED  BY <2>3, <2>4, <2>5, Zenon
<1>2. ASSUME NEW n \in DOMAIN G, NEW m \in DOMAIN G, n # m PROVE ToSet(G[n]) \cap ToSet(G[m]) = {}
  <2>1. ToSet(F[n]) \cap ToSet(F[m]) = {} /\ ToSet(V[n]) \cap ToSet(V[m]) = {}
    BY <1>0, <1>2 DEF Spread
  <2>2. ToSet(F[n]) \cap ToSet(V[m]) = {} /\ ToSet(F[m]) \cap ToSet(V[n]) = {}
    BY <1>0 DEF In
  <2>. QED  BY <1>0, <1>1, <2>1, <2>2
<1>3. In(G) = In(F) \cup In(V)
  <2>1. \A e : (\E n \in DOMAIN G : e \in ToSet(G[n]))
             <=> (\E n \in DOMAIN F : e \in ToSet(F[n])) \/ (\E n \in DOMAIN V : e \in ToSet(V[n]))
    BY <1>0, <1>1
  <2>. QED  BY <2>1 DEF In
<1>. QED  BY <1>0, <1>1, <1>2, <1>3 DEF Spread

\* The places of the queues and of the actors.
LEMMA PlacesAre ==
  ASSUME conf \in Configs
  PROVE  /\ conf.actors \in Nat \ {0}
         /\ \A k \in Keys : k \in Int /\ k + 2 \in Places /\ k + 2 <= conf.actors + 1 /\ (k + 2) - 2 = k
         /\ \A a \in Actors : /\ a + conf.actors + 2 \in Places /\ ~(a + conf.actors + 2 <= conf.actors + 1)
                              /\ (a + conf.actors + 2) - conf.actors - 2 = a
         /\ \A n \in Places : IF n <= conf.actors + 1 THEN n - 2 \in Keys /\ n = (n - 2) + 2
                               ELSE n - conf.actors - 2 \in Actors /\ n = (n - conf.actors - 2) + conf.actors + 2
         /\ \A a \in Actors : KeyOf(a) \in Keys
<1>1. conf \in Config
  BY EmbodiedAssumption
<1>2. conf.actors \in Nat \ {0}
  BY <1>1 DEF Config, Positive
<1>3. PICK n \in Nat \ {0} : n = conf.actors
  BY <1>2
<1>4. Keys = (0 .. n - 1) \cup {-1} /\ Actors = 0 .. n - 1 /\ Places = 1 .. 2 * n + 1
  BY <1>3 DEF Keys, Actors, Places, DefaultKey
<1>5. \A a \in Actors : KeyOf(a) \in Keys
  BY DEF KeyOf, Keys
<1>6. ASSUME NEW k \in Keys
      PROVE  k \in Int /\ k + 2 \in Places /\ k + 2 <= n + 1 /\ (k + 2) - 2 = k
  BY <1>4
<1>7. ASSUME NEW a \in Actors
      PROVE  a + n + 2 \in Places /\ ~(a + n + 2 <= n + 1) /\ (a + n + 2) - n - 2 = a
  BY <1>4
<1>8. ASSUME NEW m \in Places
      PROVE  IF m <= n + 1 THEN m - 2 \in Keys /\ m = (m - 2) + 2
             ELSE m - n - 2 \in Actors /\ m = (m - n - 2) + n + 2
  BY <1>4
<1>. QED  BY <1>3, <1>5, <1>6, <1>7, <1>8, Zenon

LEMMA PileOf ==
  ASSUME conf \in Configs, NEW u, NEW h
  PROVE  /\ DOMAIN Piles(u, h) = Places
         /\ \A k \in Keys : Piles(u, h)[k + 2] = u[k]
         /\ \A a \in Actors : Piles(u, h)[a + conf.actors + 2] = h[a]
BY PlacesAre DEF Piles

\* All pieces are in a queue or in someone's hands.
LEMMA InPiles ==
  ASSUME conf \in Configs, NEW u, NEW h, NEW p
  PROVE  p \in In(Piles(u, h)) <=> (\E k \in Keys : p \in ToSet(u[k])) \/ (\E a \in Actors : p \in ToSet(h[a]))
<1>1. p \in In(Piles(u, h)) <=> \E n \in Places : p \in ToSet(Piles(u, h)[n])
  BY PileOf DEF In
<1>2. ASSUME NEW n \in Places, p \in ToSet(Piles(u, h)[n])
      PROVE  (\E k \in Keys : p \in ToSet(u[k])) \/ (\E a \in Actors : p \in ToSet(h[a]))
  <2>1. CASE n <= conf.actors + 1
    BY <1>2, <2>1, PlacesAre, PileOf
  <2>2. CASE ~(n <= conf.actors + 1)
    BY <1>2, <2>2, PlacesAre, PileOf
  <2>. QED  BY <2>1, <2>2
<1>3. ASSUME NEW k \in Keys, p \in ToSet(u[k]) PROVE \E n \in Places : p \in ToSet(Piles(u, h)[n])
  BY <1>3, PlacesAre, PileOf
<1>4. ASSUME NEW a \in Actors, p \in ToSet(h[a]) PROVE \E n \in Places : p \in ToSet(Piles(u, h)[n])
  BY <1>4, PlacesAre, PileOf
<1>. QED  BY <1>1, <1>2, <1>3, <1>4

\* An actor takes the first piece of its queue.
GoesOver(a, u, h, v, g) ==
  /\ DOMAIN u = Keys /\ DOMAIN h = Actors /\ DOMAIN g = Actors
  /\ u[KeyOf(a)] # <<>> /\ v = [u EXCEPT ![KeyOf(a)] = Tail(@)]
  /\ g[a] = Append(h[a], Head(u[KeyOf(a)])) /\ \A b \in Actors \ {a} : g[b] = h[b]
LEMMA PieceTaken ==
  ASSUME conf \in Configs, NEW a \in Actors, NEW u, NEW h, NEW v, NEW g, Spread(Piles(u, h)), GoesOver(a, u, h, v, g)
  PROVE  Spread(Piles(v, g)) /\ In(Piles(v, g)) = In(Piles(u, h))
<1>0. /\ DOMAIN u = Keys /\ DOMAIN h = Actors /\ DOMAIN g = Actors
      /\ u[KeyOf(a)] # <<>> /\ v = [u EXCEPT ![KeyOf(a)] = Tail(@)]
      /\ g[a] = Append(h[a], Head(u[KeyOf(a)])) /\ \A b \in Actors \ {a} : g[b] = h[b]
  BY DEF GoesOver
<1> DEFINE F == Piles(u, h)
           G == Piles(v, g)
<1>1. PICK k \in Keys : k = KeyOf(a)
  BY PlacesAre
<1>2. PICK x \in Places, y \in Places : x = k + 2 /\ y = a + conf.actors + 2 /\ x # y
  <2>1. k + 2 \in Places /\ a + conf.actors + 2 \in Places /\ k + 2 # a + conf.actors + 2
    BY PlacesAre
  <2>. QED  BY <2>1, Zenon
<1>3. F[x] = u[k] /\ F[y] = h[a] /\ G[x] = v[k] /\ G[y] = g[a]
  <2>1. ASSUME NEW w, NEW d
        PROVE  Piles(w, d)[k + 2] = w[k] /\ Piles(w, d)[a + conf.actors + 2] = d[a]
    BY PileOf
  <2>. QED  BY <1>2, <2>1, Zenon
<1>4. DOMAIN F = Places /\ DOMAIN G = Places
  BY PileOf
<1>5. v[k] = Tail(u[k]) /\ \A j \in Keys \ {k} : v[j] = u[j]
  BY <1>0, <1>1
<1>6. ASSUME NEW n \in Places \ {x, y} PROVE G[n] = F[n]
  <2>1. CASE n <= conf.actors + 1
    <3>1. n - 2 \in Keys \ {k}
      BY <1>2, <2>1, PlacesAre
    <3>. QED  BY <1>0, <1>5, <2>1, <3>1 DEF Piles
  <2>2. CASE ~(n <= conf.actors + 1)
    <3>1. n - conf.actors - 2 \in Actors \ {a}
      BY <1>2, <2>2, PlacesAre
    <3>. QED  BY <1>0, <2>2, <3>1 DEF Piles
  <2>. QED  BY <2>1, <2>2
<1> HIDE DEF F, G
<1>7. Spread(F)
  BY DEF F
<1>8. G[x] = Tail(F[x]) /\ G[y] = Append(F[y], Head(F[x])) /\ F[x] # <<>>
  BY <1>0, <1>1, <1>3, <1>5
<1>9. Spread(G) /\ In(G) = In(F)
  <2>1. x \in DOMAIN F /\ y \in DOMAIN F /\ DOMAIN G = DOMAIN F /\ x # y /\ \A n \in DOMAIN F \ {x, y} : G[n] = F[n]
    BY <1>2, <1>4, <1>6
  <2>. QED  BY <1>7, <1>8, <2>1, FirstGoesOver
<1>. QED  BY <1>9 DEF F, G

-----------------------------------------------------------------------------
(***************************************************************************)
(* Counting.  The actors together count on as many pieces as are made.     *)
(***************************************************************************)
\* What an actor waits for: as much as every other, together all that is made.
LEMMA NeedIs ==
  ASSUME conf \in Configs
  PROVE  \E m \in Nat \ {0} :
           /\ conf.rollouts * conf.stages * SplitNum = conf.actors * m
           /\ \A a \in Actors : Need(a) = IF conf.kind = "async" THEN NumEpochs * m ELSE m
           /\ conf.sac => m < conf.capacity
<1>1. PICK n \in Nat \ {0}, r \in Nat \ {0}, s \in Nat \ {0} : n = conf.actors /\ r = conf.rollouts /\ s = conf.stages
  <2>1. conf \in Config
    BY EmbodiedAssumption
  <2>. QED  BY <2>1 DEF Config, Positive
<1>2. PICK b \in Nat \ {0} : b = conf.rollouts * conf.stages
  <2>1. r * s \in Nat \ {0}
    OBVIOUS
  <2>. QED  BY <1>1, <2>1
<1>3. PICK l \in Nat \ {0} : l = Lcm(n, b) /\ l = Lcm(b, n) /\ l % n = 0 /\ l % b = 0
  <2>1. Lcm(n, b) \in Nat \ {0} /\ Lcm(n, b) % n = 0 /\ Lcm(n, b) % b = 0
    BY LeastMultiple DEF Lcm
  <2>2. {x \in 1 .. n * b : x % n = 0 /\ x % b = 0} = {x \in 1 .. b * n : x % b = 0 /\ x % n = 0}
    <3>1. n * b = b * n
      OBVIOUS
    <3>. QED  BY <3>1
  <2>3. Lcm(n, b) = Lcm(b, n)
    BY <2>2 DEF Lcm
  <2>. QED  BY <2>1, <2>3
<1>4. PICK m \in Nat \ {0} : m = l \div n /\ l = n * m
  <2>1. PICK d \in Nat : d = l \div n /\ l = d * n
    BY <1>3, Divides
  <2>2. d # 0 /\ d * n = n * d
    BY <2>1
  <2>. QED  BY <2>1, <2>2
<1>5. PICK k \in Nat \ {0} : k = l \div b /\ l = b * k
  <2>1. PICK d \in Nat : d = l \div b /\ l = d * b
    BY <1>3, Divides
  <2>2. d # 0 /\ d * b = b * d
    BY <2>1
  <2>. QED  BY <2>1, <2>2
<1>6. SplitNum = k
  BY <1>1, <1>2, <1>3, <1>5 DEF SplitNum, ComputeSplitNum
<1>7. Total = l
  BY <1>2, <1>5, <1>6 DEF Total
<1>8. ComputeSplitNum(conf.rollouts * conf.stages, conf.actors) = m
  BY <1>1, <1>2, <1>3, <1>4 DEF ComputeSplitNum
<1>9. ASSUME NEW a \in Actors PROVE Need(a) = IF conf.kind = "async" THEN NumEpochs * m ELSE m
  <2>1. a \in Nat /\ ~(a < 0)
    BY <1>1, <1>9 DEF Actors
  <2>2. MessagesPerEpoch(a) = m
    BY <1>1, <1>3, <1>4, <1>7, <2>1 DEF MessagesPerEpoch
  <2>. QED  BY <1>8, <2>2 DEF Need
<1>10. conf.sac => m < conf.capacity
  <2>1. conf.capacity \in Nat /\ (conf.sac => conf.capacity > ComputeSplitNum(conf.rollouts * conf.stages, conf.actors))
    <3>1. conf \in Config
      BY EmbodiedAssumption
    <3>. QED  BY <3>1, EmbodiedAssumption DEF Config, Positive
  <2>. QED  BY <1>8, <2>1
<1>11. conf.rollouts * conf.stages * SplitNum = conf.actors * m
  BY <1>1, <1>2, <1>4, <1>5, <1>6
<1>. QED  BY <1>9, <1>10, <1>11

\* An interval from 0 or 1 has as many members as its length says.
LEMMA Interval ==
  ASSUME NEW n \in Nat
  PROVE  /\ IsFiniteSet(0 .. n - 1) /\ Cardinality(0 .. n - 1) = n
         /\ IsFiniteSet(1 .. n) /\ Cardinality(1 .. n) = n
<1>1. 0 \in Int /\ 1 \in Int /\ n \in Int /\ n - 1 \in Int
      /\ (IF 0 > n - 1 THEN 0 ELSE n - 1 - 0 + 1) = n /\ (IF 1 > n THEN 0 ELSE n - 1 + 1) = n
  OBVIOUS
<1>. QED  BY <1>1, FS_Interval, Zenon

\* The actors have as many of the pieces as there are: nothing is left in a queue.
LEMMA NothingQueued ==
  ASSUME conf \in Configs, NEW u, NEW h, Spread(Piles(u, h)), u \in [Keys -> Seq(PieceSet)], h \in [Actors -> Seq(PieceSet)],
         NEW n \in Nat, n = conf.actors, NEW m \in Nat, \A a \in Actors : Len(h[a]) = m,
         NEW C, In(Piles(u, h)) = C, IsFiniteSet(C), Cardinality(C) = n * m
  PROVE  /\ \A k \in Keys : u[k] = <<>>
         /\ C = UNION {ToSet(h[a]) : a \in Actors}
<1> DEFINE D == Actors \X (1 .. m)
           T == UNION {ToSet(h[a]) : a \in Actors}
           f == [x \in D |-> h[x[1]][x[2]]]
<1>1. IsFiniteSet(D) /\ Cardinality(D) = n * m
  <2>1. IsFiniteSet(Actors) /\ Cardinality(Actors) = n
    BY Interval DEF Actors
  <2>2. IsFiniteSet(1 .. m) /\ Cardinality(1 .. m) = m
    BY Interval
  <2>3. IsFiniteSet(D) /\ Cardinality(D) = Cardinality(Actors) * Cardinality(1 .. m)
    BY <2>1, <2>2, FS_Product, Zenon
  <2>. QED  BY <2>1, <2>2, <2>3, Zenon
<1>2. ASSUME NEW a \in Actors
      PROVE  DOMAIN h[a] = 1 .. m /\ ToSet(h[a]) = {h[a][i] : i \in 1 .. m} /\ IsInjective(h[a])
  <2>1. h[a] \in Seq(PieceSet) /\ Len(h[a]) = m
    OBVIOUS
  <2>2. IsInjective(h[a])
    <3>1. IsInjective(Piles(u, h)[a + conf.actors + 2]) /\ Piles(u, h)[a + conf.actors + 2] = h[a]
      BY PlacesAre, PileOf DEF Spread
    <3>. QED  BY <3>1
  <2>3. PICK s \in Seq(PieceSet) : s = h[a] /\ Len(s) = m
    BY <2>1
  <2>4. DOMAIN s = 1 .. m
    BY <2>3
  <2>5. ToSet(s) = {s[i] : i \in 1 .. m}
    BY <2>4 DEF ToSet
  <2>. QED  BY <2>2, <2>3, <2>4, <2>5, Zenon
<1>3. ASSUME NEW a \in Actors, NEW b \in Actors, a # b
      PROVE  ToSet(h[a]) \cap ToSet(h[b]) = {}
  <2>1. PICK x \in Places, y \in Places : x = a + conf.actors + 2 /\ y = b + conf.actors + 2 /\ x # y
    <3>1. a + conf.actors + 2 \in Places /\ b + conf.actors + 2 \in Places
      BY PlacesAre
    <3>2. a + conf.actors + 2 # b + conf.actors + 2
      BY <1>3, PlacesAre
    <3>. QED  BY <3>1, <3>2
  <2>2. Piles(u, h)[x] = h[a] /\ Piles(u, h)[y] = h[b] /\ DOMAIN Piles(u, h) = Places
    BY <2>1, PileOf
  <2>. QED  BY <2>1, <2>2 DEF Spread
<1>4. f \in [D -> T]
  <2> SUFFICES ASSUME NEW x \in D PROVE h[x[1]][x[2]] \in T
    OBVIOUS
  <2>1. x[1] \in Actors /\ x[2] \in 1 .. m
    OBVIOUS
  <2>. QED  BY <1>2, <2>1
<1>5. ASSUME NEW x \in D, NEW y \in D, f[x] = f[y]
      PROVE  x = y
  <2>1. /\ x[1] \in Actors /\ x[2] \in 1 .. m /\ x = <<x[1], x[2]>> /\ y[1] \in Actors /\ y[2] \in 1 .. m
        /\ y = <<y[1], y[2]>>
    OBVIOUS
  <2>2. h[x[1]][x[2]] = h[y[1]][y[2]]
    BY <1>5
  <2>3. h[x[1]][x[2]] \in ToSet(h[x[1]]) /\ h[y[1]][y[2]] \in ToSet(h[y[1]])
    BY <1>2, <2>1
  <2>4. x[1] = y[1]
    BY <1>3, <2>1, <2>2, <2>3
  <2>5. x[2] = y[2]
    BY <1>2, <2>1, <2>2, <2>4 DEF IsInjective
  <2>. QED  BY <2>1, <2>4, <2>5
<1>6. ASSUME NEW t \in T
      PROVE  \E x \in D : f[x] = t
  <2>1. PICK a \in Actors : t \in ToSet(h[a])
    OBVIOUS
  <2>2. PICK i \in 1 .. m : t = h[a][i]
    BY <1>2, <2>1
  <2>3. <<a, i>> \in D /\ f[<<a, i>>] = t
    BY <2>2
  <2>. QED  BY <2>3
<1> HIDE DEF f, D
<1>7. IsFiniteSet(T) /\ Cardinality(T) = n * m
  <2>1. IsFiniteSet(T) /\ Cardinality(T) = Cardinality(D)
    <3> HIDE DEF T
    <3>. QED  BY <1>1, <1>4, <1>5, <1>6, CountedOff
  <2>. QED  BY <1>1, <2>1
<1>8. T \in SUBSET C
  <2> SUFFICES ASSUME NEW a \in Actors, NEW t \in ToSet(h[a]) PROVE t \in C
    OBVIOUS
  <2>. QED  BY InPiles
<1>9. C = T
  BY <1>7, <1>8, FS_Subset
<1>10. ASSUME NEW k \in Keys, u[k] # <<>>
       PROVE  FALSE
  <2>1. PICK e : e \in ToSet(u[k])
    <3>1. u[k] \in Seq(PieceSet) /\ u[k][1] \in ToSet(u[k])
      BY <1>10 DEF ToSet
    <3>. QED  BY <3>1
  <2>2. e \in C
    BY <2>1, InPiles
  <2>3. PICK a \in Actors : e \in ToSet(h[a])
    BY <1>9, <2>2
  <2>4. PICK x \in Places, y \in Places : x = k + 2 /\ y = a + conf.actors + 2 /\ x # y
    <3>1. k + 2 \in Places /\ a + conf.actors + 2 \in Places /\ k + 2 # a + conf.actors + 2
      BY PlacesAre
    <3>. QED  BY <3>1, Zenon
  <2>5. Piles(u, h)[x] = u[k] /\ Piles(u, h)[y] = h[a] /\ DOMAIN Piles(u, h) = Places
    BY <2>4, PileOf
  <2>6. ToSet(u[k]) \cap ToSet(h[a]) = {}
    BY <2>4, <2>5 DEF Spread
  <2>. QED  BY <2>1, <2>3, <2>6
<1>. QED  BY <1>9, <1>10

\* The pieces of a step whose trajectories have all been sent.
LEMMA SharesCount ==
  ASSUME conf \in Configs, ~Stream, \A r \in Rollouts : rolAt[r].ep = NumEpochs
  PROVE  \E m \in Nat :
           /\ IsFiniteSet(Current) /\ Cardinality(Current) = conf.actors * m
           /\ \A a \in Actors : Need(a) = m
<1>1. PICK z \in Nat \ {0} : z = NumEpochs
  BY EmbodiedAssumption DEF Positive
<1>2. PICK r \in Nat \ {0}, s \in Nat \ {0}, n \in Nat \ {0} : n = conf.actors /\ r = conf.rollouts /\ s = conf.stages
  <2>1. conf \in Config
    BY EmbodiedAssumption
  <2>. QED  BY <2>1 DEF Config, Positive
<1>3. PICK m \in Nat \ {0} :
        /\ r * s * SplitNum = n * m
        /\ \A a \in Actors : Need(a) = IF conf.kind = "async" THEN z * m ELSE m
  BY <1>1, <1>2, NeedIs
<1>4. PICK k \in Nat : k = SplitNum
  BY SplitType
<1>5. conf.kind \in {"sync", "async"}
  BY ConfFits
<1> DEFINE E == IF conf.kind = "sync" THEN {z - 1} ELSE 0 .. z - 1
<1>6. PICK e \in Nat : /\ e = IF conf.kind = "sync" THEN 1 ELSE z
                       /\ IsFiniteSet(E) /\ Cardinality(E) = e
  <2>1. CASE conf.kind = "sync"
    BY <2>1, FS_Singleton
  <2>2. CASE conf.kind # "sync"
    BY <2>2, Interval
  <2>. QED  BY <2>1, <2>2
<1>7. Shares = Buffers \X ((0 .. k - 1) \X E)
  <2>1. ASSUME NEW t \in Buffers \X ((0 .. k - 1) \X (0 .. z - 1))
        PROVE  Shipped(t[1][1], t[2][2]) <=> t[2][2] \in E
    <3>1. t[1] \in Buffers /\ t[2][2] \in 0 .. z - 1
      OBVIOUS
    <3>2. rolAt[t[1][1]].ep = z
      BY <1>1, <3>1, BufferOf
    <3>. QED  BY <1>1, <1>5, <3>1, <3>2 DEF Shipped
  <2>2. E \subseteq 0 .. z - 1
    OBVIOUS
  <2> HIDE DEF E
  <2>. QED  BY <1>1, <1>4, <2>1, <2>2 DEF Shares
<1> HIDE DEF E
<1>8. IsFiniteSet(Shares) /\ Cardinality(Shares) = (r * s) * (k * e)
  <2>1. IsFiniteSet(Rollouts) /\ Cardinality(Rollouts) = r
    BY <1>2, Interval DEF Rollouts
  <2>2. IsFiniteSet(Stages) /\ Cardinality(Stages) = s
    BY <1>2, Interval DEF Stages
  <2>3. IsFiniteSet(Buffers) /\ Cardinality(Buffers) = r * s
    <3>1. IsFiniteSet(Buffers) /\ Cardinality(Buffers) = Cardinality(Rollouts) * Cardinality(Stages)
      BY <2>1, <2>2, FS_Product, Zenon DEF Buffers
    <3>. QED  BY <2>1, <2>2, <3>1, Zenon
  <2>4. IsFiniteSet(0 .. k - 1) /\ Cardinality(0 .. k - 1) = k
    BY Interval
  <2>5. IsFiniteSet((0 .. k - 1) \X E) /\ Cardinality((0 .. k - 1) \X E) = k * e
    <3>1. IsFiniteSet((0 .. k - 1) \X E) /\ Cardinality((0 .. k - 1) \X E) = Cardinality(0 .. k - 1) * Cardinality(E)
      BY <1>6, <2>4, FS_Product, Zenon
    <3>. QED  BY <1>6, <2>4, <3>1, Zenon
  <2>6. IsFiniteSet(Shares) /\ Cardinality(Shares) = Cardinality(Buffers) * Cardinality((0 .. k - 1) \X E)
    BY <1>7, <2>3, <2>5, FS_Product, Zenon
  <2>. QED  BY <2>3, <2>5, <2>6, Zenon
<1>9. IsFiniteSet(Current) /\ Cardinality(Current) = Cardinality(Shares)
  <2> DEFINE f == [t \in Shares |-> Made(t)]
  <2>1. f \in [Shares -> Current] /\ \A p \in Current : \E t \in Shares : f[t] = p
    BY DEF Current
  <2>2. ASSUME NEW t \in Shares, NEW w \in Shares, f[t] = f[w]
        PROVE  t = w
    <3>1. Made(t) = Made(w)
      BY <2>2
    <3>2. /\ Made(t).rank = t[1][1] /\ Made(t).stage = t[1][2] /\ Made(t).k = t[2][1] /\ Made(t).at[1] = t[2][2]
          /\ Made(w).rank = w[1][1] /\ Made(w).stage = w[1][2] /\ Made(w).k = w[2][1] /\ Made(w).at[1] = w[2][2]
      BY DEF Made
    <3>3. /\ t = <<<<t[1][1], t[1][2]>>, <<t[2][1], t[2][2]>>>> /\ w = <<<<w[1][1], w[1][2]>>, <<w[2][1], w[2][2]>>>>
      BY <1>7 DEF Buffers
    <3>4. t[1][1] = w[1][1] /\ t[1][2] = w[1][2] /\ t[2][1] = w[2][1] /\ t[2][2] = w[2][2]
      BY <3>1, <3>2, Zenon
    <3>. QED  BY <3>3, <3>4, Zenon
  <2> HIDE DEF f
  <2>. QED  BY <1>8, <2>1, <2>2, CountedOff
<1>10. PICK w \in Nat : w = m * e
  OBVIOUS
<1>11. (r * s) * (k * e) = n * w
  <2>1. (r * s) * (k * e) = ((r * s) * k) * e
    <3>1. PICK g \in Nat : g = r * s
      OBVIOUS
    <3>2. g * (k * e) = (g * k) * e
      OBVIOUS
    <3>. QED  BY <3>1, <3>2
  <2>2. (n * m) * e = n * (m * e)
    OBVIOUS
  <2>. QED  BY <1>3, <1>4, <1>10, <2>1, <2>2
<1>12. \A a \in Actors : Need(a) = w
  <2>1. CASE conf.kind = "sync"
    BY <1>3, <1>6, <1>10, <2>1
  <2>2. CASE conf.kind = "async"
    <3>1. z * m = m * z
      OBVIOUS
    <3>. QED  BY <1>3, <1>6, <1>10, <2>2, <3>1
  <2>. QED  BY <1>5, <2>1, <2>2
<1>. QED  BY <1>2, <1>8, <1>9, <1>11, <1>12

-----------------------------------------------------------------------------
(***************************************************************************)
(* The replay buffer.                                                      *)
(***************************************************************************)
\* A place of the ring, one round on or back.
LEMMA Wrap ==
  ASSUME NEW c \in Nat \ {0}, NEW x \in Int, -c <= x, x < 2 * c
  PROVE  x % c = IF x < 0 THEN x + c ELSE IF x < c THEN x ELSE x - c
<1>1. CASE x < 0
  <2>0. x % c \in 0 .. c - 1
    OBVIOUS
  <2>1. x \div c \in Int
    OBVIOUS
  <2>5. x = c * (x \div c) + (x % c)
    OBVIOUS
  <2>6. PICK d \in Int, r \in 0 .. c - 1 : d = x \div c /\ r = x % c
    BY <2>0, <2>1
  <2>2. x = c * d + r
    BY <2>5, <2>6, Zenon
  <2>3. d = -1
    <3>1. d <= -1
      <4> SUFFICES ASSUME d >= 0 PROVE FALSE
        OBVIOUS
      <4>1. c * d >= 0
        OBVIOUS
      <4>. QED  BY <1>1, <2>2, <4>1
    <3>2. d >= -1
      <4> SUFFICES ASSUME d <= -2 PROVE FALSE
        OBVIOUS
      <4>1. c * d <= c * (-2) /\ c * (-2) = -2 * c
        OBVIOUS
      <4>. QED  BY <2>2, <4>1
    <3>. QED  BY <3>1, <3>2
  <2>4. c * d = -c
    BY <2>3
  <2>7. r = x + c
    BY <2>2, <2>4
  <2>. QED  BY <1>1, <2>6, <2>7, Zenon
<1>2. CASE 0 <= x /\ x < c
  <2>1. (0 * c + x) % c = x
    BY <1>2, Remainder, x \in Nat
  <2>. QED  BY <1>2, <2>1
<1>3. CASE c <= x
  <2>1. PICK r \in Nat : r = x - c /\ r < c
    BY <1>3
  <2>2. (1 * c + r) % c = r /\ 1 * c + r = x
    BY <2>1, Remainder
  <2>. QED  BY <1>3, <2>1, <2>2
<1>. QED  BY <1>1, <1>2, <1>3

RingIndex(c, p, l, n) == (((p + l) % c) - 1 - n) % c

\* Where the items of a batch of l, added at p, come to lie, and the earlier ones.
LEMMA RingPlace ==
  ASSUME NEW c \in Nat \ {0}, NEW p \in 0 .. c - 1, NEW l \in Nat, l < c, NEW n \in Nat, n < c,
         NEW i, i = RingIndex(c, p, l, n)
  PROVE  /\ i \in 0 .. c - 1
         /\ n < l => (i - p) % c = l - 1 - n
         /\ ~(n < l) => ~((i - p) % c < l) /\ i = (p - 1 - (n - l)) % c
<1>0. PICK e, o : e = (p + l) % c /\ i = (e - 1 - n) % c /\ o = (i - p) % c
  BY DEF RingIndex
<1>1. e \in Nat /\ e < c /\ e = IF p + l < c THEN p + l ELSE p + l - c
  <2>1. p + l \in Int /\ -c <= p + l /\ p + l < 2 * c /\ ~(p + l < 0)
    OBVIOUS
  <2>2. PICK x \in Int : x = p + l
    BY <2>1
  <2>3. x % c = IF x < c THEN x ELSE x - c
    BY <2>1, <2>2, Wrap
  <2>4. e = x % c
    BY <1>0, <2>2, Zenon
  <2>5. e = IF x < c THEN x ELSE x - c
    BY <2>3, <2>4, Zenon
  <2>. QED  BY <2>1, <2>2, <2>5
<1>2. i \in Nat /\ i < c /\ i = IF e - 1 - n < 0 THEN e - 1 - n + c ELSE e - 1 - n
  <2>1. e - 1 - n \in Int /\ -c <= e - 1 - n /\ e - 1 - n < c /\ e - 1 - n < 2 * c
    BY <1>1
  <2>2. (e - 1 - n) % c = IF e - 1 - n < 0 THEN e - 1 - n + c ELSE e - 1 - n
    BY <2>1, Wrap
  <2>3. i = IF e - 1 - n < 0 THEN e - 1 - n + c ELSE e - 1 - n
    BY <1>0, <2>2, Zenon
  <2>. QED  BY <1>1, <2>1, <2>3
<1>3. o = IF i - p < 0 THEN i - p + c ELSE i - p
  <2>1. i - p \in Int /\ -c <= i - p /\ i - p < c /\ i - p < 2 * c
    BY <1>2
  <2>2. (i - p) % c = IF i - p < 0 THEN i - p + c ELSE i - p
    BY <2>1, Wrap
  <2>. QED  BY <1>0, <2>2, Zenon
<1>4. n < l => o = l - 1 - n
  BY <1>1, <1>2, <1>3
<1>5. ~(n < l) => ~(o < l)
  BY <1>1, <1>2, <1>3
<1>6. ASSUME ~(n < l) PROVE i = (p - 1 - (n - l)) % c
  <2>1. PICK x \in Int : x = p - 1 - (n - l)
    OBVIOUS
  <2>2. -c <= x /\ x < c /\ x < 2 * c
    BY <1>6, <2>1
  <2>3. x % c = IF x < 0 THEN x + c ELSE x
    BY <2>2, Wrap
  <2>4. i = IF x < 0 THEN x + c ELSE x
    BY <1>1, <1>2, <1>6, <2>1
  <2>. QED  BY <2>1, <2>3, <2>4, Zenon
<1>7. i \in 0 .. c - 1
  BY <1>2
<1>. QED  BY <1>0, <1>4, <1>5, <1>6, <1>7, Zenon

RingPlaced(c, p, l, n, i) ==
  /\ i \in 0 .. c - 1
  /\ n < l => (i - p) % c = l - 1 - n
  /\ ~(n < l) => ~((i - p) % c < l) /\ i = (p - 1 - (n - l)) % c
LEMMA RingPlaceOf ==
  ASSUME NEW c \in Nat \ {0}, NEW p \in 0 .. c - 1, NEW l \in Nat, l < c, NEW n \in Nat, n < c
  PROVE  RingPlaced(c, p, l, n, RingIndex(c, p, l, n))
BY RingPlace DEF RingPlaced

\* A ring that holds the last of the sequence s.
Latest(rb, s) ==
  /\ rb.size = Min({Len(s), conf.capacity})
  /\ \A n \in 0 .. rb.size - 1 : rb.slots[(rb.pos - 1 - n) % conf.capacity] = s[Len(s) - n]
RingPlaces(rb) == rb.pos \in 0 .. conf.capacity - 1 /\ DOMAIN rb.slots = 0 .. conf.capacity - 1

\* A batch goes in, and the ring holds the last of what it was given.
LEMMA Inserted ==
  ASSUME NEW c \in Nat \ {0}, c = conf.capacity, NEW s \in Seq(PieceSet), NEW b \in Seq(PieceSet), Len(b) < c,
         NEW rb, Latest(rb, s), RingPlaces(rb)
  PROVE  Latest(RingInsert(rb, b), s \o b) /\ RingPlaces(RingInsert(rb, b))
<1>1. PICK m \in Nat, l \in Nat : m = Len(s) /\ l = Len(b) /\ l < c
  BY LenProperties
<1>2. PICK p \in 0 .. c - 1 : p = rb.pos
  BY DEF RingPlaces
<1>3. PICK z \in Nat : z = rb.size /\ z = IF m <= c THEN m ELSE c
  BY <1>1, MinOfTwo DEF Latest
<1>4. PICK u \in Seq(PieceSet) : u = s \o b /\ Len(u) = m + l
  BY <1>1, ConcatProperties
<1>5. /\ \A i \in 1 .. m : u[i] = s[i]
      /\ \A i \in 1 .. l : u[m + i] = b[i]
  <2>1. \A i \in 1 .. m + l : u[i] = IF i <= m THEN s[i] ELSE b[i - m]
    BY <1>1, <1>4, ConcatProperties
  <2>2. ASSUME NEW i \in 1 .. l PROVE u[m + i] = b[i]
    <3>1. m + i \in 1 .. m + l /\ ~(m + i <= m) /\ (m + i) - m = i
      OBVIOUS
    <3>. QED  BY <2>1, <3>1
  <2>. QED  BY <2>1, <2>2
<1>6. PICK nb : nb = RingInsert(rb, b)
  OBVIOUS
<1>7. /\ nb.pos = (p + l) % c /\ nb.size = Min({z + l, c})
      /\ nb.slots = [n \in 0 .. c - 1 |-> IF (n - p) % c < l THEN b[((n - p) % c) + 1] ELSE rb.slots[n]]
  BY <1>1, <1>2, <1>3, <1>6 DEF RingInsert, RingPlaces
<1>8. PICK e : e = (p + l) % c
  OBVIOUS
<1>9. PICK y : y = Min({m + l, c})
  OBVIOUS
<1>10. nb.size = y /\ y \in Nat /\ y <= c /\ y <= m + l
  <2>1. z + l \in Int /\ m + l \in Int /\ c \in Int
    OBVIOUS
  <2>2. Min({z + l, c}) = IF z + l <= c THEN z + l ELSE c
    BY <2>1, MinOfTwo
  <2>3. y = IF m + l <= c THEN m + l ELSE c
    BY <1>9, <2>1, MinOfTwo
  <2>4. (IF z + l <= c THEN z + l ELSE c) = IF m + l <= c THEN m + l ELSE c
    BY <1>3
  <2>5. nb.size = y
    BY <1>7, <2>2, <2>3, <2>4, Zenon
  <2>. QED  BY <2>3, <2>5
<1>11. ASSUME NEW n \in 0 .. y - 1
       PROVE  nb.slots[(e - 1 - n) % c] = u[(m + l) - n]
  <2>1. n \in Nat /\ n < c /\ n < m + l
    BY <1>10
  <2>2. PICK i, o : i = (e - 1 - n) % c /\ o = (i - p) % c
    OBVIOUS
  <2>3. /\ i \in 0 .. c - 1
        /\ n < l => o = l - 1 - n
        /\ ~(n < l) => ~(o < l) /\ i = (p - 1 - (n - l)) % c
    <3>1. i = RingIndex(c, p, l, n)
      BY <1>8, <2>2, Zenon DEF RingIndex
    <3>2. c \in Nat \ {0} /\ p \in 0 .. c - 1 /\ l \in Nat /\ l < c /\ n \in Nat /\ n < c
      BY <1>1, <2>1
    <3>3. RingPlaced(c, p, l, n, i)
      BY <3>1, <3>2, RingPlaceOf, Zenon
    <3>. QED  BY <2>2, <3>3, Zenon DEF RingPlaced
  <2>4. nb.slots[i] = IF o < l THEN b[o + 1] ELSE rb.slots[i]
    BY <1>7, <2>2, <2>3
  <2>5. CASE n < l
    <3>1. o < l /\ o + 1 \in 1 .. l /\ m + (o + 1) = (m + l) - n
      BY <2>1, <2>3, <2>5
    <3>2. u[m + (o + 1)] = b[o + 1]
      BY <1>5, <3>1
    <3>. QED  BY <2>2, <2>4, <3>1, <3>2
  <2>6. CASE ~(n < l)
    <3>1. n - l \in 0 .. z - 1
      <4>1. n < IF m + l <= c THEN m + l ELSE c
        BY <1>10, <2>1
      <4>. QED  BY <1>3, <2>1, <2>6, <4>1
    <3>2. rb.slots[(p - 1 - (n - l)) % c] = s[m - (n - l)]
      BY <1>1, <1>2, <1>3, <3>1 DEF Latest
    <3>3. m - (n - l) \in 1 .. m /\ m - (n - l) = (m + l) - n
      BY <1>3, <2>1, <2>6, <3>1
    <3>. QED  BY <1>5, <2>2, <2>3, <2>4, <2>6, <3>2, <3>3
  <2>. QED  BY <2>5, <2>6
<1>12. nb.pos = e /\ e \in 0 .. c - 1
  <2>1. (p + l) % c \in 0 .. c - 1
    OBVIOUS
  <2>. QED  BY <1>7, <1>8, <2>1
<1>13. Latest(nb, u)
  BY <1>4, <1>9, <1>10, <1>11, <1>12 DEF Latest
<1>14. RingPlaces(nb)
  BY <1>7, <1>12 DEF RingPlaces
<1>. QED  BY <1>4, <1>6, <1>13, <1>14

-----------------------------------------------------------------------------
(***************************************************************************)
(* Every step keeps StockInv.                                              *)
(***************************************************************************)
\* The configuration stays, and with it the keys and places.
LEMMA ConfKept ==
  ASSUME conf' = conf
  PROVE  /\ Actors' = Actors /\ Rollouts' = Rollouts /\ Buffers' = Buffers /\ Stream' = Stream
         /\ SplitNum' = SplitNum /\ NumSteps' = NumSteps /\ Keys' = Keys /\ Places' = Places
         /\ \A a \in Actors : Need(a)' = Need(a)
<1>1. /\ Actors' = Actors /\ Rollouts' = Rollouts /\ Buffers' = Buffers /\ Stream' = Stream
      /\ SplitNum' = SplitNum /\ NumSteps' = NumSteps /\ Keys' = Keys /\ Places' = Places
  BY DEF Actors, Rollouts, Buffers, Stages, Stream, SplitNum, NumSteps, Keys, Places, DefaultKey
<1>2. ASSUME NEW a \in Actors
      PROVE  Need(a)' = Need(a)
  BY DEF Need, MessagesPerEpoch, Total, SplitNum
<1>. QED  BY <1>1, <1>2

\* The same, of the piles.
LEMMA PilesKept ==
  ASSUME conf' = conf
  PROVE  Stock' = Piles(q', AllTaken') /\ OfStep' = Piles(q', got')
<1>1. Places' = Places
  BY ConfKept
<1>. QED  BY <1>1, Zenon DEF Stock, OfStep, Piles

TypesOfStock ==
  /\ q \in [Keys -> Seq(PieceSet)] /\ got \in [Actors -> Seq(PieceSet)] /\ added \in [Actors -> Seq(PieceSet)]
  /\ DOMAIN acPc = Actors /\ DOMAIN ring = Actors

\* What a step has to show.
LEMMA StockNext ==
  ASSUME conf' = conf, TypesOfStock', WeightInv', \A a \in Actors : HandsInv(a)' /\ RingInv(a)',
         Spread(Piles(q', AllTaken')), Stream => StreamInv', ~Stream => StepInv'
  PROVE  StockInv'
<1>1. Actors' = Actors /\ Stream' = Stream /\ Stock' = Piles(q', AllTaken')
  BY ConfKept, PilesKept
<1>. QED  BY <1>1, Zenon DEF StockInv, TypesOfStock

\* What an actor has, without new messages.
handVars == <<conf, got, added, acPc, ring, q>>
LEMMA HandsKept ==
  ASSUME UNCHANGED handVars, StockInv
  PROVE  /\ conf' = conf /\ TypesOfStock' /\ Spread(Piles(q', AllTaken')) /\ Spread(Stock)
         /\ Stock' = Stock /\ OfStep' = OfStep /\ \A a \in Actors : RingInv(a)'
<1>1. /\ conf' = conf /\ got' = got /\ added' = added /\ acPc' = acPc /\ ring' = ring /\ q' = q
  BY DEF handVars
<1>2. /\ Actors' = Actors /\ Keys' = Keys /\ Stock' = Piles(q', AllTaken') /\ OfStep' = Piles(q', got')
  BY <1>1, ConfKept, PilesKept
<1>3. TypesOfStock'
  BY <1>1, <1>2, Zenon DEF StockInv, TypesOfStock
<1>4. AllTaken' = AllTaken
  <2>1. \A a \in Actors : Taken(a)' = Taken(a)
    BY <1>1, Zenon DEF Taken
  <2>. QED  BY <1>2, <2>1, Zenon DEF AllTaken
<1>5. Stock' = Stock /\ OfStep' = OfStep
  BY <1>1, <1>2, <1>4, Zenon DEF Stock, OfStep
<1>6. ASSUME NEW a \in Actors
      PROVE  RingInv(a)'
  <2>1. RingInv(a)
    BY DEF StockInv
  <2>. QED  BY <1>1, <2>1, Zenon DEF RingInv, HoldsLatest
<1>. QED  BY <1>1, <1>2, <1>3, <1>5, <1>6, Zenon DEF StockInv

\* A stream's pieces, when the workers' positions and buffers stay.
LEMMA SentStays ==
  ASSUME NEW x, SentInv(x), conf' = conf, rolAt' = rolAt, buf' = buf, In(Stock') = In(Stock)
  PROVE  SentInv(x)'
<1>1. SplitNum' = SplitNum /\ NumSteps' = NumSteps
  BY ConfKept
<1>2. Left(x)' = Left(x)
  BY Zenon DEF Left
<1>3. Of(x)' = Of(x)
  BY Zenon DEF Of
<1>. QED  BY <1>1, <1>2, <1>3, Zenon DEF SentInv

\* The trajectories sent in this step, when no worker moves.
LEMMA CurrentStays ==
  ASSUME conf' = conf, it' = it, version' = version, rolAt' = rolAt
  PROVE  Current' = Current
<1>1. Buffers' = Buffers /\ SplitNum' = SplitNum
  BY ConfKept
<1>2. Shares' = Shares
  BY <1>1, Zenon DEF Shares, Shipped
<1>. QED  BY <1>2, Zenon DEF Current, Made

\* Steps of the workers that have no part in it.
stockVars == <<handVars, pc, it, version, loaded, rolVersion, rolAt, buf, task>>
LEMMA StocksApart ==
  ASSUME StockInv, UNCHANGED stockVars
  PROVE  StockInv'
<1>1. /\ UNCHANGED handVars /\ pc' = pc /\ it' = it /\ version' = version /\ loaded' = loaded
      /\ rolVersion' = rolVersion /\ rolAt' = rolAt /\ buf' = buf /\ task' = task
  BY DEF stockVars
<1>2. /\ conf' = conf /\ TypesOfStock' /\ Spread(Piles(q', AllTaken')) /\ Stock' = Stock /\ OfStep' = OfStep
      /\ \A a \in Actors : RingInv(a)'
  BY <1>1, HandsKept
<1>3. Stream' = Stream /\ Rollouts' = Rollouts /\ Actors' = Actors /\ Keys' = Keys /\ Buffers' = Buffers
      /\ \A a \in Actors : Need(a)' = Need(a)
  BY <1>2, ConfKept
<1>4. WeightInv'
  BY <1>1, <1>3, Zenon DEF StockInv, WeightInv
<1>5. ASSUME NEW a \in Actors
      PROVE  HandsInv(a)'
  <2>1. HandsInv(a)
    BY DEF StockInv
  <2>2. got' = got /\ added' = added /\ acPc' = acPc
    BY <1>1 DEF handVars
  <2>. QED  BY <1>1, <1>3, <2>1, <2>2, Zenon DEF HandsInv
<1>6. Stream => StreamInv'
  BY <1>1, <1>2, <1>3, SentStays DEF StockInv, StreamInv
<1>7. ~Stream => StepInv'
  <2>1. Current' = Current /\ q' = q
    BY <1>1, <1>2, CurrentStays DEF handVars
  <2>. QED  BY <1>1, <1>2, <1>3, <2>1, Zenon DEF StockInv, StepInv
<1>. QED  BY <1>2, <1>4, <1>5, <1>6, <1>7, StockNext

\* The runner goes on, and nothing moves but its program counter.
AllPcs == Calm \cup {"load", "reload", "evalLoad"}
RunnerGoes ==
  /\ UNCHANGED <<handVars, it, version, rolVersion, rolAt, buf, task>>
  /\ pc # "load" /\ pc' \in AllPcs
  /\ loaded' \subseteq loaded /\ (pc' \in Calm => loaded' = {})
  /\ Stream => pc' # "load"
  /\ ~Stream => /\ pc' \in {"collect", "train"} <=> pc \in {"collect", "train"}
                /\ pc \in {"collect", "train"} => \A a \in Actors : acPc[a] = "have"
                /\ pc' # "collect"

\* These are the runner's steps of that kind.
LEMMA GoesIn ==
  ASSUME WeightInv, RunnerInv, Collected \/ Loop \/ EvalStart \/ EvalEnd \/ StepEnd \/ Shutdown
  PROVE  RunnerGoes
<1>0. pc \in Calm => loaded = {}
  BY DEF WeightInv
<1>1. CASE Collected
  <2>1. UNCHANGED <<handVars, it, version, rolVersion, rolAt, buf, task, loaded>> /\ pc = "collect" /\ pc' = "train"
        /\ \A a \in Actors : acPc[a] = "have"
    BY <1>1 DEF Collected, runnerVars, weightVars, rolVars, actorVars, handVars
  <2>. QED  BY <1>0, <2>1 DEF RunnerGoes, AllPcs, Calm
<1>2. CASE Loop
  <2>1. UNCHANGED <<handVars, it, version, rolVersion, rolAt, buf, task>> /\ pc \in {"loop", "reload"}
        /\ \/ pc = "loop" /\ pc' \in {"stopEnv", "evalLoad", "train"} /\ loaded' = loaded
           \/ pc' = "loop" /\ loaded' = {}
    BY <1>2 DEF Loop, runnerVars, weightVars, rolVars, actorVars, handVars
  <2>2. Stream
    BY <2>1 DEF RunnerInv
  <2>. QED  BY <1>0, <2>1, <2>2 DEF RunnerGoes, AllPcs, Calm
<1>3. CASE EvalStart
  <2>1. UNCHANGED <<handVars, it, version, rolVersion, rolAt, buf, task>> /\ pc = "evalLoad" /\ pc' = "eval" /\ loaded' = {}
    BY <1>3 DEF EvalStart, rolVars, actorVars, handVars
  <2>. QED  BY <2>1 DEF RunnerGoes, AllPcs, Calm
<1>4. CASE EvalEnd
  <2>1. UNCHANGED <<handVars, it, version, rolVersion, rolAt, buf, task, loaded>> /\ pc = "eval"
        /\ pc' = IF Stream THEN "train" ELSE "waitEnv"
    BY <1>4 DEF EvalEnd, runnerVars, weightVars, rolVars, actorVars, handVars
  <2>. QED  BY <1>0, <2>1 DEF RunnerGoes, AllPcs, Calm
<1>5. CASE StepEnd
  <2>1. UNCHANGED <<handVars, it, version, rolVersion, rolAt, buf, task, loaded>> /\ pc = "waitEnv" /\ ~Stream
        /\ pc' \in {"load", "done"}
    BY <1>5 DEF StepEnd, runnerVars, weightVars, rolVars, actorVars, handVars
  <2>. QED  BY <1>0, <2>1 DEF RunnerGoes, AllPcs, Calm
<1>6. CASE Shutdown
  <2>1. UNCHANGED <<handVars, it, version, rolVersion, rolAt, buf, task, loaded>>
    BY <1>6 DEF Shutdown, runnerVars, weightVars, rolVars, actorVars, handVars
  <2>2. /\ pc \in {"stopEnv", "stopRollout"} \/ (pc = "waitEnv" /\ Stream)
        /\ pc' \in {"stopRollout", "waitEnv", "done"}
    BY <1>6 DEF Shutdown
  <2>3. Stream
    BY <2>2 DEF RunnerInv
  <2>. QED  BY <1>0, <2>1, <2>2, <2>3 DEF RunnerGoes, AllPcs, Calm
<1>. QED  BY <1>1, <1>2, <1>3, <1>4, <1>5, <1>6

LEMMA RunnerGoesStock ==
  ASSUME StockInv, RunnerGoes
  PROVE  StockInv'
<1>1. /\ UNCHANGED handVars /\ it' = it /\ version' = version /\ rolVersion' = rolVersion
      /\ rolAt' = rolAt /\ buf' = buf /\ task' = task
  BY DEF RunnerGoes
<1>2. /\ conf' = conf /\ TypesOfStock' /\ Spread(Piles(q', AllTaken')) /\ Stock' = Stock /\ OfStep' = OfStep
      /\ \A a \in Actors : RingInv(a)'
  BY <1>1, HandsKept
<1>3. Stream' = Stream /\ Rollouts' = Rollouts /\ Actors' = Actors /\ Keys' = Keys /\ Buffers' = Buffers
      /\ \A a \in Actors : Need(a)' = Need(a)
  BY <1>2, ConfKept
<1>4. WeightInv'
  <2>1. /\ loaded' \subseteq loaded /\ (pc' \in Calm => loaded' = {})
        /\ loaded \subseteq Rollouts /\ \A r \in loaded : rolVersion[r] = version
        /\ pc' \in Calm \cup {"load", "reload", "evalLoad"}
        /\ ~Stream /\ pc \in {"collect", "train"} => \A r \in Rollouts : rolVersion[r] = version
        /\ ~Stream => (pc' \in {"collect", "train"} <=> pc \in {"collect", "train"})
    BY DEF StockInv, WeightInv, RunnerGoes, AllPcs
  <2>2. ~Stream' /\ pc' \in {"collect", "train"} => \A r \in Rollouts' : rolVersion'[r] = version'
    BY <1>1, <1>3, <2>1
  <2>3. loaded' \subseteq Rollouts' /\ \A r \in loaded' : rolVersion'[r] = version'
    BY <1>1, <1>3, <2>1
  <2>. QED  BY <2>1, <2>2, <2>3, Zenon DEF WeightInv, Calm
<1>5. ASSUME NEW a \in Actors
      PROVE  HandsInv(a)'
  <2>1. HandsInv(a)
    BY DEF StockInv
  <2>2. got' = got /\ added' = added /\ acPc' = acPc /\ Need(a)' = Need(a)
    BY <1>1, <1>3 DEF handVars
  <2>3. /\ got[a] \in Seq(PieceSet) /\ added[a] \in Seq(PieceSet)
        /\ acPc[a] \in {"collect", "have"}
        /\ acPc[a] = "collect" => Len(got[a]) < Need(a) /\ Stream
        /\ acPc[a] = "have" => Len(got[a]) = Need(a) /\ ~Stream
        /\ pc' = "train" /\ ~Stream => acPc[a] = "have"
        /\ Stream => pc' # "load"
    BY <2>1 DEF HandsInv, RunnerGoes
  <2>. QED  BY <1>3, <2>2, <2>3 DEF HandsInv
<1>6. Stream => StreamInv'
  <2>1. Stream => pc # "load" /\ pc' # "load"
    BY DEF RunnerGoes
  <2>. QED  BY <1>1, <1>2, <1>3, <2>1, SentStays DEF StockInv, StreamInv
<1>7. ~Stream => StepInv'
  <2>1. Current' = Current /\ q' = q
    BY <1>1, <1>2, CurrentStays DEF handVars
  <2>2. ~Stream => (pc' \in {"collect", "train"} <=> pc \in {"collect", "train"})
    BY DEF RunnerGoes
  <2>3. CASE ~Stream /\ pc \in {"collect", "train"}
    <3>1. pc' \in {"collect", "train"} /\ Spread(OfStep) /\ In(OfStep) = Current
          /\ \A p \in In(Stock) : p \in In(OfStep) \/ p.round < it
      BY <2>2, <2>3, Zenon DEF StockInv, StepInv
    <3>. QED  BY <1>1, <1>2, <1>3, <2>1, <3>1, Zenon DEF StepInv
  <2>4. CASE ~Stream /\ pc \notin {"collect", "train"}
    <3>1. pc' \notin {"collect", "train"} /\ (\A k \in Keys : q[k] = <<>>) /\ \A p \in In(Stock) : p.round < it
      BY <2>2, <2>4, Zenon DEF StockInv, StepInv
    <3>. QED  BY <1>1, <1>2, <1>3, <2>1, <3>1, Zenon DEF StepInv
  <2>. QED  BY <2>3, <2>4
<1>. QED  BY <1>2, <1>4, <1>5, <1>6, <1>7, StockNext

\* A worker loads the weights of the last update, and ships with them from then on.
LEMMA LoadWeightsStock ==
  ASSUME StockInv, RecordInv, NEW r \in Rollouts, LoadWeights(r)
  PROVE  StockInv'
<1>1. /\ UNCHANGED handVars /\ it' = it /\ version' = version /\ pc' = pc
      /\ rolAt' = rolAt /\ buf' = buf /\ task' = task
      /\ pc \in {"load", "reload", "evalLoad"} /\ loaded' = loaded \cup {r} /\ rolVersion' = [rolVersion EXCEPT ![r] = version]
  BY DEF LoadWeights, runnerVars, rolVars, actorVars, handVars
<1>2. /\ conf' = conf /\ TypesOfStock' /\ Spread(Piles(q', AllTaken')) /\ Stock' = Stock /\ OfStep' = OfStep
      /\ \A a \in Actors : RingInv(a)'
  BY <1>1, HandsKept
<1>3. Stream' = Stream /\ Rollouts' = Rollouts /\ Actors' = Actors /\ Keys' = Keys /\ Buffers' = Buffers
      /\ \A a \in Actors : Need(a)' = Need(a)
  BY <1>2, ConfKept
<1>4. WeightInv'
  <2>1. /\ loaded \subseteq Rollouts /\ \A s \in loaded : rolVersion[s] = version
        /\ rolVersion \in [Rollouts -> Nat]
    BY DEF StockInv, WeightInv, RecordInv
  <2>2. /\ loaded' \subseteq Rollouts' /\ \A s \in loaded' : rolVersion'[s] = version'
    BY <1>1, <1>3, <2>1
  <2>. QED  BY <1>1, <2>2 DEF WeightInv, Calm
<1>5. ASSUME NEW a \in Actors
      PROVE  HandsInv(a)'
  <2>1. HandsInv(a)
    BY DEF StockInv
  <2>2. got' = got /\ added' = added /\ acPc' = acPc /\ Need(a)' = Need(a)
    BY <1>1, <1>3 DEF handVars
  <2>. QED  BY <1>1, <1>3, <2>1, <2>2, Zenon DEF HandsInv
<1>6. Stream => StreamInv'
  BY <1>1, <1>2, <1>3, SentStays DEF StockInv, StreamInv
<1>7. ~Stream => StepInv'
  <2>1. pc' \notin {"collect", "train"} /\ q' = q
    BY <1>1 DEF handVars
  <2>. QED  BY <1>1, <1>2, <1>3, <2>1, Zenon DEF StockInv, StepInv
<1>. QED  BY <1>2, <1>4, <1>5, <1>6, <1>7, StockNext

\* When an actor has all its messages nothing is left in the queues.
LEMMA StepOver ==
  ASSUME IInv, StockInv, ~Stream, pc = "train"
  PROVE  /\ \A k \in Keys : q[k] = <<>>
         /\ Current = UNION {ToSet(got[a]) : a \in Actors} /\ In(OfStep) = Current
<1>1. conf \in Configs
  BY DEF IInv, TypeInv
<1>2. \A r \in Rollouts : rolAt[r].ep = NumEpochs
  BY DEF IInv, RunnerInv, TrainInv, RolPlace
<1>3. PICK m \in Nat : /\ IsFiniteSet(Current) /\ Cardinality(Current) = conf.actors * m
                       /\ \A a \in Actors : Need(a) = m
  BY <1>1, <1>2, SharesCount
<1>4. \A a \in Actors : Len(got[a]) = m
  BY <1>3 DEF StockInv, HandsInv
<1>5. Spread(Piles(q, got)) /\ In(Piles(q, got)) = Current
  BY DEF StockInv, StepInv, OfStep
<1>6. q \in [Keys -> Seq(PieceSet)] /\ got \in [Actors -> Seq(PieceSet)]
  BY DEF StockInv
<1>7. PICK n \in Nat : n = conf.actors
  BY <1>1, PlacesAre
<1>8. Cardinality(Current) = n * m
  BY <1>3, <1>7, Zenon
<1>9. (\A k \in Keys : q[k] = <<>>) /\ Current = UNION {ToSet(got[a]) : a \in Actors}
  BY <1>1, <1>3, <1>4, <1>5, <1>6, <1>7, <1>8, NothingQueued
<1>. QED  BY <1>5, <1>9 DEF OfStep

\* A training step is over: what was current is of an earlier step now.
LEMMA TrainedStock ==
  ASSUME IInv, RecordInv, StockInv, TrainOnPolicy \/ Trained
  PROVE  StockInv'
<1>0. conf \in Configs /\ it \in Nat
  BY DEF IInv, TypeInv
<1>1. /\ UNCHANGED handVars /\ rolVersion' = rolVersion /\ loaded' = loaded
      /\ rolAt' = rolAt /\ buf' = buf /\ task' = task /\ pc = "train"
  BY DEF TrainOnPolicy, Trained, weightVars, rolVars, actorVars, handVars
<1>2. /\ pc' \in {"reload", "loop", "evalLoad", "waitEnv"}
      /\ ~Stream => it' = it + 1
  BY DEF TrainOnPolicy, Trained, AfterTraining
<1>3. /\ conf' = conf /\ TypesOfStock' /\ Spread(Piles(q', AllTaken')) /\ Stock' = Stock /\ OfStep' = OfStep
      /\ \A a \in Actors : RingInv(a)'
  <2>1. conf' = conf
    BY <1>1 DEF handVars
  <2>. QED  BY <1>1, HandsKept
<1>4. Stream' = Stream /\ Rollouts' = Rollouts /\ Actors' = Actors /\ Keys' = Keys /\ Buffers' = Buffers
      /\ \A a \in Actors : Need(a)' = Need(a)
  BY <1>3, ConfKept
<1>5. WeightInv'
  <2>1. loaded' = {}
    BY <1>1 DEF StockInv, WeightInv, Calm
  <2>. QED  BY <1>2, <2>1 DEF WeightInv, Calm
<1>6. ASSUME NEW a \in Actors
      PROVE  HandsInv(a)'
  <2>1. HandsInv(a)
    BY DEF StockInv
  <2>2. got' = got /\ added' = added /\ acPc' = acPc /\ Need(a)' = Need(a)
    BY <1>1, <1>4 DEF handVars
  <2>3. /\ got[a] \in Seq(PieceSet) /\ added[a] \in Seq(PieceSet)
        /\ acPc[a] \in {"collect", "have"}
        /\ acPc[a] = "collect" => Len(got[a]) < Need(a) /\ Stream
        /\ acPc[a] = "have" => Len(got[a]) = Need(a) /\ ~Stream
    BY <1>1, <2>1 DEF HandsInv
  <2>. QED  BY <1>2, <1>4, <2>2, <2>3 DEF HandsInv
<1>7. Stream => StreamInv'
  BY <1>1, <1>2, <1>3, <1>4, SentStays DEF StockInv, StreamInv
<1>8. ~Stream => StepInv'
  <2> SUFFICES ASSUME ~Stream PROVE StepInv'
    OBVIOUS
  <2>1. /\ \A k \in Keys : q[k] = <<>>
        /\ In(OfStep) = Current
    BY <1>1, StepOver
  <2>2. ASSUME NEW p \in In(Stock) PROVE p.round < it + 1
    <3>1. p \in Current \/ p.round < it
      BY <1>1, <2>1 DEF StockInv, StepInv
    <3>2. p \in Current => p.round = it
      BY DEF Current, Made
    <3>3. p.round \in Nat
      <4>1. p \in PieceSet
        BY DEF StockInv, Spread, In, ToSet
      <4>. QED  BY <4>1 DEF PieceSet
    <3>. QED  BY <1>0, <3>1, <3>2, <3>3
  <2>3. pc' \notin {"collect", "train"} /\ it' = it + 1 /\ q' = q
    BY <1>1, <1>2 DEF handVars
  <2>. QED  BY <1>3, <1>4, <2>1, <2>2, <2>3, Zenon DEF StepInv
<1>. QED  BY <1>3, <1>5, <1>6, <1>7, <1>8, StockNext

\* An actor waits for one piece at least.
LEMMA NeedPositive ==
  ASSUME conf \in Configs, NEW a \in Actors
  PROVE  Need(a) \in Nat \ {0}
<1>1. PICK m \in Nat \ {0} : Need(a) = IF conf.kind = "async" THEN NumEpochs * m ELSE m
  BY NeedIs
<1>2. PICK z \in Nat \ {0} : z = NumEpochs
  BY EmbodiedAssumption DEF Positive
<1>3. z * m \in Nat \ {0}
  OBVIOUS
<1>. QED  BY <1>1, <1>2, <1>3

\* The hands are emptied: what is in a replay buffer stays there.
LEMMA HandsEmptied ==
  ASSUME conf \in Configs, NEW u, NEW h, NEW g, Spread(Piles(u, h)), \A a \in Actors : g[a] \in {h[a], <<>>}
  PROVE  Spread(Piles(u, g)) /\ In(Piles(u, g)) \subseteq In(Piles(u, h))
<1> DEFINE F == Piles(u, h)
           G == Piles(u, g)
<1>1. DOMAIN F = Places /\ DOMAIN G = Places
  BY PileOf
<1>2. ASSUME NEW n \in Places PROVE G[n] \in {F[n], <<>>}
  <2>1. CASE n <= conf.actors + 1
    BY <2>1 DEF Piles
  <2>2. CASE ~(n <= conf.actors + 1)
    <3>1. n - conf.actors - 2 \in Actors
      BY <2>2, PlacesAre
    <3>. QED  BY <2>2, <3>1 DEF Piles
  <2>. QED  BY <2>1, <2>2
<1> HIDE DEF F, G
<1>3. <<>> \in Seq(PieceSet) /\ IsInjective(<<>>) /\ ToSet(<<>>) = {}
  BY DEF IsInjective, ToSet
<1>4. \A n \in Places : F[n] \in Seq(PieceSet) /\ IsInjective(F[n])
  BY <1>1 DEF F, Spread
<1>5. \A n \in Places : G[n] \in Seq(PieceSet) /\ IsInjective(G[n]) /\ ToSet(G[n]) \subseteq ToSet(F[n])
  BY <1>2, <1>3, <1>4
<1>6. \A n, m \in Places : n # m => ToSet(F[n]) \cap ToSet(F[m]) = {}
  BY <1>1 DEF F, Spread
<1>7. Spread(G)
  <2>1. \A n, m \in Places : n # m => ToSet(G[n]) \cap ToSet(G[m]) = {}
    BY <1>5, <1>6
  <2>. QED  BY <1>1, <1>5, <2>1 DEF Spread
<1>8. In(G) \subseteq In(F)
  BY <1>1, <1>5 DEF In
<1>. QED  BY <1>7, <1>8 DEF F, G

LEMMA StartStepStock ==
  ASSUME conf \in Configs, StockInv, StartStep
  PROVE  StockInv'
<1>1. /\ conf' = conf /\ q' = q /\ added' = added /\ ring' = ring /\ it' = it /\ version' = version /\ rolVersion' = rolVersion
      /\ pc = "load" /\ loaded = Rollouts /\ loaded' = {} /\ rolAt' = [r \in Rollouts |-> Start]
      /\ buf' = [b \in Buffers |-> NoTrajectory] /\ acPc' = [a \in Actors |-> "collect"]
      /\ got' = [a \in Actors |-> <<>>] /\ pc' = IF Stream THEN "loop" ELSE "collect"
  BY DEF StartStep, runnerVars
<1>2. /\ Stream' = Stream /\ Rollouts' = Rollouts /\ Actors' = Actors /\ Keys' = Keys /\ Buffers' = Buffers
      /\ \A a \in Actors : Need(a)' = Need(a)
  BY <1>1, ConfKept
<1>3. /\ q \in [Keys -> Seq(PieceSet)] /\ got \in [Actors -> Seq(PieceSet)] /\ added \in [Actors -> Seq(PieceSet)]
      /\ DOMAIN ring = Actors /\ WeightInv /\ \A a \in Actors : HandsInv(a) /\ RingInv(a)
  BY DEF StockInv
<1>4. <<>> \in Seq(PieceSet)
  OBVIOUS
<1>5. TypesOfStock'
  BY <1>1, <1>2, <1>3, <1>4 DEF TypesOfStock
<1>6. WeightInv'
  BY <1>1, <1>2, <1>3 DEF WeightInv, Calm
<1>7. ASSUME NEW a \in Actors
      PROVE  HandsInv(a)'
  <2>1. got'[a] = <<>> /\ acPc'[a] = "collect" /\ added'[a] = added[a] /\ Need(a)' = Need(a)
    BY <1>1, <1>2
  <2>2. 0 < Need(a) /\ Len(<<>>) = 0
    BY NeedPositive
  <2>. QED  BY <1>1, <1>2, <1>3, <1>4, <2>1, <2>2 DEF HandsInv
<1>8. ASSUME NEW a \in Actors
      PROVE  RingInv(a)'
  BY <1>1, <1>3, Zenon DEF RingInv, HoldsLatest
<1>9. ASSUME NEW a \in Actors
      PROVE  Taken(a)' \in {Taken(a), <<>>}
  <2>1. got'[a] = <<>> /\ acPc'[a] = "collect" /\ added'[a] = added[a]
    BY <1>1
  <2>2. acPc[a] = "have" \/ got[a] = <<>>
    BY <1>1, <1>3 DEF HandsInv
  <2>3. Taken(a)' = IF ~conf.sac THEN <<>> ELSE added[a] \o <<>>
    BY <1>1, <2>1 DEF Taken
  <2>4. Taken(a) = IF ~conf.sac THEN got[a] ELSE added[a] \o <<>>
    BY <2>2 DEF Taken
  <2>. QED  BY <2>3, <2>4, Zenon
<1>10. /\ Spread(Piles(q', AllTaken'))
       /\ In(Piles(q', AllTaken')) \subseteq In(Stock)
  <2>1. \A a \in Actors : AllTaken'[a] \in {AllTaken[a], <<>>}
    BY <1>2, <1>9, Zenon DEF AllTaken
  <2>2. Spread(Piles(q, AllTaken))
    BY DEF StockInv, Stock
  <2>3. PICK g : g = AllTaken'
    OBVIOUS
  <2>4. Spread(Piles(q, g)) /\ In(Piles(q, g)) \subseteq In(Piles(q, AllTaken))
    BY <2>1, <2>2, <2>3, HandsEmptied
  <2>. QED  BY <1>1, <2>3, <2>4 DEF Stock
<1>11. Stock' = Piles(q', AllTaken') /\ OfStep' = Piles(q', got')
  BY <1>1, PilesKept
<1>12. Stream => StreamInv'
  <2> SUFFICES ASSUME Stream, NEW x \in Buffers PROVE SentInv(x)'
    BY <1>1, <1>2 DEF StreamInv
  <2>1. In(Stock) = {}
    BY <1>1 DEF StockInv, StreamInv
  <2>2. Of(x)' = {}
    BY <1>10, <1>11, <2>1 DEF Of
  <2>3. Left(x)' = 0
    <3>1. x[2] \in Nat /\ x[1] \in Rollouts
      BY BufferOf
    <3>2. StepsDone(conf, Start, x[2]) = 0
      <4>1. conf.steps \in Positive
        BY ConfFits
      <4>2. Start \in Pos /\ Start.ep = 0 /\ Start.st = 0 /\ Start.stage = 0
        BY DEF Start, Cursor, Pos
      <4>3. Seen(Start, x[2]) = 0
        BY <3>1, <4>2 DEF Seen
      <4>4. 0 * conf.steps = 0
        BY <4>1 DEF Positive
      <4>. QED  BY <4>2, <4>3, <4>4 DEF StepsDone
    <3>3. buf'[x].inputs = <<>> /\ rolAt'[x[1]] = Start
      BY <1>1, <3>1 DEF NoTrajectory
    <3>4. Left(x)' = StepsDone(conf, Start, x[2]) - Len(<<>>)
      BY <1>1, <3>3, Zenon DEF Left
    <3>5. Len(<<>>) = 0
      OBVIOUS
    <3>6. Left(x)' = 0 - 0
      BY <3>2, <3>4, <3>5, Zenon
    <3>. QED  BY <3>6
  <2>4. SentAs(Of(x)', Left(x)', SplitNum', NumSteps')
    BY <2>2, <2>3 DEF SentAs
  <2>. QED  BY <2>4 DEF SentInv
<1>13. ~Stream => StepInv'
  <2> SUFFICES ASSUME ~Stream PROVE StepInv'
    OBVIOUS
  <2>1. (\A k \in Keys : q[k] = <<>>) /\ \A p \in In(Stock) : p.round < it
    BY <1>1 DEF StockInv, StepInv
  <2>2. Spread(OfStep') /\ In(OfStep') = {}
    <3>1. DOMAIN OfStep' = Places /\ \A n \in Places : OfStep'[n] = <<>>
      <4>1. DOMAIN Piles(q, got') = Places /\ \A n \in Places : Piles(q, got')[n] = <<>>
        <5>1. ASSUME NEW n \in Places PROVE Piles(q, got')[n] = <<>>
          <6>1. CASE n <= conf.actors + 1
            BY <2>1, <6>1, PlacesAre DEF Piles
          <6>2. CASE ~(n <= conf.actors + 1)
            BY <1>1, <6>2, PlacesAre DEF Piles
          <6>. QED  BY <6>1, <6>2
        <5>. QED  BY <5>1 DEF Piles
      <4>. QED  BY <1>1, <1>11, <4>1
    <3>2. <<>> \in Seq(PieceSet) /\ IsInjective(<<>>) /\ ToSet(<<>>) = {}
      BY DEF IsInjective, ToSet
    <3>. QED  BY <3>1, <3>2 DEF Spread, In
  <2>3. Current' = {}
    <3>1. \A t \in Buffers \X ((0 .. SplitNum - 1) \X (0 .. NumEpochs - 1)) : ~Shipped(t[1][1], t[2][2])'
      <4> SUFFICES ASSUME NEW t \in Buffers \X ((0 .. SplitNum - 1) \X (0 .. NumEpochs - 1))
                   PROVE  ~(t[2][2] < rolAt'[t[1][1]].ep)
        BY Zenon DEF Shipped
      <4>1. t[1][1] \in Rollouts /\ t[2][2] \in 0 .. NumEpochs - 1 /\ NumEpochs \in Nat
        BY BufferOf, EmbodiedAssumption DEF Positive
      <4>2. rolAt'[t[1][1]].ep = 0
        BY <1>1, <4>1 DEF Start, Cursor
      <4>. QED  BY <4>1, <4>2
    <3>2. Shares' = {}
      <4>1. Buffers' = Buffers /\ SplitNum' = SplitNum
        BY <1>1, ConfKept
      <4>. QED  BY <3>1, <4>1 DEF Shares
    <3>. QED  BY <3>2 DEF Current
  <2>4. \A p \in In(Stock') : p.round < it'
    BY <1>1, <1>10, <1>11, <2>1
  <2>. QED  BY <1>1, <2>2, <2>3, <2>4, Zenon DEF StepInv
<1>. QED  BY <1>1, <1>2, <1>5, <1>6, <1>7, <1>8, <1>10, <1>12, <1>13, StockNext

\* No piece anywhere.
LEMMA NoPieces ==
  ASSUME conf \in Configs, NEW u, NEW h, \A k \in Keys : u[k] = <<>>, \A a \in Actors : h[a] = <<>>
  PROVE  Spread(Piles(u, h)) /\ In(Piles(u, h)) = {}
<1>1. PICK F : F = Piles(u, h)
  OBVIOUS
<1>2. ASSUME NEW n \in Places PROVE F[n] = <<>>
  <2>1. CASE n <= conf.actors + 1
    BY <1>1, <2>1, PlacesAre DEF Piles
  <2>2. CASE ~(n <= conf.actors + 1)
    BY <1>1, <2>2, PlacesAre DEF Piles
  <2>. QED  BY <2>1, <2>2
<1>3. DOMAIN F = Places
  BY <1>1, PileOf
<1>4. <<>> \in Seq(PieceSet) /\ IsInjective(<<>>) /\ ToSet(<<>>) = {}
  BY DEF IsInjective, ToSet
<1>. QED  BY <1>1, <1>2, <1>3, <1>4 DEF Spread, In

LEMMA InitStock ==
  ASSUME Init
  PROVE  StockInv
<1>1. /\ conf \in Configs /\ pc = "load" /\ it = 0 /\ loaded = {} /\ task = [b \in Buffers |-> "off"]
      /\ q = [k \in Actors \cup {DefaultKey} |-> <<>>]
      /\ acPc = [a \in Actors |-> "idle"] /\ got = [a \in Actors |-> <<>>]
      /\ ring = [a \in Actors |-> [pos |-> 0, size |-> 0, slots |-> [n \in 0 .. conf.capacity - 1 |-> <<>>]]]
      /\ added = [a \in Actors |-> <<>>]
  BY DEF Init
<1>2. <<>> \in Seq(PieceSet) /\ Len(<<>>) = 0 /\ <<>> \o <<>> = <<>>
  OBVIOUS
<1>3. TypesOfStock /\ \A k \in Keys : q[k] = <<>>
  BY <1>1, <1>2 DEF TypesOfStock, Keys
<1>4. WeightInv
  BY <1>1 DEF WeightInv, Calm
<1>5. conf.capacity \in Nat \ {0}
  <2>1. conf \in Config
    BY <1>1, EmbodiedAssumption
  <2>. QED  BY <2>1 DEF Config, Positive
<1>6. ASSUME NEW a \in Actors
      PROVE  HandsInv(a) /\ RingInv(a)
  <2>1. HandsInv(a)
    BY <1>1, <1>2 DEF HandsInv
  <2>2. ring[a].size = 0 /\ ring[a].pos = 0 /\ DOMAIN ring[a].slots = 0 .. conf.capacity - 1 /\ added[a] = <<>>
    BY <1>1
  <2>3. Min({0, conf.capacity}) = 0
    <3>1. 0 \in Int /\ conf.capacity \in Int
      BY <1>5
    <3>2. Min({0, conf.capacity}) = IF 0 <= conf.capacity THEN 0 ELSE conf.capacity
      BY <3>1, MinOfTwo
    <3>. QED  BY <1>5, <3>2
  <2>4. HoldsLatest(a)
    BY <1>2, <2>2, <2>3 DEF HoldsLatest
  <2>. QED  BY <1>5, <2>1, <2>2, <2>4 DEF RingInv
<1>7. \A a \in Actors : AllTaken[a] = <<>>
  BY <1>1, <1>2 DEF AllTaken, Taken
<1>8. Spread(Stock) /\ In(Stock) = {}
  BY <1>1, <1>3, <1>7, NoPieces DEF Stock
<1>9. Stream => StreamInv
  BY <1>1, <1>8 DEF StreamInv
<1>10. ~Stream => StepInv
  BY <1>1, <1>3, <1>8 DEF StepInv
<1>. QED  BY <1>3, <1>4, <1>6, <1>8, <1>9, <1>10 DEF StockInv, TypesOfStock

\* What is appended to the second half is appended to the whole.
LEMMA AppendLater ==
  ASSUME NEW S, NEW s \in Seq(S), NEW g \in Seq(S), NEW p \in S
  PROVE  s \o Append(g, p) = Append(s \o g, p) /\ s \o <<>> = s
<1>1. PICK m \in Nat, n \in Nat : m = Len(s) /\ n = Len(g)
  OBVIOUS
<1>2. s \o <<>> = s
  OBVIOUS
<1>3. PICK x, y : x = s \o Append(g, p) /\ y = Append(s \o g, p)
  OBVIOUS
<1>4. /\ x \in Seq(S) /\ Len(x) = m + n + 1 /\ y \in Seq(S) /\ Len(y) = m + n + 1
  BY <1>1, <1>3
<1>5. PICK z \in Seq(S), w \in Seq(S) : z = Append(g, p) /\ w = s \o g
  <2>1. Append(g, p) \in Seq(S)
    BY AppendProperties
  <2>2. s \o g \in Seq(S)
    BY ConcatProperties
  <2>. QED  BY <2>1, <2>2, Zenon
<1>6. /\ Len(z) = n + 1 /\ Len(w) = m + n /\ z[n + 1] = p /\ \A i \in 1 .. n : z[i] = g[i]
      /\ \A i \in 1 .. m + n : w[i] = IF i <= m THEN s[i] ELSE g[i - m]
  <2>1. Len(z) = n + 1 /\ z[n + 1] = p /\ \A i \in 1 .. n : z[i] = g[i]
    BY <1>1, <1>5, AppendProperties
  <2>2. Len(w) = m + n /\ \A i \in 1 .. m + n : w[i] = IF i <= m THEN s[i] ELSE g[i - m]
    BY <1>1, <1>5, ConcatProperties
  <2>. QED  BY <2>1, <2>2
<1>7. /\ \A i \in 1 .. m + (n + 1) : x[i] = IF i <= m THEN s[i] ELSE z[i - m]
      /\ y[m + n + 1] = p /\ \A i \in 1 .. m + n : y[i] = w[i]
  <2>1. x = s \o z /\ y = Append(w, p)
    BY <1>3, <1>5
  <2>2. \A i \in 1 .. m + (n + 1) : x[i] = IF i <= m THEN s[i] ELSE z[i - m]
    BY <1>1, <1>6, <2>1, ConcatProperties
  <2>3. y[m + n + 1] = p /\ \A i \in 1 .. m + n : y[i] = w[i]
    <3>1. y[Len(w) + 1] = p /\ \A i \in 1 .. Len(w) : y[i] = w[i]
      BY <2>1, AppendProperties
    <3>2. Len(w) = m + n
      BY <1>6
    <3>. QED  BY <3>1, <3>2, Zenon
  <2>. QED  BY <2>2, <2>3
<1>8. ASSUME NEW i \in 1 .. m + n + 1
      PROVE  x[i] = y[i]
  <2>1. CASE i = m + n + 1
    <3>1. i - m = n + 1 /\ ~(i <= m) /\ i \in 1 .. m + (n + 1)
      BY <2>1
    <3>. QED  BY <1>6, <1>7, <2>1, <3>1
  <2>2. CASE i <= m
    <3>1. i \in 1 .. m + n /\ i \in 1 .. m + (n + 1)
      BY <2>2
    <3>. QED  BY <1>6, <1>7, <2>2, <3>1
  <2>3. CASE ~(i <= m) /\ i # m + n + 1
    <3>1. i \in 1 .. m + n /\ i \in 1 .. m + (n + 1) /\ i - m \in 1 .. n
      BY <2>3
    <3>. QED  BY <1>6, <1>7, <2>3, <3>1
  <2>. QED  BY <2>1, <2>2, <2>3
<1>. QED  BY <1>2, <1>3, <1>4, <1>8

\* One message of the batch.
LEMMA TakenAppends ==
  ASSUME conf \in Configs, StockInv, NEW a \in Actors, TakePiece(a)
  PROVE  /\ q[KeyOf(a)] # <<>> /\ KeyOf(a) \in Keys
         /\ \A b \in Actors : Taken(b)' = IF b = a THEN Append(Taken(a), Head(q[KeyOf(a)])) ELSE Taken(b)
<1>1. KeyOf(a) \in Keys
  BY PlacesAre
<1>2. PICK k \in Keys : k = KeyOf(a)
  BY <1>1
<1>3. /\ conf' = conf /\ q[k] # <<>> /\ acPc[a] = "collect"
  BY <1>2 DEF TakePiece, runnerVars
<1>4. /\ q \in [Keys -> Seq(PieceSet)] /\ got \in [Actors -> Seq(PieceSet)] /\ added \in [Actors -> Seq(PieceSet)]
      /\ DOMAIN acPc = Actors /\ DOMAIN ring = Actors
  BY DEF StockInv
<1>5. PICK p \in PieceSet : p = Head(q[k])
  BY <1>3, <1>4
<1>6. PICK batch \in Seq(PieceSet) : batch = Append(got[a], p)
  <2>1. got[a] \in Seq(PieceSet)
    BY <1>4
  <2>. QED  BY <2>1, AppendProperties
<1>7. PICK full \in BOOLEAN : full = (Len(batch) = Need(a))
  OBVIOUS
<1>8. /\ got' = [got EXCEPT ![a] = IF full /\ Stream THEN <<>> ELSE batch]
      /\ acPc' = [acPc EXCEPT ![a] = IF full /\ ~Stream THEN "have" ELSE "collect"]
      /\ IF full /\ conf.sac THEN added' = [added EXCEPT ![a] = @ \o batch] ELSE added' = added
  BY <1>2, <1>5, <1>6, <1>7 DEF TakePiece
<1>9. Stream => conf.sac = TRUE
  BY ConfFits
<1>10. /\ added[a] \o batch = Append(added[a] \o got[a], p) /\ (added[a] \o batch) \o <<>> = added[a] \o batch
  <2>1. added[a] \o batch \in Seq(PieceSet)
    BY <1>4
  <2>. QED  BY <1>4, <1>6, <2>1, AppendLater
<1>11. Taken(a)' = Append(Taken(a), p)
  <2>1. CASE ~conf.sac
    BY <1>3, <1>4, <1>6, <1>8, <1>9, <2>1 DEF Taken
  <2>2. CASE conf.sac
    <3>1. Taken(a) = added[a] \o got[a]
      BY <1>3, <2>2 DEF Taken
    <3>2. CASE full
      <4>1. added'[a] = added[a] \o batch /\ (Stream => got'[a] = <<>>) /\ (~Stream => acPc'[a] = "have")
            /\ (Stream => acPc'[a] = "collect")
        BY <1>4, <1>8, <2>2, <3>2
      <4>2. Taken(a)' = added'[a] \o <<>>
        BY <1>3, <2>2, <4>1 DEF Taken
      <4>. QED  BY <1>10, <3>1, <4>1, <4>2
    <3>3. CASE ~full
      <4>1. added'[a] = added[a] /\ got'[a] = batch /\ acPc'[a] = "collect"
        BY <1>4, <1>8, <3>3
      <4>2. Taken(a)' = added'[a] \o batch
        BY <1>3, <2>2, <4>1 DEF Taken
      <4>. QED  BY <1>10, <3>1, <4>1, <4>2
    <3>. QED  BY <3>2, <3>3
  <2>. QED  BY <2>1, <2>2
<1>12. ASSUME NEW b \in Actors, b # a PROVE Taken(b)' = Taken(b)
  BY <1>3, <1>4, <1>8, <1>12 DEF Taken
<1>. QED  BY <1>1, <1>2, <1>3, <1>5, <1>11, <1>12

LEMMA TakePieceStock ==
  ASSUME conf \in Configs, StockInv, NEW a \in Actors, TakePiece(a)
  PROVE  StockInv'
<1>1. /\ conf' = conf /\ it' = it /\ version' = version /\ rolVersion' = rolVersion /\ loaded' = loaded /\ pc' = pc
      /\ rolAt' = rolAt /\ buf' = buf /\ task' = task /\ acPc[a] = "collect"
      /\ q' = [q EXCEPT ![KeyOf(a)] = Tail(@)]
  BY DEF TakePiece, runnerVars, weightVars, rolVars
<1>2. /\ Stream' = Stream /\ Rollouts' = Rollouts /\ Actors' = Actors /\ Keys' = Keys /\ Buffers' = Buffers
      /\ \A b \in Actors : Need(b)' = Need(b)
  BY <1>1, ConfKept
<1>3. PICK k \in Keys : k = KeyOf(a)
  BY PlacesAre
<1>4. /\ q \in [Keys -> Seq(PieceSet)] /\ got \in [Actors -> Seq(PieceSet)] /\ added \in [Actors -> Seq(PieceSet)]
      /\ DOMAIN acPc = Actors /\ DOMAIN ring = Actors
      /\ WeightInv /\ (\A b \in Actors : HandsInv(b) /\ RingInv(b)) /\ Spread(Stock)
  BY DEF StockInv
<1>5. q[k] # <<>> /\ \A b \in Actors : Taken(b)' = IF b = a THEN Append(Taken(a), Head(q[k])) ELSE Taken(b)
  BY <1>3, TakenAppends
<1>6. PICK p \in PieceSet : p = Head(q[k])
  BY <1>4, <1>5
<1>7. PICK batch \in Seq(PieceSet) : batch = Append(got[a], p) /\ Len(batch) = Len(got[a]) + 1
  <2>1. PICK g \in Seq(PieceSet) : g = got[a]
    BY <1>4, Zenon
  <2>2. Append(g, p) \in Seq(PieceSet) /\ Len(Append(g, p)) = Len(g) + 1
    BY AppendProperties, Zenon
  <2>. QED  BY <2>1, <2>2, Zenon
<1>8. PICK full \in BOOLEAN : full = (Len(batch) = Need(a))
  OBVIOUS
<1>9. /\ got' = [got EXCEPT ![a] = IF full /\ Stream THEN <<>> ELSE batch]
      /\ acPc' = [acPc EXCEPT ![a] = IF full /\ ~Stream THEN "have" ELSE "collect"]
      /\ IF full /\ conf.sac THEN /\ ring' = [ring EXCEPT ![a] = RingInsert(@, batch)]
                                  /\ added' = [added EXCEPT ![a] = @ \o batch]
         ELSE added' = added /\ ring' = ring
  BY <1>3, <1>6, <1>7, <1>8 DEF TakePiece
<1>10. PICK m \in Nat \ {0} : Need(a) = m /\ (conf.sac => m < conf.capacity)
  <2>1. PICK m \in Nat \ {0} : Need(a) = (IF conf.kind = "async" THEN NumEpochs * m ELSE m) /\ (conf.sac => m < conf.capacity)
    BY NeedIs
  <2>2. conf.kind = "async" => ~conf.sac
    BY EmbodiedAssumption
  <2>3. Need(a) \in Nat \ {0}
    BY NeedPositive
  <2>. QED  BY <2>1, <2>2, <2>3
<1>11. /\ Len(got[a]) < m /\ Len(got[a]) \in Nat /\ IF Stream THEN pc # "load" ELSE pc = "collect"
  BY <1>1, <1>4, <1>10 DEF HandsInv
<1>12. TypesOfStock'
  <2>1. q' \in [Keys -> Seq(PieceSet)]
    <3>1. Tail(q[k]) \in Seq(PieceSet)
      BY <1>4, <1>5
    <3>. QED  BY <1>1, <1>3, <1>4, <3>1
  <2>2. got' \in [Actors -> Seq(PieceSet)]
    BY <1>4, <1>9
  <2>3. added' \in [Actors -> Seq(PieceSet)]
    <3>1. added[a] \o batch \in Seq(PieceSet)
      BY <1>4
    <3>. QED  BY <1>4, <1>9, <3>1
  <2>4. DOMAIN acPc' = Actors /\ DOMAIN ring' = Actors
    BY <1>4, <1>9
  <2>. QED  BY <1>2, <2>1, <2>2, <2>3, <2>4 DEF TypesOfStock
<1>13. WeightInv'
  BY <1>1, <1>2, <1>4, Zenon DEF WeightInv
<1>14. ASSUME NEW b \in Actors
       PROVE  HandsInv(b)'
  <2>1. CASE b = a
    <3>1. got'[a] \in Seq(PieceSet) /\ added'[a] \in Seq(PieceSet)
      BY <1>2, <1>12 DEF TypesOfStock
    <3>2. /\ got'[a] = IF full /\ Stream THEN <<>> ELSE batch
          /\ acPc'[a] = IF full /\ ~Stream THEN "have" ELSE "collect"
      BY <1>4, <1>9
    <3>3. Len(batch) <= m /\ Len(<<>>) = 0 /\ (full <=> Len(batch) = m) /\ 0 < m
      <4>1. PICK l \in Nat : l = Len(got[a]) /\ l < m /\ Len(batch) = l + 1
        BY <1>7, <1>11
      <4>2. Len(batch) <= m /\ 0 < m
        BY <4>1
      <4>3. full <=> Len(batch) = m
        BY <1>8, <1>10
      <4>4. Len(<<>>) = 0
        OBVIOUS
      <4>. QED  BY <4>2, <4>3, <4>4
    <3>4. acPc'[a] = "collect" => Len(got'[a]) < m
      BY <1>7, <1>11, <3>2, <3>3
    <3>. QED  BY <1>1, <1>2, <1>10, <1>11, <2>1, <3>1, <3>2, <3>3, <3>4 DEF HandsInv
  <2>2. CASE b # a
    <3>1. got'[b] = got[b] /\ added'[b] = added[b] /\ acPc'[b] = acPc[b]
      BY <1>4, <1>9, <2>2
    <3>2. HandsInv(b)
      BY <1>4
    <3>. QED  BY <1>1, <1>2, <3>1, <3>2, Zenon DEF HandsInv
  <2>. QED  BY <2>1, <2>2
<1>15. ASSUME NEW b \in Actors
       PROVE  RingInv(b)'
  <2>0. RingInv(b)
    BY <1>4
  <2>1. CASE b = a /\ full /\ conf.sac
    <3>1. PICK c \in Nat \ {0} : c = conf.capacity
      <4>1. conf \in Config
        BY EmbodiedAssumption
      <4>. QED  BY <4>1 DEF Config, Positive
    <3>2. PICK s, rb : s \in Seq(PieceSet) /\ s = added[a] /\ rb = ring[a]
      BY <1>4
    <3>3. Latest(rb, s) /\ RingPlaces(rb)
      BY <2>0, <2>1, <3>2 DEF RingInv, HoldsLatest, Latest, RingPlaces
    <3>4. Len(batch) < c
      BY <1>8, <1>10, <2>1, <3>1
    <3>5. Latest(RingInsert(rb, batch), s \o batch) /\ RingPlaces(RingInsert(rb, batch))
      BY <3>1, <3>2, <3>3, <3>4, Inserted
    <3>6. ring'[a] = RingInsert(rb, batch) /\ added'[a] = s \o batch
      BY <1>4, <1>9, <2>1, <3>2
    <3>7. Latest(ring'[a], added'[a]) /\ RingPlaces(ring'[a])
      BY <3>5, <3>6
    <3>. QED  BY <1>1, <2>1, <3>7, Zenon DEF RingInv, HoldsLatest, Latest, RingPlaces
  <2>2. CASE ~(b = a /\ full /\ conf.sac)
    <3>1. ring'[b] = ring[b] /\ added'[b] = added[b]
      BY <1>4, <1>9, <2>2
    <3>. QED  BY <1>1, <2>0, <3>1, Zenon DEF RingInv, HoldsLatest
  <2>. QED  BY <2>1, <2>2
<1>16. PICK g : g = AllTaken'
  OBVIOUS
<1>17. DOMAIN g = Actors /\ g[a] = Append(AllTaken[a], Head(q[k])) /\ \A b \in Actors \ {a} : g[b] = AllTaken[b]
  BY <1>2, <1>5, <1>16 DEF AllTaken
<1>18. Spread(Piles(q', AllTaken')) /\ In(Piles(q', AllTaken')) = In(Stock)
  <2>1. DOMAIN q = Keys /\ DOMAIN AllTaken = Actors /\ Spread(Piles(q, AllTaken)) /\ q[KeyOf(a)] # <<>>
    <3>1. DOMAIN AllTaken = Actors
      BY DEF AllTaken
    <3>. QED  BY <1>3, <1>4, <1>5, <3>1 DEF Stock
  <2>2. PICK v : v = q' /\ v = [q EXCEPT ![KeyOf(a)] = Tail(@)]
    BY <1>1
  <2>3. Spread(Piles(v, g)) /\ In(Piles(v, g)) = In(Piles(q, AllTaken))
    <3>1. GoesOver(a, q, AllTaken, v, g)
      BY <1>3, <1>17, <2>1, <2>2 DEF GoesOver
    <3>. QED  BY <2>1, <3>1, PieceTaken
  <2>. QED  BY <1>16, <2>2, <2>3 DEF Stock
<1>19. Stock' = Piles(q', AllTaken') /\ OfStep' = Piles(q', got')
  BY <1>1, PilesKept
<1>20. Stream => StreamInv'
  BY <1>1, <1>2, <1>11, <1>18, <1>19, SentStays DEF StockInv, StreamInv
<1>21. ~Stream => StepInv'
  <2> SUFFICES ASSUME ~Stream PROVE StepInv'
    OBVIOUS
  <2>1. /\ Spread(OfStep) /\ In(OfStep) = Current
        /\ \A e \in In(Stock) : e \in In(OfStep) \/ e.round < it
    BY <1>11 DEF StockInv, StepInv
  <2>2. DOMAIN q = Keys /\ DOMAIN got = Actors /\ Spread(Piles(q, got)) /\ q[KeyOf(a)] # <<>>
    BY <1>3, <1>4, <1>5, <2>1 DEF OfStep
  <2>3. PICK v, d : v = q' /\ v = [q EXCEPT ![KeyOf(a)] = Tail(@)] /\ d = got'
    BY <1>1
  <2>4. DOMAIN d = Actors /\ d[a] = Append(got[a], Head(q[KeyOf(a)])) /\ \A b \in Actors \ {a} : d[b] = got[b]
    BY <1>3, <1>4, <1>6, <1>7, <1>9, <2>3
  <2>5. Spread(Piles(v, d)) /\ In(Piles(v, d)) = In(Piles(q, got))
    <3>1. GoesOver(a, q, got, v, d)
      BY <2>2, <2>3, <2>4 DEF GoesOver
    <3>. QED  BY <2>2, <3>1, PieceTaken
  <2>6. Spread(OfStep') /\ In(OfStep') = In(OfStep)
    BY <1>19, <2>3, <2>5 DEF OfStep
  <2>7. Current' = Current
    BY <1>1, CurrentStays
  <2>8. In(Stock') = In(Stock) /\ pc' = "collect"
    BY <1>1, <1>11, <1>18, <1>19
  <2>. QED  BY <1>1, <2>1, <2>6, <2>7, <2>8, Zenon DEF StepInv
<1>. QED  BY <1>1, <1>12, <1>13, <1>14, <1>15, <1>18, <1>20, <1>21, StockNext

\* New pieces, divided among the queues.
Divided(d, N) ==
  /\ \A k \in Keys : d[k] \in Seq(PieceSet) /\ IsInjective(d[k])
  /\ \A j, k \in Keys : j # k => ToSet(d[j]) \cap ToSet(d[k]) = {}
  /\ \A p : p \in N <=> \E k \in Keys : p \in ToSet(d[k])

Added(u, d) == [k \in Keys |-> u[k] \o d[k]]
LEMMA PiecesCome ==
  ASSUME conf \in Configs, NEW u, NEW h, Spread(Piles(u, h)), NEW d, NEW N, Divided(d, N),
         \A p \in N : p \notin In(Piles(u, h))
  PROVE  Spread(Piles(Added(u, d), h)) /\ In(Piles(Added(u, d), h)) = In(Piles(u, h)) \cup N
<1>0. PICK v : v = [k \in Keys |-> u[k] \o d[k]] /\ v = Added(u, d)
  BY DEF Added
<1>1. PICK none : none = [a \in Actors |-> <<>>]
  OBVIOUS
<1>2. PICK F, V, G : F = Piles(u, h) /\ V = Piles(d, none) /\ G = Piles(v, h)
  OBVIOUS
<1>3. DOMAIN F = Places /\ DOMAIN V = Places /\ DOMAIN G = Places
  BY <1>2, PileOf
<1>4. <<>> \in Seq(PieceSet) /\ IsInjective(<<>>) /\ ToSet(<<>>) = {}
  BY DEF IsInjective, ToSet
<1>5. ASSUME NEW n \in Places
      PROVE  IF n <= conf.actors + 1 THEN n - 2 \in Keys /\ V[n] = d[n - 2] /\ F[n] = u[n - 2] /\ G[n] = u[n - 2] \o d[n - 2]
             ELSE V[n] = <<>> /\ F[n] = G[n]
  <2>1. CASE n <= conf.actors + 1
    <3>1. n - 2 \in Keys
      BY <2>1, PlacesAre
    <3>. QED  BY <1>0, <1>2, <2>1, <3>1 DEF Piles
  <2>2. CASE ~(n <= conf.actors + 1)
    <3>1. n - conf.actors - 2 \in Actors
      BY <2>2, PlacesAre
    <3>. QED  BY <1>1, <1>2, <2>2, <3>1 DEF Piles
  <2>. QED  BY <2>1, <2>2
<1>6. Spread(V)
  <2>1. \A n \in Places : V[n] \in Seq(PieceSet) /\ IsInjective(V[n])
    BY <1>4, <1>5 DEF Divided
  <2>2. ASSUME NEW n \in Places, NEW m \in Places, n # m
        PROVE  ToSet(V[n]) \cap ToSet(V[m]) = {}
    <3>1. CASE n <= conf.actors + 1 /\ m <= conf.actors + 1
      <4>1. n - 2 # m - 2
        BY <2>2, <3>1, PlacesAre
      <4>. QED  BY <1>5, <3>1, <4>1 DEF Divided
    <3>2. CASE ~(n <= conf.actors + 1 /\ m <= conf.actors + 1)
      BY <1>4, <1>5, <3>2
    <3>. QED  BY <3>1, <3>2
  <2>. QED  BY <1>3, <2>1, <2>2 DEF Spread
<1>7. In(V) = N
  <2>1. ASSUME NEW p \in N PROVE p \in In(V)
    <3>1. PICK k \in Keys : p \in ToSet(d[k])
      BY DEF Divided
    <3>. QED  BY <1>2, <3>1, InPiles
  <2>2. ASSUME NEW p \in In(V) PROVE p \in N
    <3>1. (\E k \in Keys : p \in ToSet(d[k])) \/ (\E a \in Actors : p \in ToSet(none[a]))
      BY <1>2, <2>2, InPiles
    <3>. QED  BY <1>1, <1>4, <3>1 DEF Divided
  <2>. QED  BY <2>1, <2>2
<1>8. ASSUME NEW n \in Places PROVE G[n] = F[n] \o V[n]
  <2>1. F[n] \in Seq(PieceSet)
    BY <1>2, <1>3 DEF Spread
  <2>2. F[n] \o <<>> = F[n]
    BY <2>1
  <2>. QED  BY <1>5, <2>2
<1>9. In(F) \cap In(V) = {}
  BY <1>2, <1>7
<1>10. Spread(G) /\ In(G) = In(F) \cup In(V)
  <2>1. GrowsBy(F, V, G)
    BY <1>3, <1>8, <1>9 DEF GrowsBy
  <2>2. Spread(F)
    BY <1>2
  <2>. QED  BY <1>6, <2>1, <2>2, PilesGrow
<1>. QED  BY <1>0, <1>2, <1>7, <1>10

\* send_rollout_batch or send_data: pieces are put, in the async program each
\* to the actor it is meant for.
LEMMA PiecesDivide ==
  ASSUME conf \in Configs, q \in [Keys -> Seq(PieceSet)], NEW r, NEW pieces \in Seq(PieceSet), IsInjective(pieces),
         conf.kind = "async" => \A p \in ToSet(pieces) : TargetKey(r, p.k) \in Actors
  PROVE  \E d : Divided(d, ToSet(pieces)) /\ PutPieces(r, pieces) = Added(q, d)
<1>1. CASE conf.kind = "async"
  <2>1. PICK d : d = [k \in Keys |-> Those(pieces, {p \in ToSet(pieces) : TargetKey(r, p.k) = k})]
    OBVIOUS
  <2>2. ASSUME NEW k \in Keys
        PROVE  /\ d[k] \in Seq(PieceSet) /\ IsInjective(d[k])
               /\ \A p : p \in ToSet(d[k]) <=> p \in ToSet(pieces) /\ TargetKey(r, p.k) = k
    <3>1. PICK T : T = {p \in ToSet(pieces) : TargetKey(r, p.k) = k}
      OBVIOUS
    <3>2. d[k] = Those(pieces, T)
      BY <2>1, <3>1
    <3>3. /\ Those(pieces, T) \in Seq(PieceSet) /\ IsInjective(Those(pieces, T))
          /\ \A p : p \in ToSet(Those(pieces, T)) <=> p \in ToSet(pieces) /\ p \in T
      BY ThoseFacts
    <3>. QED  BY <3>1, <3>2, <3>3
  <2>3. Divided(d, ToSet(pieces))
    <3>1. \A j, k \in Keys : j # k => ToSet(d[j]) \cap ToSet(d[k]) = {}
      BY <2>2
    <3>2. ASSUME NEW p \in ToSet(pieces) PROVE \E k \in Keys : p \in ToSet(d[k])
      <4>1. TargetKey(r, p.k) \in Keys
        BY <1>1 DEF Keys
      <4>. QED  BY <2>2, <4>1
    <3>. QED  BY <2>2, <3>1, <3>2 DEF Divided
  <2>4. PutPieces(r, pieces) = Added(q, d)
    BY <1>1, <2>1 DEF PutPieces, Added
  <2>. QED  BY <2>3, <2>4
<1>2. CASE conf.kind # "async"
  <2>1. PICK d : d = [k \in Keys |-> IF k = DefaultKey THEN pieces ELSE <<>>]
    OBVIOUS
  <2>2. <<>> \in Seq(PieceSet) /\ IsInjective(<<>>) /\ ToSet(<<>>) = {}
    BY DEF IsInjective, ToSet
  <2>3. DefaultKey \in Keys
    BY DEF Keys
  <2>4. Divided(d, ToSet(pieces))
    BY <2>1, <2>2, <2>3 DEF Divided
  <2>5. PutPieces(r, pieces) = Added(q, d)
    <3>1. PICK x : x = q[DefaultKey] \o pieces
      OBVIOUS
    <3>2. ASSUME NEW k \in Keys PROVE q[k] \o d[k] = IF k = DefaultKey THEN x ELSE q[k]
      <4>1. q[k] \in Seq(PieceSet)
        OBVIOUS
      <4>2. q[k] \o <<>> = q[k]
        BY <4>1
      <4>. QED  BY <2>1, <3>1, <4>2
    <3>3. PutPieces(r, pieces) = [q EXCEPT ![DefaultKey] = x]
      BY <1>2, <3>1 DEF PutPieces
    <3>. QED  BY <2>3, <3>2, <3>3 DEF Added
  <2>. QED  BY <2>4, <2>5
<1>. QED  BY <1>1, <1>2

LEMMA PiecesPut ==
  ASSUME conf \in Configs, StockInv, conf' = conf, UNCHANGED <<got, added, acPc, ring>>,
         NEW r, NEW pieces \in Seq(PieceSet), IsInjective(pieces), q' = PutPieces(r, pieces),
         conf.kind = "async" => \A p \in ToSet(pieces) : TargetKey(r, p.k) \in Actors,
         \A p \in ToSet(pieces) : p \notin In(Stock)
  PROVE  /\ TypesOfStock' /\ (\A a \in Actors : RingInv(a)') /\ Spread(Piles(q', AllTaken'))
         /\ In(Stock') = In(Stock) \cup ToSet(pieces)
         /\ Spread(OfStep) /\ (\A p \in ToSet(pieces) : p \notin In(OfStep)) =>
              Spread(OfStep') /\ In(OfStep') = In(OfStep) \cup ToSet(pieces)
<1>1. /\ q \in [Keys -> Seq(PieceSet)] /\ got \in [Actors -> Seq(PieceSet)] /\ added \in [Actors -> Seq(PieceSet)]
      /\ DOMAIN acPc = Actors /\ DOMAIN ring = Actors /\ Spread(Stock) /\ \A a \in Actors : RingInv(a)
  BY DEF StockInv
<1>2. PICK d : Divided(d, ToSet(pieces)) /\ PutPieces(r, pieces) = Added(q, d)
  BY <1>1, PiecesDivide
<1>3. Actors' = Actors /\ Keys' = Keys /\ Stock' = Piles(q', AllTaken') /\ OfStep' = Piles(q', got')
  BY ConfKept, PilesKept
<1>4. PICK v : v = [k \in Keys |-> q[k] \o d[k]] /\ q' = v /\ v = Added(q, d)
  BY <1>2 DEF Added
<1>5. v \in [Keys -> Seq(PieceSet)]
  <2>1. ASSUME NEW k \in Keys PROVE q[k] \o d[k] \in Seq(PieceSet)
    <3>1. q[k] \in Seq(PieceSet) /\ d[k] \in Seq(PieceSet)
      BY <1>1, <1>2 DEF Divided
    <3>. QED  BY <3>1
  <2>. QED  BY <1>4, <2>1
<1>6. TypesOfStock'
  BY <1>1, <1>3, <1>4, <1>5 DEF TypesOfStock
<1>7. ASSUME NEW a \in Actors
      PROVE  RingInv(a)'
  BY <1>1, Zenon DEF RingInv, HoldsLatest
<1>8. AllTaken' = AllTaken
  <2>1. \A a \in Actors : Taken(a)' = Taken(a)
    BY Zenon DEF Taken
  <2>. QED  BY <1>3, <2>1, Zenon DEF AllTaken
<1>9. ASSUME NEW h, Spread(Piles(q, h)), \A p \in ToSet(pieces) : p \notin In(Piles(q, h))
      PROVE  Spread(Piles(v, h)) /\ In(Piles(v, h)) = In(Piles(q, h)) \cup ToSet(pieces)
  <2>1. PICK N : N = ToSet(pieces)
    OBVIOUS
  <2>2. Divided(d, N) /\ \A p \in N : p \notin In(Piles(q, h))
    BY <1>2, <1>9, <2>1
  <2>3. Spread(Piles(Added(q, d), h)) /\ In(Piles(Added(q, d), h)) = In(Piles(q, h)) \cup N
    BY <1>9, <2>2, PiecesCome
  <2>. QED  BY <1>4, <2>1, <2>3, Zenon
<1>10. Spread(Piles(v, AllTaken)) /\ In(Piles(v, AllTaken)) = In(Stock) \cup ToSet(pieces)
  BY <1>1, <1>9 DEF Stock
<1>11. Spread(OfStep) /\ (\A p \in ToSet(pieces) : p \notin In(OfStep)) =>
         Spread(Piles(v, got)) /\ In(Piles(v, got)) = In(OfStep) \cup ToSet(pieces)
  BY <1>9 DEF OfStep
<1>. QED  BY <1>3, <1>4, <1>6, <1>7, <1>8, <1>10, <1>11

\* What a stream's buffer holds.
LEMMA StreamLists ==
  ASSUME IInv, RecordInv, Stream, NEW y \in Buffers
  PROVE  \E a, d, k \in Nat :
           /\ d = StepsDone(conf, rolAt[y[1]], y[2]) /\ a <= d /\ a <= k /\ Left(y) = a
           /\ buf[y].inputs = Tags(conf.steps, a, d) /\ buf[y].dones = Tags(conf.steps + 1, a, k)
<1>1. conf \in Configs /\ rolAt \in [Rollouts -> Pos]
  BY DEF IInv, TypeInv
<1>2. y[1] \in Rollouts /\ y[1] \in Nat /\ y[2] \in Nat /\ y = <<y[1], y[2]>>
  BY <1>1, BufferOf
<1>3. PICK b : b = buf[y]
  OBVIOUS
<1>5. Stream /\ conf.kind = "stream" /\ conf.sac = TRUE
  BY <1>1, ConfFits
<1>6. PICK c \in Pos : c = rolAt[y[1]]
  BY <1>1, <1>2
<1>7. PICK n \in Nat : n = conf.steps /\ n \in Positive /\ n + 1 \in Positive
  BY <1>1, ConfFits DEF Positive
<1>8. PICK d \in Nat, k \in Nat :
        d = StepsDone(conf, c, y[2]) /\ d = Answered(conf, c, y[2]) /\ k = ObsSeen(conf, c, y[2])
  <2>1. PICK p \in Nat, h \in Nat, s \in Nat : Counts(conf, c, y[2], p, h, s)
    BY <1>1, <1>2, ConfFits, CountsAre
  <2>. QED  BY <1>5, <2>1 DEF Counts
<1>9. PICK a \in Nat : a <= d /\ a <= k /\ b = Lists(conf, a, d, d, a, k)
  <2>1. Holds(conf, c, y[2], b)
    BY <1>3, <1>6 DEF RecordInv
  <2>. QED  BY <1>5, <1>8, <2>1 DEF Holds, Begins
<1>10. b.inputs = Tags(n, a, d) /\ b.dones = Tags(n + 1, a, k)
  BY <1>7, <1>9, Zenon DEF Lists
<1>11. Left(y) = a
  <2>1. Len(Tags(n, a, d)) = d - a
    BY <1>7, <1>9, TagsPut
  <2>2. Left(y) = d - Len(Tags(n, a, d))
    BY <1>3, <1>6, <1>8, <1>10, Zenon DEF Left
  <2>. QED  BY <2>1, <2>2
<1>. QED  BY <1>3, <1>6, <1>7, <1>8, <1>9, <1>10, <1>11

\* Two steps of a stage have two tags.
LEMMA TagsApart ==
  ASSUME NEW n \in Positive, NEW a \in Nat, NEW b \in Nat, Tag(n, a) = Tag(n, b)
  PROVE  a = b
<1>1. a = (a \div n) * n + (a % n) /\ b = (b \div n) * n + (b % n)
  BY DivisionParts DEF Positive
<1>2. a \div n = b \div n /\ a % n = b % n
  BY DEF Tag
<1>. QED  BY <1>1, <1>2, Zenon

\* One step more is sent, in all its parts.
StepAdded(pieces, at, n) ==
  /\ \A p \in pieces : p.at = at /\ p.k \in 0 .. n - 1
  /\ \A k \in 0 .. n - 1 : \E p \in pieces : p.k = k
  /\ \A p, s \in pieces : p.k = s.k => p = s
LEMMA SentMore ==
  ASSUME NEW n \in Nat, NEW steps \in Positive, NEW l, NEW O, SentAs(O, l, n, steps), NEW N, StepAdded(N, Tag(steps, l), n)
  PROVE  SentAs(O \cup N, l + 1, n, steps)
<1>1. PICK e \in Nat : e = l
  BY DEF SentAs
<1>2. 0 .. (e + 1) - 1 = (0 .. e - 1) \cup {e} /\ e + 1 \in Nat
  OBVIOUS
<1>3. ASSUME NEW p \in O PROVE p.k \in 0 .. n - 1 /\ (\E m \in 0 .. e - 1 : p.at = Tag(steps, m)) /\ p.at # Tag(steps, e)
  <2>1. p.k \in 0 .. n - 1
    BY DEF SentAs
  <2>2. PICK m \in 0 .. e - 1 : p.at = Tag(steps, m)
    BY <1>1 DEF SentAs
  <2>3. m \in Nat /\ m # e
    OBVIOUS
  <2>. QED  BY <2>1, <2>2, <2>3, TagsApart
<1>4. \A p \in N : p.k \in 0 .. n - 1 /\ p.at = Tag(steps, e)
  BY <1>1 DEF StepAdded
<1>5. ASSUME NEW m \in 0 .. e, NEW k \in 0 .. n - 1 PROVE \E p \in O \cup N : p.at = Tag(steps, m) /\ p.k = k
  <2>1. CASE m = e
    <3>1. PICK p \in N : p.k = k
      BY DEF StepAdded
    <3>. QED  BY <1>4, <2>1, <3>1
  <2>2. CASE m # e
    <3>1. m \in 0 .. e - 1
      BY <2>2
    <3>. QED  BY <1>1, <3>1 DEF SentAs
  <2>. QED  BY <2>1, <2>2
<1>6. ASSUME NEW p \in O \cup N, NEW s \in O \cup N, p.at = s.at, p.k = s.k PROVE p = s
  <2>1. CASE p \in O /\ s \in O
    BY <1>6, <2>1 DEF SentAs
  <2>2. CASE p \in N /\ s \in N
    BY <1>6, <2>2 DEF StepAdded
  <2>3. CASE (p \in O /\ s \in N) \/ (p \in N /\ s \in O)
    BY <1>3, <1>4, <1>6, <2>3
  <2>. QED  BY <2>1, <2>2, <2>3
<1>7. \A p \in O \cup N : p.k \in 0 .. n - 1 /\ \E m \in 0 .. e : p.at = Tag(steps, m)
  <2>1. ASSUME NEW p \in O PROVE \E m \in 0 .. e : p.at = Tag(steps, m)
    <3>1. PICK m \in 0 .. e - 1 : p.at = Tag(steps, m)
      BY <1>3
    <3>2. m \in 0 .. e
      OBVIOUS
    <3>. QED  BY <3>1, <3>2
  <2>2. e \in 0 .. e
    OBVIOUS
  <2>. QED  BY <1>3, <1>4, <2>1, <2>2
<1>8. SentAs(O \cup N, e + 1, n, steps)
  <2>1. 0 .. (e + 1) - 1 = 0 .. e
    OBVIOUS
  <2>. QED  BY <1>2, <1>5, <1>6, <1>7, <2>1, Zenon DEF SentAs
<1>. QED  BY <1>1, <1>8

\* Who has which weights, when nobody loads any.
LEMMA WeightsKept ==
  ASSUME conf' = conf, pc' = pc, loaded' = loaded, rolVersion' = rolVersion, version' = version, WeightInv
  PROVE  WeightInv'
<1>1. Stream' = Stream /\ Rollouts' = Rollouts
  BY ConfKept
<1>. QED  BY <1>1, Zenon DEF WeightInv

\* An actor that nothing happens to.
LEMMA HandKept ==
  ASSUME conf' = conf, pc' = pc, got' = got, added' = added, acPc' = acPc, NEW a \in Actors, HandsInv(a)
  PROVE  HandsInv(a)'
<1>1. Stream' = Stream /\ Need(a)' = Need(a)
  BY ConfKept
<1>. QED  BY <1>1, Zenon DEF HandsInv

\* A stage that has sent nothing more.
LEMMA SentMoves ==
  ASSUME NEW x, SentInv(x), conf' = conf, Left(x)' = Left(x), Of(x)' = Of(x)
  PROVE  SentInv(x)'
<1>1. SplitNum' = SplitNum /\ NumSteps' = NumSteps
  BY ConfKept
<1>. QED  BY <1>1, Zenon DEF SentInv

\* A record of a stream leaves in its parts.
LEMMA BufferSendStock ==
  ASSUME IInv, RecordInv, StockInv, NEW y \in Buffers, BufferSend(y[1], y[2])
  PROVE  StockInv'
<1>1. conf \in Configs /\ rolAt \in [Rollouts -> Pos]
  BY DEF IInv, TypeInv
<1>2. y[1] \in Rollouts /\ y[1] \in Nat /\ y[2] \in Nat /\ y = <<y[1], y[2]>>
  BY <1>1, BufferOf
<1>3. PICK b : b = buf[y]
  OBVIOUS
<1>4. /\ task[y] = "run" /\ b.inputs # <<>> /\ b.dones # <<>>
      /\ conf' = conf /\ rolAt' = rolAt /\ version' = version /\ rolVersion' = rolVersion /\ it' = it
      /\ pc' = pc /\ loaded' = loaded /\ UNCHANGED <<got, added, acPc, ring>>
      /\ buf' = [buf EXCEPT ![y] = [f \in DOMAIN b |-> IF f = "values" THEN b[f] ELSE Tail(b[f])]]
      /\ q' = PutPieces(y[1], [k \in 1 .. SplitNum |-> Piece(y[1], y[2], k - 1, Head(b.inputs), Head(b.dones))])
  BY <1>2, <1>3 DEF BufferSend, runnerVars, weightVars, actorVars
<1>5. Stream /\ conf.kind = "stream" /\ pc # "load" /\ \A x \in Buffers : SentInv(x)
  <2>1. Stream
    BY <1>1, <1>4, ConfFits DEF RecordInv
  <2>. QED  BY <1>1, <1>4, <2>1, ConfFits DEF StockInv, StreamInv
<1>6. PICK a \in Nat, d \in Nat, l \in Nat :
        /\ d = StepsDone(conf, rolAt[y[1]], y[2]) /\ a <= d /\ a <= l /\ Left(y) = a
        /\ b.inputs = Tags(conf.steps, a, d) /\ b.dones = Tags(conf.steps + 1, a, l)
  BY <1>3, <1>5, StreamLists
<1>7. PICK n \in Positive : n = conf.steps /\ n + 1 \in Positive
  BY <1>1, ConfFits
<1>8. /\ Head(b.inputs) = Tag(n, a) /\ Head(b.dones) = Tag(n + 1, a) /\ Tail(b.inputs) = Tags(n, a + 1, d) /\ a + 1 <= d
  <2>1. a # d /\ a # l
    BY <1>4, <1>6, NoTags
  <2>2. a < d /\ a < l
    BY <1>6, <2>1
  <2>3. FirstGoes(n, a, d) /\ FirstGoes(n + 1, a, l)
    BY <1>7, <2>2, TagsGo
  <2>. QED  BY <1>6, <1>7, <2>2, <2>3 DEF FirstGoes
<1>9. PICK at \in Pairs, done \in Pairs : at = Tag(n, a) /\ done = Tag(n + 1, a)
  BY <1>7, AllType
<1>10. PICK s \in Nat : s = SplitNum
  BY <1>1, SplitType
<1>11. PICK w \in Nat : w = rolVersion[y[1]]
  BY <1>2 DEF RecordInv
<1>12. PICK pieces : pieces = [j \in 1 .. s |-> Piece(y[1], y[2], j - 1, at, done)]
  OBVIOUS
<1>13. ASSUME NEW j \in 1 .. s
       PROVE  /\ pieces[j] \in PieceSet /\ pieces[j].rank = y[1] /\ pieces[j].stage = y[2] /\ pieces[j].k = j - 1
              /\ pieces[j].at = at
  <2>1. pieces[j] = [round |-> 0, rank |-> y[1], stage |-> y[2], k |-> j - 1, at |-> at, done |-> done, version |-> w]
    BY <1>5, <1>11, <1>12 DEF Piece, Round
  <2>2. j - 1 \in Nat
    OBVIOUS
  <2>. QED  BY <1>2, <2>1, <2>2 DEF PieceSet, Pairs
<1>14. pieces \in Seq(PieceSet) /\ DOMAIN pieces = 1 .. s
  BY <1>12, <1>13
<1>15. IsInjective(pieces)
  <2> SUFFICES ASSUME NEW i \in 1 .. s, NEW j \in 1 .. s, pieces[i] = pieces[j] PROVE i = j
    BY <1>14 DEF IsInjective
  <2>1. i - 1 = j - 1
    BY <1>13
  <2>. QED  BY <2>1
<1>16. PICK N : N = ToSet(pieces)
  OBVIOUS
<1>17. \A p : p \in N <=> \E j \in 1 .. s : p = pieces[j]
  BY <1>14, <1>16 DEF ToSet
<1>18. StepAdded(N, Tag(n, a), s)
  <2>1. ASSUME NEW k \in 0 .. s - 1 PROVE \E p \in N : p.k = k
    <3>1. k + 1 \in 1 .. s /\ (k + 1) - 1 = k
      OBVIOUS
    <3>2. pieces[k + 1].k = k /\ pieces[k + 1] \in N
      BY <1>13, <1>17, <3>1
    <3>. QED  BY <3>2
  <2>2. ASSUME NEW p \in N PROVE p.at = Tag(n, a) /\ p.k \in 0 .. s - 1
    <3>1. PICK j \in 1 .. s : p = pieces[j]
      BY <1>17
    <3>. QED  BY <1>9, <1>13, <3>1
  <2>3. ASSUME NEW p \in N, NEW t \in N, p.k = t.k PROVE p = t
    <3>1. PICK i \in 1 .. s, j \in 1 .. s : p = pieces[i] /\ t = pieces[j]
      BY <1>17
    <3>2. i - 1 = j - 1
      BY <1>13, <2>3, <3>1
    <3>. QED  BY <3>1, <3>2
  <2>. QED  BY <2>1, <2>2, <2>3 DEF StepAdded
<1>19. SentAs(Of(y), a, s, n)
  <2>1. SentInv(y)
    BY <1>5
  <2>. QED  BY <1>6, <1>7, <1>10, <2>1 DEF SentInv, NumSteps
<1>20. \A p \in N : p.rank = y[1] /\ p.stage = y[2]
  BY <1>13, <1>17
<1>21. ASSUME NEW p \in N PROVE p \notin In(Stock)
  <2> SUFFICES ASSUME p \in In(Stock) PROVE FALSE
    OBVIOUS
  <2>1. p \in Of(y)
    BY <1>20 DEF Of
  <2>2. PICK m \in 0 .. a - 1 : p.at = Tag(n, m)
    BY <1>19, <2>1 DEF SentAs
  <2>3. p.at = Tag(n, a)
    BY <1>18 DEF StepAdded
  <2>4. m \in Nat /\ m # a
    OBVIOUS
  <2>. QED  BY <2>2, <2>3, <2>4, TagsApart
<1>22. q' = PutPieces(y[1], pieces)
  BY <1>4, <1>8, <1>9, <1>10, <1>12
<1>23. /\ TypesOfStock' /\ (\A e \in Actors : RingInv(e)') /\ Spread(Piles(q', AllTaken'))
       /\ In(Stock') = In(Stock) \cup N
  <2>1. conf.kind # "async" /\ \A p \in ToSet(pieces) : p \notin In(Stock)
    BY <1>5, <1>16, <1>21
  <2>. QED  BY <1>1, <1>4, <1>14, <1>15, <1>16, <1>22, <2>1, PiecesPut
<1>24. ASSUME NEW x \in Buffers
       PROVE  SentInv(x)'
  <2>1. CASE x = y
    <3>1. Of(y)' = Of(y) \cup N
      BY <1>20, <1>23 DEF Of
    <3>2. Left(y)' = a + 1
      <4>1. buf'[y].inputs = Tags(n, a + 1, d)
        <5>1. b = buf[y] /\ DOMAIN buf = Buffers
          BY <1>3 DEF RecordInv
        <5>2. "inputs" \in DOMAIN b
          <6>1. Holds(conf, rolAt[y[1]], y[2], b)
            BY <5>1 DEF RecordInv
          <6>. QED  BY <6>1 DEF Holds, Lists
        <5>3. buf'[y] = [f \in DOMAIN b |-> IF f = "values" THEN b[f] ELSE Tail(b[f])]
          BY <1>4, <5>1
        <5>. QED  BY <1>8, <5>2, <5>3
      <4>2. Len(Tags(n, a + 1, d)) = d - (a + 1)
        BY <1>8, TagsPut, a + 1 \in Nat
      <4>3. Left(y)' = d - Len(Tags(n, a + 1, d))
        BY <1>4, <1>6, <4>1, Zenon DEF Left
      <4>. QED  BY <4>2, <4>3
    <3>3. SentAs(Of(y) \cup N, a + 1, s, n)
      BY <1>18, <1>19, SentMore
    <3>4. SplitNum' = s /\ NumSteps' = n
      BY <1>4, <1>7, <1>10, ConfKept DEF NumSteps
    <3>. QED  BY <2>1, <3>1, <3>2, <3>3, <3>4 DEF SentInv
  <2>2. CASE x # y
    <3>1. x[1] # y[1] \/ x[2] # y[2]
      BY <1>1, <1>2, <2>2, BufferOf
    <3>2. Of(x)' = Of(x)
      BY <1>20, <1>23, <3>1 DEF Of
    <3>3. buf'[x] = buf[x]
      BY <1>4, <2>2 DEF RecordInv
    <3>4. Left(x)' = Left(x)
      BY <1>4, <3>3, Zenon DEF Left
    <3>. QED  BY <1>4, <1>5, <3>2, <3>4, SentMoves
  <2>. QED  BY <2>1, <2>2
<1>25. WeightInv' /\ \A e \in Actors : HandsInv(e)'
  BY <1>4, WeightsKept, HandKept DEF StockInv
<1>26. StreamInv'
  <2>1. Buffers' = Buffers
    BY <1>4, ConfKept
  <2>. QED  BY <1>4, <1>5, <1>24, <2>1 DEF StreamInv
<1>. QED  BY <1>4, <1>5, <1>23, <1>25, <1>26, StockNext

\* A turn of generate() in a stream: the record is one more, and so is the
\* buffer's.
LEMMA RecordAdded ==
  ASSUME IInv, RecordInv, Stream, NEW r \in Rollouts, RolloutStep(r), NEW x \in Buffers
  PROVE  Left(x)' = Left(x)
<1>1. rolPc[r] = "recv" /\ conf' = conf
  BY DEF RolloutStep, runnerVars
<1>2. conf \in Configs /\ rolAt \in [Rollouts -> Pos]
  BY DEF IInv, TypeInv
<1>3. RolPlace(r)
  BY <1>1 DEF IInv, TrainInv
<1>4. PICK c \in Pos : c = rolAt[r] /\ c.stage < conf.stages /\ c.st <= conf.steps
  BY <1>2, <1>3 DEF RolPlace, NumSteps
<1>5. PICK a : a = Follows(conf.stages, c, conf.steps)
  OBVIOUS
<1>6. rolAt' = [rolAt EXCEPT ![r] = a]
  <2>1. After(c, NumSteps) = a
    BY <1>5, AfterFollows DEF NumSteps
  <2>. QED  BY <1>4, <2>1 DEF RolloutStep
<1>7. PICK b : b = Recorded(r, c)
  OBVIOUS
<1>8. buf' = [buf EXCEPT ![<<r, c.stage>>] = b] /\ DOMAIN buf = Buffers
  BY <1>4, <1>7 DEF RolloutStep, RecordInv
<1>9. c.stage \in Nat /\ c.st \in Nat /\ c.ep \in Nat /\ conf.stages \in Nat
  BY <1>2, PosEqual, ConfType DEF Positive
<1>10. x[1] \in Rollouts /\ x[2] \in Nat /\ x[2] < conf.stages /\ x = <<x[1], x[2]>>
  BY <1>2, BufferOf
<1>11. CASE x[1] # r
  <2>1. rolAt'[x[1]] = rolAt[x[1]] /\ buf'[x] = buf[x]
    BY <1>2, <1>6, <1>8, <1>10, <1>11
  <2>. QED  BY <1>1, <2>1, Zenon DEF Left
<1>12. CASE x[1] = r /\ x[2] # c.stage
  <2>1. rolAt'[x[1]] = a /\ buf'[x] = buf[x] /\ rolAt[x[1]] = c
    BY <1>2, <1>4, <1>6, <1>8, <1>10, <1>12
  <2>2. StepsDone(conf, a, x[2]) = StepsDone(conf, c, x[2])
    BY <1>2, <1>4, <1>5, <1>9, <1>10, <1>12, ConfFits, OtherStage DEF SameCounts
  <2>. QED  BY <1>1, <2>1, <2>2, Zenon DEF Left
<1>13. CASE x = <<r, c.stage>>
  <2>1. rolAt'[x[1]] = a /\ buf'[x] = b /\ rolAt[x[1]] = c /\ x[2] = c.stage
    BY <1>2, <1>4, <1>6, <1>8, <1>10, <1>13
  <2>2. PICK h \in Nat, d \in Nat : h = Left(x) /\ d = StepsDone(conf, c, c.stage) /\ h <= d /\ buf[x].inputs = Tags(conf.steps, h, d)
    <3>1. \E h, d, k \in Nat :
             /\ d = StepsDone(conf, rolAt[x[1]], x[2]) /\ h <= d /\ h <= k /\ Left(x) = h
             /\ buf[x].inputs = Tags(conf.steps, h, d) /\ buf[x].dones = Tags(conf.steps + 1, h, k)
      BY StreamLists
    <3>. QED  BY <2>1, <3>1
  <2>3. PICK n \in Positive : n = conf.steps
    BY <1>2, ConfFits
  <2>4. PICK t \in Seq(Pairs) : t = buf[x].inputs /\ Len(t) = d - h
    BY <2>2, <2>3, TagsPut
  <2>5. b.inputs = AppendIf(t, c.st > 0, <<c.ep, c.st - 1>>)
    <3>1. b = AddResult(buf[x], c)
      BY <1>2, <1>7, <1>13, ConfFits DEF Recorded
    <3>2. "inputs" \in DOMAIN buf[x]
      <4>1. Holds(conf, rolAt[x[1]], x[2], buf[x])
        BY DEF RecordInv
      <4>. QED  BY <4>1 DEF Holds, Lists
    <3>3. b.inputs = AppendIf(buf[x].inputs, HasInputs(c), <<c.ep, c.st - 1>>)
      BY <3>1, <3>2 DEF AddResult
    <3>. QED  BY <2>4, <3>3 DEF HasInputs
  <2>6. Len(b.inputs) = IF c.st > 0 THEN (d - h) + 1 ELSE d - h
    BY <1>9, <2>4, <2>5 DEF AppendIf
  <2>7. PICK p \in Nat, o \in Nat : p = c.ep * conf.steps /\ o = c.ep * (conf.steps + 1)
    BY <1>2, ConfFits, CountsAre
  <2>8. /\ Counts(conf, c, c.stage, p, o, c.st)
        /\ Counts(conf, Follows(conf.stages, c, conf.steps), c.stage, p, o, c.st + 1)
    BY <1>2, <1>4, <1>9, <2>7, ConfFits, OwnStage
  <2>9. StepsDone(conf, a, c.stage) = p + c.st /\ d = p + (IF c.st = 0 THEN 0 ELSE c.st - 1)
    BY <1>5, <1>9, <2>2, <2>8 DEF Counts
  <2>10. Left(x)' = StepsDone(conf, a, c.stage) - Len(b.inputs)
    BY <1>1, <2>1, Zenon DEF Left
  <2>11. Left(x)' = h
    <3>1. PICK y, l, u : y \in Nat /\ y = c.st /\ l = Len(b.inputs) /\ u = StepsDone(conf, a, c.stage)
      BY <1>9
    <3>2. u = p + y /\ l = (IF y > 0 THEN (d - h) + 1 ELSE d - h) /\ d = p + (IF y = 0 THEN 0 ELSE y - 1)
      BY <2>6, <2>9, <3>1, Zenon
    <3>3. u - l = h
      <4>1. CASE y = 0
        BY <3>2, <4>1
      <4>2. CASE y \in Nat \ {0}
        BY <3>2, <4>2
      <4>. QED  BY <3>1, <4>1, <4>2
    <3>. QED  BY <2>10, <3>1, <3>3, Zenon
  <2>. QED  BY <2>2, <2>11
<1>. QED  BY <1>10, <1>11, <1>12, <1>13

LEMMA RolloutStepStream ==
  ASSUME IInv, RecordInv, StockInv, Stream, NEW r \in Rollouts, RolloutStep(r)
  PROVE  StockInv'
<1>1. /\ rolPc[r] = "recv" /\ conf' = conf /\ task' = task /\ version' = version /\ rolVersion' = rolVersion
      /\ it' = it /\ pc' = pc /\ loaded' = loaded
      /\ got' = got /\ added' = added /\ acPc' = acPc /\ ring' = ring
  BY DEF RolloutStep, runnerVars, weightVars, actorVars
<1>2. conf \in Configs
  BY DEF IInv, TypeInv
<1>3. q' = q
  <2>1. ~Ships(rolAt[r])
    BY DEF Ships, Stream
  <2>. QED  BY <2>1 DEF RolloutStep
<1>4. UNCHANGED handVars
  BY <1>1, <1>3 DEF handVars
<1>5. /\ TypesOfStock' /\ Spread(Piles(q', AllTaken')) /\ Stock' = Stock /\ \A a \in Actors : RingInv(a)'
  BY <1>4, HandsKept
<1>6. WeightInv' /\ \A e \in Actors : HandsInv(e)'
  BY <1>1, WeightsKept, HandKept DEF StockInv
<1>7. pc # "load" /\ \A x \in Buffers : SentInv(x)
  <2>1. pc # "load"
    BY <1>1 DEF IInv, TrainInv
  <2>. QED  BY <2>1 DEF StockInv, StreamInv
<1>8. ASSUME NEW x \in Buffers
      PROVE  SentInv(x)'
  <2>1. Left(x)' = Left(x)
    BY RecordAdded
  <2>2. Of(x)' = Of(x)
    BY <1>5, Zenon DEF Of
  <2>. QED  BY <1>1, <1>7, <2>1, <2>2, SentMoves
<1>9. StreamInv'
  <2>1. Buffers' = Buffers
    BY <1>1, ConfKept
  <2>. QED  BY <1>1, <1>7, <1>8, <2>1 DEF StreamInv
<1>. QED  BY <1>1, <1>5, <1>6, <1>9, StockNext

\* The trajectories of an epoch: a piece for each stage and part.
Parts(r, ep) == {t \in Buffers \X ((0 .. SplitNum - 1) \X (0 .. NumEpochs - 1)) : t[1][1] = r /\ t[2][2] = ep}
LEMMA TrajectoriesAre ==
  ASSUME conf \in Configs, it \in Nat, version \in Nat, ~Stream, NEW r \in Rollouts, rolVersion[r] = version,
         NEW ep \in 0 .. NumEpochs - 1
  PROVE  /\ Trajectories(r, ep) \in Seq(PieceSet) /\ IsInjective(Trajectories(r, ep))
         /\ ToSet(Trajectories(r, ep)) = {Made(t) : t \in Parts(r, ep)}
<1>1. PICK S \in Nat, n \in Nat : S = conf.stages /\ n = SplitNum
  BY SplitType, ConfFits DEF Positive
<1>2. r \in Nat /\ ep \in Nat
  BY ConfType, EmbodiedAssumption DEF Rollouts, Positive
<1> DEFINE P(i, k) == Piece(r, i - 1, k - 1, <<ep, 0>>, <<ep, 0>>)
<1>3. PICK f : f = [i \in 1 .. S |-> [k \in 1 .. n |-> P(i, k)]]
  OBVIOUS
<1>4. ASSUME NEW i \in 1 .. S, NEW k \in 1 .. n
      PROVE  /\ P(i, k) = [round |-> it, rank |-> r, stage |-> i - 1, k |-> k - 1, at |-> <<ep, 0>>,
                           done |-> <<ep, 0>>, version |-> version]
             /\ P(i, k) \in PieceSet /\ P(i, k).stage = i - 1 /\ P(i, k).k = k - 1
  <2>1. Round("train") = it
    BY DEF Round
  <2>2. P(i, k) = [round |-> it, rank |-> r, stage |-> i - 1, k |-> k - 1, at |-> <<ep, 0>>,
                   done |-> <<ep, 0>>, version |-> version]
    BY <2>1 DEF Piece
  <2>3. i - 1 \in Nat /\ k - 1 \in Nat /\ <<ep, 0>> \in Nat \X Nat
    BY <1>2
  <2> HIDE DEF P
  <2>. QED  BY <1>2, <2>2, <2>3 DEF PieceSet
<1> HIDE DEF P
<1>5. ASSUME NEW i \in 1 .. S
      PROVE  /\ f[i] \in Seq(PieceSet) /\ IsInjective(f[i])
             /\ \A p : p \in ToSet(f[i]) <=> \E k \in 1 .. n : p = P(i, k)
  <2>1. PICK w : w = f[i] /\ w = [k \in 1 .. n |-> P(i, k)]
    BY <1>3
  <2>2. w \in Seq(PieceSet)
    BY <1>4, <2>1
  <2>3. IsInjective(w)
    <3> SUFFICES ASSUME NEW j \in 1 .. n, NEW k \in 1 .. n, w[j] = w[k] PROVE j = k
      BY <2>1 DEF IsInjective
    <3>1. P(i, j) = P(i, k)
      BY <2>1
    <3>2. j - 1 = k - 1
      BY <1>4, <3>1
    <3>. QED  BY <3>2
  <2>4. \A p : p \in ToSet(w) <=> \E k \in 1 .. n : p = P(i, k)
    BY <2>1 DEF ToSet
  <2>. QED  BY <2>1, <2>2, <2>3, <2>4
<1>6. f \in Seq(Seq(PieceSet)) /\ DOMAIN f = 1 .. S
  <2>1. DOMAIN f = 1 .. S /\ f = [i \in 1 .. S |-> f[i]]
    BY <1>3
  <2>2. f \in [1 .. S -> Seq(PieceSet)]
    BY <1>5, <2>1
  <2>. QED  BY <2>1, <2>2
<1>8. ASSUME NEW i \in 1 .. S, NEW j \in 1 .. S, i # j
      PROVE  ToSet(f[i]) \cap ToSet(f[j]) = {}
  <2> SUFFICES ASSUME NEW p \in ToSet(f[i]), p \in ToSet(f[j]) PROVE FALSE
    OBVIOUS
  <2>0. PICK h \in 1 .. n : p = P(i, h)
    BY <1>5, Zenon
  <2>3. PICK k \in 1 .. n : p = P(j, k)
    BY <1>5, Zenon
  <2>1. P(i, h).stage = i - 1 /\ P(j, k).stage = j - 1
    BY <1>4, Zenon
  <2>2. i - 1 = j - 1
    BY <2>0, <2>1, <2>3, Zenon
  <2>. QED  BY <1>8, <2>2
<1>9. /\ FlattenSeq(f) \in Seq(PieceSet) /\ IsInjective(FlattenSeq(f))
      /\ \A p : p \in ToSet(FlattenSeq(f)) <=> \E i \in 1 .. S : p \in ToSet(f[i])
  <2>1. \A i \in DOMAIN f : IsInjective(f[i])
    BY <1>5, <1>6, Zenon
  <2>2. \A i, j \in DOMAIN f : i # j => ToSet(f[i]) \cap ToSet(f[j]) = {}
    BY <1>6, <1>8, Zenon
  <2>3. /\ FlattenSeq(f) \in Seq(PieceSet) /\ IsInjective(FlattenSeq(f))
        /\ \A p : p \in ToSet(FlattenSeq(f)) <=> \E i \in DOMAIN f : p \in ToSet(f[i])
    BY <1>6, <2>1, <2>2, Flattened
  <2>. QED  BY <1>6, <2>3, Zenon
<1>10. Trajectories(r, ep) = FlattenSeq(f)
  BY <1>1, <1>3 DEF Trajectories, P
<1>11. ASSUME NEW i \in 1 .. S, NEW k \in 1 .. n
       PROVE  <<<<r, i - 1>>, <<k - 1, ep>>>> \in Parts(r, ep) /\ Made(<<<<r, i - 1>>, <<k - 1, ep>>>>) = P(i, k)
  <2>1. i - 1 \in Stages /\ k - 1 \in 0 .. SplitNum - 1
    BY <1>1 DEF Stages
  <2>2. <<r, i - 1>> \in Buffers
    BY <2>1 DEF Buffers
  <2>. QED  BY <1>4, <2>1, <2>2 DEF Parts, Made
<1>12. ASSUME NEW t \in Parts(r, ep)
       PROVE  \E i \in 1 .. S, k \in 1 .. n : Made(t) = P(i, k)
  <2>1. t[1] \in Buffers /\ t[1][1] = r /\ t[2][1] \in 0 .. n - 1 /\ t[2][2] = ep
    BY <1>1 DEF Parts
  <2>2. t[1][2] \in 0 .. S - 1
    BY <1>1, <2>1 DEF Buffers, Stages
  <2>3. PICK i \in 1 .. S, k \in 1 .. n : i - 1 = t[1][2] /\ k - 1 = t[2][1]
    <3>1. t[1][2] + 1 \in 1 .. S /\ t[2][1] + 1 \in 1 .. n /\ (t[1][2] + 1) - 1 = t[1][2] /\ (t[2][1] + 1) - 1 = t[2][1]
      BY <2>1, <2>2
    <3>. QED  BY <3>1
  <2>4. Made(t) = P(i, k)
    BY <1>4, <2>1, <2>3 DEF Made
  <2>. QED  BY <2>4
<1>13. ToSet(FlattenSeq(f)) = {Made(t) : t \in Parts(r, ep)}
  <2>1. ASSUME NEW p \in ToSet(FlattenSeq(f)) PROVE p \in {Made(t) : t \in Parts(r, ep)}
    <3>0. PICK i \in 1 .. S : p \in ToSet(f[i])
      BY <1>9
    <3>1. PICK k \in 1 .. n : p = P(i, k)
      BY <1>5, <3>0, Zenon
    <3>. QED  BY <1>11, <3>1
  <2>2. ASSUME NEW t \in Parts(r, ep) PROVE Made(t) \in ToSet(FlattenSeq(f))
    <3>1. PICK i \in 1 .. S, k \in 1 .. n : Made(t) = P(i, k)
      BY <1>12
    <3>. QED  BY <1>5, <1>9, <3>1
  <2>. QED  BY <2>1, <2>2
<1>. QED  BY <1>9, <1>10, <1>13

\* What a turn of generate() outside a stream ships.
LEMMA NowShipped ==
  ASSUME IInv, ~Stream, NEW r \in Rollouts, RolloutStep(r), NEW s \in Rollouts, NEW ep \in 0 .. NumEpochs - 1
  PROVE  /\ rolAt[r].ep \in 0 .. NumEpochs - 1
         /\ Shipped(s, ep)' <=> Shipped(s, ep) \/ (Ships(rolAt[r]) /\ s = r /\ ep = rolAt[r].ep)
         /\ ~Shipped(r, rolAt[r].ep)
<1>1. rolPc[r] = "recv" /\ conf' = conf
  BY DEF RolloutStep, runnerVars
<1>2. conf \in Configs /\ rolAt \in [Rollouts -> Pos]
  BY DEF IInv, TypeInv
<1>3. RolPlace(r)
  BY <1>1 DEF IInv, TrainInv
<1>4. PICK c \in Pos : c = rolAt[r] /\ c.stage < conf.stages /\ c.st <= conf.steps
  BY <1>2, <1>3 DEF RolPlace, NumSteps
<1>5. PICK a \in Pos : a = Follows(conf.stages, c, conf.steps) /\ Goes(conf.stages, c, conf.steps, a)
  <2>1. conf.stages \in Nat /\ conf.steps \in Int
    BY <1>2, ConfType DEF NumSteps
  <2>. QED  BY <2>1, FollowsPos, FollowsCases
<1>6. rolAt' = [rolAt EXCEPT ![r] = a]
  <2>1. After(c, NumSteps) = a
    BY <1>5, AfterFollows DEF NumSteps
  <2>. QED  BY <1>4, <2>1 DEF RolloutStep
<1>7. /\ c.ep \in Nat /\ c.st \in Nat /\ c.stage \in Nat /\ ep \in Nat /\ NumEpochs \in Nat
      /\ conf.stages \in Nat /\ conf.steps \in Nat
  <2>1. NumEpochs \in Nat /\ ep \in Nat
    BY EmbodiedAssumption DEF Positive
  <2>2. c.ep \in Nat /\ c.st \in Nat /\ c.stage \in Nat
    BY PosEqual
  <2>3. conf.stages \in Nat /\ conf.steps \in Nat
    BY <1>2, ConfFits DEF Positive
  <2>. QED  BY <2>1, <2>2, <2>3
<1>8. c.ep \in 0 .. NumEpochs - 1
  BY <1>1, <1>3, <1>4, <1>7 DEF RolPlace
<1>9. a.ep = IF EndsEpoch(c, NumSteps) THEN c.ep + 1 ELSE c.ep
  BY <1>4, <1>5, <1>7 DEF Goes, EndsEpoch, NumSteps
<1>10. conf.kind = "sync" \/ conf.kind = "async"
  BY <1>2, ConfFits
<1>11. Shipped(s, ep)' <=> ep < rolAt'[s].ep /\ (conf.kind = "sync" => ep = NumEpochs - 1)
  BY <1>1, Zenon DEF Shipped
<1>12. Shipped(s, ep)' <=> Shipped(s, ep) \/ (Ships(c) /\ s = r /\ ep = c.ep)
  <2>1. CASE s # r
    BY <1>6, <1>11, <2>1 DEF Shipped
  <2>2. CASE s = r
    <3>1. rolAt'[s].ep = a.ep /\ rolAt[s].ep = c.ep
      BY <1>2, <1>4, <1>6, <2>2
    <3>. QED  BY <1>7, <1>8, <1>9, <1>10, <1>11, <2>2, <3>1 DEF Shipped, Ships
  <2>. QED  BY <2>1, <2>2
<1>. QED  BY <1>4, <1>7, <1>8, <1>12 DEF Shipped

LEMMA RolloutStepSync ==
  ASSUME IInv, RecordInv, StockInv, ~Stream, NEW r \in Rollouts, RolloutStep(r)
  PROVE  StockInv'
<1>1. /\ rolPc[r] = "recv" /\ conf' = conf /\ version' = version /\ rolVersion' = rolVersion
      /\ it' = it /\ pc' = pc /\ loaded' = loaded
      /\ got' = got /\ added' = added /\ acPc' = acPc /\ ring' = ring
  BY DEF RolloutStep, runnerVars, weightVars, actorVars
<1>2. conf \in Configs /\ it \in Nat /\ version \in Nat
  BY DEF IInv, TypeInv, RecordInv
<1>3. pc = "collect"
  <2>1. pc # "load"
    BY <1>1 DEF IInv, TrainInv
  <2>. QED  BY <1>1, <2>1 DEF IInv, RunnerInv, StockInv, WeightInv, Calm
<1>4. rolVersion[r] = version
  BY <1>3 DEF StockInv, WeightInv
<1>5. /\ Spread(OfStep) /\ In(OfStep) = Current
      /\ \A p \in In(Stock) : p \in In(OfStep) \/ p.round < it
  BY <1>3, Zenon DEF StockInv, StepInv
<1>6. WeightInv' /\ \A e \in Actors : HandsInv(e)'
  BY <1>1, WeightsKept, HandKept DEF StockInv
<1>7. PICK c : c = rolAt[r] /\ q' = IF Ships(c) THEN PutPieces(r, Trajectories(r, c.ep)) ELSE q
  BY DEF RolloutStep
<1>8. ASSUME NEW s \in Rollouts, NEW ep \in 0 .. NumEpochs - 1
      PROVE  /\ c.ep \in 0 .. NumEpochs - 1
             /\ Shipped(s, ep)' <=> Shipped(s, ep) \/ (Ships(c) /\ s = r /\ ep = c.ep)
             /\ ~Shipped(r, c.ep)
  BY <1>7, NowShipped
<1>9. c.ep \in 0 .. NumEpochs - 1 /\ ~Shipped(r, c.ep)
  <2>1. 0 \in 0 .. NumEpochs - 1
    BY EmbodiedAssumption DEF Positive
  <2>. QED  BY <1>8, <2>1
<1>10. ASSUME NEW t \in Buffers \X ((0 .. SplitNum - 1) \X (0 .. NumEpochs - 1))
       PROVE  Shipped(t[1][1], t[2][2])' <=> Shipped(t[1][1], t[2][2]) \/ (Ships(c) /\ t[1][1] = r /\ t[2][2] = c.ep)
  <2>1. t[1][1] \in Rollouts /\ t[2][2] \in 0 .. NumEpochs - 1
    BY <1>2, BufferOf
  <2>. QED  BY <1>8, <2>1
<1>11. Shares' = Shares \cup (IF Ships(c) THEN Parts(r, c.ep) ELSE {})
  <2>1. Buffers' = Buffers /\ SplitNum' = SplitNum
    BY <1>1, ConfKept
  <2>2. Shares' = {t \in Buffers \X ((0 .. SplitNum - 1) \X (0 .. NumEpochs - 1)) : Shipped(t[1][1], t[2][2])'}
    BY <2>1 DEF Shares
  <2>. QED  BY <1>10, <2>2 DEF Shares, Parts
<1>12. Current' = {Made(t) : t \in Shares'}
  BY <1>1, Zenon DEF Current, Made
<1>13. CASE ~Ships(c)
  <2>1. UNCHANGED handVars
    BY <1>1, <1>7, <1>13 DEF handVars
  <2>2. /\ TypesOfStock' /\ Spread(Piles(q', AllTaken')) /\ Stock' = Stock /\ OfStep' = OfStep /\ \A a \in Actors : RingInv(a)'
    BY <2>1, HandsKept
  <2>3. Current' = Current
    <3>1. Shares' = Shares
      BY <1>11, <1>13
    <3>. QED  BY <1>12, <3>1 DEF Current
  <2>4. StepInv'
    BY <1>1, <1>3, <1>5, <2>2, <2>3 DEF StepInv
  <2>. QED  BY <1>1, <1>6, <2>2, <2>4, StockNext
<1>14. CASE Ships(c)
  <2>1. PICK pieces \in Seq(PieceSet) :
          pieces = Trajectories(r, c.ep) /\ IsInjective(pieces) /\ ToSet(pieces) = {Made(t) : t \in Parts(r, c.ep)}
    BY <1>2, <1>4, <1>9, TrajectoriesAre
  <2>2. q' = PutPieces(r, pieces)
    BY <1>7, <1>14, <2>1
  <2>3. ASSUME NEW p \in ToSet(pieces)
        PROVE  TargetKey(r, p.k) \in Actors /\ p \notin In(OfStep) /\ p \notin In(Stock)
    <3>1. PICK t \in Parts(r, c.ep) : p = Made(t)
      BY <2>1
    <3>2. t[1][1] = r /\ t[2][1] \in 0 .. SplitNum - 1 /\ t[2][2] = c.ep
      BY DEF Parts
    <3>3. p.k = t[2][1] /\ p.rank = r /\ p.at[1] = c.ep /\ p.round = it
      BY <3>1, <3>2 DEF Made
    <3>4. TargetKey(r, p.k) \in Actors
      <4>1. PICK n \in Nat, s \in Nat \ {0} : n = SplitNum /\ s = conf.actors
        BY <1>2, SplitType, PlacesAre
      <4>2. r \in Nat /\ p.k \in Nat
        BY <1>2, <3>2, <3>3, ConfType, SplitType DEF Rollouts, Positive
      <4>3. PICK m \in Nat : m = r * n + p.k
        BY <4>1, <4>2
      <4>4. m % s \in 0 .. s - 1
        BY <4>1, DivisionParts
      <4>. QED  BY <4>1, <4>3, <4>4 DEF TargetKey, Actors
    <3>5. p \notin In(OfStep)
      <4> SUFFICES ASSUME p \in Current PROVE FALSE
        BY <1>5
      <4>1. PICK u \in Shares : p = Made(u)
        BY DEF Current
      <4>2. p.rank = u[1][1] /\ p.at[1] = u[2][2]
        BY <4>1 DEF Made
      <4>3. Shipped(u[1][1], u[2][2])
        BY DEF Shares
      <4>. QED  BY <1>9, <3>3, <4>2, <4>3
    <3>6. p \notin In(Stock)
      BY <1>2, <1>5, <3>3, <3>5
    <3>. QED  BY <3>4, <3>5, <3>6
  <2>4. /\ TypesOfStock' /\ (\A a \in Actors : RingInv(a)') /\ Spread(Piles(q', AllTaken'))
        /\ In(Stock') = In(Stock) \cup ToSet(pieces)
        /\ Spread(OfStep') /\ In(OfStep') = In(OfStep) \cup ToSet(pieces)
    <3>1. UNCHANGED <<got, added, acPc, ring>>
      BY <1>1
    <3>2. /\ TypesOfStock' /\ (\A a \in Actors : RingInv(a)') /\ Spread(Piles(q', AllTaken'))
          /\ In(Stock') = In(Stock) \cup ToSet(pieces)
          /\ Spread(OfStep) /\ (\A p \in ToSet(pieces) : p \notin In(OfStep)) =>
               Spread(OfStep') /\ In(OfStep') = In(OfStep) \cup ToSet(pieces)
      BY <1>1, <1>2, <2>1, <2>2, <2>3, <3>1, PiecesPut
    <3>. QED  BY <1>5, <2>3, <3>2
  <2>5. Current' = Current \cup ToSet(pieces)
    <3>1. Shares' = Shares \cup Parts(r, c.ep)
      BY <1>11, <1>14
    <3>. QED  BY <1>12, <2>1, <3>1 DEF Current
  <2>6. StepInv'
    BY <1>1, <1>3, <1>5, <2>4, <2>5 DEF StepInv
  <2>. QED  BY <1>1, <1>6, <2>4, <2>6, StockNext
<1>. QED  BY <1>13, <1>14

LEMMA NextStock ==
  ASSUME IInv, RecordInv, StockInv, [Next]_vars
  PROVE  StockInv'
<1>0. conf \in Configs /\ WeightInv /\ RunnerInv
  BY DEF IInv, TypeInv, StockInv
<1>1. CASE Runner
  <2>1. CASE Collected \/ Loop \/ EvalStart \/ EvalEnd \/ StepEnd \/ Shutdown
    BY <1>0, <2>1, GoesIn, RunnerGoesStock
  <2>2. CASE TrainOnPolicy \/ Trained
    BY <2>2, TrainedStock
  <2>3. CASE StartStep
    BY <1>0, <2>3, StartStepStock
  <2>. QED  BY <1>1, <2>1, <2>2, <2>3 DEF Runner
<1>2. ASSUME NEW e \in Envs, EnvWork(e) \/ EnvStop(e) \/ EnvEvalBegin(e)
      PROVE  StockInv'
  <2>1. UNCHANGED stockVars
    BY <1>2 DEF EnvWork, EnvBegin, EnvYield, EnvStep, EnvEvalStep, EnvStop, EnvEvalBegin,
                runnerVars, weightVars, rolVars, actorVars, handVars, stockVars
  <2>. QED  BY <2>1, StocksApart
<1>3. ASSUME NEW r \in Rollouts, RolloutWork(r) \/ RolloutStop(r)
      PROVE  StockInv'
  <2>1. CASE RolloutEvalStep(r) \/ RolloutStop(r)
    <3>1. UNCHANGED stockVars
      BY <2>1 DEF RolloutEvalStep, RolloutStop, runnerVars, weightVars, rolVars, actorVars, handVars, stockVars
    <3>. QED  BY <3>1, StocksApart
  <2>2. CASE RolloutStep(r)
    BY <2>2, RolloutStepStream, RolloutStepSync
  <2>3. CASE LoadWeights(r)
    BY <2>3, LoadWeightsStock
  <2>. QED  BY <1>3, <2>1, <2>2, <2>3 DEF RolloutWork
<1>4. ASSUME NEW b \in Buffers, BufferSend(b[1], b[2])
      PROVE  StockInv'
  BY <1>4, BufferSendStock
<1>5. ASSUME NEW a \in Actors, TakePiece(a) \/ Train(a)
      PROVE  StockInv'
  <2>1. CASE Train(a)
    <3>1. UNCHANGED stockVars
      BY <2>1 DEF Train, Decide, Join, runnerVars, weightVars, rolVars, handVars, stockVars
    <3>. QED  BY <3>1, StocksApart
  <2>. QED  BY <1>0, <1>5, <2>1, TakePieceStock
<1>6. CASE UNCHANGED vars
  <2>1. UNCHANGED stockVars
    BY <1>6 DEF vars, runnerVars, weightVars, rolVars, actorVars, handVars, stockVars
  <2>. QED  BY <2>1, StocksApart
<1>. QED  BY <1>1, <1>2, <1>3, <1>4, <1>5, <1>6 DEF Next

-----------------------------------------------------------------------------
(***************************************************************************)
(* What StockInv says of the pieces.                                       *)
(***************************************************************************)
\* Pieces is the stock in a row, each piece once.
LEMMA PiecesAre ==
  ASSUME conf \in Configs, Spread(Stock)
  PROVE  IsInjective(Pieces) /\ Range(Pieces) = In(Stock)
<1>1. ASSUME NEW n \in Places PROVE Pile(n) = Stock[n]
  <2>1. CASE n <= conf.actors + 1
    BY <2>1 DEF Pile, Stock, Piles
  <2>2. CASE ~(n <= conf.actors + 1)
    <3>1. n - conf.actors - 2 \in Actors
      BY <2>2, PlacesAre
    <3>. QED  BY <2>2, <3>1 DEF Pile, Stock, Piles, AllTaken
  <2>. QED  BY <2>1, <2>2
<1>2. PICK N \in Nat : N = 2 * conf.actors + 1 /\ Places = 1 .. N
  BY PlacesAre DEF Places
<1>3. DOMAIN Stock = Places
  BY PileOf DEF Stock
<1>4. PICK F : F = Stock /\ DOMAIN F = 1 .. N
  BY <1>2, <1>3
<1>5. [n \in 1 .. 2 * conf.actors + 1 |-> Pile(n)] = F
  <2>1. F = [n \in 1 .. N |-> F[n]]
    BY <1>4 DEF Stock, Piles, Places
  <2>. QED  BY <1>1, <1>2, <1>4, <2>1
<1>6. /\ \A n \in 1 .. N : F[n] \in Seq(PieceSet) /\ IsInjective(F[n])
      /\ \A n, m \in 1 .. N : n # m => ToSet(F[n]) \cap ToSet(F[m]) = {}
  BY <1>4 DEF Spread
<1>7. F \in Seq(Seq(PieceSet))
  <2>1. F \in [1 .. N -> Seq(PieceSet)]
    <3>1. F = [n \in 1 .. N |-> F[n]]
      BY <1>4 DEF Stock, Piles, Places
    <3>. QED  BY <1>6, <3>1
  <2>. QED  BY <2>1
<1>8. /\ IsInjective(FlattenSeq(F))
      /\ \A p : p \in ToSet(FlattenSeq(F)) <=> \E n \in 1 .. N : p \in ToSet(F[n])
  BY <1>4, <1>6, <1>7, Flattened
<1>9. Pieces = FlattenSeq(F)
  BY <1>5 DEF Pieces
<1>10. ToSet(FlattenSeq(F)) = In(F)
  BY <1>4, <1>8 DEF In
<1>11. Range(Pieces) = ToSet(Pieces)
  BY DEF Range, ToSet
<1>. QED  BY <1>4, <1>8, <1>9, <1>10, <1>11

\* A trajectory has one part at least.
LEMMA SplitPositive ==
  ASSUME conf \in Configs
  PROVE  SplitNum \in Nat \ {0}
<1>1. PICK m \in Nat \ {0} : conf.rollouts * conf.stages * SplitNum = conf.actors * m
  BY NeedIs
<1>2. PICK a \in Nat \ {0}, r \in Nat, s \in Nat : a = conf.actors /\ r = conf.rollouts /\ s = conf.stages
  BY PlacesAre, ConfType DEF Positive
<1>3. SplitNum \in Nat
  BY SplitType
<1>4. SplitNum # 0
  <2> SUFFICES ASSUME SplitNum = 0 PROVE FALSE
    OBVIOUS
  <2>1. r * s * 0 = a * m
    BY <1>1, <1>2
  <2>2. r * s * 0 = 0 /\ a * m # 0
    OBVIOUS
  <2>. QED  BY <2>1, <2>2
<1>. QED  BY <1>3, <1>4

\* The pieces of the first l steps of a stage, counted.
LEMMA SentCount ==
  ASSUME NEW s \in Nat \ {0}, NEW n \in Positive, NEW l, NEW O, SentAs(O, l, s, n)
  PROVE  /\ {p.at : p \in O} = {Tag(n, m) : m \in 0 .. l - 1}
         /\ Cardinality(O) = s * Cardinality({p.at : p \in O})
<1>1. PICK e \in Nat : e = l
  BY DEF SentAs
<1>2. /\ \A p \in O : p.k \in 0 .. s - 1 /\ \E m \in 0 .. e - 1 : p.at = Tag(n, m)
      /\ \A m \in 0 .. e - 1, k \in 0 .. s - 1 : \E p \in O : p.at = Tag(n, m) /\ p.k = k
      /\ \A p, t \in O : p.at = t.at /\ p.k = t.k => p = t
  BY <1>1 DEF SentAs
<1>3. PICK T : T = {Tag(n, m) : m \in 0 .. e - 1}
  OBVIOUS
<1>4. {p.at : p \in O} = T
  <2>1. 0 \in 0 .. s - 1
    OBVIOUS
  <2>2. ASSUME NEW m \in 0 .. e - 1 PROVE \E p \in O : p.at = Tag(n, m)
    BY <1>2, <2>1
  <2>. QED  BY <1>2, <1>3, <2>2
<1>5. /\ IsFiniteSet(0 .. e - 1) /\ Cardinality(0 .. e - 1) = e
      /\ IsFiniteSet(0 .. s - 1) /\ Cardinality(0 .. s - 1) = s
  BY Interval
<1>6. \A i, j \in 0 .. e - 1 : Tag(n, i) = Tag(n, j) => i = j
  <2>1. \A i \in 0 .. e - 1 : i \in Nat
    OBVIOUS
  <2>. QED  BY <2>1, TagsApart
<1>7. Cardinality(T) = e
  <2>1. PICK f : f = [m \in 0 .. e - 1 |-> Tag(n, m)]
    OBVIOUS
  <2>2. /\ f \in [0 .. e - 1 -> T] /\ (\A i, j \in 0 .. e - 1 : f[i] = f[j] => i = j)
        /\ \A t \in T : \E m \in 0 .. e - 1 : f[m] = t
    BY <1>3, <1>6, <2>1
  <2>. QED  BY <1>5, <2>2, CountedOff
<1>8. PICK D : D = (0 .. e - 1) \X (0 .. s - 1)
  OBVIOUS
<1>9. IsFiniteSet(D) /\ Cardinality(D) = e * s
  <2>1. /\ IsFiniteSet((0 .. e - 1) \X (0 .. s - 1))
        /\ Cardinality((0 .. e - 1) \X (0 .. s - 1)) = Cardinality(0 .. e - 1) * Cardinality(0 .. s - 1)
    BY <1>5, FS_Product, Zenon
  <2>. QED  BY <1>5, <1>8, <2>1, Zenon
<1>10. PICK f : f = [t \in D |-> CHOOSE p \in O : p.at = Tag(n, t[1]) /\ p.k = t[2]]
  OBVIOUS
<1>11. ASSUME NEW t \in D
       PROVE  /\ t[1] \in 0 .. e - 1 /\ t[2] \in 0 .. s - 1 /\ t = <<t[1], t[2]>>
              /\ f[t] \in O /\ f[t].at = Tag(n, t[1]) /\ f[t].k = t[2]
  <2>1. t[1] \in 0 .. e - 1 /\ t[2] \in 0 .. s - 1 /\ t = <<t[1], t[2]>>
    BY <1>8
  <2>2. \E p \in O : p.at = Tag(n, t[1]) /\ p.k = t[2]
    BY <1>2, <2>1
  <2>3. f[t] = CHOOSE p \in O : p.at = Tag(n, t[1]) /\ p.k = t[2]
    BY <1>10
  <2>. QED  BY <2>1, <2>2, <2>3
<1>12. \A t, u \in D : f[t] = f[u] => t = u
  <2> SUFFICES ASSUME NEW t \in D, NEW u \in D, f[t] = f[u] PROVE t = u
    OBVIOUS
  <2>1. Tag(n, t[1]) = Tag(n, u[1]) /\ t[2] = u[2]
    BY <1>11
  <2>2. t[1] = u[1]
    BY <1>6, <1>11, <2>1
  <2>. QED  BY <1>11, <2>1, <2>2
<1>13. ASSUME NEW p \in O PROVE \E t \in D : f[t] = p
  <2>1. PICK m \in 0 .. e - 1 : p.at = Tag(n, m)
    BY <1>2
  <2>2. PICK t \in D : t = <<m, p.k>>
    BY <1>2, <1>8
  <2>3. f[t] \in O /\ f[t].at = p.at /\ f[t].k = p.k
    BY <1>11, <2>1, <2>2
  <2>4. f[t] = p
    BY <1>2, <2>3
  <2>. QED  BY <2>4
<1>14. Cardinality(O) = e * s
  <2>1. f \in [D -> O]
    BY <1>10, <1>11
  <2>. QED  BY <1>9, <1>12, <1>13, <2>1, CountedOff
<1>15. e * s = s * e
  OBVIOUS
<1>. QED  BY <1>1, <1>3, <1>4, <1>7, <1>14, <1>15, Zenon

\* The first steps, epoch by epoch.
FirstSteps(n, e, t) == {<<ep, st>> : ep \in 0 .. e - 1, st \in 0 .. n - 1} \cup {<<e, st>> : st \in 0 .. t - 1}
LEMMA FirstTags ==
  ASSUME NEW n \in Positive, NEW e \in Nat, NEW t \in 0 .. n, NEW d, d = e * n + t
  PROVE  {Tag(n, m) : m \in 0 .. d - 1} = FirstSteps(n, e, t)
<1>0. n \in Nat \ {0} /\ t \in Nat
  BY DEF Positive
<1>1. PICK b \in Nat : b = e * n
  BY <1>0
<1>2. ASSUME NEW m \in 0 .. b + t - 1
      PROVE  \/ m \div n \in 0 .. e - 1 /\ m % n \in 0 .. n - 1
             \/ m \div n = e /\ m % n \in 0 .. t - 1
  <2>1. m \div n \in Nat /\ m % n \in 0 .. n - 1 /\ m = (m \div n) * n + (m % n)
    BY <1>0, DivisionParts, m \in Nat
  <2>2. PICK h \in Nat, l \in 0 .. n - 1 : h = m \div n /\ l = m % n /\ m = h * n + l
    BY <2>1
  <2>3. h <= e
    <3> SUFFICES ASSUME e + 1 <= h PROVE FALSE
      OBVIOUS
    <3>1. PICK i \in Nat : h = e + 1 + i
      <4>1. h - (e + 1) \in Nat /\ h = e + 1 + (h - (e + 1))
        OBVIOUS
      <4>. QED  BY <4>1
    <3>2. h * n = e * n + n + i * n /\ i * n \in Nat
      BY <1>0, <3>1
    <3>. QED  BY <1>0, <1>1, <2>2, <3>2
  <2>4. CASE h = e
    <3>1. h * n = b
      BY <1>1, <2>4
    <3>2. l \in 0 .. t - 1
      BY <1>0, <2>2, <3>1
    <3>. QED  BY <2>2, <2>4, <3>2
  <2>5. CASE h # e
    <3>1. h \in 0 .. e - 1
      BY <2>3, <2>5
    <3>. QED  BY <2>2, <3>1
  <2>. QED  BY <2>4, <2>5
<1>3. ASSUME NEW ep \in 0 .. e - 1, NEW st \in 0 .. n - 1
      PROVE  \E m \in 0 .. b + t - 1 : Tag(n, m) = <<ep, st>>
  <2>1. PICK i \in Nat : e = ep + 1 + i
    <3>1. e - (ep + 1) \in Nat /\ e = ep + 1 + (e - (ep + 1))
      OBVIOUS
    <3>. QED  BY <3>1
  <2>2. e * n = ep * n + n + i * n /\ i * n \in Nat /\ ep * n \in Nat
    BY <1>0, <2>1
  <2>3. ep * n + st \in 0 .. b + t - 1
    BY <1>0, <1>1, <2>2
  <2>4. ep \in Nat /\ st \in Nat /\ st < n
    BY <1>0
  <2>5. Tag(n, ep * n + st) = <<ep, st>>
    BY <2>4, TagOf
  <2>. QED  BY <2>3, <2>5
<1>4. ASSUME NEW st \in 0 .. t - 1
      PROVE  \E m \in 0 .. b + t - 1 : Tag(n, m) = <<e, st>>
  <2>1. b + st \in 0 .. b + t - 1
    BY <1>0
  <2>2. st \in Nat /\ st < n
    BY <1>0
  <2>3. Tag(n, b + st) = <<e, st>>
    BY <1>1, <2>2, TagOf
  <2>. QED  BY <2>1, <2>3
<1>5. \A m \in 0 .. b + t - 1 : Tag(n, m) = <<m \div n, m % n>>
  BY DEF Tag
<1>6. 0 .. d - 1 = 0 .. b + t - 1
  BY <1>1
<1> DEFINE A == {Tag(n, m) : m \in 0 .. d - 1}
           B == {<<ep, st>> : ep \in 0 .. e - 1, st \in 0 .. n - 1}
           C == {<<e, st>> : st \in 0 .. t - 1}
<1>7. \A p \in A : p \in B \cup C
  <2> SUFFICES ASSUME NEW m \in 0 .. b + t - 1 PROVE Tag(n, m) \in B \cup C
    BY <1>6
  <2>1. PICK h, l : h = m \div n /\ l = m % n
    OBVIOUS
  <2>2. (h \in 0 .. e - 1 /\ l \in 0 .. n - 1) \/ (h = e /\ l \in 0 .. t - 1)
    BY <1>2, <2>1
  <2>3. Tag(n, m) = <<h, l>>
    BY <1>5, <2>1
  <2>. QED  BY <2>2, <2>3
<1>8. \A p \in B \cup C : p \in A
  <2>1. ASSUME NEW ep \in 0 .. e - 1, NEW st \in 0 .. n - 1 PROVE <<ep, st>> \in A
    <3>1. PICK m \in 0 .. d - 1 : Tag(n, m) = <<ep, st>>
      BY <1>3, <1>6
    <3>. QED  BY <3>1
  <2>2. ASSUME NEW st \in 0 .. t - 1 PROVE <<e, st>> \in A
    <3>1. PICK m \in 0 .. d - 1 : Tag(n, m) = <<e, st>>
      BY <1>4, <1>6
    <3>. QED  BY <3>1
  <2>3. ASSUME NEW p \in B PROVE p \in A
    <3>1. PICK ep \in 0 .. e - 1, st \in 0 .. n - 1 : p = <<ep, st>>
      OBVIOUS
    <3>. QED  BY <2>1, <3>1
  <2>. QED  BY <2>2, <2>3
<1> HIDE DEF A, B, C
<1>11. A = B \cup C
  BY <1>7, <1>8
<1>12. FirstSteps(n, e, t) = B \cup C
  BY DEF FirstSteps, B, C
<1>. QED  BY <1>11, <1>12 DEF A

\* In a stream: a step waits in its buffer or has been sent, in all its pieces.
LEMMA StreamAccounted ==
  ASSUME IInv, RecordInv, StockInv, Stream, NEW x \in Buffers, NEW sent, sent = Of(x), NEW steps, steps = {p.at : p \in sent}
  PROVE  /\ Cardinality(sent) = SplitNum * Cardinality(steps)
         /\ steps \cap Range(buf[x].inputs) = {}
         /\ rolPc[x[1]] # "idle" => steps \cup Range(buf[x].inputs) = StepsRecorded(x[1], x[2])
<1>1. conf \in Configs /\ rolAt \in [Rollouts -> Pos]
  BY DEF IInv, TypeInv
<1>2. x[1] \in Rollouts /\ x[1] \in Nat /\ x[2] \in Nat /\ x[2] < conf.stages
  BY <1>1, BufferOf
<1>3. PICK s \in Nat \ {0} : s = SplitNum
  BY <1>1, SplitPositive
<1>4. PICK n \in Positive : n = conf.steps /\ n \in Nat \ {0}
  BY <1>1, ConfFits DEF Positive
<1>5. CASE pc = "load"
  <2>1. sent = {} /\ steps = {}
    BY <1>5 DEF StockInv, StreamInv, Of
  <2>2. Cardinality(sent) = 0 /\ Cardinality(steps) = 0
    BY <2>1, FS_EmptySet
  <2>3. rolPc[x[1]] = "idle"
    BY <1>2, <1>5 DEF IInv, TrainInv
  <2>4. Cardinality(sent) = s * Cardinality(steps)
    BY <2>2
  <2>. QED  BY <1>3, <2>1, <2>3, <2>4
<1>6. CASE pc # "load"
  <2>1. PICK a \in Nat, d \in Nat : d = StepsDone(conf, rolAt[x[1]], x[2]) /\ a <= d /\ Left(x) = a /\ buf[x].inputs = Tags(n, a, d)
    <3>1. \E h, d, k \in Nat :
             /\ d = StepsDone(conf, rolAt[x[1]], x[2]) /\ h <= d /\ h <= k /\ Left(x) = h
             /\ buf[x].inputs = Tags(conf.steps, h, d) /\ buf[x].dones = Tags(conf.steps + 1, h, k)
      BY StreamLists
    <3>. QED  BY <1>4, <3>1
  <2>2. SentAs(sent, a, s, n)
    <3>1. SentInv(x)
      BY <1>6 DEF StockInv, StreamInv
    <3>. QED  BY <1>3, <1>4, <2>1, <3>1 DEF SentInv, NumSteps
  <2>3. /\ steps = {Tag(n, m) : m \in 0 .. a - 1}
        /\ Cardinality(sent) = s * Cardinality(steps)
    BY <2>2, SentCount
  <2>4. PICK R : R = Range(buf[x].inputs)
    OBVIOUS
  <2>5. R = {Tag(n, m) : m \in a .. d - 1}
    <3>1. \A k \in 1 .. d - a : a + k - 1 \in Nat
      OBVIOUS
    <3>2. DOMAIN Tags(n, a, d) = 1 .. d - a /\ \A k \in 1 .. d - a : Tags(n, a, d)[k] = Tag(n, a + k - 1)
      BY <3>1 DEF Tags, Stretch, AllTags
    <3>3. \A p : p \in R <=> \E k \in 1 .. d - a : p = Tag(n, a + k - 1)
      <4>1. R = {Tags(n, a, d)[k] : k \in DOMAIN Tags(n, a, d)}
        BY <2>1, <2>4, Zenon DEF Range
      <4>. QED  BY <3>2, <4>1, Zenon
    <3>4. ASSUME NEW k \in 1 .. d - a PROVE a + k - 1 \in a .. d - 1
      OBVIOUS
    <3>5. ASSUME NEW m \in a .. d - 1 PROVE \E k \in 1 .. d - a : a + k - 1 = m
      <4>1. m - a + 1 \in 1 .. d - a /\ a + (m - a + 1) - 1 = m
        OBVIOUS
      <4>. QED  BY <4>1
    <3>6. \A p \in R : \E m \in a .. d - 1 : p = Tag(n, m)
      BY <3>3, <3>4
    <3>7. ASSUME NEW m \in a .. d - 1 PROVE Tag(n, m) \in R
      <4>1. PICK k \in 1 .. d - a : a + k - 1 = m
        BY <3>5
      <4>. QED  BY <3>3, <4>1
    <3>. QED  BY <3>6, <3>7
  <2>6. steps \cap R = {}
    <3> SUFFICES ASSUME NEW i \in 0 .. a - 1, NEW j \in a .. d - 1, Tag(n, i) = Tag(n, j) PROVE FALSE
      BY <2>3, <2>5
    <3>1. i \in Nat /\ j \in Nat /\ i # j
      OBVIOUS
    <3>. QED  BY <3>1, TagsApart
  <2>7. steps \cup R = {Tag(n, m) : m \in 0 .. d - 1}
    <3>1. 0 .. d - 1 = (0 .. a - 1) \cup (a .. d - 1)
      BY <2>1
    <3>. QED  BY <2>3, <2>5, <3>1
  <2>8. steps \cup R = StepsRecorded(x[1], x[2])
    <3>1. PICK c \in Pos : c = rolAt[x[1]]
      BY <1>1, <1>2
    <3>2. c.ep \in Nat /\ c.st \in Nat /\ c.stage \in Nat
      BY PosEqual
    <3>3. c.st <= n
      <4>1. RolPlace(x[1])
        BY <1>2, <1>6 DEF IInv, TrainInv
      <4>. QED  BY <1>4, <3>1, <4>1 DEF RolPlace, NumSteps
    <3>4. PICK l \in Nat : l = Seen(c, x[2]) /\ l = c.st + (IF x[2] < c.stage THEN 1 ELSE 0) /\ l <= n + 1
      BY <1>2, <1>4, <3>2, <3>3 DEF Seen
    <3>5. PICK t \in 0 .. n : t = IF l = 0 THEN 0 ELSE l - 1
      BY <1>4, <3>4
    <3>6. d = c.ep * n + t
      BY <1>4, <2>1, <3>1, <3>4, <3>5 DEF StepsDone
    <3>7. {Tag(n, m) : m \in 0 .. d - 1} = FirstSteps(n, c.ep, t)
      BY <3>2, <3>6, FirstTags
    <3>8. 0 .. t - 1 = 0 .. l - 2
      BY <3>4, <3>5
    <3>9. \A p : p \in StepsRecorded(x[1], x[2]) <=>
                   \/ \E ep \in 0 .. c.ep - 1, st \in 0 .. n - 1 : p = <<ep, st>>
                   \/ \E st \in 0 .. l - 2 : p = <<c.ep, st>>
      BY <1>4, <3>1, <3>4 DEF StepsRecorded, NumSteps
    <3>10. \A p : p \in FirstSteps(n, c.ep, t) <=>
                   \/ \E ep \in 0 .. c.ep - 1, st \in 0 .. n - 1 : p = <<ep, st>>
                   \/ \E st \in 0 .. t - 1 : p = <<c.ep, st>>
      BY DEF FirstSteps
    <3>11. FirstSteps(n, c.ep, t) = StepsRecorded(x[1], x[2])
      BY <3>8, <3>9, <3>10
    <3>. QED  BY <2>7, <3>7, <3>11
  <2>. QED  BY <1>3, <2>3, <2>4, <2>6, <2>8
<1>. QED  BY <1>5, <1>6

\* In the other programs: training starts with the pieces of this step.
LEMMA StepAccounted ==
  ASSUME IInv, RecordInv, StockInv, ~Stream, pc = "train"
  PROVE  /\ \A k \in DOMAIN q : q[k] = <<>>
         /\ {[p EXCEPT !.done = p.at] : p \in UNION {Range(got[a]) : a \in Actors}} = StepPieces
<1>1. conf \in Configs
  BY DEF IInv, TypeInv
<1>2. (\A k \in Keys : q[k] = <<>>) /\ Current = UNION {ToSet(got[a]) : a \in Actors}
  BY StepOver
<1>3. DOMAIN q = Keys
  BY DEF StockInv
<1>4. UNION {Range(got[a]) : a \in Actors} = Current
  BY <1>2 DEF Range, ToSet
<1>5. ASSUME NEW t \in Shares PROVE [Made(t) EXCEPT !.done = Made(t).at] = Made(t)
  BY DEF Made
<1>6. {[p EXCEPT !.done = p.at] : p \in Current} = Current
  BY <1>5 DEF Current
<1>7. PICK E : E = StepEpochs
  OBVIOUS
<1>8. NumEpochs - 1 \in 0 .. NumEpochs - 1 /\ NumEpochs \in Nat
  BY EmbodiedAssumption DEF Positive
<1>9. E = IF conf.kind = "sync" THEN {NumEpochs - 1} ELSE 0 .. NumEpochs - 1
  BY <1>7 DEF StepEpochs
<1>10. ASSUME NEW r \in Rollouts, NEW ep \in 0 .. NumEpochs - 1
      PROVE  Shipped(r, ep) <=> ep \in E
  <2>1. rolAt[r].ep = NumEpochs
    BY DEF IInv, RunnerInv, TrainInv, RolPlace
  <2>2. ep < NumEpochs
    BY <1>8
  <2>. QED  BY <1>9, <2>1, <2>2 DEF Shipped
<1>11. ASSUME NEW x \in Buffers, NEW k \in 0 .. SplitNum - 1, NEW ep \in E
       PROVE  /\ <<x, <<k, ep>>>> \in Shares
              /\ StepPiece(x, k, ep) = Made(<<x, <<k, ep>>>>)
  <2>1. ep \in 0 .. NumEpochs - 1 /\ x[1] \in Rollouts
    BY <1>1, <1>8, <1>9, BufferOf
  <2>2. Shipped(x[1], ep)
    BY <1>10, <2>1
  <2>3. <<x, <<k, ep>>>> \in Shares
    BY <2>1, <2>2 DEF Shares
  <2>4. <<x, <<k, ep>>>>[1] = x /\ <<x, <<k, ep>>>>[2] = <<k, ep>> /\ <<k, ep>>[1] = k /\ <<k, ep>>[2] = ep
    OBVIOUS
  <2>8. StepPiece(x, k, ep) = Made(<<x, <<k, ep>>>>)
    BY <2>4, Zenon DEF Made, StepPiece
  <2>. QED  BY <2>3, <2>8
<1>12. ASSUME NEW t \in Shares
       PROVE  t[1] \in Buffers /\ t[2][1] \in 0 .. SplitNum - 1 /\ t[2][2] \in E /\ Made(t) = Made(<<t[1], <<t[2][1], t[2][2]>>>>)
  <2>1. t[1] \in Buffers /\ t[2][1] \in 0 .. SplitNum - 1 /\ t[2][2] \in 0 .. NumEpochs - 1 /\ Shipped(t[1][1], t[2][2])
    BY DEF Shares
  <2>2. t[2][2] \in E
    BY <1>1, <1>10, <2>1, BufferOf
  <2>. QED  BY <2>1, <2>2 DEF Made
<1>13. \A p : p \in StepPieces <=> \E x \in Buffers, k \in 0 .. SplitNum - 1, ep \in E : p = StepPiece(x, k, ep)
  BY <1>7 DEF StepPieces
<1>14. ASSUME NEW p \in StepPieces PROVE p \in Current
  <2>1. PICK x \in Buffers, k \in 0 .. SplitNum - 1, ep \in E : p = StepPiece(x, k, ep)
    BY <1>13
  <2>2. p = Made(<<x, <<k, ep>>>>) /\ <<x, <<k, ep>>>> \in Shares
    BY <1>11, <2>1
  <2>. QED  BY <2>2 DEF Current
<1>15. ASSUME NEW t \in Shares PROVE Made(t) \in StepPieces
  <2>1. PICK x, k, ep : x = t[1] /\ k = t[2][1] /\ ep = t[2][2]
    OBVIOUS
  <2>2. x \in Buffers /\ k \in 0 .. SplitNum - 1 /\ ep \in E /\ Made(t) = Made(<<x, <<k, ep>>>>)
    BY <1>12, <2>1, Zenon
  <2>3. Made(t) = StepPiece(x, k, ep)
    BY <1>11, <2>2, Zenon
  <2>. QED  BY <1>13, <2>2, <2>3, Zenon
<1>16. Current = StepPieces
  BY <1>14, <1>15 DEF Current
<1>. QED  BY <1>2, <1>3, <1>4, <1>6, <1>16

\* The invariants imply the property.
LEMMA Accounted ==
  ASSUME IInv, RecordInv, StockInv
  PROVE  PiecesAccounted
<1>1. conf \in Configs /\ Spread(Stock) /\ \A a \in Actors : HoldsLatest(a)
  BY DEF IInv, TypeInv, StockInv, RingInv
<1>2. IsInjective(Pieces) /\ Range(Pieces) = In(Stock)
  BY <1>1, PiecesAre
<1>3. ASSUME Stream, NEW x \in Buffers
      PROVE  LET sent == {p \in Range(Pieces) : p.rank = x[1] /\ p.stage = x[2]}
                 steps == {p.at : p \in sent}
             IN /\ Cardinality(sent) = SplitNum * Cardinality(steps)
                /\ steps \cap Range(buf[x].inputs) = {}
                /\ rolPc[x[1]] # "idle" => steps \cup Range(buf[x].inputs) = StepsRecorded(x[1], x[2])
  <2> DEFINE sent == {p \in Range(Pieces) : p.rank = x[1] /\ p.stage = x[2]}
             steps == {p.at : p \in sent}
  <2>1. sent = Of(x)
    BY <1>2 DEF Of
  <2>2. steps = {p.at : p \in sent}
    OBVIOUS
  <2> HIDE DEF sent, steps
  <2>3. /\ Cardinality(sent) = SplitNum * Cardinality(steps)
        /\ steps \cap Range(buf[x].inputs) = {}
        /\ rolPc[x[1]] # "idle" => steps \cup Range(buf[x].inputs) = StepsRecorded(x[1], x[2])
    BY <1>3, <2>1, <2>2, StreamAccounted
  <2>. QED  BY <2>3 DEF sent, steps
<1>4. ~Stream /\ pc = "train" =>
        /\ \A k \in DOMAIN q : q[k] = <<>>
        /\ {[p EXCEPT !.done = p.at] : p \in UNION {Range(got[a]) : a \in Actors}} = StepPieces
  BY StepAccounted
<1>. QED  BY <1>1, <1>2, <1>3, <1>4, Zenon DEF PiecesAccounted

\* Nothing of what the rollout workers recorded is lost or there twice: of a
\* stream every step is still in its buffer or was sent once, in all its parts
\* (TrajectoryBuffer, send_rollout_batch); otherwise the actors start to train with
\* the pieces of this step, those made with the weights in training, and leave
\* none in the channel (recv_rollout_batch); a replay buffer holds the last it was
\* given (add_rollout_batch).
THEOREM PiecesAlwaysAccounted == Spec => []PiecesAccounted
<1>1. Init => IInv /\ RecordInv /\ StockInv
  BY InitInv, InitRecords, InitStock
<1>2. IInv /\ RecordInv /\ StockInv /\ [Next]_vars => IInv' /\ RecordInv' /\ StockInv'
  BY NextInv, NextRecords, NextStock
<1>3. IInv /\ RecordInv /\ StockInv => PiecesAccounted
  BY Accounted
<1>. QED  BY <1>1, <1>2, <1>3, PTL DEF Spec

=============================================================================
