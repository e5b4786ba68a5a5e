-------------------------- MODULE CoordinationProofs --------------------------
(***************************************************************************)
(* Theorems about what coordinates the workers: the queues of a channel,   *)
(* and the dynamic scheduler, whose parties answer each other over queues. *)
(*                                                                         *)
(* First ChannelQueue: items are neither lost nor doubled, queues keep     *)
(* their maximum, put_many is atomic in an unbounded channel, batches are  *)
(* maximal; for any keys and calls and for every program.                  *)
(*                                                                         *)
(* LoopInv says where every call is: a call that may run is once among the *)
(* ready ones, and one that waits is once among the waiters of the queue   *)
(* it waits for.  So whom a put or a get wakes has nothing else under way, *)
(* and the waiters a call is taken from are those it was in.  PlaceInv has *)
(* the items that were put divided among the queues and the calls.         *)
(***************************************************************************)
EXTENDS ChannelQueue, DynamicScheduler, SetSeqLemmas, SequenceTheorems

TypeOK ==
  /\ program \in Programs
  /\ queue \in [Keys -> Seq(Items)]
  /\ getters \in [Keys -> Seq(Calls)]
  /\ putters \in [Keys -> Seq(Calls)]
  /\ ready \in Seq(Calls)
  /\ status \in [Calls -> {"new", "ready", "waiting", "sleeping", "done"}]
  /\ pos \in [Calls -> Nat]
  /\ taken \in [Calls -> Seq(Items)]
  /\ weight \in [Calls -> Nat]
  /\ outcome \in [Calls -> {"none", "ok", "full", "empty"}]

ReadyInv ==
  /\ IsInjective(ready)
  /\ \A c \in Calls : c \in ToSet(ready) <=> status[c] = "ready"

WaitsToGet(c, k) == status[c] = "waiting" /\ Call[c].op \in {"get", "batch"} /\ Key(c) = k
WaitsToPut(c, k) == status[c] = "waiting" /\ Call[c].op = "put" /\ Next1(c).key = k

GettersInv ==
  \A k \in Keys :
    /\ IsInjective(getters[k])
    /\ \A c \in Calls : c \in ToSet(getters[k]) <=> WaitsToGet(c, k)

PuttersInv ==
  \A k \in Keys :
    /\ IsInjective(putters[k])
    /\ \A c \in Calls : c \in ToSet(putters[k]) <=> WaitsToPut(c, k)

\* A put has items left until it returns.
ProgressInv ==
  \A c \in Calls : Call[c].op = "put" =>
    /\ pos[c] <= Len(Call[c].items)
    /\ status[c] # "done" => pos[c] < Len(Call[c].items)

LoopInv == ReadyInv /\ GettersInv /\ PuttersInv /\ ProgressInv

WasPut(it) ==
  \E c \in Calls : Call[c].op = "put" /\ \E i \in 1 .. pos[c] : Call[c].items[i] = it

PlaceInv ==
  /\ \A k \in Keys : IsInjective(queue[k])
  /\ \A c \in Calls : IsInjective(taken[c])
  /\ \A it \in Items :
       /\ \A k, l \in Keys : it \in ToSet(queue[k]) /\ it \in ToSet(queue[l]) => k = l
       /\ \A c, d \in Calls : it \in ToSet(taken[c]) /\ it \in ToSet(taken[d]) => c = d
       /\ \A k \in Keys, c \in Calls : ~(it \in ToSet(queue[k]) /\ it \in ToSet(taken[c]))
       /\ WasPut(it) <=> \/ \E k \in Keys : it \in ToSet(queue[k])
                         \/ \E c \in Calls : it \in ToSet(taken[c])

RoomInv == MaxSize > 0 => \A k \in Keys : Len(queue[k]) <= MaxSize

BatchInv == \A c \in Calls : Call[c].op = "batch" => weight[c] <= Call[c].target

QueueInv == TypeOK /\ LoopInv /\ PlaceInv /\ RoomInv /\ BatchInv
-----------------------------------------------------------------------------
(***************************************************************************)
(* The event loop: calls are woken, run, and wait.                         *)
(***************************************************************************)

LEMMA WithoutHead ==
  ASSUME NEW S, NEW s \in Seq(S), s # <<>>, IsInjective(s)
  PROVE  /\ Tail(s) \in Seq(S) /\ IsInjective(Tail(s))
         /\ ToSet(Tail(s)) = ToSet(s) \ {Head(s)}
         /\ Head(s) \in ToSet(s) /\ Head(s) \in S
<1>1. Head(s) = s[1] /\ Head(s) \in S
  OBVIOUS
<1>2. RemoveAt(s, 1) = Tail(s)
  <2> DEFINE a == SubSeq(s, 1, 0)
             b == SubSeq(s, 2, Len(s))
  <2>1. a = <<>> /\ b \in Seq(S) /\ RemoveAt(s, 1) = a \o b
    BY DEF RemoveAt
  <2>2. b = Tail(s)
    OBVIOUS
  <2> HIDE DEF a, b
  <2>3. a \o b = b
    BY <2>1
  <2>. QED  BY <2>1, <2>2, <2>3, Zenon
<1>3. LET r == RemoveAt(s, 1) IN
        r \in Seq(S) /\ IsInjective(r) /\ ToSet(r) = ToSet(s) \ {s[1]} /\ s[1] \in ToSet(s)
  BY WithoutFirst
<1>. QED  BY <1>1, <1>2, <1>3

LEMMA WokenOf ==
  ASSUME NEW S, NEW s \in Seq(S), IsInjective(s)
  PROVE  /\ Woken(s) \in Seq(S) /\ IsInjective(Woken(s))
         /\ DropFirst(s) \in Seq(S) /\ IsInjective(DropFirst(s))
         /\ ToSet(DropFirst(s)) = ToSet(s) \ ToSet(Woken(s))
         /\ ToSet(Woken(s)) \subseteq ToSet(s)
<1>1. CASE s = <<>>
  BY <1>1 DEF Woken, DropFirst, ToSet, IsInjective
<1>2. CASE s # <<>>
  <2> DEFINE h == Head(s)
  <2>1. /\ Tail(s) \in Seq(S) /\ IsInjective(Tail(s)) /\ ToSet(Tail(s)) = ToSet(s) \ {h}
        /\ h \in ToSet(s) /\ h \in S
    BY <1>2, WithoutHead
  <2>2. Woken(s) = <<h>> /\ DropFirst(s) = Tail(s)
    BY <1>2 DEF Woken, DropFirst
  <2> HIDE DEF h
  <2>3. <<h>> \in Seq(S) /\ IsInjective(<<h>>) /\ ToSet(<<h>>) = {h}
    BY <2>1, Single
  <2>. QED  BY <2>1, <2>2, <2>3
<1>. QED  BY <1>1, <1>2

LEMMA NothingWoken ==
  /\ <<>> \in Seq(Calls) /\ IsInjective(<<>>) /\ ToSet(<<>>) = {}
BY DEF IsInjective, ToSet

\* What a step of c leaves of the loop: c gets the status st, the calls in w
\* are ready.
Switched(c, st, w) ==
  /\ ready' \in Seq(Calls) /\ IsInjective(ready')
  /\ status' \in [Calls -> {"new", "ready", "waiting", "sleeping", "done"}]
  /\ \A x \in Calls : x \in ToSet(ready') <=> status'[x] = "ready"
  /\ status[c] = "ready" /\ status'[c] = st
  /\ \A x \in Calls : x # c => status'[x] = IF x \in ToSet(w) THEN "ready" ELSE status[x]

LEMMA RunningFacts ==
  ASSUME TypeOK, ReadyInv, NEW c \in Calls, Running(c)
  PROVE  /\ ready # <<>> /\ Head(ready) = c /\ status[c] = "ready"
         /\ Tail(ready) \in Seq(Calls) /\ IsInjective(Tail(ready))
         /\ ToSet(Tail(ready)) = ToSet(ready) \ {c}
BY WithoutHead DEF TypeOK, ReadyInv, Running

LEMMA StopsSwitches ==
  ASSUME TypeOK, ReadyInv, NEW c \in Calls, Running(c),
         NEW st \in {"waiting", "sleeping", "done"}, NEW w \in Seq(Calls), IsInjective(w),
         \A x \in ToSet(w) : x \in Calls /\ status[x] = "waiting",
         Stops(c, st, w)
  PROVE  Switched(c, st, w)
<1>1. /\ ready # <<>> /\ Head(ready) = c /\ status[c] = "ready"
      /\ Tail(ready) \in Seq(Calls) /\ IsInjective(Tail(ready))
      /\ ToSet(Tail(ready)) = ToSet(ready) \ {c}
  BY RunningFacts
<1> DEFINE r == Tail(ready)
<1>2. \A x \in ToSet(r) : x \notin ToSet(w)
  <2> SUFFICES ASSUME NEW x \in ToSet(r), x \in ToSet(w) PROVE FALSE
    OBVIOUS
  <2>1. x \in Calls /\ status[x] = "waiting" /\ x \in ToSet(ready)
    BY <1>1
  <2>. QED  BY <2>1 DEF ReadyInv
<1>3. r \in Seq(Calls) /\ IsInjective(r)
  BY <1>1
<1>4. /\ r \o w \in Seq(Calls) /\ IsInjective(r \o w) /\ ToSet(r \o w) = ToSet(r) \cup ToSet(w)
  <2> HIDE DEF r
  <2>. QED  BY <1>2, <1>3, Joined
<1>5. ready' = r \o w
      /\ status' = [x \in Calls |-> IF x = c THEN st ELSE IF x \in ToSet(w) THEN "ready" ELSE status[x]]
  BY DEF Stops, Range, ToSet
<1>6. /\ status' \in [Calls -> {"new", "ready", "waiting", "sleeping", "done"}]
      /\ status'[c] = st
      /\ \A x \in Calls : x # c => status'[x] = IF x \in ToSet(w) THEN "ready" ELSE status[x]
  BY <1>5 DEF TypeOK
<1>7. c \notin ToSet(w)
  BY <1>1
<1>8. ASSUME NEW x \in Calls PROVE x \in ToSet(ready') <=> status'[x] = "ready"
  BY <1>1, <1>4, <1>5, <1>6, <1>7 DEF ReadyInv
<1>. QED  BY <1>1, <1>4, <1>5, <1>6, <1>8 DEF Switched

LEMMA GoesOnSwitches ==
  ASSUME TypeOK, ReadyInv, NEW c \in Calls, Running(c),
         NEW w \in Seq(Calls), IsInjective(w),
         \A x \in ToSet(w) : x \in Calls /\ status[x] = "waiting",
         GoesOn(w)
  PROVE  Switched(c, "ready", w) /\ Running(c)'
<1>1. /\ ready # <<>> /\ Head(ready) = c /\ status[c] = "ready"
      /\ ready \in Seq(Calls) /\ IsInjective(ready)
  BY RunningFacts DEF TypeOK, ReadyInv
<1>2. \A x \in ToSet(ready) : x \notin ToSet(w)
  BY DEF ReadyInv
<1>4. /\ ready \o w \in Seq(Calls) /\ IsInjective(ready \o w)
      /\ ToSet(ready \o w) = ToSet(ready) \cup ToSet(w)
  BY <1>1, <1>2, Joined
<1>5. ready' = ready \o w
      /\ status' = [x \in Calls |-> IF x \in ToSet(w) THEN "ready" ELSE status[x]]
  BY DEF GoesOn, Range, ToSet
<1>6. /\ status' \in [Calls -> {"new", "ready", "waiting", "sleeping", "done"}]
      /\ \A x \in Calls : status'[x] = IF x \in ToSet(w) THEN "ready" ELSE status[x]
  BY <1>5 DEF TypeOK
<1>7. c \notin ToSet(w)
  BY <1>1
<1>8. ASSUME NEW x \in Calls PROVE x \in ToSet(ready') <=> status'[x] = "ready"
  BY <1>4, <1>5, <1>6 DEF ReadyInv
<1>9. ready' # <<>> /\ Head(ready') = c
  BY <1>1, <1>5
<1>. QED  BY <1>1, <1>4, <1>5, <1>6, <1>7, <1>8, <1>9 DEF Switched, Running

LEMMA ProgramFacts ==
  ASSUME TypeOK
  PROVE  /\ MaxSize \in Nat /\ ItemsDiffer(Call)
         /\ \A c \in Calls : GoodCall(Call[c])
BY ChannelQueueAssumption DEF TypeOK, MaxSize, Call

\* The calls in w leave the waiters they are in, and c joins those it has to
\* wait with.
GettersMove(c, st, w) ==
  /\ getters' \in [Keys -> Seq(Calls)]
  /\ \A k \in Keys :
       /\ IsInjective(getters'[k])
       /\ \A x \in Calls : x \in ToSet(getters'[k]) <=>
            \/ x \in ToSet(getters[k]) /\ x \notin ToSet(w)
            \/ x = c /\ st = "waiting" /\ Call[c].op \in {"get", "batch"} /\ Key(c) = k

PuttersMove(c, st, w) ==
  /\ putters' \in [Keys -> Seq(Calls)]
  /\ \A k \in Keys :
       /\ IsInjective(putters'[k])
       /\ \A x \in Calls : x \in ToSet(putters'[k]) <=>
            \/ x \in ToSet(putters[k]) /\ x \notin ToSet(w)
            \/ x = c /\ st = "waiting" /\ Call[c].op = "put" /\ Next1(c).key = k

PosMoves(c, st) ==
  /\ pos' \in [Calls -> Nat]
  /\ \A x \in Calls : x # c => pos'[x] = pos[x]
  /\ st = "waiting" => pos'[c] = pos[c]
  /\ Call[c].op = "put" =>
       /\ pos'[c] <= Len(Call[c].items)
       /\ st # "done" => pos'[c] < Len(Call[c].items)

Moves(c, st, w) ==
  /\ UNCHANGED program
  /\ \A x \in ToSet(w) : x \in Calls /\ status[x] = "waiting"
  /\ Switched(c, st, w)
  /\ GettersMove(c, st, w)
  /\ PuttersMove(c, st, w)
  /\ PosMoves(c, st)

LEMMA MovesKeep ==
  ASSUME TypeOK, LoopInv, NEW c \in Calls, NEW st, NEW w, Moves(c, st, w)
  PROVE  LoopInv'
<1>0. Call' = Call /\ status[c] = "ready" /\ status'[c] = st
  BY DEF Moves, Switched, Call
<1>1. ReadyInv'
  BY DEF Moves, Switched, ReadyInv
<1>2. \A x \in Calls : x # c => status'[x] = IF x \in ToSet(w) THEN "ready" ELSE status[x]
  BY DEF Moves, Switched
<1>3. GettersInv'
  <2> SUFFICES ASSUME NEW k \in Keys
               PROVE  /\ IsInjective(getters'[k])
                      /\ \A x \in Calls : x \in ToSet(getters'[k]) <=> WaitsToGet(x, k)'
    BY DEF GettersInv
  <2>1. /\ IsInjective(getters'[k])
        /\ \A x \in Calls : x \in ToSet(getters'[k]) <=>
             \/ x \in ToSet(getters[k]) /\ x \notin ToSet(w)
             \/ x = c /\ st = "waiting" /\ Call[c].op \in {"get", "batch"} /\ Key(c) = k
    BY DEF Moves, GettersMove
  <2>2. ASSUME NEW x \in Calls PROVE x \in ToSet(getters[k]) <=> WaitsToGet(x, k)
    BY DEF LoopInv, GettersInv
  <2>3. \A x \in Calls : WaitsToGet(x, k)' <=>
          status'[x] = "waiting" /\ Call[x].op \in {"get", "batch"} /\ Key(x) = k
    BY <1>0 DEF WaitsToGet, Key
  <2>4. ASSUME NEW x \in Calls, x = c PROVE x \in ToSet(getters'[k]) <=> WaitsToGet(x, k)'
    BY <1>0, <2>1, <2>2, <2>3, <2>4 DEF WaitsToGet
  <2>5. ASSUME NEW x \in Calls, x # c PROVE x \in ToSet(getters'[k]) <=> WaitsToGet(x, k)'
    BY <1>2, <2>1, <2>2, <2>3, <2>5 DEF WaitsToGet
  <2>. QED  BY <2>1, <2>4, <2>5
<1>4. PuttersInv'
  <2> SUFFICES ASSUME NEW k \in Keys
               PROVE  /\ IsInjective(putters'[k])
                      /\ \A x \in Calls : x \in ToSet(putters'[k]) <=> WaitsToPut(x, k)'
    BY DEF PuttersInv
  <2>1. /\ IsInjective(putters'[k])
        /\ \A x \in Calls : x \in ToSet(putters'[k]) <=>
             \/ x \in ToSet(putters[k]) /\ x \notin ToSet(w)
             \/ x = c /\ st = "waiting" /\ Call[c].op = "put" /\ Next1(c).key = k
    BY DEF Moves, PuttersMove
  <2>2. ASSUME NEW x \in Calls PROVE x \in ToSet(putters[k]) <=> WaitsToPut(x, k)
    BY DEF LoopInv, PuttersInv
  <2>3. \A x \in Calls : WaitsToPut(x, k)' <=>
          status'[x] = "waiting" /\ Call[x].op = "put" /\ Next1(x)'.key = k
    BY <1>0 DEF WaitsToPut
  <2>4. ASSUME NEW x \in Calls, x = c PROVE x \in ToSet(putters'[k]) <=> WaitsToPut(x, k)'
    <3>1. st = "waiting" => Next1(c)' = Next1(c)
      BY <1>0 DEF Moves, PosMoves, Next1
    <3>. QED  BY <1>0, <2>1, <2>2, <2>3, <2>4, <3>1 DEF WaitsToPut
  <2>5. ASSUME NEW x \in Calls, x # c PROVE x \in ToSet(putters'[k]) <=> WaitsToPut(x, k)'
    <3>1. Next1(x)' = Next1(x)
      BY <1>0, <2>5 DEF Moves, PosMoves, Next1
    <3>. QED  BY <1>2, <2>1, <2>2, <2>3, <2>5, <3>1 DEF WaitsToPut
  <2>. QED  BY <2>1, <2>4, <2>5
<1>5. ProgressInv'
  <2> SUFFICES ASSUME NEW x \in Calls, Call[x].op = "put"
               PROVE  /\ pos'[x] <= Len(Call[x].items)
                      /\ status'[x] # "done" => pos'[x] < Len(Call[x].items)
    BY <1>0 DEF ProgressInv
  <2>1. CASE x = c
    BY <1>0, <2>1 DEF Moves, PosMoves
  <2>2. CASE x # c
    <3>1. pos'[x] = pos[x] /\ (status'[x] # "done" => status[x] # "done")
      BY <1>2, <2>2 DEF Moves, PosMoves
    <3>. QED  BY <3>1 DEF LoopInv, ProgressInv
  <2>. QED  BY <2>1, <2>2
<1>. QED  BY <1>1, <1>3, <1>4, <1>5 DEF LoopInv

LEMMA GettersStay ==
  ASSUME TypeOK, LoopInv, NEW c \in Calls, NEW st, NEW w, UNCHANGED getters,
         \A x \in ToSet(w) : x \in Calls /\ Call[x].op = "put",
         st # "waiting" \/ Call[c].op = "put"
  PROVE  GettersMove(c, st, w)
<1> SUFFICES ASSUME NEW k \in Keys, NEW x \in Calls, x \in ToSet(getters[k])
             PROVE  x \notin ToSet(w)
  BY DEF GettersMove, TypeOK, LoopInv, GettersInv
<1>. QED  BY DEF LoopInv, GettersInv, WaitsToGet

LEMMA GettersWake ==
  ASSUME TypeOK, LoopInv, NEW c \in Calls, NEW st, NEW k \in Keys,
         getters' = [getters EXCEPT ![k] = DropFirst(@)],
         Call[c].op = "put"
  PROVE  GettersMove(c, st, Woken(getters[k]))
<1> DEFINE w == Woken(getters[k])
           q == getters[k]
<1>0. q \in Seq(Calls) /\ IsInjective(q)
  BY DEF TypeOK, LoopInv, GettersInv
<1>1. /\ DropFirst(q) \in Seq(Calls) /\ IsInjective(DropFirst(q))
      /\ ToSet(DropFirst(q)) = ToSet(q) \ ToSet(w) /\ ToSet(w) \subseteq ToSet(q)
  BY <1>0, WokenOf
<1>2. /\ getters'[k] = DropFirst(q) /\ \A l \in Keys : l # k => getters'[l] = getters[l]
      /\ getters' \in [Keys -> Seq(Calls)]
  BY <1>1 DEF TypeOK
<1>3. ASSUME NEW l \in Keys, l # k, NEW x \in Calls, x \in ToSet(getters[l])
      PROVE  x \notin ToSet(q)
  BY <1>3 DEF LoopInv, GettersInv, WaitsToGet
<1> HIDE DEF w, q
<1>4. ASSUME NEW l \in Keys
      PROVE  /\ IsInjective(getters'[l])
             /\ \A x \in Calls : x \in ToSet(getters'[l]) <=> x \in ToSet(getters[l]) /\ x \notin ToSet(w)
  <2>1. CASE l = k
    BY <1>1, <1>2, <2>1 DEF q
  <2>2. CASE l # k
    BY <1>1, <1>2, <1>3, <2>2 DEF LoopInv, GettersInv
  <2>. QED  BY <2>1, <2>2
<1>. QED  BY <1>2, <1>4 DEF GettersMove, w

LEMMA GettersWait ==
  ASSUME TypeOK, LoopInv, NEW c \in Calls, NEW k \in Keys, status[c] = "ready",
         getters' = [getters EXCEPT ![k] = Append(@, c)],
         Call[c].op \in {"get", "batch"}, Key(c) = k
  PROVE  GettersMove(c, "waiting", <<>>)
<1> DEFINE q == getters[k]
<1>0. q \in Seq(Calls) /\ IsInjective(q) /\ c \notin ToSet(q)
  BY DEF TypeOK, LoopInv, GettersInv, WaitsToGet
<1>1. /\ Append(q, c) \in Seq(Calls) /\ IsInjective(Append(q, c))
      /\ ToSet(Append(q, c)) = ToSet(q) \cup {c}
  BY <1>0, Appended
<1>2. /\ getters'[k] = Append(q, c) /\ \A l \in Keys : l # k => getters'[l] = getters[l]
      /\ getters' \in [Keys -> Seq(Calls)]
  BY <1>1 DEF TypeOK
<1>3. ToSet(<<>>) = {}
  BY DEF ToSet
<1> HIDE DEF q
<1>4. ASSUME NEW l \in Keys
      PROVE  /\ IsInjective(getters'[l])
             /\ \A x \in Calls : x \in ToSet(getters'[l]) <=> x \in ToSet(getters[l]) \/ (x = c /\ l = k)
  <2>1. CASE l = k
    BY <1>1, <1>2, <2>1 DEF q
  <2>2. CASE l # k
    BY <1>2, <2>2 DEF LoopInv, GettersInv
  <2>. QED  BY <2>1, <2>2
<1>. QED  BY <1>2, <1>3, <1>4 DEF GettersMove

LEMMA PuttersStay ==
  ASSUME TypeOK, LoopInv, NEW c \in Calls, NEW st, NEW w, UNCHANGED putters,
         \A x \in ToSet(w) : x \in Calls /\ Call[x].op # "put",
         st # "waiting" \/ Call[c].op # "put"
  PROVE  PuttersMove(c, st, w)
<1> SUFFICES ASSUME NEW k \in Keys, NEW x \in Calls, x \in ToSet(putters[k])
             PROVE  x \notin ToSet(w)
  BY DEF PuttersMove, TypeOK, LoopInv, PuttersInv
<1>. QED  BY DEF LoopInv, PuttersInv, WaitsToPut

LEMMA PuttersWake ==
  ASSUME TypeOK, LoopInv, NEW c \in Calls, NEW st, NEW k \in Keys,
         putters' = [putters EXCEPT ![k] = DropFirst(@)],
         Call[c].op # "put"
  PROVE  PuttersMove(c, st, Woken(putters[k]))
<1> DEFINE w == Woken(putters[k])
           q == putters[k]
<1>0. q \in Seq(Calls) /\ IsInjective(q)
  BY DEF TypeOK, LoopInv, PuttersInv
<1>1. /\ DropFirst(q) \in Seq(Calls) /\ IsInjective(DropFirst(q))
      /\ ToSet(DropFirst(q)) = ToSet(q) \ ToSet(w) /\ ToSet(w) \subseteq ToSet(q)
  BY <1>0, WokenOf
<1>2. /\ putters'[k] = DropFirst(q) /\ \A l \in Keys : l # k => putters'[l] = putters[l]
      /\ putters' \in [Keys -> Seq(Calls)]
  BY <1>1 DEF TypeOK
<1>3. ASSUME NEW l \in Keys, l # k, NEW x \in Calls, x \in ToSet(putters[l])
      PROVE  x \notin ToSet(q)
  BY <1>3 DEF LoopInv, PuttersInv, WaitsToPut
<1> HIDE DEF w, q
<1>4. ASSUME NEW l \in Keys
      PROVE  /\ IsInjective(putters'[l])
             /\ \A x \in Calls : x \in ToSet(putters'[l]) <=> x \in ToSet(putters[l]) /\ x \notin ToSet(w)
  <2>1. CASE l = k
    BY <1>1, <1>2, <2>1 DEF q
  <2>2. CASE l # k
    BY <1>1, <1>2, <1>3, <2>2 DEF LoopInv, PuttersInv
  <2>. QED  BY <2>1, <2>2
<1>. QED  BY <1>2, <1>4 DEF PuttersMove, w

LEMMA PuttersWait ==
  ASSUME TypeOK, LoopInv, NEW c \in Calls, NEW k \in Keys, status[c] = "ready",
         putters' = [putters EXCEPT ![k] = Append(@, c)],
         Call[c].op = "put", Next1(c).key = k
  PROVE  PuttersMove(c, "waiting", <<>>)
<1> DEFINE q == putters[k]
<1>0. q \in Seq(Calls) /\ IsInjective(q) /\ c \notin ToSet(q)
  BY DEF TypeOK, LoopInv, PuttersInv, WaitsToPut
<1>1. /\ Append(q, c) \in Seq(Calls) /\ IsInjective(Append(q, c))
      /\ ToSet(Append(q, c)) = ToSet(q) \cup {c}
  BY <1>0, Appended
<1>2. /\ putters'[k] = Append(q, c) /\ \A l \in Keys : l # k => putters'[l] = putters[l]
      /\ putters' \in [Keys -> Seq(Calls)]
  BY <1>1 DEF TypeOK
<1>3. ToSet(<<>>) = {}
  BY DEF ToSet
<1> HIDE DEF q
<1>4. ASSUME NEW l \in Keys
      PROVE  /\ IsInjective(putters'[l])
             /\ \A x \in Calls : x \in ToSet(putters'[l]) <=> x \in ToSet(putters[l]) \/ (x = c /\ l = k)
  <2>1. CASE l = k
    BY <1>1, <1>2, <2>1 DEF q
  <2>2. CASE l # k
    BY <1>2, <2>2 DEF LoopInv, PuttersInv
  <2>. QED  BY <2>1, <2>2
<1>. QED  BY <1>2, <1>3, <1>4 DEF PuttersMove

\* Whoever a put or a get wakes has been waiting.
LEMMA WokenGetters ==
  ASSUME TypeOK, LoopInv, NEW k \in Keys
  PROVE  LET w == Woken(getters[k]) IN
         /\ w \in Seq(Calls) /\ IsInjective(w)
         /\ \A x \in ToSet(w) : /\ x \in Calls /\ status[x] = "waiting"
                                /\ Call[x].op # "put"
<1> DEFINE q == getters[k]
<1>1. q \in Seq(Calls) /\ IsInjective(q) /\ ToSet(q) \subseteq Calls
  BY DEF TypeOK, LoopInv, GettersInv, ToSet
<1>2. Woken(q) \in Seq(Calls) /\ IsInjective(Woken(q)) /\ ToSet(Woken(q)) \subseteq ToSet(q)
  BY <1>1, WokenOf
<1>3. \A x \in ToSet(q) : status[x] = "waiting" /\ Call[x].op # "put"
  BY <1>1 DEF LoopInv, GettersInv, WaitsToGet
<1>. QED  BY <1>1, <1>2, <1>3

LEMMA WokenPutters ==
  ASSUME TypeOK, LoopInv, NEW k \in Keys
  PROVE  LET w == Woken(putters[k]) IN
         /\ w \in Seq(Calls) /\ IsInjective(w)
         /\ \A x \in ToSet(w) : /\ x \in Calls /\ status[x] = "waiting"
                                /\ Call[x].op = "put"
<1> DEFINE q == putters[k]
<1>1. q \in Seq(Calls) /\ IsInjective(q) /\ ToSet(q) \subseteq Calls
  BY DEF TypeOK, LoopInv, PuttersInv, ToSet
<1>2. Woken(q) \in Seq(Calls) /\ IsInjective(Woken(q)) /\ ToSet(Woken(q)) \subseteq ToSet(q)
  BY <1>1, WokenOf
<1>3. \A x \in ToSet(q) : status[x] = "waiting" /\ Call[x].op = "put"
  BY <1>1 DEF LoopInv, PuttersInv, WaitsToPut
<1>. QED  BY <1>1, <1>2, <1>3

\* What a put inserts next, and what a get takes from.
LEMMA NextItem ==
  ASSUME TypeOK, LoopInv, NEW c \in Calls, Running(c), Call[c].op = "put"
  PROVE  /\ pos[c] + 1 \in 1 .. Len(Call[c].items) /\ Len(Call[c].items) \in Nat
         /\ DOMAIN Call[c].items = 1 .. Len(Call[c].items)
         /\ Next1(c) \in Items /\ Next1(c).key \in Keys
<1>1. status[c] = "ready"
  BY RunningFacts DEF LoopInv
<1>2. Call[c].items \in Seq(Items)
  BY ProgramFacts DEF GoodCall
<1>3. pos[c] \in Nat /\ pos[c] < Len(Call[c].items)
  BY <1>1 DEF TypeOK, LoopInv, ProgressInv
<1> DEFINE q == Call[c].items
<1>4. PICK n \in Nat : n = Len(q)
  BY <1>2
<1>5. DOMAIN q = 1 .. n
  BY <1>2, <1>4
<1>6. pos[c] + 1 \in 1 .. n
  BY <1>3, <1>4
<1>7. q[pos[c] + 1] \in Items
  BY <1>2, <1>5, <1>6
<1>. QED  BY <1>4, <1>5, <1>6, <1>7 DEF Next1, Items

LEMMA KeyType ==
  ASSUME TypeOK, NEW c \in Calls, Call[c].op # "put"
  PROVE  Key(c) \in Keys
<1>1. Call[c].keys \in Seq(Keys) /\ Call[c].keys # <<>>
  BY ProgramFacts DEF GoodCall
<1>. QED  BY <1>1 DEF Key

LEMMA PolledType ==
  ASSUME TypeOK, NEW c \in Calls, Call[c].op # "put", NEW i \in Nat
  PROVE  Polled(c, i) \in Keys
<1> DEFINE q == Call[c].keys
<1>1. q \in Seq(Keys) /\ q # <<>>
  BY ProgramFacts DEF GoodCall
<1>2. PICK n \in Nat : n = Len(q) /\ n # 0
  BY <1>1
<1>3. pos[c] + i \in Nat
  BY DEF TypeOK
<1>4. \A a \in Nat : (a % n) + 1 \in 1 .. n
  BY <1>2
<1>. QED  BY <1>1, <1>2, <1>3, <1>4 DEF Polled

LEMMA PutItemMoves ==
  ASSUME TypeOK, LoopInv, NEW c \in Calls, PutItem(c)
  PROVE  /\ \E st : Moves(c, st, Woken(getters[Next1(c).key]))
         /\ outcome' \in [Calls -> {"none", "ok", "full", "empty"}]
         /\ pos'[c] = pos[c] + 1
         /\ pos'[c] = Len(Call[c].items) \/ Running(c)'
<1> DEFINE k == Next1(c).key
           w == Woken(getters[k])
           n == Len(Call[c].items)
<1>1. /\ pos[c] + 1 \in 1 .. n /\ n \in Nat /\ k \in Keys
      /\ Running(c) /\ Call[c].op = "put"
  BY NextItem DEF PutItem
<1>2. /\ w \in Seq(Calls) /\ IsInjective(w)
      /\ \A x \in ToSet(w) : x \in Calls /\ status[x] = "waiting" /\ Call[x].op # "put"
  BY <1>1, WokenGetters
<1>3. /\ getters' = [getters EXCEPT ![k] = DropFirst(@)]
      /\ pos' = [pos EXCEPT ![c] = @ + 1]
      /\ UNCHANGED <<program, putters>>
      /\ IF pos'[c] = n THEN Returns(c, "ok", w) ELSE GoesOn(w) /\ UNCHANGED outcome
  BY DEF PutItem
<1> HIDE DEF w, k, n
<1>4. \A st : GettersMove(c, st, w)
  BY <1>1, <1>3, GettersWake DEF w
<1>5. \A st \in {"ready", "done"} : PuttersMove(c, st, w)
  BY <1>1, <1>2, <1>3, PuttersStay
<1>6. pos' \in [Calls -> Nat] /\ pos'[c] = pos[c] + 1 /\ \A x \in Calls : x # c => pos'[x] = pos[x]
  BY <1>3 DEF TypeOK
<1>7. ReadyInv
  BY DEF LoopInv
<1>8. CASE pos'[c] = n
  <2>1. Stops(c, "done", w) /\ outcome' = [outcome EXCEPT ![c] = "ok"]
    BY <1>3, <1>8 DEF Returns
  <2>2. Switched(c, "done", w)
    BY <1>1, <1>2, <1>7, <2>1, StopsSwitches
  <2>3. PosMoves(c, "done")
    BY <1>1, <1>6 DEF PosMoves, n
  <2>4. Moves(c, "done", w)
    BY <1>2, <1>3, <1>4, <1>5, <2>2, <2>3 DEF Moves
  <2>. QED  BY <1>6, <1>8, <2>1, <2>4 DEF TypeOK, w, k, n
<1>9. CASE pos'[c] # n
  <2>1. GoesOn(w) /\ UNCHANGED outcome
    BY <1>3, <1>9
  <2>2. Switched(c, "ready", w) /\ Running(c)'
    BY <1>1, <1>2, <1>7, <2>1, GoesOnSwitches
  <2>3. PosMoves(c, "ready")
    BY <1>1, <1>6, <1>9 DEF PosMoves, n
  <2>4. Moves(c, "ready", w)
    BY <1>2, <1>3, <1>4, <1>5, <2>2, <2>3 DEF Moves
  <2>. QED  BY <1>6, <2>1, <2>2, <2>4 DEF TypeOK, w, k, n
<1>. QED  BY <1>8, <1>9

\* A call that stops and wakes nobody, and is no waiter.
LEMMA StopsMoves ==
  ASSUME TypeOK, LoopInv, NEW c \in Calls, Running(c), NEW st \in {"sleeping", "done"},
         Stops(c, st, <<>>), UNCHANGED <<program, getters, putters>>,
         pos' \in [Calls -> Nat], \A x \in Calls : x # c => pos'[x] = pos[x],
         Call[c].op = "put" => st = "done" /\ pos'[c] = pos[c]
  PROVE  Moves(c, st, <<>>)
<1> DEFINE w == <<>>
<1>1. w \in Seq(Calls) /\ IsInjective(w) /\ ToSet(w) = {}
  BY NothingWoken
<1>2. Stops(c, st, w) /\ ReadyInv
  BY DEF LoopInv
<1> HIDE DEF w
<1>3. Switched(c, st, w)
  BY <1>1, <1>2, StopsSwitches
<1>4. GettersMove(c, st, w) /\ PuttersMove(c, st, w)
  BY <1>1, GettersStay, PuttersStay
<1>5. PosMoves(c, st)
  BY DEF PosMoves, LoopInv, ProgressInv
<1>. QED  BY <1>1, <1>3, <1>4, <1>5 DEF Moves, w

LEMMA ReturnsMoves ==
  ASSUME TypeOK, LoopInv, NEW c \in Calls, Running(c), NEW o \in {"ok", "full", "empty"},
         Returns(c, o, <<>>), UNCHANGED <<program, getters, putters, pos>>
  PROVE  /\ Moves(c, "done", <<>>)
         /\ outcome' \in [Calls -> {"none", "ok", "full", "empty"}]
BY StopsMoves DEF Returns, TypeOK

LEMMA PutBlockedMoves ==
  ASSUME TypeOK, LoopInv, NEW c \in Calls, PutBlocked(c)
  PROVE  /\ \E st : Moves(c, st, <<>>)
         /\ outcome' \in [Calls -> {"none", "ok", "full", "empty"}]
<1> DEFINE k == Next1(c).key
           w == <<>>
<1>1. Running(c) /\ Call[c].op = "put" /\ UNCHANGED <<program, queue, getters, pos, taken, weight>>
  BY DEF PutBlocked
<1>2. CASE Call[c].patience = "none"
  BY <1>1, <1>2, ReturnsMoves DEF PutBlocked
<1>3. CASE Call[c].patience # "none"
  <2>1. /\ putters' = [putters EXCEPT ![k] = Append(@, c)]
        /\ Stops(c, "waiting", w) /\ UNCHANGED outcome
    BY <1>3 DEF PutBlocked
  <2>2. k \in Keys /\ pos[c] + 1 \in 1 .. Len(Call[c].items) /\ Len(Call[c].items) \in Nat
    BY <1>1, NextItem
  <2>3. w \in Seq(Calls) /\ IsInjective(w) /\ ToSet(w) = {}
    BY NothingWoken
  <2>4. ReadyInv /\ status[c] = "ready"
    BY <1>1, RunningFacts DEF LoopInv
  <2>5. PuttersMove(c, "waiting", w)
    BY <1>1, <2>1, <2>2, <2>4, PuttersWait
  <2> HIDE DEF w
  <2>6. Switched(c, "waiting", w)
    BY <1>1, <2>1, <2>3, <2>4, StopsSwitches
  <2>7. GettersMove(c, "waiting", w)
    BY <1>1, <2>3, GettersStay
  <2>8. PosMoves(c, "waiting")
    BY <1>1, <2>2 DEF PosMoves, TypeOK
  <2>. QED  BY <1>1, <2>1, <2>3, <2>5, <2>6, <2>7, <2>8 DEF Moves, TypeOK, w
<1>. QED  BY <1>2, <1>3

LEMMA GetBlockedMoves ==
  ASSUME TypeOK, LoopInv, NEW c \in Calls, GetBlocked(c)
  PROVE  /\ \E st : Moves(c, st, <<>>)
         /\ outcome' \in [Calls -> {"none", "ok", "full", "empty"}]
<1> DEFINE k == Key(c)
           w == <<>>
<1>1. /\ Running(c) /\ Call[c].op \in {"get", "batch"}
      /\ UNCHANGED <<program, queue, putters, pos, taken, weight>>
  BY DEF GetBlocked
<1>2. CASE Call[c].patience = "none"
  BY <1>1, <1>2, ReturnsMoves DEF GetBlocked
<1>3. CASE Call[c].patience # "none"
  <2>1. /\ getters' = [getters EXCEPT ![k] = Append(@, c)]
        /\ Stops(c, "waiting", w) /\ UNCHANGED outcome
    BY <1>3 DEF GetBlocked, WaitAtTail
  <2>2. k \in Keys
    BY <1>1, KeyType
  <2>3. w \in Seq(Calls) /\ IsInjective(w) /\ ToSet(w) = {}
    BY NothingWoken
  <2>4. ReadyInv /\ status[c] = "ready"
    BY <1>1, RunningFacts DEF LoopInv
  <2>5. GettersMove(c, "waiting", w)
    BY <1>1, <2>1, <2>2, <2>4, GettersWait
  <2> HIDE DEF w
  <2>6. Switched(c, "waiting", w)
    BY <1>1, <2>1, <2>3, <2>4, StopsSwitches
  <2>7. PuttersMove(c, "waiting", w)
    BY <1>1, <2>3, PuttersStay
  <2>8. PosMoves(c, "waiting")
    BY <1>1 DEF PosMoves, TypeOK
  <2>. QED  BY <1>1, <2>1, <2>3, <2>5, <2>6, <2>7, <2>8 DEF Moves, TypeOK, w
<1>. QED  BY <1>2, <1>3

\* A get, get_any or get_batch takes an item and wakes a putter of its key.
LEMMA TakeMoves ==
  ASSUME TypeOK, LoopInv, NEW c \in Calls, Running(c), Call[c].op # "put",
         NEW k \in Keys, TakeFrom(c, k),
         \/ Returns(c, "ok", Woken(putters[k]))
         \/ GoesOn(Woken(putters[k])) /\ UNCHANGED outcome
  PROVE  /\ \E st : Moves(c, st, Woken(putters[k]))
         /\ outcome' \in [Calls -> {"none", "ok", "full", "empty"}]
<1> DEFINE w == Woken(putters[k])
<1>1. /\ UNCHANGED <<program, getters, pos>>
      /\ putters' = [putters EXCEPT ![k] = DropFirst(@)]
  BY DEF TakeFrom
<1>2. /\ w \in Seq(Calls) /\ IsInjective(w)
      /\ \A x \in ToSet(w) : x \in Calls /\ status[x] = "waiting" /\ Call[x].op = "put"
  BY WokenPutters
<1>3. \A st : PuttersMove(c, st, w)
  BY <1>1, PuttersWake
<1> HIDE DEF w
<1>4. \A st \in {"ready", "done"} : GettersMove(c, st, w) /\ PosMoves(c, st)
  BY <1>1, <1>2, GettersStay DEF PosMoves, TypeOK
<1>5. ReadyInv
  BY DEF LoopInv
<1>6. CASE Returns(c, "ok", w)
  <2>1. Switched(c, "done", w)
    BY <1>2, <1>5, <1>6, StopsSwitches DEF Returns
  <2>2. Moves(c, "done", w)
    BY <1>1, <1>2, <1>3, <1>4, <2>1 DEF Moves
  <2>. QED  BY <1>6, <2>2 DEF Returns, TypeOK, w
<1>7. CASE GoesOn(w) /\ UNCHANGED outcome
  <2>1. Switched(c, "ready", w)
    BY <1>2, <1>5, <1>7, GoesOnSwitches
  <2>2. Moves(c, "ready", w)
    BY <1>1, <1>2, <1>3, <1>4, <2>1 DEF Moves
  <2>. QED  BY <1>7, <2>2 DEF TypeOK, w
<1>. QED  BY <1>6, <1>7 DEF w

-----------------------------------------------------------------------------
(***************************************************************************)
(* The items.                                                              *)
(***************************************************************************)

LEMMA SamePuts ==
  ASSUME TypeOK, UNCHANGED program, pos' \in [Calls -> Nat],
         \A x \in Calls : Call[x].op = "put" => pos'[x] = pos[x]
  PROVE  \A it : WasPut(it)' <=> WasPut(it)
BY DEF WasPut, Call

LEMMA StayKeeps ==
  ASSUME QueueInv, UNCHANGED <<program, queue, taken>>, pos' \in [Calls -> Nat],
         \A x \in Calls : Call[x].op = "put" => pos'[x] = pos[x]
  PROVE  PlaceInv' /\ RoomInv'
<1>1. \A it : WasPut(it)' <=> WasPut(it)
  BY SamePuts DEF QueueInv
<1>. QED  BY <1>1 DEF QueueInv, PlaceInv, RoomInv, MaxSize

\* The item a put inserts was nowhere before.
LEMMA PutKeeps ==
  ASSUME QueueInv, NEW c \in Calls, PutItem(c)
  PROVE  /\ PlaceInv' /\ RoomInv'
         /\ queue' \in [Keys -> Seq(Items)]
<1> DEFINE it == Next1(c)
           k == it.key
           q == queue[k]
           n == Len(Call[c].items)
<1>0. TypeOK /\ LoopInv /\ PlaceInv /\ RoomInv
  BY DEF QueueInv
<1>1. /\ Running(c) /\ Call[c].op = "put" /\ ~Full(k)
      /\ queue' = [queue EXCEPT ![k] = Append(@, it)]
      /\ pos' = [pos EXCEPT ![c] = @ + 1]
      /\ UNCHANGED <<program, taken>>
  BY DEF PutItem
<1>2. /\ pos[c] + 1 \in 1 .. n /\ n \in Nat /\ DOMAIN Call[c].items = 1 .. n
      /\ it \in Items /\ k \in Keys
  BY <1>0, <1>1, NextItem
<1>3. q \in Seq(Items) /\ IsInjective(q) /\ pos[c] \in Nat /\ MaxSize \in Nat
  BY <1>0, <1>2, ProgramFacts DEF PlaceInv, TypeOK
<1>4. it = Call[c].items[pos[c] + 1] /\ Call' = Call /\ MaxSize' = MaxSize
  BY <1>1 DEF Next1, Call, MaxSize
<1> HIDE DEF n, it, k
<1>5. ~WasPut(it)
  <2> SUFFICES ASSUME NEW d \in Calls, Call[d].op = "put", NEW i \in 1 .. pos[d],
                      Call[d].items[i] = it
               PROVE  FALSE
    BY DEF WasPut
  <2>1. i \in DOMAIN Call[d].items
    <3>1. Call[d].items \in Seq(Items)
      BY <1>0, ProgramFacts DEF GoodCall
    <3>2. PICK m \in Nat : m = Len(Call[d].items)
      BY <3>1
    <3>3. pos[d] <= m /\ pos[d] \in Nat
      BY <1>0, <3>2 DEF LoopInv, ProgressInv, TypeOK
    <3>4. i \in 1 .. m
      BY <3>2, <3>3
    <3>. QED  BY <3>1, <3>2, <3>4
  <2>2. d = c /\ i = pos[c] + 1
    BY <1>0, <1>2, <1>4, <2>1, ProgramFacts DEF ItemsDiffer
  <2>. QED  BY <1>3, <2>2
<1>6. /\ \A l \in Keys : it \notin ToSet(queue[l])
      /\ \A d \in Calls : it \notin ToSet(taken[d])
  BY <1>0, <1>2, <1>5 DEF PlaceInv
<1>7. /\ Append(q, it) \in Seq(Items) /\ IsInjective(Append(q, it))
      /\ ToSet(Append(q, it)) = ToSet(q) \cup {it}
  BY <1>2, <1>3, <1>6, Appended
<1>8. /\ queue'[k] = Append(q, it) /\ \A l \in Keys : l # k => queue'[l] = queue[l]
      /\ queue' \in [Keys -> Seq(Items)]
  BY <1>0, <1>1, <1>2, <1>7 DEF TypeOK
<1>9. \A l \in Keys : \A x : x \in ToSet(queue'[l]) <=> x \in ToSet(queue[l]) \/ (l = k /\ x = it)
  BY <1>7, <1>8
<1>10. \A x : WasPut(x)' <=> WasPut(x) \/ x = it
  <2>1. pos'[c] = pos[c] + 1 /\ \A d \in Calls : d # c => pos'[d] = pos[d]
    BY <1>0, <1>1 DEF TypeOK
  <2>2. \A x : WasPut(x)' <=> \E d \in Calls : Call[d].op = "put" /\ \E i \in 1 .. pos'[d] : Call[d].items[i] = x
    BY <1>4 DEF WasPut
  <2>3. \A i : i \in 1 .. pos[c] + 1 <=> i \in 1 .. pos[c] \/ i = pos[c] + 1
    BY <1>3
  <2>4. ASSUME NEW x, WasPut(x)' PROVE WasPut(x) \/ x = it
    <3>1. PICK d \in Calls : Call[d].op = "put" /\ \E i \in 1 .. pos'[d] : Call[d].items[i] = x
      BY <2>2, <2>4
    <3>2. PICK i \in 1 .. pos'[d] : Call[d].items[i] = x
      BY <3>1
    <3>3. CASE d = c
      <4>1. i \in 1 .. pos[c] \/ i = pos[c] + 1
        BY <2>1, <2>3, <3>2, <3>3
      <4>. QED  BY <1>4, <3>1, <3>2, <3>3, <4>1 DEF WasPut
    <3>4. CASE d # c
      BY <2>1, <3>1, <3>2, <3>4 DEF WasPut
    <3>. QED  BY <3>3, <3>4
  <2>5. ASSUME NEW x, WasPut(x) PROVE WasPut(x)'
    <3>1. PICK d \in Calls : Call[d].op = "put" /\ \E i \in 1 .. pos[d] : Call[d].items[i] = x
      BY <2>5 DEF WasPut
    <3>2. PICK i \in 1 .. pos[d] : Call[d].items[i] = x
      BY <3>1
    <3>3. i \in 1 .. pos'[d]
      BY <2>1, <2>3, <3>2
    <3>. QED  BY <2>2, <3>1, <3>2, <3>3
  <2>6. ASSUME NEW x, x = it PROVE WasPut(x)'
    <3>1. pos[c] + 1 \in 1 .. pos'[c]
      BY <1>3, <2>1
    <3>. QED  BY <1>1, <1>4, <2>2, <2>6, <3>1
  <2>. QED  BY <2>4, <2>5, <2>6
<1>11. PlaceInv'
  <2>1. \A l \in Keys : IsInjective(queue'[l])
    BY <1>0, <1>7, <1>8 DEF PlaceInv
  <2>2. taken' = taken /\ \A d \in Calls : IsInjective(taken[d])
    BY <1>0, <1>1 DEF PlaceInv
  <2>3. ASSUME NEW x \in Items
        PROVE  /\ \A a, b \in Keys : x \in ToSet(queue'[a]) /\ x \in ToSet(queue'[b]) => a = b
               /\ \A a, b \in Calls : x \in ToSet(taken[a]) /\ x \in ToSet(taken[b]) => a = b
               /\ \A a \in Keys, b \in Calls : ~(x \in ToSet(queue'[a]) /\ x \in ToSet(taken[b]))
               /\ WasPut(x)' <=> \/ \E a \in Keys : x \in ToSet(queue'[a])
                                 \/ \E b \in Calls : x \in ToSet(taken[b])
    <3>1. /\ \A a, b \in Keys : x \in ToSet(queue[a]) /\ x \in ToSet(queue[b]) => a = b
          /\ \A a, b \in Calls : x \in ToSet(taken[a]) /\ x \in ToSet(taken[b]) => a = b
          /\ \A a \in Keys, b \in Calls : ~(x \in ToSet(queue[a]) /\ x \in ToSet(taken[b]))
          /\ WasPut(x) <=> \/ \E a \in Keys : x \in ToSet(queue[a])
                           \/ \E b \in Calls : x \in ToSet(taken[b])
      BY <1>0 DEF PlaceInv
    <3>2. CASE x = it
      <4>1. WasPut(x)' /\ \A a \in Keys : x \in ToSet(queue'[a]) <=> a = k
        BY <1>6, <1>9, <1>10, <3>2
      <4>. QED  BY <1>2, <1>6, <3>1, <3>2, <4>1
    <3>3. CASE x # it
      <4>1. (WasPut(x)' <=> WasPut(x)) /\ \A a \in Keys : x \in ToSet(queue'[a]) <=> x \in ToSet(queue[a])
        BY <1>9, <1>10, <3>3
      <4>. QED  BY <3>1, <4>1
    <3>. QED  BY <3>2, <3>3
  <2>. QED  BY <2>1, <2>2, <2>3 DEF PlaceInv
<1>12. RoomInv'
  <2> SUFFICES ASSUME MaxSize > 0, NEW l \in Keys PROVE Len(queue'[l]) <= MaxSize
    BY <1>4 DEF RoomInv
  <2>1. CASE l = k
    <3>1. PICK m \in Nat : m = Len(q)
      BY <1>3
    <3>2. m < MaxSize
      BY <1>1, <1>3, <3>1 DEF Full
    <3>3. Len(queue'[k]) = m + 1
      BY <1>2, <1>3, <1>8, <3>1
    <3>. QED  BY <1>3, <2>1, <3>2, <3>3
  <2>2. CASE l # k
    BY <1>0, <1>8, <2>2 DEF RoomInv
  <2>. QED  BY <2>1, <2>2
<1>. QED  BY <1>8, <1>11, <1>12

\* The item a get takes is in no queue any more.
LEMMA TakeKeeps ==
  ASSUME QueueInv, NEW c \in Calls, NEW k \in Keys, TakeFrom(c, k)
  PROVE  /\ PlaceInv' /\ RoomInv'
         /\ queue' \in [Keys -> Seq(Items)]
         /\ taken' \in [Calls -> Seq(Items)]
         /\ Head(queue[k]) \in Items
<1> DEFINE q == queue[k]
           t == taken[c]
           it == Head(queue[k])
<1>0. TypeOK /\ LoopInv /\ PlaceInv /\ RoomInv
  BY DEF QueueInv
<1>1. /\ q # <<>>
      /\ queue' = [queue EXCEPT ![k] = Tail(@)]
      /\ taken' = [taken EXCEPT ![c] = Append(@, it)]
      /\ UNCHANGED <<program, pos>>
  BY DEF TakeFrom
<1>2. /\ q \in Seq(Items) /\ IsInjective(q) /\ MaxSize \in Nat
      /\ t \in Seq(Items) /\ IsInjective(t) /\ MaxSize' = MaxSize
  BY <1>0, <1>1, ProgramFacts DEF PlaceInv, TypeOK, MaxSize
<1>3. /\ Tail(q) \in Seq(Items) /\ IsInjective(Tail(q)) /\ ToSet(Tail(q)) = ToSet(q) \ {it}
      /\ it \in ToSet(q) /\ it \in Items
  BY <1>1, <1>2, WithoutHead
<1> HIDE DEF it
<1>4. /\ \A l \in Keys : l # k => it \notin ToSet(queue[l])
      /\ \A d \in Calls : it \notin ToSet(taken[d])
      /\ WasPut(it)
  BY <1>0, <1>3 DEF PlaceInv
<1>5. /\ Append(t, it) \in Seq(Items) /\ IsInjective(Append(t, it))
      /\ ToSet(Append(t, it)) = ToSet(t) \cup {it}
  BY <1>2, <1>3, <1>4, Appended
<1>6. /\ queue'[k] = Tail(q) /\ \A l \in Keys : l # k => queue'[l] = queue[l]
      /\ queue' \in [Keys -> Seq(Items)]
  BY <1>0, <1>1, <1>3 DEF TypeOK
<1>7. /\ taken'[c] = Append(t, it) /\ \A d \in Calls : d # c => taken'[d] = taken[d]
      /\ taken' \in [Calls -> Seq(Items)]
  BY <1>0, <1>1, <1>5 DEF TypeOK
<1>8. \A l \in Keys : \A x : x \in ToSet(queue'[l]) <=> x \in ToSet(queue[l]) /\ x # it
  BY <1>3, <1>4, <1>6
<1>9. \A d \in Calls : \A x : x \in ToSet(taken'[d]) <=> x \in ToSet(taken[d]) \/ (d = c /\ x = it)
  BY <1>5, <1>7
<1>10. \A x : WasPut(x)' <=> WasPut(x)
  <2>1. \A x \in Calls : Call[x].op = "put" => pos'[x] = pos[x]
    BY <1>1
  <2>2. pos' \in [Calls -> Nat]
    BY <1>0, <1>1 DEF TypeOK
  <2>. QED  BY <1>0, <1>1, <2>1, <2>2, SamePuts
<1>11. PlaceInv'
  <2>1. \A l \in Keys : IsInjective(queue'[l])
    BY <1>0, <1>3, <1>6 DEF PlaceInv
  <2>2. \A d \in Calls : IsInjective(taken'[d])
    BY <1>0, <1>5, <1>7 DEF PlaceInv
  <2>3. ASSUME NEW x \in Items
        PROVE  /\ \A a, b \in Keys : x \in ToSet(queue'[a]) /\ x \in ToSet(queue'[b]) => a = b
               /\ \A a, b \in Calls : x \in ToSet(taken'[a]) /\ x \in ToSet(taken'[b]) => a = b
               /\ \A a \in Keys, b \in Calls : ~(x \in ToSet(queue'[a]) /\ x \in ToSet(taken'[b]))
               /\ WasPut(x)' <=> \/ \E a \in Keys : x \in ToSet(queue'[a])
                                 \/ \E b \in Calls : x \in ToSet(taken'[b])
    <3>1. /\ \A a, b \in Keys : x \in ToSet(queue[a]) /\ x \in ToSet(queue[b]) => a = b
          /\ \A a, b \in Calls : x \in ToSet(taken[a]) /\ x \in ToSet(taken[b]) => a = b
          /\ \A a \in Keys, b \in Calls : ~(x \in ToSet(queue[a]) /\ x \in ToSet(taken[b]))
          /\ WasPut(x) <=> \/ \E a \in Keys : x \in ToSet(queue[a])
                           \/ \E b \in Calls : x \in ToSet(taken[b])
      BY <1>0 DEF PlaceInv
    <3>2. CASE x = it
      <4>1. /\ WasPut(x)' /\ \A a \in Keys : x \notin ToSet(queue'[a])
            /\ \A b \in Calls : x \in ToSet(taken'[b]) <=> b = c
        BY <1>4, <1>8, <1>9, <1>10, <3>2
      <4>. QED  BY <4>1
    <3>3. CASE x # it
      <4>1. /\ WasPut(x)' <=> WasPut(x)
            /\ \A a \in Keys : x \in ToSet(queue'[a]) <=> x \in ToSet(queue[a])
            /\ \A b \in Calls : x \in ToSet(taken'[b]) <=> x \in ToSet(taken[b])
        BY <1>8, <1>9, <1>10, <3>3
      <4>. QED  BY <3>1, <4>1
    <3>. QED  BY <3>2, <3>3
  <2>. QED  BY <2>1, <2>2, <2>3 DEF PlaceInv
<1>12. RoomInv'
  <2> SUFFICES ASSUME MaxSize > 0, NEW l \in Keys PROVE Len(queue'[l]) <= MaxSize
    BY <1>2 DEF RoomInv
  <2>1. CASE l = k
    <3>1. PICK m \in Nat : m = Len(q) /\ m # 0
      BY <1>1, <1>2
    <3>2. m <= MaxSize
      BY <1>0, <3>1 DEF RoomInv
    <3>3. Len(queue'[k]) = m - 1
      BY <1>1, <1>2, <1>6, <3>1
    <3>. QED  BY <1>2, <2>1, <3>1, <3>2, <3>3
  <2>2. CASE l # k
    BY <1>0, <1>6, <2>2 DEF RoomInv
  <2>. QED  BY <2>1, <2>2
<1>. QED  BY <1>3, <1>6, <1>7, <1>11, <1>12

-----------------------------------------------------------------------------
(***************************************************************************)
(* QueueInv is inductive.                                                  *)
(***************************************************************************)

LEMMA QueueInit == Init => QueueInv
<1> SUFFICES ASSUME Init PROVE QueueInv
  OBVIOUS
<1>0. /\ program \in Programs
      /\ queue = [k \in Keys |-> <<>>] /\ getters = [k \in Keys |-> <<>>]
      /\ putters = [k \in Keys |-> <<>>] /\ ready = <<>>
      /\ status = [c \in Calls |-> "new"] /\ pos = [c \in Calls |-> 0]
      /\ taken = [c \in Calls |-> <<>>] /\ weight = [c \in Calls |-> 0]
      /\ outcome = [c \in Calls |-> "none"]
  BY DEF Init
<1>1. TypeOK
  BY <1>0 DEF TypeOK
<1>2. IsInjective(<<>>) /\ ToSet(<<>>) = {}
  BY DEF IsInjective, ToSet
<1>3. ReadyInv
  BY <1>0, <1>2 DEF ReadyInv
<1>4. GettersInv /\ PuttersInv
  BY <1>0, <1>2 DEF GettersInv, PuttersInv, WaitsToGet, WaitsToPut
<1>5. ProgressInv
  <2> SUFFICES ASSUME NEW c \in Calls, Call[c].op = "put"
               PROVE  pos[c] <= Len(Call[c].items) /\ pos[c] < Len(Call[c].items)
    BY DEF ProgressInv
  <2>1. Call[c].items \in Seq(Items) /\ Call[c].items # <<>>
    BY <1>1, ProgramFacts DEF GoodCall
  <2>2. PICK n \in Nat : n = Len(Call[c].items) /\ n # 0
    BY <2>1
  <2>. QED  BY <1>0, <2>2
<1>6. \A it : ~WasPut(it)
  BY <1>0 DEF WasPut
<1>7. PlaceInv
  BY <1>0, <1>2, <1>6 DEF PlaceInv
<1>8. RoomInv
  BY <1>0, <1>1, ProgramFacts DEF RoomInv
<1>9. BatchInv
  BY <1>0, <1>1, ProgramFacts DEF BatchInv, GoodCall
<1>. QED  BY <1>1, <1>3, <1>4, <1>5, <1>7, <1>8, <1>9 DEF QueueInv, LoopInv

\* A call that arrives, or whose sleep is over, runs after those that may run.
Enters(c) ==
  /\ status[c] \in {"new", "sleeping"}
  /\ status' = [status EXCEPT ![c] = "ready"]
  /\ ready' = Append(ready, c)
  /\ UNCHANGED <<program, queue, getters, putters, pos, taken, weight, outcome>>

LEMMA EntersKeeps ==
  ASSUME QueueInv, NEW c \in Calls, Enters(c)
  PROVE  QueueInv' /\ \A d \in Calls : Running(d) => Running(d)'
<1>0. /\ TypeOK /\ LoopInv /\ ready \in Seq(Calls) /\ IsInjective(ready)
      /\ \A x \in Calls : x \in ToSet(ready) <=> status[x] = "ready"
  BY DEF QueueInv, LoopInv, ReadyInv, TypeOK
<1>1. /\ status[c] \in {"new", "sleeping"} /\ status'[c] = "ready"
      /\ \A x \in Calls : x # c => status'[x] = status[x]
      /\ status' \in [Calls -> {"new", "ready", "waiting", "sleeping", "done"}]
  BY <1>0 DEF Enters, TypeOK
<1>2. c \notin ToSet(ready)
  BY <1>0, <1>1
<1>3. /\ Append(ready, c) \in Seq(Calls) /\ IsInjective(Append(ready, c))
      /\ ToSet(Append(ready, c)) = ToSet(ready) \cup {c}
  BY <1>0, <1>2, Appended
<1>4. UNCHANGED <<program, queue, getters, putters, pos, taken, weight, outcome>>
      /\ ready' = Append(ready, c) /\ Call' = Call /\ MaxSize' = MaxSize
  BY DEF Enters, Call, MaxSize
<1>5. TypeOK'
  BY <1>0, <1>1, <1>3, <1>4 DEF TypeOK
<1>6. ReadyInv'
  <2>1. ASSUME NEW x \in Calls PROVE x \in ToSet(ready') <=> status'[x] = "ready"
    BY <1>0, <1>1, <1>3, <1>4
  <2>. QED  BY <1>3, <1>4, <2>1 DEF ReadyInv
<1>7. \A x \in Calls, k \in Keys :
        (WaitsToGet(x, k)' <=> WaitsToGet(x, k)) /\ (WaitsToPut(x, k)' <=> WaitsToPut(x, k))
  <2> TAKE x \in Calls, k \in Keys
  <2>1. Key(x)' = Key(x) /\ Next1(x)' = Next1(x)
    BY <1>4 DEF Key, Next1
  <2>2. status'[x] = "waiting" <=> status[x] = "waiting"
    BY <1>1
  <2>. QED  BY <1>4, <2>1, <2>2 DEF WaitsToGet, WaitsToPut
<1>8. GettersInv' /\ PuttersInv'
  BY <1>0, <1>4, <1>7 DEF LoopInv, GettersInv, PuttersInv
<1>9. ProgressInv'
  BY <1>0, <1>1, <1>4 DEF LoopInv, ProgressInv
<1>10. PlaceInv' /\ RoomInv'
  BY <1>0, <1>4, StayKeeps DEF TypeOK
<1>11. BatchInv'
  BY <1>4 DEF QueueInv, BatchInv
<1>12. ASSUME NEW d \in Calls, Running(d) PROVE Running(d)'
  BY <1>0, <1>4, <1>12 DEF Running
<1>. QED  BY <1>5, <1>6, <1>8, <1>9, <1>10, <1>11, <1>12 DEF QueueInv, LoopInv

LEMMA MovesTypes ==
  ASSUME TypeOK, LoopInv, NEW c \in Calls, NEW st, NEW w, Moves(c, st, w)
  PROVE  /\ LoopInv'
         /\ program' \in Programs /\ Call' = Call /\ MaxSize' = MaxSize
         /\ getters' \in [Keys -> Seq(Calls)] /\ putters' \in [Keys -> Seq(Calls)]
         /\ ready' \in Seq(Calls) /\ pos' \in [Calls -> Nat]
         /\ status' \in [Calls -> {"new", "ready", "waiting", "sleeping", "done"}]
         /\ \A x \in Calls : x # c => pos'[x] = pos[x]
<1>1. LoopInv'
  BY MovesKeep
<1>. QED  BY <1>1 DEF Moves, Switched, GettersMove, PuttersMove, PosMoves, TypeOK, Call, MaxSize

LEMMA PutItemKeeps ==
  ASSUME QueueInv, NEW c \in Calls, PutItem(c)
  PROVE  QueueInv'
<1>0. TypeOK /\ LoopInv
  BY DEF QueueInv
<1>1. PICK st : Moves(c, st, Woken(getters[Next1(c).key]))
  BY <1>0, PutItemMoves
<1>2. outcome' \in [Calls -> {"none", "ok", "full", "empty"}]
  BY <1>0, PutItemMoves
<1>3. PlaceInv' /\ RoomInv' /\ queue' \in [Keys -> Seq(Items)]
  BY PutKeeps
<1>4. UNCHANGED <<program, taken, weight>>
  BY DEF PutItem
<1>5. TypeOK' /\ LoopInv'
  BY <1>0, <1>1, <1>2, <1>3, <1>4, MovesTypes DEF TypeOK
<1>6. BatchInv'
  BY <1>4 DEF QueueInv, BatchInv, Call
<1>. QED  BY <1>3, <1>5, <1>6 DEF QueueInv

\* Steps that leave the items where they are.
LEMMA OthersKeep ==
  ASSUME QueueInv, NEW c \in Calls, NEW st, NEW w, Moves(c, st, w),
         UNCHANGED <<program, queue, taken, weight>>,
         outcome' \in [Calls -> {"none", "ok", "full", "empty"}],
         Call[c].op = "put" => pos'[c] = pos[c]
  PROVE  QueueInv'
<1>0. TypeOK /\ LoopInv
  BY DEF QueueInv
<1>1. TypeOK' /\ LoopInv' /\ \A x \in Calls : x # c => pos'[x] = pos[x]
  BY <1>0, MovesTypes DEF TypeOK
<1>2. PlaceInv' /\ RoomInv'
  BY <1>1, StayKeeps DEF TypeOK
<1>3. BatchInv'
  BY DEF QueueInv, BatchInv, Call
<1>. QED  BY <1>1, <1>2, <1>3 DEF QueueInv

LEMMA ModType == \A n \in Nat \ {0}, a \in Nat : a % n \in Nat
OBVIOUS

LEMMA PollMoves ==
  ASSUME TypeOK, LoopInv, NEW c \in Calls, GetAnyMissed(c)
  PROVE  /\ \E st : Moves(c, st, <<>>)
         /\ outcome' \in [Calls -> {"none", "ok", "full", "empty"}]
<1>1. /\ Running(c) /\ Call[c].op = "any"
      /\ UNCHANGED <<program, queue, getters, putters, taken, weight>>
  BY DEF GetAnyMissed
<1>2. CASE Returns(c, "empty", <<>>) /\ UNCHANGED pos
  BY <1>1, <1>2, ReturnsMoves
<1>3. CASE /\ pos' = [pos EXCEPT ![c] = (@ + 1) % Len(Call[c].keys)]
           /\ Stops(c, "sleeping", <<>>) /\ UNCHANGED outcome
  <2>1. Call[c].keys \in Seq(Keys) /\ Call[c].keys # <<>>
    BY <1>1, ProgramFacts DEF GoodCall
  <2>2. PICK n \in Nat : n = Len(Call[c].keys) /\ n # 0
    BY <2>1
  <2>3. \A a \in Nat : a % n \in Nat
    BY <2>2, ModType
  <2>4. (pos[c] + 1) % n \in Nat
    <3>1. PICK a \in Nat : a = pos[c] + 1
      BY DEF TypeOK
    <3>. QED  BY <2>3, <3>1
  <2>5. pos' \in [Calls -> Nat] /\ \A x \in Calls : x # c => pos'[x] = pos[x]
    BY <1>3, <2>2, <2>4 DEF TypeOK
  <2>6. Moves(c, "sleeping", <<>>)
    BY <1>1, <1>3, <2>5, StopsMoves
  <2>. QED  BY <1>3, <2>6 DEF TypeOK
<1>. QED  BY <1>2, <1>3 DEF GetAnyMissed

\* Steps that take an item.
LEMMA TakerKeeps ==
  ASSUME QueueInv, NEW c \in Calls, Running(c), Call[c].op # "put",
         NEW k \in Keys, TakeFrom(c, k),
         \/ Returns(c, "ok", Woken(putters[k]))
         \/ GoesOn(Woken(putters[k])) /\ UNCHANGED outcome,
         weight' \in [Calls -> Nat], BatchInv'
  PROVE  QueueInv'
<1>0. TypeOK /\ LoopInv
  BY DEF QueueInv
<1> DEFINE w == Woken(putters[k])
<1>1. PICK st : Moves(c, st, w)
  BY <1>0, TakeMoves
<1>2. outcome' \in [Calls -> {"none", "ok", "full", "empty"}]
  BY <1>0, TakeMoves
<1>3. PlaceInv' /\ RoomInv' /\ queue' \in [Keys -> Seq(Items)] /\ taken' \in [Calls -> Seq(Items)]
  BY TakeKeeps
<1> HIDE DEF w
<1>4. TypeOK' /\ LoopInv'
  BY <1>0, <1>1, <1>2, <1>3, MovesTypes DEF TypeOK
<1>. QED  BY <1>3, <1>4 DEF QueueInv

LEMMA BatchTakeKeeps ==
  ASSUME QueueInv, NEW c \in Calls, BatchTake(c)
  PROVE  /\ QueueInv'
         /\ weight'[c] <= Call[c].target /\ weight'[c] \in Nat /\ Call[c].target \in Nat
         /\ status'[c] = "done" => weight'[c] >= Call[c].target
<1> DEFINE k == Key(c)
           w == Woken(putters[k])
           it == Head(queue[k])
<1>0. TypeOK /\ LoopInv
  BY DEF QueueInv
<1>1. /\ Running(c) /\ Call[c].op = "batch" /\ Fits(c) /\ TakeFrom(c, k)
      /\ weight' = [weight EXCEPT ![c] = @ + it.weight]
      /\ IF weight'[c] >= Call[c].target THEN Returns(c, "ok", w) ELSE GoesOn(w) /\ UNCHANGED outcome
  BY DEF BatchTake
<1>2. k \in Keys
  BY <1>0, <1>1, KeyType
<1>3. it \in Items
  BY <1>1, <1>2, TakeKeeps
<1>4. weight[c] \in Nat /\ it.weight \in Nat /\ weight[c] + it.weight <= Call[c].target
      /\ Call[c].target \in Nat
  BY <1>0, <1>1, <1>3, ProgramFacts DEF TypeOK, Items, Fits, GoodCall
<1> HIDE DEF it, w, k
<1>5. /\ weight' \in [Calls -> Nat] /\ weight'[c] = weight[c] + it.weight
      /\ \A x \in Calls : x # c => weight'[x] = weight[x]
  BY <1>0, <1>1, <1>4 DEF TypeOK
<1>6. BatchInv'
  <2>1. Call' = Call
    BY <1>1 DEF TakeFrom, Call
  <2>. QED  BY <1>4, <1>5, <2>1 DEF QueueInv, BatchInv
<1>7. QueueInv'
  BY <1>1, <1>2, <1>5, <1>6, TakerKeeps DEF w
<1>8. status'[c] = "done" => weight'[c] >= Call[c].target
  <2> SUFFICES ASSUME ~(weight'[c] >= Call[c].target) PROVE status'[c] # "done"
    OBVIOUS
  <2>1. GoesOn(w)
    BY <1>1
  <2>2. status[c] = "ready"
    BY <1>0, <1>1, RunningFacts DEF LoopInv
  <2>. QED  BY <2>1, <2>2 DEF GoesOn
<1>. QED  BY <1>4, <1>5, <1>7, <1>8

LEMMA GetItemKeeps ==
  ASSUME QueueInv, NEW c \in Calls, GetItem(c)
  PROVE  QueueInv'
<1>1. /\ Running(c) /\ Call[c].op = "get" /\ TakeFrom(c, Key(c))
      /\ Returns(c, "ok", Woken(putters[Key(c)])) /\ UNCHANGED weight
  BY DEF GetItem
<1>2. Key(c) \in Keys /\ weight' \in [Calls -> Nat]
  BY <1>1, KeyType DEF QueueInv, TypeOK
<1>3. BatchInv'
  BY <1>1 DEF QueueInv, BatchInv, TakeFrom, Call
<1>. QED  BY <1>1, <1>2, <1>3, TakerKeeps

LEMMA GetAnyKeeps ==
  ASSUME QueueInv, NEW c \in Calls, GetAny(c)
  PROVE  QueueInv'
<1>1. Running(c) /\ Call[c].op = "any"
  BY DEF GetAny
<1>2. PICK i \in 0 .. Len(Call[c].keys) - 1 :
        /\ TakeFrom(c, Polled(c, i))
        /\ Returns(c, "ok", Woken(putters[Polled(c, i)]))
        /\ UNCHANGED weight
  BY DEF GetAny
<1>3. i \in Nat
  OBVIOUS
<1>4. Polled(c, i) \in Keys /\ weight' \in [Calls -> Nat]
  BY <1>1, <1>2, <1>3, PolledType DEF QueueInv, TypeOK
<1>5. BatchInv'
  BY <1>2 DEF QueueInv, BatchInv, TakeFrom, Call
<1>. QED  BY <1>1, <1>2, <1>4, <1>5, TakerKeeps

LEMMA BatchStopKeeps ==
  ASSUME QueueInv, NEW c \in Calls, BatchStop(c)
  PROVE  QueueInv'
<1>1. /\ Running(c) /\ Call[c].op = "batch" /\ Returns(c, "ok", <<>>)
      /\ UNCHANGED <<program, queue, getters, putters, pos, taken, weight>>
  BY DEF BatchStop
<1>2. Moves(c, "done", <<>>) /\ outcome' \in [Calls -> {"none", "ok", "full", "empty"}]
  BY <1>1, ReturnsMoves DEF QueueInv
<1>. QED  BY <1>1, <1>2, OthersKeep

LEMMA BlockedKeeps ==
  ASSUME QueueInv, NEW c \in Calls, PutBlocked(c) \/ GetBlocked(c) \/ GetAnyMissed(c)
  PROVE  QueueInv'
<1>0. TypeOK /\ LoopInv
  BY DEF QueueInv
<1>1. PICK st : Moves(c, st, <<>>)
  BY <1>0, PutBlockedMoves, GetBlockedMoves, PollMoves
<1>2. outcome' \in [Calls -> {"none", "ok", "full", "empty"}]
  BY <1>0, PutBlockedMoves, GetBlockedMoves, PollMoves
<1>3. UNCHANGED <<program, queue, taken, weight>> /\ (Call[c].op = "put" => pos'[c] = pos[c])
  BY DEF PutBlocked, GetBlocked, GetAnyMissed
<1>. QED  BY <1>1, <1>2, <1>3, OthersKeep

LEMMA QueueNext == QueueInv /\ [Next]_vars => QueueInv'
<1> SUFFICES ASSUME QueueInv, [Next]_vars PROVE QueueInv'
  OBVIOUS
<1>1. ASSUME NEW c \in Calls, Arrive(c) \/ PollAgain(c) PROVE QueueInv'
  <2>1. Enters(c)
    BY <1>1 DEF Arrive, PollAgain, Enters
  <2>. QED  BY <2>1, EntersKeeps
<1>2. ASSUME NEW c \in Calls, RunCall(c) PROVE QueueInv'
  BY <1>2, PutItemKeeps, BlockedKeeps, GetItemKeeps, GetAnyKeeps, BatchTakeKeeps, BatchStopKeeps
     DEF RunCall
<1>3. CASE UNCHANGED vars
  <2>1. /\ UNCHANGED <<program, queue, getters, putters, ready, status, pos, taken, weight, outcome>>
        /\ Call' = Call /\ MaxSize' = MaxSize
    BY <1>3 DEF vars, Call, MaxSize
  <2>2. TypeOK' /\ PlaceInv' /\ RoomInv'
    BY <2>1, StayKeeps DEF QueueInv, TypeOK
  <2>3. LoopInv' /\ BatchInv'
    BY <2>1 DEF QueueInv, LoopInv, ReadyInv, GettersInv, PuttersInv, ProgressInv, BatchInv,
                WaitsToGet, WaitsToPut, Key, Next1
  <2>. QED  BY <2>2, <2>3 DEF QueueInv
<1>. QED  BY <1>1, <1>2, <1>3 DEF Next, Finished

\* QueueInv is an invariant of every execution.
LEMMA QueueInductive == Spec => []QueueInv
BY QueueInit, QueueNext, PTL DEF Spec

-----------------------------------------------------------------------------
(***************************************************************************)
(* The theorems.                                                           *)
(***************************************************************************)

\* Queues and waiters of channel_worker.py keep their types, for any keys,
\* calls and programs.
THEOREM TypeCorrect == Spec => []TypeOK
<1>1. QueueInv => TypeOK
  BY DEF QueueInv
<1>. QED  BY <1>1, QueueInductive, PTL

LEMMA InPlaces ==
  ASSUME NEW it, NEW p
  PROVE  p \in Places(it) <=>
           \/ \E k \in Keys : \E i \in DOMAIN queue[k] : queue[k][i] = it /\ p = <<"queue", k, i>>
           \/ \E c \in Calls : \E i \in DOMAIN taken[c] : taken[c][i] = it /\ p = <<"call", c, i>>
<1>1. p \in InQueues(it) <=> \E k \in Keys : p \in {"queue"} \X {k} \X At(queue[k], it)
  BY Zenon DEF InQueues
<1>4. p \in WithCalls(it) <=> \E c \in Calls : p \in {"call"} \X {c} \X At(taken[c], it)
  BY Zenon DEF WithCalls
<1>2. \A k : p \in {"queue"} \X {k} \X At(queue[k], it) <=>
              \E i \in DOMAIN queue[k] : queue[k][i] = it /\ p = <<"queue", k, i>>
  BY DEF At
<1>3. \A c : p \in {"call"} \X {c} \X At(taken[c], it) <=>
              \E i \in DOMAIN taken[c] : taken[c][i] = it /\ p = <<"call", c, i>>
  BY DEF At
<1>5. p \in Places(it) <=> p \in InQueues(it) \/ p \in WithCalls(it)
  BY DEF Places
<1>. QED  BY <1>1, <1>2, <1>3, <1>4, <1>5, Zenon

LEMMA OnePlace == QueueInv => ExactlyOnce
<1> SUFFICES ASSUME QueueInv PROVE ExactlyOnce
  OBVIOUS
<1>0. TypeOK /\ LoopInv /\ PlaceInv /\ RoomInv
  BY DEF QueueInv
<1>1. ASSUME NEW c \in Calls, Call[c].op = "put", NEW i \in DOMAIN Call[c].items
      PROVE  Cardinality(Places(Call[c].items[i])) = (IF i <= pos[c] THEN 1 ELSE 0)
  <2>1. Call[c].items \in Seq(Items)
    BY <1>0, ProgramFacts DEF GoodCall
  <2>2. PICK n \in Nat : n = Len(Call[c].items)
    BY <2>1
  <2>3. i \in 1 .. n /\ pos[c] \in Nat
    BY <1>0, <2>1, <2>2 DEF TypeOK
  <2>4. PICK it \in Items : it = Call[c].items[i]
    BY <2>1
  <2>5. CASE i <= pos[c]
    <3>1. WasPut(it)
      <4>1. i \in 1 .. pos[c]
        BY <2>3, <2>5
      <4>. QED  BY <1>1, <2>4, <4>1 DEF WasPut
    <3>2. CASE \E k \in Keys : it \in ToSet(queue[k])
      <4>1. PICK k \in Keys : it \in ToSet(queue[k])
        BY <3>2
      <4>2. PICK j \in DOMAIN queue[k] : queue[k][j] = it
        BY <4>1 DEF ToSet
      <4>3. \A l \in Keys : \A m \in DOMAIN queue[l] : queue[l][m] = it => l = k /\ m = j
        <5> SUFFICES ASSUME NEW l \in Keys, NEW m \in DOMAIN queue[l], queue[l][m] = it
                     PROVE  l = k /\ m = j
          OBVIOUS
        <5>1. l = k
          BY <1>0, <4>1 DEF PlaceInv, ToSet
        <5>2. m = j
          BY <1>0, <4>2, <5>1 DEF PlaceInv, IsInjective
        <5>. QED  BY <5>1, <5>2
      <4>4. \A d \in Calls : \A m \in DOMAIN taken[d] : taken[d][m] # it
        BY <1>0, <4>1 DEF PlaceInv, ToSet
      <4> DEFINE p == <<"queue", k, j>>
      <4>5. \A x : x \in Places(it) <=> x = p
        BY <4>2, <4>3, <4>4, InPlaces
      <4> HIDE DEF p
      <4>6. Places(it) = {p}
        BY <4>5
      <4>. QED  BY <2>4, <2>5, <4>6, FS_Singleton
    <3>3. CASE \E d \in Calls : it \in ToSet(taken[d])
      <4>1. PICK d \in Calls : it \in ToSet(taken[d])
        BY <3>3
      <4>2. PICK j \in DOMAIN taken[d] : taken[d][j] = it
        BY <4>1 DEF ToSet
      <4>3. \A e \in Calls : \A m \in DOMAIN taken[e] : taken[e][m] = it => e = d /\ m = j
        <5> SUFFICES ASSUME NEW e \in Calls, NEW m \in DOMAIN taken[e], taken[e][m] = it
                     PROVE  e = d /\ m = j
          OBVIOUS
        <5>1. e = d
          BY <1>0, <4>1 DEF PlaceInv, ToSet
        <5>2. m = j
          BY <1>0, <4>2, <5>1 DEF PlaceInv, IsInjective
        <5>. QED  BY <5>1, <5>2
      <4>4. \A k \in Keys : \A m \in DOMAIN queue[k] : queue[k][m] # it
        BY <1>0, <4>1 DEF PlaceInv, ToSet
      <4> DEFINE p == <<"call", d, j>>
      <4>5. \A x : x \in Places(it) <=> x = p
        BY <4>2, <4>3, <4>4, InPlaces
      <4> HIDE DEF p
      <4>6. Places(it) = {p}
        BY <4>5
      <4>. QED  BY <2>4, <2>5, <4>6, FS_Singleton
    <3>. QED  BY <1>0, <3>1, <3>2, <3>3 DEF PlaceInv
  <2>6. CASE ~(i <= pos[c])
    <3>1. ~WasPut(it)
      <4> SUFFICES ASSUME NEW d \in Calls, Call[d].op = "put", NEW j \in 1 .. pos[d],
                          Call[d].items[j] = it
                   PROVE  FALSE
        BY DEF WasPut
      <4>1. Call[d].items \in Seq(Items)
        BY <1>0, ProgramFacts DEF GoodCall
      <4>2. PICK m \in Nat : m = Len(Call[d].items)
        BY <4>1
      <4>3. pos[d] <= m /\ pos[d] \in Nat
        BY <1>0, <4>2 DEF LoopInv, ProgressInv, TypeOK
      <4>4. j \in 1 .. m
        BY <4>2, <4>3
      <4>5. j \in DOMAIN Call[d].items
        BY <4>1, <4>2, <4>4
      <4>6. d = c /\ j = i
        BY <1>0, <2>4, <4>5, ProgramFacts DEF ItemsDiffer
      <4>. QED  BY <2>3, <2>6, <4>6
    <3>2. /\ \A k \in Keys : it \notin ToSet(queue[k])
          /\ \A d \in Calls : it \notin ToSet(taken[d])
      BY <1>0, <3>1 DEF PlaceInv
    <3>3. \A x : x \notin Places(it)
      BY <3>2, InPlaces DEF ToSet
    <3>4. Places(it) = {}
      BY <3>3
    <3>. QED  BY <2>4, <2>6, <3>4, FS_EmptySet
  <2>. QED  BY <2>5, <2>6
<1>. QED  BY <1>0, <1>1 DEF ExactlyOnce, RoomInv

\* No put or get, whomever it wakes and whoever runs before those it woke,
\* loses an item, hands it out twice or puts it into a full queue.  For any
\* number of keys, calls and items, and every maxsize.
THEOREM ItemsExactlyOnce == Spec => []ExactlyOnce
BY OnePlace, QueueInductive, PTL

LEMMA AtomicNext ==
  ASSUME QueueInv, PutManyAtomic, [Next]_vars
  PROVE  PutManyAtomic'
<1>0. TypeOK /\ LoopInv
  BY DEF QueueInv
<1>1. MaxSize' = MaxSize /\ Call' = Call
  BY DEF Next, Arrive, PollAgain, RunCall, PutItem, PutBlocked, GetItem, GetBlocked, GetAny,
         GetAnyMissed, BatchTake, BatchStop, TakeFrom, Finished, vars, MaxSize, Call
<1> SUFFICES ASSUME MaxSize = 0, NEW c \in Calls, Call[c].op = "put"
             PROVE  Running(c)' \/ pos'[c] \in {0, Len(Call[c].items)}
  BY <1>1 DEF PutManyAtomic
<1>2. Running(c) \/ pos[c] \in {0, Len(Call[c].items)}
  BY DEF PutManyAtomic
<1>3. ASSUME NEW d \in Calls, Arrive(d) \/ PollAgain(d)
      PROVE  Running(c)' \/ pos'[c] \in {0, Len(Call[c].items)}
  <2>1. Enters(d)
    BY <1>3 DEF Arrive, PollAgain, Enters
  <2>2. pos' = pos /\ (Running(c) => Running(c)')
    BY <2>1, EntersKeeps DEF Enters
  <2>. QED  BY <1>2, <2>2
<1>4. ASSUME NEW d \in Calls, RunCall(d), d # c
      PROVE  pos'[c] \in {0, Len(Call[c].items)}
  <2>1. Running(d) /\ ~Running(c)
    BY <1>4 DEF RunCall, PutItem, PutBlocked, GetItem, GetBlocked, GetAny, GetAnyMissed,
                BatchTake, BatchStop, Running
  <2>2. pos'[c] = pos[c]
    <3>1. \/ pos' = pos \/ pos' = [pos EXCEPT ![d] = pos[d] + 1]
          \/ pos' = [pos EXCEPT ![d] = (pos[d] + 1) % Len(Call[d].keys)]
      BY <1>4 DEF RunCall, PutItem, PutBlocked, GetItem, GetBlocked, GetAny, GetAnyMissed,
                  BatchTake, BatchStop, TakeFrom
    <3>. QED  BY <1>0, <1>4, <3>1 DEF TypeOK
  <2>. QED  BY <1>2, <2>1, <2>2
<1>5. ASSUME RunCall(c)
      PROVE  Running(c)' \/ pos'[c] \in {0, Len(Call[c].items)}
  <2>1. ~PutBlocked(c)
    BY DEF PutBlocked, Full
  <2>2. PutItem(c)
    BY <1>5, <2>1 DEF RunCall, GetItem, GetBlocked, GetAny, GetAnyMissed, BatchTake, BatchStop
  <2>. QED  BY <1>0, <2>2, PutItemMoves
<1>6. CASE UNCHANGED vars
  BY <1>2, <1>6 DEF vars, Running
<1>. QED  BY <1>3, <1>4, <1>5, <1>6 DEF Next, Finished

\* In a channel without a maximum the coroutine of a put_many runs from its
\* first to its last item, so that nobody sees some of them without the rest.
THEOREM PutManyIsAtomic == Spec => []PutManyAtomic
<1>1. Init => PutManyAtomic
  BY DEF Init, PutManyAtomic
<1>2. QueueInv /\ PutManyAtomic /\ [Next]_vars => PutManyAtomic'
  BY AtomicNext
<1>. QED  BY <1>1, <1>2, QueueInductive, PTL DEF Spec

LEMMA RunCallMoves ==
  ASSUME TypeOK, LoopInv, NEW c \in Calls, RunCall(c)
  PROVE  \E st, w : Moves(c, st, w)
<1>1. CASE PutItem(c)
  BY <1>1, PutItemMoves
<1>2. CASE PutBlocked(c) \/ GetBlocked(c) \/ GetAnyMissed(c)
  BY <1>2, PutBlockedMoves, GetBlockedMoves, PollMoves
<1>3. CASE GetItem(c)
  <2>1. /\ Running(c) /\ Call[c].op # "put" /\ TakeFrom(c, Key(c))
        /\ Returns(c, "ok", Woken(putters[Key(c)]))
    BY <1>3 DEF GetItem
  <2>2. Key(c) \in Keys
    BY <2>1, KeyType
  <2>. QED  BY <2>1, <2>2, TakeMoves
<1>4. CASE GetAny(c)
  <2>1. Running(c) /\ Call[c].op # "put"
    BY <1>4 DEF GetAny
  <2>2. PICK i \in 0 .. Len(Call[c].keys) - 1 :
          TakeFrom(c, Polled(c, i)) /\ Returns(c, "ok", Woken(putters[Polled(c, i)]))
    BY <1>4 DEF GetAny
  <2>3. i \in Nat
    OBVIOUS
  <2>4. Polled(c, i) \in Keys
    BY <2>1, <2>3, PolledType
  <2>. QED  BY <2>1, <2>2, <2>4, TakeMoves
<1>5. CASE BatchTake(c)
  <2>1. /\ Running(c) /\ Call[c].op # "put" /\ TakeFrom(c, Key(c))
        /\ \/ Returns(c, "ok", Woken(putters[Key(c)]))
           \/ GoesOn(Woken(putters[Key(c)])) /\ UNCHANGED outcome
    BY <1>5 DEF BatchTake
  <2>2. Key(c) \in Keys
    BY <2>1, KeyType
  <2>. QED  BY <2>1, <2>2, TakeMoves
<1>6. CASE BatchStop(c)
  BY <1>6, ReturnsMoves DEF BatchStop
<1>. QED  BY <1>1, <1>2, <1>3, <1>4, <1>5, <1>6 DEF RunCall

LEMMA BatchStep ==
  ASSUME QueueInv, [Next]_vars, NEW c \in Calls, Call[c].op = "batch",
         status[c] # "done", status'[c] = "done"
  PROVE  /\ weight'[c] <= Call[c].target
         /\ \/ weight'[c] = Call[c].target
            \/ /\ queue'[Key(c)] # <<>>
               /\ weight'[c] + Head(queue'[Key(c)]).weight > Call[c].target
<1>0. TypeOK /\ LoopInv
  BY DEF QueueInv
<1>1. ASSUME NEW d \in Calls, Arrive(d) \/ PollAgain(d) PROVE FALSE
  <2>1. status' = [status EXCEPT ![d] = "ready"]
    BY <1>1 DEF Arrive, PollAgain
  <2>. QED  BY <1>0, <2>1 DEF TypeOK
<1>2. ASSUME NEW d \in Calls, RunCall(d), d # c PROVE FALSE
  <2>1. PICK st, w : Moves(d, st, w)
    BY <1>0, <1>2, RunCallMoves
  <2>. QED  BY <1>2, <2>1 DEF Moves, Switched
<1>3. ASSUME RunCall(c)
      PROVE  /\ weight'[c] <= Call[c].target
             /\ \/ weight'[c] = Call[c].target
                \/ /\ queue'[Key(c)] # <<>>
                   /\ weight'[c] + Head(queue'[Key(c)]).weight > Call[c].target
  <2>1. ~GetBlocked(c)
    <3> SUFFICES ASSUME GetBlocked(c) PROVE FALSE
      OBVIOUS
    <3>1. Call[c].patience = "forever"
      BY <1>0, ProgramFacts DEF GoodCall
    <3>2. Stops(c, "waiting", <<>>)
      BY <3>1 DEF GetBlocked
    <3>. QED  BY <3>2 DEF Stops
  <2>2. BatchTake(c) \/ BatchStop(c)
    BY <1>3, <2>1 DEF RunCall, PutItem, PutBlocked, GetItem, GetAny, GetAnyMissed
  <2>3. CASE BatchTake(c)
    BY <2>3, BatchTakeKeeps
  <2>4. CASE BatchStop(c)
    <3>1. ~Fits(c) /\ queue[Key(c)] # <<>> /\ UNCHANGED <<queue, weight>>
      BY <2>4 DEF BatchStop
    <3>2. Key(c) \in Keys
      BY <1>0, KeyType
    <3>3. queue[Key(c)] \in Seq(Items) /\ weight[c] \in Nat /\ Call[c].target \in Nat
      BY <1>0, <3>2, ProgramFacts DEF TypeOK, GoodCall
    <3>4. Head(queue[Key(c)]).weight \in Nat
      <4>1. \A s \in Seq(Items) : s # <<>> => Head(s) \in Items
        OBVIOUS
      <4>2. Head(queue[Key(c)]) \in Items
        BY <3>1, <3>3, <4>1
      <4>. QED  BY <4>2 DEF Items
    <3>5. weight[c] <= Call[c].target
      BY DEF QueueInv, BatchInv
    <3>. QED  BY <3>1, <3>3, <3>4, <3>5 DEF Fits
  <2>. QED  BY <2>2, <2>3, <2>4
<1>4. CASE UNCHANGED vars
  BY <1>4 DEF vars
<1>. QED  BY <1>1, <1>2, <1>3, <1>4 DEF Next, Finished

\* Whatever other calls take from the queue while a get_batch waits with a part
\* of its batch, it returns the largest that the queue allows.
THEOREM BatchesAreMaximal == Spec => BatchIsMaximal
<1>1. QueueInv /\ [Next]_vars =>
        [\A c \in Calls : Call[c].op = "batch" /\ status[c] # "done" /\ status'[c] = "done" =>
           /\ weight'[c] <= Call[c].target
           /\ \/ weight'[c] = Call[c].target
              \/ /\ queue'[Key(c)] # <<>>
                 /\ weight'[c] + Head(queue'[Key(c)]).weight > Call[c].target]_vars
  BY BatchStep
<1>. QED  BY <1>1, QueueInductive, PTL DEF Spec, BatchIsMaximal

-----------------------------------------------------------------------------
(***************************************************************************)
(* Then DynamicScheduler: whatever is under way between its parties, its   *)
(* account is true and, where the actor waits, no GPU has two users.       *)
(*                                                                         *)
(* SchedInv: PreInv, AskedInv and ActorInv say where the scheduler and the *)
(* actor stand with respect to each other, WorldInv and LedgerInv what the *)
(* scheduler's numbers mean for what the parties hold, OffloadInv that the *)
(* instances it has counted, and no others, have answered that they have   *)
(* offloaded.  A step of an instance is Seen by the rest as at most a      *)
(* response more, which is said to be Offloaded only by one that then has. *)
(***************************************************************************)

-----------------------------------------------------------------------------
(***************************************************************************)
(* The sum of a function over a finite set, by the recursion of            *)
(* MapThenSumSet, which takes one member after the other.                  *)
(***************************************************************************)
AnyOf(T) == CHOOSE x \in T : TRUE
\* g has the sums of f over the sets of C.
SumsOf(g, f, C) == g = [T \in C |-> IF T = {} THEN 0 ELSE f[AnyOf(T)] + g[T \ {AnyOf(T)}]]

\* There is such a function for sets of up to n members, for the next n too.
LEMMA SumsExist ==
  ASSUME NEW S, IsFiniteSet(S), NEW f \in [S -> Int]
  PROVE  \E g : SumsOf(g, f, SUBSET S)
<1> DEFINE C(n) == {T \in SUBSET S : Cardinality(T) <= n}
           Fails == {n \in 0 .. Cardinality(S) : ~\E g : SumsOf(g, f, C(n))}
<1>1. Cardinality(S) \in Nat /\ \A T \in SUBSET S : IsFiniteSet(T) /\ Cardinality(T) \in Nat /\ Cardinality(T) <= Cardinality(S)
  BY FS_CardinalityType, FS_Subset
<1>2. Fails = {}
  <2> SUFFICES ASSUME Fails # {} PROVE FALSE
    OBVIOUS
  <2>1. PICK m \in Fails : \A n \in Fails : m <= n
    <3>1. Fails \in SUBSET Nat /\ IsFiniteSet(Fails)
      <4>1. Fails \subseteq 0 .. Cardinality(S)
        OBVIOUS
      <4>2. IsFiniteSet(0 .. Cardinality(S))
        BY <1>1, FS_Interval
      <4>3. 0 .. Cardinality(S) \subseteq Nat
        OBVIOUS
      <4>. QED  BY <4>1, <4>2, <4>3, FS_Subset, Zenon
    <3>. QED  BY <3>1, MinInSet
  <2>2. m # 0
    <3>0. SUFFICES ASSUME m = 0 PROVE FALSE
      OBVIOUS
    <3>1. \A T \in C(0) : T = {}
      BY <1>1, FS_EmptySet
    <3>2. PICK g : g = [T \in C(0) |-> 0]
      OBVIOUS
    <3>3. ASSUME NEW T \in C(0)
          PROVE  0 = IF T = {} THEN 0 ELSE f[AnyOf(T)] + g[T \ {AnyOf(T)}]
      BY <3>1, Zenon
    <3>4. SumsOf(g, f, C(0))
      BY <3>2, <3>3, Zenon DEF SumsOf
    <3>5. ~\E q : SumsOf(q, f, C(0))
      BY <2>1, <3>0
    <3>. QED  BY <3>4, <3>5, Zenon
  <2>3. PICK k \in Nat : m = k + 1 /\ k \in 0 .. Cardinality(S)
    BY <1>1, <2>1, <2>2, m - 1 \in Nat, m = (m - 1) + 1
  <2>4. PICK g : SumsOf(g, f, C(k))
    <3>1. k \notin Fails
      BY <2>1, <2>3
    <3>. QED  BY <2>3, <3>1
  <2>5. PICK h : h = [T \in C(m) |-> IF T = {} THEN 0 ELSE f[AnyOf(T)] + g[T \ {AnyOf(T)}]]
    OBVIOUS
  <2>6. ASSUME NEW T \in C(m), T # {}
        PROVE  h[T \ {AnyOf(T)}] = g[T \ {AnyOf(T)}]
    <3>1. PICK x \in T : x = AnyOf(T)
      BY <2>6 DEF AnyOf
    <3>2. PICK n \in Nat : Cardinality(T \ {x}) = n /\ Cardinality(T) = n + 1
      BY <1>1, OneLess
    <3>3. PICK U : U = T \ {x}
      OBVIOUS
    <3>4. U \in C(k) /\ U \in C(m)
      BY <2>3, <3>2, <3>3
    <3>5. h[U] = IF U = {} THEN 0 ELSE f[AnyOf(U)] + g[U \ {AnyOf(U)}]
      BY <2>5, <3>4, Zenon
    <3>6. g[U] = IF U = {} THEN 0 ELSE f[AnyOf(U)] + g[U \ {AnyOf(U)}]
      BY <2>4, <3>4, Zenon DEF SumsOf
    <3>. QED  BY <3>1, <3>3, <3>5, <3>6, Zenon
  <2>7. SumsOf(h, f, C(m))
    <3>1. ASSUME NEW T \in C(m)
          PROVE  (IF T = {} THEN 0 ELSE f[AnyOf(T)] + g[T \ {AnyOf(T)}])
                   = IF T = {} THEN 0 ELSE f[AnyOf(T)] + h[T \ {AnyOf(T)}]
      BY <2>6, Zenon
    <3>. QED  BY <2>5, <3>1, Zenon DEF SumsOf
  <2>8. ~\E q : SumsOf(q, f, C(m))
    BY <2>1
  <2>. QED  BY <2>7, <2>8, Zenon
<1>3. C(Cardinality(S)) = SUBSET S
  BY <1>1
<1>4. PICK g : SumsOf(g, f, C(Cardinality(S)))
  <2>1. Cardinality(S) \in 0 .. Cardinality(S)
    BY <1>1
  <2>. QED  BY <1>2, <2>1, Zenon
<1>. QED  BY <1>3, <1>4, Zenon

LEMMA SumsAreInts ==
  ASSUME NEW S, IsFiniteSet(S), NEW f \in [S -> Int], NEW g, SumsOf(g, f, SUBSET S)
  PROVE  g[S] \in Int
<1> DEFINE W == {T \in SUBSET S : g[T] \notin Int}
<1>1. IsWellFoundedOn(StrictSubsetOrdering(S), FiniteSubsetsOf(S))
  BY FS_StrictSubsetOrderingWellFounded
<1>2. W \subseteq FiniteSubsetsOf(S)
  BY FS_Subset DEF FiniteSubsetsOf
<1>3. W = {}
  <2> SUFFICES ASSUME W # {} PROVE FALSE
    OBVIOUS
  <2>1. PICK T \in W : \A U \in W : ~(<<U, T>> \in StrictSubsetOrdering(S))
    BY <1>1, <1>2, WFMin
  <2>2. T \in SUBSET S /\ g[T] \notin Int
    BY <2>1
  <2>3. g[T] = IF T = {} THEN 0 ELSE f[AnyOf(T)] + g[T \ {AnyOf(T)}]
    BY <2>2, Zenon DEF SumsOf
  <2>4. T # {}
    BY <2>2, <2>3
  <2>5. PICK x \in T : x = AnyOf(T)
    BY <2>4 DEF AnyOf
  <2>6. T \ {x} \in SUBSET S /\ T \ {x} \subseteq T /\ T \ {x} # T
    BY <2>2
  <2>7. g[T \ {x}] \in Int
    BY <2>1, <2>2, <2>6 DEF StrictSubsetOrdering
  <2>8. f[x] \in Int
    BY <2>2, <2>5
  <2>9. g[T] = f[x] + g[T \ {x}]
    BY <2>3, <2>4, <2>5, Zenon
  <2>. QED  BY <2>2, <2>7, <2>8, <2>9
<1>. QED  BY <1>3

-----------------------------------------------------------------------------
(***************************************************************************)
(* What the configuration and the scheduler's decisions are.               *)
(***************************************************************************)
LEMMA CfgFacts ==
  ASSUME WellFormed(cfg)
  PROVE  /\ cfg.instances \in Nat \ {0} /\ cfg.mp \in Nat \ {0} /\ cfg.actor \in Nat \ {0} /\ cfg.amp \in Nat \ {0}
         /\ cfg.infer \in Nat /\ cfg.iters \in Nat \ {0} /\ cfg.maxRunning \in Nat \ {0}
         /\ cfg.groups \in Nat \ {0} /\ cfg.size \in Nat \ {0}
         /\ cfg.pre \in BOOLEAN /\ cfg.wait \in BOOLEAN
         /\ cfg.actor \in ValidDpSizes(cfg)
BY DEF WellFormed, Config

LEMMA GpuCounts ==
  ASSUME WellFormed(cfg)
  PROVE  /\ ActorGpus(cfg) \in Nat /\ ActorGpus(cfg) = cfg.actor * cfg.amp
         /\ RolloutBase(cfg) \in Nat /\ cfg.instances * cfg.mp \in Nat /\ TotalGpus(cfg) \in Nat
         /\ TotalGpus(cfg) = RolloutBase(cfg) + cfg.instances * cfg.mp + cfg.infer
         /\ RolloutBase(cfg) = IF cfg.pre THEN 0 ELSE ActorGpus(cfg)
<1>1. PICK a \in Nat, b \in Nat, c \in Nat, d \in Nat, e \in Nat :
        a = cfg.actor /\ b = cfg.amp /\ c = cfg.instances /\ d = cfg.mp /\ e = cfg.infer
  BY CfgFacts
<1>2. a * b \in Nat /\ c * d \in Nat
  OBVIOUS
<1>. QED  BY <1>1, <1>2 DEF ActorGpus, RolloutBase, TotalGpus

\* pre_process gives up whole instances, not all.
LEMMA PreGpus ==
  ASSUME WellFormed(cfg), cfg.pre
  PROVE  PreInstances \in Nat /\ PreInstances * cfg.mp = ActorGpus(cfg) /\ PreInstances < cfg.instances
<1>1. ActorGpus(cfg) % cfg.mp = 0 /\ ActorGpus(cfg) \div cfg.mp < cfg.instances
  BY DEF WellFormed
<1>2. PICK a \in Nat, m \in Nat \ {0} : a = ActorGpus(cfg) /\ m = cfg.mp
  BY CfgFacts, GpuCounts
<1>3. a \div m \in Nat /\ a = (a \div m) * m
  BY <1>1, <1>2, Divides
<1>. QED  BY <1>1, <1>2, <1>3 DEF PreInstances

LEMMA SizesAre ==
  ASSUME WellFormed(cfg)
  PROVE  \E n \in Nat : ValidDpSizes(cfg) \in SUBSET (1 .. n)
<1>1. PICK t \in Nat, b \in Nat \ {0} : t = TotalGpus(cfg) /\ b = cfg.amp
  BY CfgFacts, GpuCounts
<1>2. PICK n \in Nat : n = t \div b
  BY DivisionParts
<1>3. ValidDpSizes(cfg) \subseteq 1 .. n
  BY <1>1, <1>2 DEF ValidDpSizes
<1>. QED  BY <1>3

\* The actor grows to a valid size that the GPUs reach.
LEMMA UsableIs ==
  ASSUME WellFormed(cfg), actorCur \in ValidDpSizes(cfg), NEW gpus \in Nat
  PROVE  \E d \in ValidDpSizes(cfg) :
           /\ d \in Nat /\ actorCur \in Nat /\ d >= actorCur
           /\ Usable(gpus) = (d - actorCur) * cfg.amp /\ (d - actorCur) * cfg.amp <= gpus
<1> DEFINE reach == {d \in ValidDpSizes(cfg) : d >= actorCur /\ (d - actorCur) * cfg.amp <= gpus}
<1>1. PICK n \in Nat : ValidDpSizes(cfg) \in SUBSET (1 .. n)
  BY SizesAre
<1>2. PICK a \in Nat, b \in Nat : a = actorCur /\ b = cfg.amp
  BY <1>1, CfgFacts
<1>3. reach \in SUBSET (1 .. n)
  BY <1>1
<1>4. actorCur \in reach
  <2>1. (a - a) * b = 0
    OBVIOUS
  <2>. QED  BY <1>2, <2>1
<1>5. Max(reach) \in reach
  BY <1>1, <1>3, <1>4, MaxInSet
<1>6. Usable(gpus) = (Max(reach) - actorCur) * cfg.amp
  BY DEF Usable
<1>7. PICK d : d = Max(reach)
  OBVIOUS
<1>8. d \in ValidDpSizes(cfg) /\ d >= actorCur /\ (d - actorCur) * cfg.amp <= gpus
  BY <1>5, <1>7
<1>9. d \in Nat
  BY <1>1, <1>8
<1>10. Usable(gpus) = (d - actorCur) * cfg.amp
  BY <1>6, <1>7, Zenon
<1> HIDE DEF reach
<1>. QED  BY <1>2, <1>8, <1>9, <1>10, Zenon

LEMMA RunningSum ==
  ASSUME WellFormed(cfg), offset \in 0 .. cfg.instances, reports \in [Instances -> [total : Nat, running : Int]]
  PROVE  TotalRunning \in Int
<1> DEFINE S == Alive
           f == [i \in Alive |-> reports[i].running]
           Eq(g) == g = [T \in SUBSET S |-> IF T = {} THEN 0 ELSE reports[AnyOf(T)].running + g[T \ {AnyOf(T)}]]
           s == CHOOSE g : Eq(g)
<1>1. S \subseteq Instances /\ IsFiniteSet(S)
  <2>1. PICK n \in Int, o \in Int : n = cfg.instances /\ o = offset /\ o >= 0
    BY CfgFacts
  <2>2. IsFiniteSet((o + 1) .. n)
    BY FS_Interval
  <2>. QED  BY <2>1, <2>2 DEF Alive, Instances
<1>2. f \in [S -> Int]
  BY <1>1
<1>3. ASSUME NEW g PROVE Eq(g) <=> SumsOf(g, f, SUBSET S)
  <2>1. ASSUME NEW T \in SUBSET S, T # {} PROVE reports[AnyOf(T)].running = f[AnyOf(T)]
    <3>1. AnyOf(T) \in S
      BY <2>1 DEF AnyOf
    <3>. QED  BY <3>1
  <2>2. ASSUME NEW T \in SUBSET S
        PROVE  (IF T = {} THEN 0 ELSE reports[AnyOf(T)].running + g[T \ {AnyOf(T)}])
                 = IF T = {} THEN 0 ELSE f[AnyOf(T)] + g[T \ {AnyOf(T)}]
    BY <2>1, Zenon
  <2>. HIDE DEF f
  <2>3. [T \in SUBSET S |-> IF T = {} THEN 0 ELSE reports[AnyOf(T)].running + g[T \ {AnyOf(T)}]]
          = [T \in SUBSET S |-> IF T = {} THEN 0 ELSE f[AnyOf(T)] + g[T \ {AnyOf(T)}]]
    BY <2>2, Zenon
  <2>. QED  BY <2>3, Zenon DEF SumsOf
<1>4. TotalRunning = s[S]
  BY Zenon DEF TotalRunning, MapThenSumSet, MapThenFoldSet, AnyOf
<1>5. \E g : Eq(g)
  BY <1>1, <1>2, <1>3, SumsExist, Zenon
<1>6. Eq(s)
  BY <1>5, Zenon
<1> HIDE DEF s, f
<1>7. s[S] \in Int
  BY <1>1, <1>2, <1>3, <1>6, SumsAreInts, Zenon
<1>. QED  BY <1>4, <1>7

\* A report counts whole numbers of sequences.
LEMMA ReportType ==
  ASSUME WellFormed(cfg), left \in [Groups -> Int], NEW i \in Instances
  PROVE  Report(i) \in [total : Nat, running : Int]
<1> DEFINE S == {g \in Groups : at[g] = i /\ state[g] = "running"}
           f == [g \in S |-> left[g]]
           Eq(h) == h = [T \in SUBSET S |-> IF T = {} THEN 0 ELSE left[AnyOf(T)] + h[T \ {AnyOf(T)}]]
           s == CHOOSE h : Eq(h)
<1>0. IsFiniteSet(Groups)
  <2>1. PICK n \in Int : n = cfg.groups
    BY CfgFacts
  <2>2. IsFiniteSet(1 .. n)
    BY FS_Interval
  <2>. QED  BY <2>1, <2>2 DEF Groups
<1>1. S \subseteq Groups /\ IsFiniteSet(S)
  BY <1>0, FS_Subset
<1>2. f \in [S -> Int]
  BY <1>1
<1>3. ASSUME NEW h PROVE Eq(h) <=> SumsOf(h, f, SUBSET S)
  <2>1. ASSUME NEW T \in SUBSET S, T # {} PROVE left[AnyOf(T)] = f[AnyOf(T)]
    <3>1. AnyOf(T) \in S
      BY <2>1 DEF AnyOf
    <3>. QED  BY <3>1
  <2>. HIDE DEF f, S
  <2>2. ASSUME NEW T \in SUBSET S
        PROVE  (IF T = {} THEN 0 ELSE left[AnyOf(T)] + h[T \ {AnyOf(T)}])
                 = IF T = {} THEN 0 ELSE f[AnyOf(T)] + h[T \ {AnyOf(T)}]
    BY <2>1, Zenon
  <2>3. [T \in SUBSET S |-> IF T = {} THEN 0 ELSE left[AnyOf(T)] + h[T \ {AnyOf(T)}]]
          = [T \in SUBSET S |-> IF T = {} THEN 0 ELSE f[AnyOf(T)] + h[T \ {AnyOf(T)}]]
    BY <2>2, Zenon
  <2>. QED  BY <2>3, Zenon DEF SumsOf
<1>4. SeqRunning(i) = s[S]
  BY Zenon DEF SeqRunning, MapThenSumSet, MapThenFoldSet, AnyOf
<1>5. \E h : Eq(h)
  BY <1>1, <1>2, <1>3, SumsExist, Zenon
<1>6. Eq(s)
  BY <1>5, Zenon
<1> HIDE DEF s, f, S
<1>7. s[S] \in Int
  BY <1>1, <1>2, <1>3, <1>6, SumsAreInts, Zenon
<1>8. Cardinality(Counted(i)) * cfg.size \in Nat
  <2>1. Counted(i) \subseteq Groups
    BY DEF Counted
  <2>2. PICK n \in Nat, m \in Nat : n = Cardinality(Counted(i)) /\ m = cfg.size
    BY <1>0, <2>1, FS_Subset, FS_CardinalityType, CfgFacts
  <2>. QED  BY <2>2
<1>. QED  BY <1>4, <1>7, <1>8 DEF Report

LEMMA MigrateNat ==
  ASSUME WellFormed(cfg), offset \in 0 .. cfg.instances, actorCur \in ValidDpSizes(cfg),
         reports \in [Instances -> [total : Nat, running : Int]]
  PROVE  MigratePolicy \in Nat
<1>1. PICK c \in Nat, m \in Nat \ {0}, r \in Nat \ {0}, b \in Nat, u \in Int :
        /\ c = RolloutCur /\ m = cfg.mp /\ r = cfg.maxRunning /\ b = cfg.amp /\ u = TotalRunning
  <2>1. RolloutCur \in Nat
    BY CfgFacts DEF RolloutCur
  <2>2. TotalRunning \in Int
    BY RunningSum
  <2>. QED  BY <2>1, <2>2, CfgFacts
<1>2. PICK k \in Int : k = c - Ceil(u, r)
  <2>1. PICK w \in Int : w = u + r - 1
    OBVIOUS
  <2>2. w \div r \in Int
    OBVIOUS
  <2>3. PICK e \in Int : e = Ceil(u, r)
    BY <2>1, <2>2 DEF Ceil
  <2>. QED  BY <2>3
<1>3. PICK most \in Nat : most = Max({0, k})
  <2>1. CASE k <= 0
    BY <2>1 DEF Max
  <2>2. CASE ~(k <= 0)
    BY <2>2 DEF Max
  <2>. QED  BY <2>1, <2>2
<1>4. most * m \in Nat
  OBVIOUS
<1>5. PICK v \in Nat : v = Usable(most * m)
  <2>1. PICK d \in ValidDpSizes(cfg) :
          d \in Nat /\ actorCur \in Nat /\ d >= actorCur /\ Usable(most * m) = (d - actorCur) * cfg.amp
    BY <1>4, UsableIs
  <2>2. PICK e \in Nat : e = d - actorCur
    BY <2>1
  <2>3. e * b \in Nat
    OBVIOUS
  <2>. QED  BY <1>1, <2>1, <2>2, <2>3
<1>6. Ceil(v, m) \in Nat
  <2>1. PICK z \in Nat : z = v + m - 1
    OBVIOUS
  <2>2. z \div m \in Nat
    BY DivisionParts
  <2>. QED  BY <2>1, <2>2 DEF Ceil
<1>. QED  BY <1>1, <1>2, <1>3, <1>5, <1>6, Zenon DEF MigratePolicy

-----------------------------------------------------------------------------
(***************************************************************************)
(* The inductive invariant.                                                *)
(***************************************************************************)
Counts == [total : Nat, running : Int]
Resp == [act : {"Report", "Data", "Offloaded"}, report : Counts, data : Seq(Groups)]

InstanceTypes ==
  /\ left \in [Groups -> Int]
  /\ rolloutPc \in [Instances -> {"idle", "loop", "wait", "offload", "done"}]
  /\ aborted \in [Instances -> Seq(Groups)]
  /\ responses \in [Instances -> Seq(Resp)]

SchedulerTypes ==
  /\ pc \in {"start", "report", "reports", "migrate", "handover", "finish", "finishing", "prepare",
             "await", "inference", "allocate", "over"}
  /\ iter \in -1 .. cfg.iters - 1
  /\ reports \in [Instances -> Counts]
  /\ offset \in 0 .. cfg.instances
  /\ inferCur \in {0, cfg.infer} /\ actorCur \in ValidDpSizes(cfg) /\ available \in Nat

ActorTypes ==
  /\ trained \in Nat /\ updates \in Nat /\ world \in Nat /\ scale \in Seq(Nat)
  /\ inferPc \in {"run", "offload", "offloaded"} /\ (cfg.infer = 0 => inferPc = "offloaded")

TypeInv == WellFormed(cfg) /\ InstanceTypes /\ SchedulerTypes /\ ActorTypes

\* An instance that has offloaded says so once, and waits to be counted.
OffloadInv ==
  /\ pc # "start" => \A i \in 1 .. offset : rolloutPc[i] = "done"
  /\ \A i \in Instances : \A k \in DOMAIN responses[i] :
       responses[i][k].act = "Offloaded" =>
         /\ rolloutPc[i] = "done" /\ (pc # "start" => i > offset)
         /\ \A l \in DOMAIN responses[i] : responses[i][l].act = "Offloaded" => l = k

\* pre_process of rollout gives up the instances on the actor's GPUs.
PreInv ==
  /\ pc = "prepare" => iter = -1 /\ offset * cfg.mp = IF cfg.pre THEN ActorGpus(cfg) ELSE 0
  /\ iter = -1 /\ pc # "start" =>
       /\ pc \in {"report", "reports", "migrate", "handover", "finishing", "prepare"}
       /\ pc # "prepare" => cfg.pre /\ offset = 0
       /\ pc \in {"handover", "finishing"} => asked = 1 .. PreInstances

\* Whom the scheduler asks, and when rollout is over: with the last training
\* step, or before it if the actor waits for that.
Sooner == iter < cfg.iters - 1 /\ (iter >= 0 /\ cfg.wait => iter # cfg.iters - 2)
AskedInv ==
  /\ pc \in {"report", "reports", "migrate", "handover"} /\ iter >= 0 => iter < cfg.iters - 1
  /\ pc \in {"migrate", "handover"} => Sooner
  /\ pc \in {"handover", "finishing"} =>
       \E n \in 0 .. RolloutCur : asked = (offset + 1) .. (offset + n) /\ (n = RolloutCur \/ Sooner)
  /\ pc \in {"inference", "allocate", "over"} => iter >= 0 /\ (offset = cfg.instances \/ Sooner)
  /\ pc = "over" => iter = cfg.iters - 1
  /\ pc \in {"finish", "await"} => iter >= 0
  /\ pc \in {"allocate", "over"} /\ iter = cfg.iters - 1 => inferPc = "offloaded"

\* The handshake of actor and scheduler: one of them is at work, but before the
\* first training step, while rollout and inference are prepared.
Early == pc = "start" \/ iter = -1
Busy == pc \in {"report", "reports", "migrate", "handover", "finish", "finishing", "inference", "allocate"} /\ iter >= 0
Aside == pc \in {"start", "prepare"} /\ ~cfg.pre
ActorInv ==
  \/ /\ actorPc = "pre" /\ cfg.pre /\ trained = 0 /\ updates = 0
     /\ (Early /\ scale = <<>>) \/ (pc = "await" /\ iter = 0 /\ scale = <<0>>)
  \/ /\ actorPc = "train" /\ updates = 0 /\ scale = <<>>
     /\ (pc = "await" /\ iter = trained) \/ (Aside /\ trained = 0)
  \/ /\ actorPc = "sync" /\ updates = 1 /\ scale = <<>>
     /\ (pc = "await" /\ iter + 1 = trained) \/ (Aside /\ trained = 1)
  \/ actorPc = "sync" /\ updates = 0 /\ scale = <<>> /\ Busy /\ iter + 1 = trained
  \/ /\ actorPc = "sync" /\ updates = 0 /\ Len(scale) = 1
     /\ (pc = "await" /\ iter = trained) \/ (pc = "over" /\ trained = cfg.iters)
  \/ actorPc = "done" /\ updates = 0 /\ scale = <<>> /\ pc = "over" /\ trained = cfg.iters

\* The size the scheduler believes in is the actor's, or on its way.
Told == IF scale # <<>> /\ Head(scale) # 0 THEN Head(scale) ELSE world
InLoop == pc \notin {"start", "prepare"} /\ iter >= 0
WorldInv ==
  /\ Told = actorCur * cfg.amp
  /\ Early \/ pc = "over" => actorCur = cfg.actor
  /\ pc # "over" => world <= actorCur * cfg.amp
  /\ InLoop => world <= TotalGpus(cfg) - RolloutCur * cfg.mp - inferCur

LedgerInv ==
  /\ InLoop /\ (pc \in {"inference", "allocate", "over"} => iter < cfg.iters - 1) =>
       RolloutCur * cfg.mp + inferCur + actorCur * cfg.amp + available = TotalGpus(cfg)
  /\ InLoop /\ inferCur = 0 =>
       inferPc = "offloaded" /\ (cfg.wait => cfg.infer = 0 \/ offset = cfg.instances)

SchedInv == TypeInv /\ OffloadInv /\ PreInv /\ AskedInv /\ ActorInv /\ WorldInv /\ LedgerInv

-----------------------------------------------------------------------------
(***************************************************************************)
(* A step of an instance, as the other parties see it.                     *)
(***************************************************************************)
othersStay == <<cfg, schedVars, inferPc, actorVars, scale, updates>>
Quietly(i)  == responses' = responses /\ (rolloutPc'[i] = "done" <=> rolloutPc[i] = "done")
Says(i, r)  == responses' = [responses EXCEPT ![i] = Append(@, r)]
Seen(i) ==
  /\ UNCHANGED othersStay
  /\ InstanceTypes'
  /\ \A j \in Instances \ {i} : rolloutPc'[j] = rolloutPc[j]
  /\ \/ Quietly(i)
     \/ \E r \in Resp : Says(i, r) /\ r.act # "Offloaded" /\ rolloutPc' = rolloutPc
     \/ \E r \in Resp : Says(i, r) /\ r.act = "Offloaded" /\ rolloutPc[i] = "offload" /\ rolloutPc'[i] = "done"

\* Sets over the configuration stay.
LEMMA SameSets ==
  ASSUME cfg' = cfg
  PROVE  Instances' = Instances /\ Groups' = Groups /\ Resp' = Resp
BY DEF Instances, Groups, Resp

\* The types of an instance that keeps its place, or moves on, and says nothing.
LEMMA QuietTypes ==
  ASSUME InstanceTypes, cfg' = cfg, responses' = responses, left' \in [Groups -> Int],
         rolloutPc' \in [Instances -> {"idle", "loop", "wait", "offload", "done"}],
         aborted' \in [Instances -> Seq(Groups)]
  PROVE  InstanceTypes'
BY SameSets DEF InstanceTypes

LEMMA StartRolloutSeen ==
  ASSUME TypeInv, NEW i \in Instances, StartRollout(i)
  PROVE  Seen(i)
<1>1. rolloutPc \in [Instances -> {"idle", "loop", "wait", "offload", "done"}]
  BY DEF TypeInv, InstanceTypes
<1>2. /\ cfg' = cfg /\ responses' = responses /\ left' = left /\ aborted' = aborted
      /\ rolloutPc' = [rolloutPc EXCEPT ![i] = "loop"] /\ rolloutPc[i] = "idle" /\ UNCHANGED othersStay
  BY DEF StartRollout, othersStay, inferVars, actorVars
<1>3. rolloutPc' \in [Instances -> {"idle", "loop", "wait", "offload", "done"}] /\ Quietly(i)
  BY <1>1, <1>2 DEF Quietly
<1>4. InstanceTypes'
  BY <1>2, <1>3, QuietTypes DEF TypeInv, InstanceTypes
<1>. QED  BY <1>1, <1>2, <1>3, <1>4 DEF Seen

LEMMA NotifiedSeen ==
  ASSUME TypeInv, NEW i \in Instances, Notified(i)
  PROVE  Seen(i)
<1>1. /\ rolloutPc \in [Instances -> {"idle", "loop", "wait", "offload", "done"}]
      /\ aborted \in [Instances -> Seq(Groups)]
  BY DEF TypeInv, InstanceTypes
<1>2. /\ cfg' = cfg /\ responses' = responses /\ left' = left /\ rolloutPc[i] = "wait" /\ UNCHANGED othersStay
  BY DEF Notified, othersStay, inferVars, actorVars
<1>3. PICK p \in {"loop", "offload"} : rolloutPc' = [rolloutPc EXCEPT ![i] = p]
  BY DEF Notified
<1>4. aborted' = aborted \/ aborted' = [aborted EXCEPT ![i] = <<>>]
  BY DEF Notified
<1>5. rolloutPc' \in [Instances -> {"idle", "loop", "wait", "offload", "done"}] /\ Quietly(i)
  BY <1>1, <1>2, <1>3 DEF Quietly
<1>6. aborted' \in [Instances -> Seq(Groups)]
  <2>1. PICK q \in Seq(Groups) : q = <<>>
    <3>1. <<>> \in Seq(Groups)
      OBVIOUS
    <3>. QED  BY <3>1, Zenon
  <2>. QED  BY <1>1, <1>4, <2>1
<1>7. InstanceTypes'
  BY <1>2, <1>5, <1>6, QuietTypes DEF TypeInv, InstanceTypes
<1>. QED  BY <1>1, <1>2, <1>3, <1>5, <1>7 DEF Seen

LEMMA LoopSeen ==
  ASSUME TypeInv, NEW i \in Instances, NEW g \in Groups, Deliver(i, g) \/ MarkDone(i, g) \/ MarkAborted(i, g)
  PROVE  Seen(i)
<1>1. /\ rolloutPc \in [Instances -> {"idle", "loop", "wait", "offload", "done"}]
      /\ aborted \in [Instances -> Seq(Groups)]
  BY DEF TypeInv, InstanceTypes
<1>2. /\ cfg' = cfg /\ responses' = responses /\ left' = left /\ rolloutPc[i] = "loop" /\ UNCHANGED othersStay
  BY DEF Deliver, MarkDone, MarkAborted, othersStay, inferVars, actorVars, instVars
<1>3. PICK p \in {"loop", "wait"} : rolloutPc' = [rolloutPc EXCEPT ![i] = p]
  <2>1. LoopOrWait(i, g) \in {"loop", "wait"}
    BY DEF LoopOrWait
  <2>2. rolloutPc' = rolloutPc \/ rolloutPc' = [rolloutPc EXCEPT ![i] = LoopOrWait(i, g)]
    BY DEF Deliver, MarkDone, MarkAborted, instVars
  <2>3. rolloutPc = [rolloutPc EXCEPT ![i] = "loop"]
    BY <1>1, <1>2
  <2>. QED  BY <2>1, <2>2, <2>3
<1>4. aborted' = aborted \/ aborted' = [aborted EXCEPT ![i] = Append(@, g)]
  BY DEF Deliver, MarkDone, MarkAborted
<1>5. rolloutPc' \in [Instances -> {"idle", "loop", "wait", "offload", "done"}] /\ Quietly(i)
  BY <1>1, <1>2, <1>3 DEF Quietly
<1>6. aborted' \in [Instances -> Seq(Groups)]
  <2>1. PICK q \in Seq(Groups) : q = Append(aborted[i], g)
    <3>1. Append(aborted[i], g) \in Seq(Groups)
      BY <1>1
    <3>. QED  BY <3>1, Zenon
  <2>2. aborted' = aborted \/ aborted' = [aborted EXCEPT ![i] = q]
    BY <1>4, <2>1, Zenon
  <2>. QED  BY <1>1, <2>2
<1>7. InstanceTypes'
  BY <1>2, <1>5, <1>6, QuietTypes DEF TypeInv, InstanceTypes
<1>. QED  BY <1>1, <1>2, <1>3, <1>5, <1>7 DEF Seen

\* What an instance says is a response.
LEMMA SaysTypes ==
  ASSUME TypeInv, NEW i \in Instances, NEW r \in Resp, Says(i, r), cfg' = cfg, left' = left, aborted' = aborted,
         rolloutPc' \in [Instances -> {"idle", "loop", "wait", "offload", "done"}]
  PROVE  InstanceTypes'
<1>1. responses \in [Instances -> Seq(Resp)]
  BY DEF TypeInv, InstanceTypes
<1>2. responses' \in [Instances -> Seq(Resp)]
  BY <1>1 DEF Says
<1>. QED  BY <1>2, SameSets DEF TypeInv, InstanceTypes

LEMMA ResponseType ==
  ASSUME NEW a \in {"Report", "Data", "Offloaded"}, NEW r \in Counts, NEW d \in Seq(Groups)
  PROVE  Response(a, r, d) \in Resp /\ Response(a, r, d).act = a
BY DEF Response, Resp

LEMMA NoReportType == NoReport \in Counts /\ <<>> \in Seq(Groups)
BY DEF NoReport, Counts

LEMMA OffloadSeen ==
  ASSUME TypeInv, NEW i \in Instances, Offload(i)
  PROVE  Seen(i)
<1>1. rolloutPc \in [Instances -> {"idle", "loop", "wait", "offload", "done"}]
  BY DEF TypeInv, InstanceTypes
<1>2. /\ cfg' = cfg /\ left' = left /\ aborted' = aborted /\ rolloutPc[i] = "offload" /\ UNCHANGED othersStay
      /\ rolloutPc' = [rolloutPc EXCEPT ![i] = "done"]
  BY DEF Offload, othersStay, inferVars, actorVars, groupVars
<1>3. PICK r \in Resp : r = Response("Offloaded", NoReport, <<>>) /\ r.act = "Offloaded"
  BY ResponseType, NoReportType
<1>4. Says(i, r)
  BY <1>3 DEF Offload, Says
<1>5. rolloutPc' \in [Instances -> {"idle", "loop", "wait", "offload", "done"}]
  BY <1>1, <1>2
<1>6. InstanceTypes'
  BY <1>2, <1>4, <1>5, SaysTypes
<1>. QED  BY <1>1, <1>2, <1>3, <1>4, <1>6 DEF Seen

LEMMA ServeSeen ==
  ASSUME TypeInv, NEW i \in Instances, Serve(i)
  PROVE  Seen(i)
<1>1. /\ cfg' = cfg /\ left' = left /\ aborted' = aborted /\ rolloutPc' = rolloutPc /\ UNCHANGED othersStay
  BY DEF Serve, othersStay, inferVars, actorVars
<1>2. rolloutPc' \in [Instances -> {"idle", "loop", "wait", "offload", "done"}]
  BY <1>1 DEF TypeInv, InstanceTypes
<1>3. CASE responses' = responses
  <2>1. InstanceTypes'
    BY <1>1, <1>2, <1>3, QuietTypes DEF TypeInv, InstanceTypes
  <2>. QED  BY <1>1, <1>3, <2>1 DEF Seen, Quietly
<1>4. CASE Says(i, Response("Report", Report(i), <<>>))
  <2>1. Report(i) \in Counts
    BY ReportType DEF TypeInv, InstanceTypes, Counts
  <2>2. PICK r \in Resp : r = Response("Report", Report(i), <<>>) /\ r.act = "Report"
    BY <2>1, ResponseType, NoReportType
  <2>3. InstanceTypes'
    BY <1>1, <1>2, <1>4, <2>2, SaysTypes
  <2>. QED  BY <1>1, <1>4, <2>2, <2>3 DEF Seen
<1>. QED  BY <1>3, <1>4 DEF Serve, Says

LEMMA HandOverSeen ==
  ASSUME TypeInv, NEW i \in Instances, HandOver(i)
  PROVE  Seen(i)
<1>1. /\ cfg' = cfg /\ left' = left /\ aborted' = aborted /\ rolloutPc' = rolloutPc /\ UNCHANGED othersStay
  BY DEF HandOver, othersStay, inferVars, actorVars
<1>2. rolloutPc' \in [Instances -> {"idle", "loop", "wait", "offload", "done"}]
  BY <1>1 DEF TypeInv, InstanceTypes
<1>3. PICK r \in Resp : r = Response("Data", NoReport, aborted[i]) /\ r.act = "Data"
  <2>1. aborted[i] \in Seq(Groups)
    BY DEF TypeInv, InstanceTypes
  <2>. QED  BY <2>1, ResponseType, NoReportType
<1>4. Says(i, r)
  BY <1>3 DEF HandOver, Says
<1>5. InstanceTypes'
  BY <1>1, <1>2, <1>4, SaysTypes
<1>. QED  BY <1>1, <1>3, <1>4, <1>5 DEF Seen

LEMMA NotifyFinishSeen ==
  ASSUME TypeInv, NEW i \in Instances, NotifyFinish(i)
  PROVE  Seen(i)
<1>1. /\ cfg' = cfg /\ left' = left /\ aborted' = aborted /\ rolloutPc' = rolloutPc /\ responses' = responses
      /\ UNCHANGED othersStay
  BY DEF NotifyFinish, othersStay, inferVars, actorVars, groupVars
<1>2. InstanceTypes'
  BY <1>1, QuietTypes DEF TypeInv, InstanceTypes
<1>. QED  BY <1>1, <1>2 DEF Seen, Quietly

LEMMA FinishSequenceSeen ==
  ASSUME TypeInv, NEW g \in Groups, FinishSequence(g), NEW i \in Instances
  PROVE  Seen(i)
<1>1. /\ cfg' = cfg /\ left' = [left EXCEPT ![g] = @ - 1] /\ aborted' = aborted /\ rolloutPc' = rolloutPc
      /\ responses' = responses /\ UNCHANGED othersStay
  BY DEF FinishSequence, othersStay, inferVars, actorVars, instVars
<1>2. left \in [Groups -> Int]
  BY DEF TypeInv, InstanceTypes
<1>3. left' \in [Groups -> Int]
  BY <1>1, <1>2
<1>4. InstanceTypes'
  BY <1>1, <1>3, QuietTypes DEF TypeInv, InstanceTypes
<1>. QED  BY <1>1, <1>4 DEF Seen, Quietly

LEMMA InstanceSeen ==
  ASSUME TypeInv, (\E i \in Instances : Rollout(i) \/ Serving(i)) \/ \E g \in Groups : FinishSequence(g)
  PROVE  \E i \in Instances : Seen(i)
<1>1. 1 \in Instances
  BY CfgFacts DEF TypeInv, Instances
<1>2. ASSUME NEW i \in Instances, Rollout(i) PROVE Seen(i)
  BY <1>2, StartRolloutSeen, NotifiedSeen, OffloadSeen, LoopSeen DEF Rollout
<1>3. ASSUME NEW i \in Instances, Serving(i) PROVE Seen(i)
  BY <1>3, ServeSeen, HandOverSeen, NotifyFinishSeen DEF Serving
<1>. QED  BY <1>1, <1>2, <1>3, FinishSequenceSeen

-----------------------------------------------------------------------------
(***************************************************************************)
(* A step of an instance keeps the invariant.                              *)
(***************************************************************************)
LEMMA SeenOffloads ==
  ASSUME SchedInv, NEW i \in Instances, Seen(i)
  PROVE  OffloadInv'
<1>1. /\ cfg' = cfg /\ pc' = pc /\ offset' = offset /\ Instances' = Instances
      /\ \A j \in Instances \ {i} : rolloutPc'[j] = rolloutPc[j]
  BY SameSets DEF Seen, othersStay, schedVars
<1>2. responses \in [Instances -> Seq(Resp)] /\ offset \in 0 .. cfg.instances
  BY DEF SchedInv, TypeInv, InstanceTypes, SchedulerTypes
<1>3. 1 .. offset \subseteq Instances
  BY <1>2, CfgFacts DEF SchedInv, TypeInv, Instances
<1>4. \A j \in Instances : rolloutPc[j] = "done" => rolloutPc'[j] = "done"
  BY <1>1 DEF Seen, Quietly
<1>5. pc # "start" => \A j \in 1 .. offset : rolloutPc'[j] = "done"
  BY <1>3, <1>4 DEF SchedInv, OffloadInv
<1>6. ASSUME NEW j \in Instances, responses'[j] = responses[j], NEW k \in DOMAIN responses'[j],
             responses'[j][k].act = "Offloaded"
      PROVE  /\ rolloutPc'[j] = "done" /\ (pc' # "start" => j > offset')
             /\ \A l \in DOMAIN responses'[j] : responses'[j][l].act = "Offloaded" => l = k
  <2>1. /\ rolloutPc[j] = "done" /\ (pc # "start" => j > offset)
        /\ \A l \in DOMAIN responses[j] : responses[j][l].act = "Offloaded" => l = k
    BY <1>6 DEF SchedInv, OffloadInv
  <2>. QED  BY <1>1, <1>4, <1>6, <2>1
<1>7. CASE Quietly(i)
  <2>1. responses' = responses
    BY <1>7 DEF Quietly
  <2>. QED  BY <1>1, <1>5, <1>6, <2>1 DEF OffloadInv
<1>8. ASSUME NEW r \in Resp, Says(i, r),
             \/ r.act # "Offloaded" /\ rolloutPc' = rolloutPc
             \/ r.act = "Offloaded" /\ rolloutPc[i] = "offload" /\ rolloutPc'[i] = "done"
      PROVE  OffloadInv'
  <2>1. PICK n \in Nat : n = Len(responses[i]) /\ DOMAIN responses[i] = 1 .. n
    BY <1>2
  <2>2. /\ \A j \in Instances \ {i} : responses'[j] = responses[j]
        /\ DOMAIN responses'[i] = 1 .. n + 1 /\ responses'[i][n + 1] = r
        /\ \A k \in 1 .. n : responses'[i][k] = responses[i][k]
    <3>1. /\ \A j \in Instances \ {i} : responses'[j] = responses[j]
          /\ responses'[i] = Append(responses[i], r)
      BY <1>2, <1>8, Zenon DEF Says
    <3>2. responses[i] \in Seq(Resp)
      BY <1>2
    <3>3. /\ DOMAIN Append(responses[i], r) = 1 .. n + 1 /\ Append(responses[i], r)[n + 1] = r
          /\ \A k \in 1 .. n : Append(responses[i], r)[k] = responses[i][k]
      BY <2>1, <3>2
    <3>. QED  BY <3>1, <3>3, Zenon
  <2>3. ASSUME NEW k \in DOMAIN responses'[i], responses'[i][k].act = "Offloaded"
        PROVE  /\ rolloutPc'[i] = "done" /\ (pc' # "start" => i > offset')
               /\ \A l \in DOMAIN responses'[i] : responses'[i][l].act = "Offloaded" => l = k
    <3>1. CASE r.act # "Offloaded"
      <4>1. k \in 1 .. n /\ responses[i][k].act = "Offloaded"
        BY <2>1, <2>2, <2>3, <3>1
      <4>2. /\ rolloutPc[i] = "done" /\ (pc # "start" => i > offset)
            /\ \A l \in DOMAIN responses[i] : responses[i][l].act = "Offloaded" => l = k
        BY <2>1, <4>1 DEF SchedInv, OffloadInv
      <4>3. \A l \in DOMAIN responses'[i] : responses'[i][l].act = "Offloaded" => l = k
        BY <2>1, <2>2, <3>1, <4>2
      <4>. QED  BY <1>1, <1>4, <4>2, <4>3
    <3>2. CASE r.act = "Offloaded"
      <4>1. rolloutPc[i] = "offload" /\ rolloutPc'[i] = "done"
        BY <1>8, <3>2
      <4>2. \A l \in 1 .. n : responses[i][l].act # "Offloaded"
        BY <2>1, <4>1 DEF SchedInv, OffloadInv
      <4>3. ASSUME NEW l \in DOMAIN responses'[i], responses'[i][l].act = "Offloaded" PROVE l = n + 1
        <5>1. l \in 1 .. n + 1
          BY <2>2
        <5>2. l \notin 1 .. n
          BY <2>2, <4>2, <4>3
        <5>. QED  BY <5>1, <5>2
      <4>4. pc # "start" => i > offset
        <5>1. i \in Nat /\ i >= 1 /\ offset \in Nat
          BY <1>2, CfgFacts DEF Instances, SchedInv, TypeInv
        <5>. QED  BY <4>1, <5>1 DEF SchedInv, OffloadInv
      <4>. QED  BY <1>1, <2>3, <4>1, <4>3, <4>4
    <3>. QED  BY <3>1, <3>2
  <2>. QED  BY <1>1, <1>5, <1>6, <2>2, <2>3 DEF OffloadInv
<1>. QED  BY <1>7, <1>8 DEF Seen

\* The invariant of the scheduler and the actor, which no instance touches.
ControlInv == WellFormed(cfg) /\ SchedulerTypes /\ ActorTypes /\ PreInv /\ AskedInv /\ ActorInv /\ WorldInv /\ LedgerInv

LEMMA ControlStays ==
  ASSUME ControlInv, UNCHANGED othersStay
  PROVE  ControlInv'
<1>1. /\ cfg' = cfg /\ pc' = pc /\ iter' = iter /\ asked' = asked /\ reports' = reports /\ offset' = offset
      /\ inferCur' = inferCur /\ actorCur' = actorCur /\ available' = available /\ inferPc' = inferPc
      /\ actorPc' = actorPc /\ trained' = trained /\ world' = world /\ scale' = scale /\ updates' = updates
  BY DEF othersStay, schedVars, actorVars
<1>2. (WellFormed(cfg) /\ SchedulerTypes /\ ActorTypes)'
  BY <1>1 DEF ControlInv, SchedulerTypes, ActorTypes, Instances
<1>3. PreInv'
  BY <1>1 DEF ControlInv, PreInv, PreInstances, ActorGpus
<1>4. AskedInv'
  BY <1>1 DEF ControlInv, AskedInv, Sooner, RolloutCur
<1>5. ActorInv'
  BY <1>1 DEF ControlInv, ActorInv, Early, Busy, Aside
<1>6. WorldInv' /\ LedgerInv'
  BY <1>1 DEF ControlInv, WorldInv, LedgerInv, Told, Early, InLoop, RolloutCur, TotalGpus, RolloutBase, ActorGpus
<1>. QED  BY <1>2, <1>3, <1>4, <1>5, <1>6 DEF ControlInv

LEMMA InvParts == SchedInv <=> InstanceTypes /\ OffloadInv /\ ControlInv
BY DEF SchedInv, TypeInv, ControlInv
LEMMA InvPartsNext == (SchedInv <=> InstanceTypes /\ OffloadInv /\ ControlInv)'
BY DEF SchedInv, TypeInv, ControlInv

LEMMA SeenInv ==
  ASSUME SchedInv, NEW i \in Instances, Seen(i)
  PROVE  SchedInv'
<1>1. ControlInv'
  BY InvParts, ControlStays DEF Seen
<1>2. InstanceTypes'
  BY DEF Seen
<1>. QED  BY <1>1, <1>2, SeenOffloads, InvPartsNext

-----------------------------------------------------------------------------
(***************************************************************************)
(* A step of the scheduler: responses it takes.                            *)
(***************************************************************************)
LEMMA OthersStay ==
  ASSUME UNCHANGED others
  PROVE  /\ cfg' = cfg /\ rolloutPc' = rolloutPc /\ left' = left /\ aborted' = aborted /\ inferPc' = inferPc
         /\ actorPc' = actorPc /\ trained' = trained /\ world' = world /\ Instances' = Instances
BY SameSets DEF others, instVars, groupVars, inferVars, actorVars

\* What is left of the responses that offloaded instances gave.
Rest(kind) ==
  \A i \in Instances : \A k \in DOMAIN responses'[i] :
    responses'[i][k].act = "Offloaded" =>
      /\ rolloutPc[i] = "done" /\ (pc # "start" => i > offset)
      /\ \A l \in DOMAIN responses'[i] : responses'[i][l].act = "Offloaded" => l = k
      /\ kind = "Offloaded" => i \notin asked

LEMMA Taking ==
  ASSUME SchedInv, UNCHANGED others, NEW kind, Answered(kind), TakeResponses
  PROVE  InstanceTypes' /\ Rest(kind)
<1>1. responses \in [Instances -> Seq(Resp)]
  BY DEF SchedInv, TypeInv, InstanceTypes
<1>2. responses' = [i \in Instances |-> IF i \in asked THEN Tail(responses[i]) ELSE responses[i]]
  BY DEF TakeResponses
<1>3. ASSUME NEW i \in Instances, i \in asked
      PROVE  /\ responses[i] # <<>> /\ Head(responses[i]).act = kind /\ Tail(responses[i]) \in Seq(Resp)
             /\ 1 \in DOMAIN responses[i] /\ responses[i][1].act = kind
             /\ \A k \in DOMAIN Tail(responses[i]) :
                  k + 1 \in DOMAIN responses[i] /\ k + 1 # 1 /\ Tail(responses[i])[k] = responses[i][k + 1]
  <2>1. responses[i] \in Seq(Resp) /\ responses[i] # <<>> /\ Head(responses[i]).act = kind
    BY <1>1, <1>3 DEF Answered
  <2>. QED  BY <2>1
<1>4. responses' \in [Instances -> Seq(Resp)]
  BY <1>1, <1>2, <1>3
<1>5. InstanceTypes'
  BY <1>4, OthersStay, SameSets DEF SchedInv, TypeInv, InstanceTypes
<1>6. ASSUME NEW i \in Instances, NEW k \in DOMAIN responses'[i], responses'[i][k].act = "Offloaded"
      PROVE  /\ rolloutPc[i] = "done" /\ (pc # "start" => i > offset)
             /\ \A l \in DOMAIN responses'[i] : responses'[i][l].act = "Offloaded" => l = k
             /\ kind = "Offloaded" => i \notin asked
  <2>1. \A m \in DOMAIN responses[i] : responses[i][m].act = "Offloaded" =>
          /\ rolloutPc[i] = "done" /\ (pc # "start" => i > offset)
          /\ \A l \in DOMAIN responses[i] : responses[i][l].act = "Offloaded" => l = m
    BY DEF SchedInv, OffloadInv
  <2>2. CASE i \notin asked
    <3>1. responses'[i] = responses[i]
      BY <1>2, <2>2
    <3>. QED  BY <1>6, <2>1, <2>2, <3>1
  <2>3. CASE i \in asked
    <3>1. responses'[i] = Tail(responses[i])
      BY <1>2, <2>3
    <3>2. \A l \in DOMAIN responses'[i] :
            l \in Nat /\ l + 1 \in DOMAIN responses[i] /\ l + 1 # 1 /\ responses'[i][l] = responses[i][l + 1]
      <4>1. DOMAIN responses'[i] \subseteq Nat
        BY <1>4
      <4>. QED  BY <1>3, <2>3, <3>1, <4>1
    <3>3. k + 1 \in DOMAIN responses[i] /\ responses[i][k + 1].act = "Offloaded" /\ k + 1 # 1
      BY <1>6, <3>2
    <3>4. rolloutPc[i] = "done" /\ (pc # "start" => i > offset)
      BY <2>1, <3>3
    <3>5. \A l \in DOMAIN responses'[i] : responses'[i][l].act = "Offloaded" => l = k
      <4>1. \A l \in DOMAIN responses'[i] : responses'[i][l].act = "Offloaded" => l + 1 = k + 1
        BY <2>1, <3>2, <3>3
      <4>. QED  BY <3>2, <4>1
    <3>6. kind # "Offloaded"
      BY <1>3, <2>1, <2>3, <3>3
    <3>. QED  BY <3>4, <3>5, <3>6
  <2>. QED  BY <2>2, <2>3
<1>. QED  BY <1>5, <1>6 DEF Rest

\* Nothing is counted, and responses at most taken.
LEMMA OffloadsStay ==
  ASSUME SchedInv, UNCHANGED others, offset' = offset, pc # "start",
         responses' = responses \/ \E kind : Answered(kind) /\ TakeResponses
  PROVE  InstanceTypes' /\ OffloadInv'
<1>1. pc # "start" => \A i \in 1 .. offset : rolloutPc[i] = "done"
  BY DEF SchedInv, OffloadInv
<1>2. CASE responses' = responses
  <2>1. InstanceTypes'
    BY <1>2, OthersStay, SameSets DEF SchedInv, TypeInv, InstanceTypes
  <2>. QED  BY <1>1, <1>2, <2>1, OthersStay DEF SchedInv, OffloadInv
<1>3. ASSUME NEW kind, Answered(kind), TakeResponses PROVE InstanceTypes' /\ OffloadInv'
  <2>1. InstanceTypes' /\ Rest(kind)
    BY <1>3, Taking
  <2>. QED  BY <1>1, <2>1, OthersStay DEF Rest, OffloadInv
<1>. QED  BY <1>2, <1>3

-----------------------------------------------------------------------------
(***************************************************************************)
(* A step of the scheduler that only asks or decides.                      *)
(***************************************************************************)
\* No number moves.
LEMMA NumbersStay ==
  ASSUME ControlInv, UNCHANGED <<others, iter, ledger, scale>>, pc \notin {"start", "prepare", "over"},
         pc' \notin {"start", "prepare", "over"}, pc \notin {"inference", "allocate"} \/ pc' \in {"inference", "allocate"}
  PROVE  WorldInv' /\ LedgerInv'
<1>1. /\ iter' = iter /\ offset' = offset /\ inferCur' = inferCur /\ actorCur' = actorCur /\ available' = available
      /\ scale' = scale /\ cfg' = cfg /\ world' = world /\ inferPc' = inferPc
  BY OthersStay DEF ledger
<1>2. /\ TotalGpus(cfg)' = TotalGpus(cfg) /\ RolloutCur' = RolloutCur /\ Told' = Told
      /\ (InLoop' <=> iter >= 0) /\ (InLoop <=> iter >= 0) /\ (Early' <=> Early)
  BY <1>1 DEF TotalGpus, RolloutBase, ActorGpus, RolloutCur, Told, InLoop, Early
<1>. QED  BY <1>1, <1>2 DEF ControlInv, WorldInv, LedgerInv

LEMMA BusyStep ==
  ASSUME ControlInv, UNCHANGED <<others, iter, ledger, scale, updates>>,
         pc \in {"report", "reports", "migrate", "handover", "finish"},
         pc' \in {"report", "reports", "migrate", "handover", "finish", "finishing", "inference"},
         reports' \in [Instances -> Counts], PreInv', AskedInv'
  PROVE  ControlInv'
<1>1. /\ iter' = iter /\ offset' = offset /\ inferCur' = inferCur /\ actorCur' = actorCur /\ available' = available
      /\ scale' = scale /\ updates' = updates /\ cfg' = cfg /\ world' = world /\ inferPc' = inferPc
      /\ actorPc' = actorPc /\ trained' = trained /\ Instances' = Instances
  BY OthersStay DEF ledger
<1>2. (WellFormed(cfg) /\ SchedulerTypes /\ ActorTypes)'
  BY <1>1 DEF ControlInv, SchedulerTypes, ActorTypes
<1>3. WorldInv' /\ LedgerInv'
  BY NumbersStay
<1>4. ActorInv'
  BY <1>1 DEF ControlInv, ActorInv, Early, Busy, Aside
<1>. QED  BY <1>2, <1>3, <1>4 DEF ControlInv

LEMMA AskReportsInv ==
  ASSUME SchedInv, AskReports
  PROVE  SchedInv'
<1>0. ControlInv
  BY InvParts
<1>1. /\ UNCHANGED <<others, iter, ledger, scale, updates>> /\ responses' = responses /\ reports' = reports
      /\ pc = "report" /\ pc' = "reports" /\ iter' = iter /\ offset' = offset /\ cfg' = cfg
  BY OthersStay DEF AskReports, ledger
<1>2. PreInv'
  BY <1>0, <1>1 DEF ControlInv, PreInv
<1>3. AskedInv'
  BY <1>0, <1>1 DEF ControlInv, AskedInv
<1>4. reports' \in [Instances -> Counts]
  BY <1>0, <1>1 DEF ControlInv, SchedulerTypes
<1>5. ControlInv'
  BY <1>0, <1>1, <1>2, <1>3, <1>4, BusyStep
<1>. QED  BY <1>1, <1>5, OffloadsStay, InvPartsNext

LEMMA TakeReportsInv ==
  ASSUME SchedInv, TakeReports
  PROVE  SchedInv'
<1>0. ControlInv
  BY InvParts
<1>1. /\ UNCHANGED <<others, iter, ledger, scale, updates>> /\ Answered("Report") /\ TakeResponses
      /\ pc = "reports" /\ iter' = iter /\ offset' = offset /\ cfg' = cfg
  BY OthersStay DEF TakeReports, ledger
<1>2. /\ pc' \in {"migrate", "report", "finish", "inference"}
      /\ iter = -1 => pc' \in {"migrate", "report"}
      /\ iter # -1 => pc' \in {"finish", "inference", "migrate"}
      /\ iter # -1 /\ pc' \in {"inference", "migrate"} => ~(cfg.wait /\ iter = cfg.iters - 2)
  BY DEF TakeReports, Decision
<1>3. /\ iter \in -1 .. cfg.iters - 1 /\ cfg.iters \in Nat \ {0} /\ reports \in [Instances -> Counts]
      /\ responses \in [Instances -> Seq(Resp)]
  BY <1>0, CfgFacts DEF ControlInv, SchedulerTypes, SchedInv, TypeInv, InstanceTypes
<1>4. PreInv'
  BY <1>0, <1>1, <1>2 DEF ControlInv, PreInv
<1>5. AskedInv'
  BY <1>0, <1>1, <1>2, <1>3 DEF ControlInv, AskedInv, Sooner
<1>6. reports' \in [Instances -> Counts]
  <2>1. ASSUME NEW i \in Instances, i \in asked PROVE Head(responses[i]).report \in Counts
    <3>1. responses[i] \in Seq(Resp) /\ responses[i] # <<>>
      BY <1>1, <1>3, <2>1 DEF Answered
    <3>2. Head(responses[i]) \in Resp
      BY <3>1
    <3>. QED  BY <3>2 DEF Resp
  <2>2. reports' = [i \in Instances |-> IF i \in asked THEN Head(responses[i]).report ELSE reports[i]]
    BY DEF TakeReports
  <2>. QED  BY <1>3, <2>1, <2>2
<1>7. ControlInv'
  BY <1>0, <1>1, <1>2, <1>4, <1>5, <1>6, BusyStep
<1>8. responses' = responses \/ \E kind : Answered(kind) /\ TakeResponses
  BY <1>1, Zenon
<1>. QED  BY <1>1, <1>7, <1>8, OffloadsStay, InvPartsNext

LEMMA MigrationSizes ==
  ASSUME ControlInv, pc = "migrate"
  PROVE  MigrationSize \in Nat
<1>1. CASE iter = -1
  <2>1. cfg.pre
    BY <1>1 DEF ControlInv, PreInv
  <2>. QED  BY <1>1, <2>1, PreGpus DEF ControlInv, MigrationSize
<1>2. CASE iter # -1
  BY <1>2, MigrateNat DEF ControlInv, SchedulerTypes, MigrationSize, Counts
<1>. QED  BY <1>1, <1>2

LEMMA MigrateOutInv ==
  ASSUME SchedInv, MigrateOut
  PROVE  SchedInv'
<1>0. ControlInv
  BY InvParts
<1>1. /\ UNCHANGED <<others, iter, ledger, scale, updates>> /\ responses' = responses /\ reports' = reports
      /\ pc = "migrate" /\ pc' = "handover" /\ iter' = iter /\ offset' = offset /\ cfg' = cfg
      /\ MigrationSize < RolloutCur /\ asked' = (offset + 1) .. (offset + MigrationSize)
  BY OthersStay DEF MigrateOut, ledger
<1>2. PICK n \in Nat : n = MigrationSize /\ n \in 0 .. RolloutCur
  <2>1. RolloutCur \in Nat
    BY <1>0, CfgFacts DEF ControlInv, SchedulerTypes, RolloutCur
  <2>. QED  BY <1>0, <1>1, <2>1, MigrationSizes
<1>3. PreInv'
  <2>1. iter = -1 => cfg.pre /\ offset = 0 /\ n = PreInstances
    BY <1>0, <1>1, <1>2 DEF ControlInv, PreInv, MigrationSize
  <2>2. iter = -1 => asked' = 1 .. PreInstances
    BY <1>1, <1>2, <2>1
  <2>3. PreInstances' = PreInstances
    BY <1>1 DEF PreInstances, ActorGpus
  <2>. QED  BY <1>1, <2>1, <2>2, <2>3 DEF PreInv
<1>4. AskedInv'
  <2>1. RolloutCur' = RolloutCur /\ (Sooner' <=> Sooner)
    BY <1>1 DEF RolloutCur, Sooner
  <2>2. Sooner
    BY <1>0, <1>1 DEF ControlInv, AskedInv
  <2>3. \E m \in 0 .. RolloutCur : asked' = (offset + 1) .. (offset + m) /\ (m = RolloutCur \/ Sooner)
    BY <1>1, <1>2, <2>2
  <2>. QED  BY <1>1, <2>1, <2>2, <2>3 DEF AskedInv, Sooner
<1>5. reports' \in [Instances -> Counts]
  BY <1>0, <1>1 DEF ControlInv, SchedulerTypes
<1>6. ControlInv'
  BY <1>0, <1>1, <1>3, <1>4, <1>5, BusyStep
<1>. QED  BY <1>1, <1>6, OffloadsStay, InvPartsNext

LEMMA MigrateInInv ==
  ASSUME SchedInv, MigrateIn
  PROVE  SchedInv'
<1>0. ControlInv
  BY InvParts
<1>1. /\ UNCHANGED <<others, iter, ledger, scale, updates>> /\ Answered("Data") /\ TakeResponses
      /\ pc = "handover" /\ pc' = "finishing" /\ iter' = iter /\ offset' = offset /\ cfg' = cfg
      /\ asked' = asked /\ reports' = reports
  BY OthersStay DEF MigrateIn, ledger
<1>2. PreInv'
  BY <1>0, <1>1 DEF ControlInv, PreInv, PreInstances, ActorGpus
<1>3. AskedInv'
  BY <1>0, <1>1 DEF ControlInv, AskedInv, RolloutCur, Sooner
<1>4. reports' \in [Instances -> Counts]
  BY <1>0, <1>1 DEF ControlInv, SchedulerTypes
<1>5. ControlInv'
  BY <1>0, <1>1, <1>2, <1>3, <1>4, BusyStep
<1>8. responses' = responses \/ \E kind : Answered(kind) /\ TakeResponses
  BY <1>1, Zenon
<1>. QED  BY <1>1, <1>5, <1>8, OffloadsStay, InvPartsNext

LEMMA FinishInv ==
  ASSUME SchedInv, Finish
  PROVE  SchedInv'
<1>0. ControlInv
  BY InvParts
<1>1. /\ UNCHANGED <<others, iter, ledger, scale, updates>> /\ responses' = responses /\ reports' = reports
      /\ pc = "finish" /\ pc' = "finishing" /\ iter' = iter /\ offset' = offset /\ cfg' = cfg /\ asked' = Alive
  BY OthersStay DEF Finish, ledger
<1>2. iter >= 0
  BY <1>0, <1>1 DEF ControlInv, AskedInv
<1>3. PreInv'
  BY <1>1, <1>2 DEF PreInv
<1>4. AskedInv'
  <2>1. PICK n \in Nat : n = RolloutCur /\ asked' = (offset + 1) .. (offset + n)
    <3>1. PICK c \in Nat, o \in Nat : c = cfg.instances /\ o = offset /\ o <= c
      BY <1>0, CfgFacts DEF ControlInv, SchedulerTypes
    <3>2. c - o \in Nat /\ o + (c - o) = c
      BY <3>1
    <3>3. asked' = (o + 1) .. c
      BY <1>1, <3>1 DEF Alive
    <3>4. PICK m \in Nat : m = c - o /\ o + m = c
      BY <3>2
    <3>5. m = RolloutCur
      BY <3>1, <3>4 DEF RolloutCur
    <3>. QED  BY <3>1, <3>3, <3>4, <3>5
  <2>2. RolloutCur' = n
    BY <1>1, <2>1 DEF RolloutCur
  <2>. QED  BY <1>1, <2>1, <2>2 DEF AskedInv
<1>5. reports' \in [Instances -> Counts]
  BY <1>0, <1>1 DEF ControlInv, SchedulerTypes
<1>6. ControlInv'
  BY <1>0, <1>1, <1>3, <1>4, <1>5, BusyStep
<1>. QED  BY <1>1, <1>6, OffloadsStay, InvPartsNext

-----------------------------------------------------------------------------
(***************************************************************************)
(* A step of the scheduler that moves numbers.                             *)
(***************************************************************************)
LEMMA StartInv ==
  ASSUME SchedInv, Start
  PROVE  SchedInv'
<1>0. ControlInv
  BY InvParts
<1>1. /\ UNCHANGED others /\ responses' = responses /\ reports' = reports /\ asked' = asked /\ scale' = scale
      /\ updates' = updates /\ inferCur' = inferCur /\ actorCur' = actorCur /\ available' = available
      /\ offset' = 0 /\ iter' = -1 /\ pc = "start" /\ pc' = IF cfg.pre THEN "report" ELSE "prepare"
  BY DEF Start
<1>2. /\ cfg' = cfg /\ rolloutPc' = rolloutPc /\ left' = left /\ aborted' = aborted /\ inferPc' = inferPc
      /\ actorPc' = actorPc /\ trained' = trained /\ world' = world /\ Instances' = Instances /\ Resp' = Resp
      /\ Groups' = Groups
  BY <1>1, OthersStay, SameSets
<1>3. InstanceTypes'
  BY <1>1, <1>2 DEF SchedInv, TypeInv, InstanceTypes
<1>4. OffloadInv'
  <2>1. \A i \in 1 .. offset' : FALSE
    BY <1>1
  <2>2. \A i \in Instances : i > offset'
    BY <1>1, CfgFacts DEF Instances, ControlInv
  <2>. QED  BY <1>1, <1>2, <2>1, <2>2 DEF SchedInv, OffloadInv
<1>5. WellFormed(cfg)' /\ SchedulerTypes' /\ ActorTypes'
  <2>1. cfg.instances \in Nat /\ cfg.iters \in Nat \ {0} /\ cfg.pre \in BOOLEAN
    BY <1>0, CfgFacts DEF ControlInv
  <2>. QED  BY <1>0, <1>1, <1>2, <2>1 DEF ControlInv, SchedulerTypes, ActorTypes
<1>6. PreInv'
  <2>1. cfg.mp \in Nat
    BY <1>0, CfgFacts DEF ControlInv
  <2>2. 0 * cfg.mp = 0
    BY <2>1
  <2>. QED  BY <1>1, <1>2, <2>2 DEF PreInv
<1>7. AskedInv'
  BY <1>1 DEF AskedInv
<1>8. ActorInv'
  BY <1>0, <1>1, <1>2 DEF ControlInv, ActorInv, Early, Busy, Aside
<1>9. WorldInv' /\ LedgerInv'
  BY <1>0, <1>1, <1>2 DEF ControlInv, WorldInv, LedgerInv, Told, Early, InLoop
<1>. QED  BY <1>3, <1>4, <1>5, <1>6, <1>7, <1>8, <1>9, InvPartsNext DEF ControlInv

\* What is known while the instances asked last offload.
LEMMA CountOffloaded ==
  ASSUME SchedInv, Offloaded
  PROVE  \E n \in Nat :
           /\ asked = (offset + 1) .. (offset + n) /\ Cardinality(asked) = n
           /\ offset' = offset + n /\ offset' \in 0 .. cfg.instances
           /\ n \in 0 .. RolloutCur /\ (n = RolloutCur \/ Sooner)
<1>1. PICK n \in 0 .. RolloutCur : asked = (offset + 1) .. (offset + n) /\ (n = RolloutCur \/ Sooner)
  BY DEF SchedInv, AskedInv, Offloaded
<1>2. PICK c \in Nat, o \in Nat : c = cfg.instances /\ o = offset /\ o <= c
  BY CfgFacts DEF SchedInv, TypeInv, SchedulerTypes
<1>3. n \in Nat /\ n <= c - o
  BY <1>1, <1>2 DEF RolloutCur
<1>4. PICK m \in Nat : m = n
  BY <1>3
<1>5. Cardinality((o + 1) .. (o + m)) = m
  <2>1. CASE m = 0
    <3>1. (o + 1) .. (o + m) = {}
      BY <2>1
    <3>. QED  BY <2>1, <3>1, FS_EmptySet
  <2>2. CASE m # 0
    <3>1. o + 1 \in Int /\ o + m \in Int /\ o + 1 <= o + m
      BY <2>2
    <3>2. Cardinality((o + 1) .. (o + m)) = o + m - (o + 1) + 1
      BY <3>1, FS_Interval
    <3>. QED  BY <3>2
  <2>. QED  BY <2>1, <2>2
<1>6. Cardinality(asked) = m
  BY <1>1, <1>2, <1>4, <1>5
<1>7. offset' = offset + m
  BY <1>6 DEF Offloaded
<1>8. offset' \in 0 .. cfg.instances
  BY <1>2, <1>3, <1>4, <1>7
<1>. QED  BY <1>1, <1>3, <1>4, <1>6, <1>7, <1>8

LEMMA OffloadedInv ==
  ASSUME SchedInv, Offloaded
  PROVE  SchedInv'
<1>0. ControlInv
  BY InvParts
<1>1. /\ UNCHANGED others /\ Answered("Offloaded") /\ TakeResponses /\ reports' = reports /\ asked' = {}
      /\ scale' = scale /\ updates' = updates /\ inferCur' = inferCur /\ actorCur' = actorCur /\ iter' = iter
      /\ pc = "finishing" /\ pc' = IF iter = -1 THEN "prepare" ELSE "inference"
      /\ available' = IF iter \in {-1, cfg.iters - 1} THEN available ELSE available + Cardinality(asked) * cfg.mp
  BY DEF Offloaded, Gpus
<1>2. /\ cfg' = cfg /\ rolloutPc' = rolloutPc /\ inferPc' = inferPc
      /\ actorPc' = actorPc /\ trained' = trained /\ world' = world /\ Instances' = Instances
  BY <1>1, OthersStay
<1>3. PICK n \in Nat :
        /\ asked = (offset + 1) .. (offset + n) /\ Cardinality(asked) = n
        /\ offset' = offset + n /\ offset' \in 0 .. cfg.instances
        /\ n \in 0 .. RolloutCur /\ (n = RolloutCur \/ Sooner)
  BY CountOffloaded
<1>4. PICK c \in Nat, o \in Nat, p \in Nat, m \in Nat \ {0} :
        c = cfg.instances /\ o = offset /\ p = offset' /\ m = cfg.mp /\ o <= c /\ p <= c /\ p = o + n
  <2>1. cfg.instances \in Nat /\ cfg.mp \in Nat \ {0} /\ offset \in 0 .. cfg.instances
    BY <1>0, CfgFacts DEF ControlInv, SchedulerTypes
  <2>2. offset \in Nat /\ offset <= cfg.instances /\ offset' \in Nat /\ offset' <= cfg.instances
    BY <1>3, <2>1
  <2>. QED  BY <1>3, <2>1, <2>2, Zenon
<1>5. PICK b \in Nat : b = n * m /\ (c - o) * m = (c - p) * m + b
  <2>1. n * m \in Nat /\ (c - o) * m = (c - (o + n)) * m + n * m
    OBVIOUS
  <2>. QED  BY <1>4, <2>1
<1>6. PICK u \in Nat, v \in Nat : u = RolloutCur * cfg.mp /\ v = (RolloutCur * cfg.mp)' /\ u = v + b
  <2>1. (c - o) * m \in Nat /\ (c - p) * m \in Nat
    BY <1>4
  <2>2. RolloutCur * cfg.mp = (c - o) * m /\ (RolloutCur * cfg.mp)' = (c - p) * m
    BY <1>2, <1>4 DEF RolloutCur
  <2>. QED  BY <1>5, <2>1, <2>2
<1>7. InstanceTypes' /\ Rest("Offloaded")
  BY <1>1, Taking
<1>8. OffloadInv'
  <2>1. ASSUME NEW i \in 1 .. offset' PROVE rolloutPc'[i] = "done"
    <3>1. CASE i \in asked
      <4>1. i \in Instances
        BY <1>4 DEF Instances
      <4>2. responses[i] \in Seq(Resp) /\ responses[i] # <<>> /\ Head(responses[i]).act = "Offloaded"
        BY <1>1, <3>1, <4>1 DEF Answered, SchedInv, TypeInv, InstanceTypes
      <4>3. 1 \in DOMAIN responses[i] /\ responses[i][1].act = "Offloaded"
        BY <4>2
      <4>. QED  BY <1>2, <4>1, <4>3 DEF SchedInv, OffloadInv
    <3>2. CASE i \notin asked
      <4>1. i \in 1 .. offset
        BY <1>3, <1>4, <3>2
      <4>. QED  BY <1>1, <1>2, <4>1 DEF SchedInv, OffloadInv
    <3>. QED  BY <3>1, <3>2
  <2>2. ASSUME NEW i \in Instances, i > offset, i \notin asked PROVE i > offset'
    <3>1. i \in Nat
      BY <1>0, CfgFacts DEF Instances, ControlInv
    <3>. QED  BY <1>3, <1>4, <2>2, <3>1
  <2>. QED  BY <1>1, <1>2, <1>7, <2>1, <2>2 DEF Rest, OffloadInv
<1>9. WellFormed(cfg)' /\ SchedulerTypes' /\ ActorTypes'
  <2>1. available' \in Nat
    <3>1. available \in Nat
      BY <1>0 DEF ControlInv, SchedulerTypes
    <3>2. available' = available \/ available' = available + b
      BY <1>1, <1>3, <1>4, <1>5
    <3>. QED  BY <1>5, <3>1, <3>2
  <2>. QED  BY <1>0, <1>1, <1>2, <1>3, <2>1 DEF ControlInv, SchedulerTypes, ActorTypes
<1>10. PreInv'
  <2>1. CASE iter = -1
    <3>1. cfg.pre /\ offset = 0 /\ asked = 1 .. PreInstances
      BY <1>0, <1>1, <2>1 DEF ControlInv, PreInv
    <3>2. PICK k \in Nat : k = PreInstances /\ k * cfg.mp = ActorGpus(cfg)
      BY <1>0, <3>1, PreGpus DEF ControlInv
    <3>3. k = n
      <4>1. 1 .. k = 1 .. n
        BY <1>3, <3>1, <3>2
      <4>2. \A l \in Nat : l \in 1 .. k <=> l \in 1 .. n
        BY <4>1
      <4>3. (k # 0 => k \in 1 .. k) /\ (n # 0 => n \in 1 .. n)
        OBVIOUS
      <4>. QED  BY <4>2, <4>3
    <3>4. offset' = k
      BY <1>3, <3>1, <3>3
    <3>5. ActorGpus(cfg') = ActorGpus(cfg)
      BY <1>2
    <3>. QED  BY <1>1, <1>2, <2>1, <3>1, <3>2, <3>4, <3>5 DEF PreInv
  <2>2. CASE iter # -1
    BY <1>1, <2>2 DEF PreInv
  <2>. QED  BY <2>1, <2>2
<1>11. AskedInv'
  <2>1. iter \in Int /\ iter >= -1 /\ (iter # -1 => iter >= 0)
    BY <1>0, CfgFacts DEF ControlInv, SchedulerTypes
  <2>2. Sooner' <=> Sooner
    BY <1>1, <1>2 DEF Sooner
  <2>3. n = RolloutCur => offset' = cfg.instances
    BY <1>3, <1>4 DEF RolloutCur
  <2>. QED  BY <1>1, <1>2, <1>3, <2>1, <2>2, <2>3 DEF AskedInv
<1>12. ActorInv'
  <2>1. iter \in Int /\ iter >= -1 /\ (iter # -1 => iter >= 0)
    BY <1>0, CfgFacts DEF ControlInv, SchedulerTypes
  <2>. QED  BY <1>0, <1>1, <1>2, <2>1 DEF ControlInv, ActorInv, Early, Busy, Aside
<1>13. /\ TotalGpus(cfg)' = TotalGpus(cfg) /\ Told' = Told /\ TotalGpus(cfg) \in Nat
       /\ (InLoop' => InLoop) /\ (Early' => Early) /\ world \in Nat /\ inferCur \in Nat /\ actorCur * cfg.amp \in Int
       /\ available \in Nat /\ iter \in Int
  <2>1. TotalGpus(cfg)' = TotalGpus(cfg) /\ TotalGpus(cfg) \in Nat /\ cfg.infer \in Nat /\ cfg.iters \in Nat
    BY <1>0, <1>2, GpuCounts, CfgFacts DEF ControlInv
  <2>2. world \in Nat /\ inferCur \in Nat /\ available \in Nat /\ iter \in Int
    BY <1>0, <2>1 DEF ControlInv, SchedulerTypes, ActorTypes
  <2>3. Told' = Told /\ (InLoop' => InLoop) /\ (Early' => Early)
    BY <1>1, <1>2 DEF Told, InLoop, Early
  <2>4. actorCur * cfg.amp \in Int
    <3>1. PICK q \in Nat : ValidDpSizes(cfg) \in SUBSET (1 .. q)
      BY <1>0, SizesAre DEF ControlInv
    <3>2. actorCur \in Int
      BY <1>0, <3>1 DEF ControlInv, SchedulerTypes
    <3>. QED  BY <1>0, <3>2, CfgFacts DEF ControlInv
  <2>. QED  BY <2>1, <2>2, <2>3, <2>4
<1>14. WorldInv'
  <2>1. Told = actorCur * cfg.amp /\ (Early \/ pc = "over" => actorCur = cfg.actor) /\ (pc # "over" => world <= actorCur * cfg.amp)
    BY <1>0 DEF ControlInv, WorldInv
  <2>2. InLoop => world <= TotalGpus(cfg) - u - inferCur
    BY <1>0, <1>6 DEF ControlInv, WorldInv
  <2>3. InLoop' => world <= TotalGpus(cfg) - v - inferCur
    BY <1>6, <1>13, <2>2
  <2>. QED  BY <1>1, <1>2, <1>6, <1>13, <2>1, <2>3 DEF WorldInv
<1>15. LedgerInv'
  <2>1. InLoop => u + inferCur + actorCur * cfg.amp + available = TotalGpus(cfg)
    BY <1>0, <1>1, <1>6 DEF ControlInv, LedgerInv
  <2>2. InLoop' /\ iter < cfg.iters - 1 => v + inferCur + actorCur * cfg.amp + available' = TotalGpus(cfg)
    <3>1. SUFFICES ASSUME InLoop', iter < cfg.iters - 1
                   PROVE  v + inferCur + actorCur * cfg.amp + available' = TotalGpus(cfg)
      OBVIOUS
    <3>2. iter # -1 /\ iter # cfg.iters - 1
      BY <1>0, <1>1, <1>13, <3>1, CfgFacts DEF InLoop, ControlInv
    <3>3. available' = available + b
      BY <1>1, <1>3, <1>4, <1>5, <3>2
    <3>4. PICK a \in Int : a = actorCur * cfg.amp
      BY <1>13
    <3>. QED  BY <1>6, <1>13, <2>1, <3>1, <3>3, <3>4
  <2>3. InLoop' => pc' = "inference"
    BY <1>1 DEF InLoop
  <2>4. InLoop /\ inferCur = 0 => inferPc = "offloaded" /\ (cfg.wait => cfg.infer = 0 \/ offset = cfg.instances)
    BY <1>0 DEF ControlInv, LedgerInv
  <2>5. offset = cfg.instances => offset' = cfg.instances
    BY <1>4
  <2>. QED  BY <1>1, <1>2, <1>6, <1>13, <2>2, <2>3, <2>4, <2>5 DEF LedgerInv
<1>. QED  BY <1>7, <1>8, <1>9, <1>10, <1>11, <1>12, <1>14, <1>15, InvPartsNext DEF ControlInv

\* The numbers of the configuration and of the scheduler are naturals.
LEMMA Numbers ==
  ASSUME ControlInv
  PROVE  \E u \in Nat, a \in Nat, t \in Nat :
           /\ u = RolloutCur * cfg.mp /\ a = actorCur * cfg.amp /\ t = TotalGpus(cfg)
           /\ available \in Nat /\ inferCur \in Nat /\ world \in Nat /\ iter \in Int /\ trained \in Nat
           /\ cfg.iters \in Nat \ {0} /\ iter >= -1 /\ iter <= cfg.iters - 1
<1>1. PICK q \in Nat : ValidDpSizes(cfg) \in SUBSET (1 .. q)
  BY SizesAre DEF ControlInv
<1>2. PICK c \in Nat, m \in Nat, d \in Nat, e \in Nat :
        c = RolloutCur /\ m = cfg.mp /\ d = actorCur /\ e = cfg.amp
  <2>1. RolloutCur \in Nat
    BY CfgFacts DEF ControlInv, SchedulerTypes, RolloutCur
  <2>2. actorCur \in Nat
    BY <1>1 DEF ControlInv, SchedulerTypes
  <2>. QED  BY <2>1, <2>2, CfgFacts DEF ControlInv
<1>3. c * m \in Nat /\ d * e \in Nat
  OBVIOUS
<1>4. TotalGpus(cfg) \in Nat /\ cfg.infer \in Nat /\ cfg.iters \in Nat \ {0}
  BY GpuCounts, CfgFacts DEF ControlInv
<1>5. /\ available \in Nat /\ inferCur \in Nat /\ world \in Nat /\ iter \in Int /\ trained \in Nat
      /\ iter >= -1 /\ iter <= cfg.iters - 1
  BY <1>4 DEF ControlInv, SchedulerTypes, ActorTypes
<1>. QED  BY <1>2, <1>3, <1>4, <1>5

LEMMA PrepareInv ==
  ASSUME SchedInv, Prepare
  PROVE  SchedInv'
<1>0. ControlInv
  BY InvParts
<1>1. /\ UNCHANGED others /\ responses' = responses /\ reports' = reports /\ offset' = offset /\ updates' = updates
      /\ inferCur' = cfg.infer /\ actorCur' = cfg.actor /\ available' = 0 /\ iter' = 0
      /\ scale' = (IF cfg.pre THEN Append(scale, 0) ELSE scale) /\ pc = "prepare" /\ pc' = "await"
  BY DEF Prepare
<1>2. /\ cfg' = cfg /\ inferPc' = inferPc /\ actorPc' = actorPc /\ trained' = trained /\ world' = world
      /\ Instances' = Instances
  BY <1>1, OthersStay
<1>3. iter = -1 /\ offset * cfg.mp = IF cfg.pre THEN ActorGpus(cfg) ELSE 0
  BY <1>0, <1>1 DEF ControlInv, PreInv
<1>4. \/ cfg.pre /\ actorPc = "pre" /\ trained = 0 /\ updates = 0 /\ scale = <<>>
      \/ ~cfg.pre /\ actorPc = "train" /\ trained = 0 /\ updates = 0 /\ scale = <<>>
      \/ ~cfg.pre /\ actorPc = "sync" /\ trained = 1 /\ updates = 1 /\ scale = <<>>
  BY <1>0, <1>1, <1>3 DEF ControlInv, ActorInv, Busy, Aside
<1>5. (cfg.pre => scale' = <<0>>) /\ (~cfg.pre => scale' = <<>>) /\ scale' \in Seq(Nat)
  <2>1. Append(<<>>, 0) = <<0>> /\ <<0>> \in Seq(Nat) /\ <<>> \in Seq(Nat)
    OBVIOUS
  <2>2. cfg.pre \in BOOLEAN
    BY <1>0, CfgFacts DEF ControlInv
  <2>3. CASE cfg.pre
    <3>1. scale' = Append(<<>>, 0)
      BY <1>1, <1>4, <2>3, Zenon
    <3>. QED  BY <2>1, <2>3, <3>1, Zenon
  <2>4. CASE ~cfg.pre
    <3>1. scale' = <<>>
      BY <1>1, <1>4, <2>4, Zenon
    <3>. QED  BY <2>1, <2>4, <3>1, Zenon
  <2>. QED  BY <2>3, <2>4
<1>6. WellFormed(cfg)' /\ SchedulerTypes' /\ ActorTypes'
  <2>1. cfg.actor \in ValidDpSizes(cfg) /\ cfg.iters \in Nat \ {0}
    BY <1>0, CfgFacts DEF ControlInv
  <2>2. 0 \in -1 .. cfg.iters - 1
    BY <2>1
  <2>. QED  BY <1>0, <1>1, <1>2, <1>5, <2>1, <2>2 DEF ControlInv, SchedulerTypes, ActorTypes
<1>7. PreInv' /\ AskedInv'
  BY <1>1 DEF PreInv, AskedInv
<1>8. ActorInv'
  BY <1>1, <1>2, <1>4, <1>5, 0 + 1 = 1 DEF ActorInv
<1>9. Told = world /\ world = ActorGpus(cfg) /\ Told' = world
  <2>1. Told = world
    BY <1>4 DEF Told
  <2>2. actorCur = cfg.actor /\ Told = actorCur * cfg.amp
    BY <1>0, <1>3 DEF ControlInv, WorldInv, Early
  <2>3. Told' = world
    BY <1>2, <1>5 DEF Told
  <2>. QED  BY <2>1, <2>2, <2>3 DEF ActorGpus
<1>10. PICK c \in Nat, o \in Nat, m \in Nat, e \in Nat, a \in Nat, b \in Nat, t \in Nat :
        /\ c = cfg.instances /\ o = offset /\ m = cfg.mp /\ e = cfg.infer /\ a = ActorGpus(cfg)
        /\ b = RolloutBase(cfg) /\ t = TotalGpus(cfg) /\ o <= c
  <2>1. cfg.instances \in Nat /\ cfg.mp \in Nat /\ cfg.infer \in Nat
    BY <1>0, CfgFacts DEF ControlInv
  <2>2. ActorGpus(cfg) \in Nat /\ RolloutBase(cfg) \in Nat /\ TotalGpus(cfg) \in Nat
    BY <1>0, GpuCounts DEF ControlInv
  <2>3. offset \in Nat /\ offset <= cfg.instances
    BY <1>0, <2>1 DEF ControlInv, SchedulerTypes
  <2>. QED  BY <2>1, <2>2, <2>3, Zenon
<1>11. o * m + b = a /\ t = b + c * m + e
  BY <1>0, <1>3, <1>10, GpuCounts DEF ControlInv
<1>12. (RolloutCur * cfg.mp)' = (c - o) * m /\ (c - o) * m \in Nat /\ (c - o) * m = c * m - o * m
  <2>1. (RolloutCur * cfg.mp)' = (c - o) * m
    BY <1>1, <1>2, <1>10 DEF RolloutCur
  <2>2. c - o \in Nat
    BY <1>10
  <2>. QED  BY <2>1, <2>2
<1>13. PICK u \in Nat : u = (RolloutCur * cfg.mp)' /\ t = u + e + a
  <2>1. c * m \in Nat /\ o * m \in Nat
    OBVIOUS
  <2>. QED  BY <1>11, <1>12, <2>1
<1>14. TotalGpus(cfg)' = t /\ (actorCur * cfg.amp)' = a
  <2>1. TotalGpus(cfg)' = t
    BY <1>2, <1>10 DEF TotalGpus, RolloutBase, ActorGpus
  <2>2. (actorCur * cfg.amp)' = a
    BY <1>1, <1>2, <1>10 DEF ActorGpus
  <2>. QED  BY <2>1, <2>2
<1>15. WorldInv'
  <2>1. world = a /\ Told' = a
    BY <1>9, <1>10
  <2>2. a <= t - u - e
    BY <1>13
  <2>. QED  BY <1>1, <1>2, <1>10, <1>13, <1>14, <2>1, <2>2 DEF WorldInv, Early
<1>16. LedgerInv'
  <2>1. cfg.infer = 0 => inferPc = "offloaded"
    BY <1>0 DEF ControlInv, ActorTypes
  <2>2. u + e + a + 0 = t
    BY <1>13
  <2>. QED  BY <1>1, <1>2, <1>10, <1>13, <1>14, <2>1, <2>2 DEF LedgerInv
<1>17. InstanceTypes' /\ OffloadInv'
  BY <1>1, OffloadsStay
<1>. QED  BY <1>6, <1>7, <1>8, <1>15, <1>16, <1>17, InvPartsNext DEF ControlInv

LEMMA ActorReadyInv ==
  ASSUME SchedInv, ActorReady
  PROVE  SchedInv'
<1>0. ControlInv
  BY InvParts
<1>1. /\ UNCHANGED <<others, iter, ledger, scale>> /\ responses' = responses /\ reports' = reports /\ asked' = asked
      /\ updates > 0 /\ updates' = updates - 1 /\ pc = "await" /\ iter' = iter /\ offset' = offset
      /\ inferCur' = inferCur /\ actorCur' = actorCur /\ available' = available /\ scale' = scale
      /\ pc' = IF RolloutCur = 0 THEN "inference" ELSE IF iter = cfg.iters - 1 THEN "finish" ELSE "report"
  BY DEF ActorReady, ledger
<1>2. /\ cfg' = cfg /\ inferPc' = inferPc /\ actorPc' = actorPc /\ trained' = trained /\ world' = world
      /\ Instances' = Instances
  BY <1>1, OthersStay
<1>3. iter \in Int /\ iter >= 0 /\ iter <= cfg.iters - 1 /\ iter # -1
  BY <1>0, <1>1, CfgFacts DEF ControlInv, SchedulerTypes, AskedInv
<1>4. actorPc = "sync" /\ updates = 1 /\ scale = <<>> /\ iter + 1 = trained
  BY <1>0, <1>1 DEF ControlInv, ActorInv, Busy, Aside
<1>5. WellFormed(cfg)' /\ SchedulerTypes' /\ ActorTypes'
  <2>1. updates' = 0
    BY <1>1, <1>4
  <2>. QED  BY <1>0, <1>1, <1>2, <2>1 DEF ControlInv, SchedulerTypes, ActorTypes
<1>6. PreInv'
  BY <1>1, <1>3 DEF PreInv
<1>7. AskedInv'
  <2>1. RolloutCur = 0 => offset = cfg.instances
    BY <1>0, CfgFacts DEF ControlInv, SchedulerTypes, RolloutCur
  <2>2. iter # cfg.iters - 1 => iter < cfg.iters - 1
    BY <1>0, <1>3, CfgFacts DEF ControlInv
  <2>. QED  BY <1>1, <1>2, <1>3, <2>1, <2>2 DEF AskedInv
<1>8. ActorInv'
  BY <1>1, <1>2, <1>3, <1>4 DEF ActorInv, Busy
<1>9. WorldInv' /\ LedgerInv'
  BY <1>0, <1>1, NumbersStay
<1>10. InstanceTypes' /\ OffloadInv'
  BY <1>1, OffloadsStay
<1>. QED  BY <1>5, <1>6, <1>7, <1>8, <1>9, <1>10, InvPartsNext DEF ControlInv

LEMMA ReleaseInferenceInv ==
  ASSUME SchedInv, ReleaseInference
  PROVE  SchedInv'
<1>0. ControlInv
  BY InvParts
<1>1. /\ UNCHANGED others /\ responses' = responses /\ reports' = reports /\ asked' = asked
      /\ updates' = updates /\ pc = "inference" /\ pc' = "allocate" /\ iter' = iter /\ offset' = offset
      /\ actorCur' = actorCur /\ scale' = scale
  BY DEF ReleaseInference
<1>2. /\ cfg' = cfg /\ inferPc' = inferPc /\ actorPc' = actorPc /\ trained' = trained /\ world' = world
      /\ Instances' = Instances
  BY <1>1, OthersStay
<1>3. PICK u \in Nat, a \in Nat, t \in Nat :
        /\ u = RolloutCur * cfg.mp /\ a = actorCur * cfg.amp /\ t = TotalGpus(cfg)
        /\ available \in Nat /\ inferCur \in Nat /\ world \in Nat /\ iter \in Int /\ trained \in Nat
        /\ cfg.iters \in Nat \ {0} /\ iter >= -1 /\ iter <= cfg.iters - 1
  BY <1>0, Numbers
<1>4. iter >= 0 /\ (offset = cfg.instances \/ Sooner)
  BY <1>0, <1>1 DEF ControlInv, AskedInv
<1>5. \/ inferCur' = inferCur /\ available' = available
      \/ /\ inferCur' = 0 /\ available' = available + inferCur /\ inferPc = "offloaded"
         /\ iter < cfg.iters - 1 /\ (cfg.wait => offset = cfg.instances)
  <2>1. CASE inferCur' = inferCur /\ available' = available
    BY <2>1
  <2>2. CASE ~(inferCur' = inferCur /\ available' = available)
    <3>1. InferenceOver /\ (iter < cfg.iters - 1 => MustWait \/ ~cfg.wait) /\ iter # cfg.iters - 1
          /\ inferCur' = 0 /\ available' = available + inferCur
      BY <2>2 DEF ReleaseInference
    <3>2. iter < cfg.iters - 1
      BY <1>3, <3>1
    <3>3. cfg.wait => offset = cfg.instances
      <4>1. SUFFICES ASSUME cfg.wait PROVE offset = cfg.instances
        OBVIOUS
      <4>2. iter = cfg.iters - 2 \/ RolloutCur = 0
        BY <3>1, <3>2, <4>1 DEF MustWait
      <4>3. CASE iter = cfg.iters - 2
        BY <1>4, <4>1, <4>3 DEF Sooner
      <4>4. CASE RolloutCur = 0
        BY <1>0, <4>4, CfgFacts DEF ControlInv, SchedulerTypes, RolloutCur
      <4>. QED  BY <4>2, <4>3, <4>4
    <3>. QED  BY <3>1, <3>2, <3>3 DEF InferenceOver
  <2>. QED  BY <2>1, <2>2
<1>6. WellFormed(cfg)' /\ SchedulerTypes' /\ ActorTypes'
  BY <1>0, <1>1, <1>2, <1>3, <1>5 DEF ControlInv, SchedulerTypes, ActorTypes
<1>7. PreInv'
  BY <1>1, <1>3, <1>4 DEF PreInv
<1>8. AskedInv'
  <2>1. iter = cfg.iters - 1 => inferPc = "offloaded"
    <3>1. SUFFICES ASSUME iter = cfg.iters - 1 PROVE inferPc = "offloaded"
      OBVIOUS
    <3>2. ~(iter < cfg.iters - 1)
      BY <1>3, <3>1
    <3>3. cfg.infer = 0 \/ InferenceOver
      BY <3>1, <3>2 DEF ReleaseInference, MustWait
    <3>. QED  BY <1>0, <3>3 DEF InferenceOver, ControlInv, ActorTypes
  <2>2. Sooner' <=> Sooner
    BY <1>1, <1>2 DEF Sooner
  <2>. QED  BY <1>1, <1>2, <1>4, <2>1, <2>2 DEF AskedInv
<1>9. ActorInv'
  BY <1>0, <1>1, <1>2, <1>4 DEF ControlInv, ActorInv, Early, Busy, Aside
<1>10. /\ TotalGpus(cfg)' = t /\ (RolloutCur * cfg.mp)' = u /\ (actorCur * cfg.amp)' = a /\ Told' = Told
       /\ InLoop' /\ InLoop /\ ~Early'
  <2>1. TotalGpus(cfg)' = t /\ (RolloutCur * cfg.mp)' = u /\ (actorCur * cfg.amp)' = a
    BY <1>1, <1>2, <1>3 DEF TotalGpus, RolloutBase, ActorGpus, RolloutCur
  <2>2. Told' = Told
    BY <1>1, <1>2 DEF Told
  <2>3. InLoop' /\ InLoop /\ ~Early'
    BY <1>1, <1>3, <1>4 DEF InLoop, Early
  <2>. QED  BY <2>1, <2>2, <2>3
<1>11. inferCur' \in Nat /\ available' \in Nat /\ inferCur' <= inferCur /\ inferCur' + available' = inferCur + available
  BY <1>3, <1>5
<1>12. WorldInv'
  <2>1. Told = a /\ world <= a /\ world <= t - u - inferCur
    BY <1>0, <1>1, <1>3, <1>10 DEF ControlInv, WorldInv
  <2>2. world <= t - u - inferCur'
    BY <1>3, <1>11, <2>1
  <2>. QED  BY <1>1, <1>2, <1>10, <2>1, <2>2 DEF WorldInv
<1>13. LedgerInv'
  <2>1. iter < cfg.iters - 1 => u + inferCur + a + available = t
    BY <1>0, <1>3, <1>10 DEF ControlInv, LedgerInv
  <2>2. iter < cfg.iters - 1 => u + inferCur' + a + available' = t
    <3>1. PICK x \in Nat, y \in Nat, p \in Nat, q \in Nat :
            x = inferCur' /\ y = available' /\ p = inferCur /\ q = available /\ x + y = p + q
      BY <1>3, <1>11
    <3>2. u + p + a + q = u + x + a + y
      <4>1. x + y = p + q
        BY <3>1
      <4>. QED  BY <4>1
    <3>. QED  BY <2>1, <3>1, <3>2
  <2>3. inferCur = 0 => inferPc = "offloaded" /\ (cfg.wait => cfg.infer = 0 \/ offset = cfg.instances)
    BY <1>0, <1>10 DEF ControlInv, LedgerInv
  <2>4. inferCur' = 0 => inferPc = "offloaded" /\ (cfg.wait => cfg.infer = 0 \/ offset = cfg.instances)
    BY <1>5, <2>3
  <2>. QED  BY <1>1, <1>2, <1>10, <2>2, <2>4 DEF LedgerInv
<1>14. InstanceTypes' /\ OffloadInv'
  BY <1>1, OffloadsStay
<1>. QED  BY <1>6, <1>7, <1>8, <1>9, <1>12, <1>13, <1>14, InvPartsNext DEF ControlInv

\* The actor's next size, and what is left of the available GPUs.
LEMMA Grows ==
  ASSUME ControlInv, Allocate, iter < cfg.iters - 1
  PROVE  \E a \in Nat \ {0}, b \in Nat, p \in Nat :
           /\ NextSize \in ValidDpSizes(cfg) /\ a = NextSize * cfg.amp /\ b = actorCur * cfg.amp
           /\ p = available' /\ p + a = available + b /\ a >= b
<1>1. PICK q \in Nat : ValidDpSizes(cfg) \in SUBSET (1 .. q)
  BY SizesAre DEF ControlInv
<1>2. PICK s \in Nat, e \in Nat \ {0}, v \in Nat :
        s = actorCur /\ e = cfg.amp /\ v = available /\ s >= 1 /\ s \in ValidDpSizes(cfg)
  BY <1>1, CfgFacts DEF ControlInv, SchedulerTypes
<1>3. PICK d \in ValidDpSizes(cfg) : d \in Nat /\ d >= s /\ TryAllocate = (d - s) * e /\ (d - s) * e <= v
  <2>1. CASE available < cfg.amp
    <3>1. TryAllocate = 0
      BY <2>1 DEF TryAllocate
    <3>2. (s - s) * e = 0
      BY <1>2
    <3>. QED  BY <1>2, <3>1, <3>2
  <2>2. CASE ~(available < cfg.amp)
    <3>1. TryAllocate = Usable(available)
      BY <2>2 DEF TryAllocate
    <3>2. WellFormed(cfg) /\ actorCur \in ValidDpSizes(cfg) /\ available \in Nat
      BY DEF ControlInv, SchedulerTypes
    <3>3. \E x \in ValidDpSizes(cfg) :
            /\ x \in Nat /\ actorCur \in Nat /\ x >= actorCur
            /\ Usable(available) = (x - actorCur) * cfg.amp /\ (x - actorCur) * cfg.amp <= available
      BY <3>2, UsableIs
    <3>. QED  BY <1>2, <3>1, <3>3
  <2>. QED  BY <2>1, <2>2
<1>4. PICK k \in Nat : k = d - s /\ d = s + k
  BY <1>2, <1>3
<1>5. (k * e) \div e = k
  BY <1>2
<1>6. NextSize = d
  <2>1. TryAllocate = k * e
    BY <1>3, <1>4
  <2>2. NextSize = s + (k * e) \div e
    BY <1>2, <2>1, CfgFacts DEF NextSize, ControlInv, SchedulerTypes
  <2>. QED  BY <1>4, <1>5, <2>2
<1>7. PICK w \in Nat, a \in Nat, b \in Nat : w = k * e /\ a = d * e /\ b = s * e /\ a = b + w
  <2>1. k * e \in Nat /\ d * e \in Nat /\ s * e \in Nat
    BY <1>3
  <2>2. d * e = s * e + k * e
    BY <1>4
  <2>. QED  BY <2>1, <2>2
<1>8. a # 0
  <2>1. PICK x \in Nat \ {0}, y \in Nat \ {0} : x = d /\ y = e
    BY <1>2, <1>3
  <2>2. x * y \in Nat \ {0}
    OBVIOUS
  <2>. QED  BY <1>7, <2>1, <2>2
<1>9. available' = v - w /\ w <= v
  <2>1. TryAllocate = w
    BY <1>3, <1>4, <1>7
  <2>2. iter # cfg.iters - 1
    BY CfgFacts DEF ControlInv, SchedulerTypes
  <2>3. available' = available - TryAllocate
    BY <2>2 DEF Allocate
  <2>. QED  BY <1>2, <1>3, <1>4, <1>7, <2>1, <2>3
<1>. QED  BY <1>2, <1>3, <1>6, <1>7, <1>8, <1>9

\* The answer to the actor: a size, or none if nothing changes.
LEMMA Answer ==
  ASSUME ControlInv, Allocate, NextSize * cfg.amp \in Nat \ {0}
  PROVE  /\ actorPc = "sync" /\ updates = 0 /\ scale = <<>> /\ iter + 1 = trained /\ iter >= 0
         /\ scale' \in Seq(Nat) /\ Len(scale') = 1 /\ Told' = NextSize * cfg.amp
<1>1. pc = "allocate" /\ world' = world
  BY OthersStay DEF Allocate
<1>2. iter >= 0
  BY <1>1 DEF ControlInv, AskedInv
<1>3. actorPc = "sync" /\ updates = 0 /\ scale = <<>> /\ iter + 1 = trained
  BY <1>1, <1>2 DEF ControlInv, ActorInv, Early, Aside
<1>4. PICK n \in Nat : n = IF NextSize = actorCur THEN 0 ELSE NextSize * cfg.amp
  OBVIOUS
<1>5. scale' = Append(<<>>, n)
  BY <1>3, <1>4 DEF Allocate
<1>6. Append(<<>>, n) = <<n>> /\ <<n>> \in Seq(Nat) /\ Len(<<n>>) = 1 /\ Head(<<n>>) = n /\ <<n>> # <<>>
  OBVIOUS
<1>7. scale' \in Seq(Nat) /\ Len(scale') = 1 /\ Head(scale') = n /\ scale' # <<>>
  BY <1>5, <1>6, Zenon
<1>8. world = actorCur * cfg.amp
  BY <1>3 DEF ControlInv, WorldInv, Told
<1>9. Told' = IF n # 0 THEN n ELSE world
  BY <1>1, <1>7, Zenon DEF Told
<1>10. Told' = NextSize * cfg.amp
  BY <1>4, <1>8, <1>9
<1>. QED  BY <1>2, <1>3, <1>7, <1>10

LEMMA AllocateInv ==
  ASSUME SchedInv, Allocate
  PROVE  SchedInv'
<1>0. ControlInv
  BY InvParts
<1>1. /\ UNCHANGED others /\ responses' = responses /\ reports' = reports /\ asked' = asked /\ offset' = offset
      /\ updates' = updates /\ inferCur' = inferCur /\ pc = "allocate" /\ actorCur' = NextSize
  BY DEF Allocate
<1>2. /\ cfg' = cfg /\ inferPc' = inferPc /\ actorPc' = actorPc /\ trained' = trained /\ world' = world
      /\ Instances' = Instances
  BY <1>1, OthersStay
<1>3. PICK u \in Nat, b \in Nat, t \in Nat :
        /\ u = RolloutCur * cfg.mp /\ b = actorCur * cfg.amp /\ t = TotalGpus(cfg)
        /\ available \in Nat /\ inferCur \in Nat /\ world \in Nat /\ iter \in Int /\ trained \in Nat
        /\ cfg.iters \in Nat \ {0} /\ iter >= -1 /\ iter <= cfg.iters - 1
  BY <1>0, Numbers
<1>4. /\ iter >= 0 /\ (offset = cfg.instances \/ Sooner) /\ (iter = cfg.iters - 1 => inferPc = "offloaded")
  BY <1>0, <1>1 DEF ControlInv, AskedInv
<1>5. /\ Told = b /\ (Early => actorCur = cfg.actor) /\ world <= b /\ world <= t - u - inferCur
      /\ (inferCur = 0 => inferPc = "offloaded" /\ (cfg.wait => cfg.infer = 0 \/ offset = cfg.instances))
      /\ (iter < cfg.iters - 1 => u + inferCur + b + available = t)
  BY <1>0, <1>1, <1>3, <1>4 DEF ControlInv, WorldInv, LedgerInv, InLoop
<1>6. TotalGpus(cfg)' = t /\ (RolloutCur * cfg.mp)' = u
  BY <1>1, <1>2, <1>3 DEF TotalGpus, RolloutBase, ActorGpus, RolloutCur
<1>7. InstanceTypes' /\ OffloadInv'
  BY <1>1, OffloadsStay
<1>8. CASE iter = cfg.iters - 1
  <2>1. /\ NextSize = cfg.actor /\ pc' = "over" /\ iter' = iter /\ available' = available
    BY <1>8 DEF Allocate, NextSize
  <2>2. PICK a \in Nat \ {0} : a = NextSize * cfg.amp
    <3>1. PICK x \in Nat \ {0}, y \in Nat \ {0} : x = cfg.actor /\ y = cfg.amp
      BY <1>0, CfgFacts DEF ControlInv
    <3>2. x * y \in Nat \ {0}
      OBVIOUS
    <3>. QED  BY <2>1, <3>1, <3>2
  <2>3. /\ actorPc = "sync" /\ updates = 0 /\ iter + 1 = trained
        /\ scale' \in Seq(Nat) /\ Len(scale') = 1 /\ Told' = NextSize * cfg.amp
    BY <1>0, <2>2, Answer
  <2>4. WellFormed(cfg)' /\ SchedulerTypes' /\ ActorTypes'
    <3>1. cfg.actor \in ValidDpSizes(cfg)
      BY <1>0, CfgFacts DEF ControlInv
    <3>. QED  BY <1>0, <1>1, <1>2, <2>1, <2>3, <3>1 DEF ControlInv, SchedulerTypes, ActorTypes
  <2>5. PreInv'
    BY <1>3, <1>4, <2>1 DEF PreInv
  <2>6. AskedInv'
    <3>1. Sooner' <=> Sooner
      BY <1>2, <2>1 DEF Sooner
    <3>. QED  BY <1>1, <1>2, <1>4, <1>8, <2>1, <3>1 DEF AskedInv
  <2>7. ActorInv'
    <3>1. trained = cfg.iters
      BY <1>3, <1>8, <2>3
    <3>. QED  BY <1>1, <1>2, <2>1, <2>3, <3>1 DEF ActorInv
  <2>8. WorldInv'
    BY <1>1, <1>2, <1>5, <1>6, <2>1, <2>3 DEF WorldInv
  <2>9. LedgerInv'
    <3>1. ~(iter' < cfg'.iters - 1)
      BY <1>2, <1>3, <1>8, <2>1
    <3>. QED  BY <1>1, <1>2, <1>5, <2>1, <3>1 DEF LedgerInv
  <2>. QED  BY <1>7, <2>4, <2>5, <2>6, <2>7, <2>8, <2>9, InvPartsNext DEF ControlInv
<1>9. CASE iter < cfg.iters - 1
  <2>1. pc' = "await" /\ iter' = iter + 1
    BY <1>3, <1>9 DEF Allocate
  <2>2. PICK a \in Nat \ {0}, c \in Nat, p \in Nat :
          /\ NextSize \in ValidDpSizes(cfg) /\ a = NextSize * cfg.amp /\ c = actorCur * cfg.amp
          /\ p = available' /\ p + a = available + c /\ a >= c
    BY <1>0, <1>9, Grows
  <2>3. /\ actorPc = "sync" /\ updates = 0 /\ iter + 1 = trained
        /\ scale' \in Seq(Nat) /\ Len(scale') = 1 /\ Told' = NextSize * cfg.amp
    BY <1>0, <2>2, Answer
  <2>4. WellFormed(cfg)' /\ SchedulerTypes' /\ ActorTypes'
    <3>1. iter + 1 \in -1 .. cfg.iters - 1
      BY <1>3, <1>9
    <3>. QED  BY <1>0, <1>1, <1>2, <2>1, <2>2, <2>3, <3>1 DEF ControlInv, SchedulerTypes, ActorTypes
  <2>5. PreInv' /\ AskedInv'
    BY <1>3, <1>4, <2>1 DEF PreInv, AskedInv
  <2>6. ActorInv'
    BY <1>1, <1>2, <2>1, <2>3 DEF ActorInv
  <2>7. (actorCur * cfg.amp)' = a /\ ~Early' /\ iter' >= 0
    BY <1>1, <1>2, <1>3, <1>4, <2>1, <2>2 DEF Early
  <2>8. WorldInv'
    <3>1. Told' = a /\ c = b
      BY <1>3, <2>2, <2>3
    <3>2. world' <= a
      BY <1>2, <1>3, <1>5, <2>2, <3>1
    <3>3. world' <= TotalGpus(cfg)' - (RolloutCur * cfg.mp)' - inferCur'
      BY <1>1, <1>2, <1>5, <1>6
    <3>. QED  BY <2>1, <2>7, <3>1, <3>2, <3>3 DEF WorldInv
  <2>9. LedgerInv'
    <3>1. u + inferCur + a + p = t
      <4>1. PICK x \in Nat, y \in Nat : x = inferCur /\ y = available /\ u + x + c + y = t /\ p + a = y + c
        BY <1>3, <1>5, <1>9, <2>2
      <4>. QED  BY <4>1
    <3>. QED  BY <1>1, <1>2, <1>5, <1>6, <2>1, <2>2, <2>7, <3>1 DEF LedgerInv
  <2>. QED  BY <1>7, <2>4, <2>5, <2>6, <2>7, <2>8, <2>9, InvPartsNext DEF ControlInv
<1>. QED  BY <1>3, <1>8, <1>9

-----------------------------------------------------------------------------
(***************************************************************************)
(* Inference, the actor and the next global step.                          *)
(***************************************************************************)
\* A step that leaves rollout and the scheduler alone.
apart == <<cfg, rolloutPc, left, aborted, responses, schedVars>>
LEMMA ApartStays ==
  ASSUME SchedInv, UNCHANGED apart
  PROVE  InstanceTypes' /\ OffloadInv' /\ SchedulerTypes' /\ PreInv'
<1>1. /\ cfg' = cfg /\ rolloutPc' = rolloutPc /\ left' = left /\ aborted' = aborted /\ responses' = responses
      /\ pc' = pc /\ iter' = iter /\ asked' = asked /\ reports' = reports /\ offset' = offset
      /\ inferCur' = inferCur /\ actorCur' = actorCur /\ available' = available
      /\ Instances' = Instances /\ Groups' = Groups /\ Resp' = Resp
  BY SameSets DEF apart, schedVars
<1>2. InstanceTypes' /\ OffloadInv'
  BY <1>1 DEF SchedInv, TypeInv, InstanceTypes, OffloadInv
<1>3. SchedulerTypes' /\ PreInv'
  BY <1>1 DEF SchedInv, TypeInv, SchedulerTypes, PreInv, PreInstances, ActorGpus
<1>. QED  BY <1>2, <1>3

LEMMA InferenceInv ==
  ASSUME SchedInv, Inference
  PROVE  SchedInv'
<1>0. ControlInv
  BY InvParts
<1>1. /\ UNCHANGED apart /\ cfg' = cfg /\ pc' = pc /\ iter' = iter /\ asked' = asked /\ offset' = offset
      /\ inferCur' = inferCur /\ actorCur' = actorCur /\ available' = available
      /\ actorPc' = actorPc /\ trained' = trained /\ world' = world /\ scale' = scale /\ updates' = updates
      /\ inferPc # "offloaded" /\ inferPc' \in {"run", "offload", "offloaded"}
  BY DEF Inference, Infer, OffloadInference, apart, instVars, groupVars, schedVars, actorVars
<1>2. (WellFormed(cfg) /\ ActorTypes)'
  BY <1>0, <1>1 DEF ControlInv, ActorTypes
<1>3. AskedInv'
  BY <1>0, <1>1 DEF ControlInv, AskedInv, Sooner, RolloutCur
<1>4. ActorInv'
  BY <1>0, <1>1 DEF ControlInv, ActorInv, Early, Busy, Aside
<1>5. WorldInv' /\ LedgerInv'
  BY <1>0, <1>1 DEF ControlInv, WorldInv, LedgerInv, Told, Early, InLoop, RolloutCur, TotalGpus, RolloutBase, ActorGpus
<1>. QED  BY <1>1, <1>2, <1>3, <1>4, <1>5, ApartStays, InvPartsNext DEF ControlInv

\* What the actor does not touch.
LEMMA ActorLeaves ==
  ASSUME SchedInv, Actor
  PROVE  /\ UNCHANGED apart /\ cfg' = cfg /\ pc' = pc /\ iter' = iter /\ asked' = asked /\ offset' = offset
         /\ inferCur' = inferCur /\ actorCur' = actorCur /\ available' = available /\ inferPc' = inferPc
         /\ AskedInv' /\ LedgerInv' /\ WellFormed(cfg)'
<1>0. ControlInv
  BY InvParts
<1>1. /\ UNCHANGED apart /\ cfg' = cfg /\ pc' = pc /\ iter' = iter /\ asked' = asked /\ offset' = offset
      /\ inferCur' = inferCur /\ actorCur' = actorCur /\ available' = available /\ inferPc' = inferPc
  BY DEF Actor, ActorStart, Train, ApplyScale, apart, instVars, groupVars, schedVars, inferVars
<1>2. AskedInv'
  BY <1>0, <1>1 DEF ControlInv, AskedInv, Sooner, RolloutCur
<1>3. LedgerInv' /\ WellFormed(cfg)'
  BY <1>0, <1>1 DEF ControlInv, LedgerInv, InLoop, RolloutCur, TotalGpus, RolloutBase, ActorGpus
<1>. QED  BY <1>1, <1>2, <1>3

\* What is left to show of a step of the actor.
LEMMA ActorRest ==
  ASSUME SchedInv, Actor, ActorTypes', ActorInv', WorldInv'
  PROVE  SchedInv'
<1>1. UNCHANGED apart /\ AskedInv' /\ LedgerInv' /\ WellFormed(cfg)'
  BY ActorLeaves
<1>. QED  BY <1>1, ApartStays, InvPartsNext DEF ControlInv

\* The world stays, and so does the size the actor was told.
LEMMA WorldStays ==
  ASSUME SchedInv, Actor, world' = world, Told' = Told
  PROVE  WorldInv'
<1>1. /\ cfg' = cfg /\ pc' = pc /\ iter' = iter /\ offset' = offset /\ inferCur' = inferCur /\ actorCur' = actorCur
  BY ActorLeaves
<1>. QED  BY <1>1 DEF SchedInv, WorldInv, Early, InLoop, RolloutCur, TotalGpus, RolloutBase, ActorGpus

LEMMA ActorStartInv ==
  ASSUME SchedInv, ActorStart
  PROVE  SchedInv'
<1>0. ControlInv /\ Actor
  BY InvParts DEF Actor
<1>1. /\ cfg' = cfg /\ pc' = pc /\ iter' = iter /\ inferPc' = inferPc
      /\ trained' = trained /\ world' = world /\ updates' = updates
      /\ actorPc = "pre" /\ actorPc' = "train" /\ scale # <<>> /\ scale' = Tail(scale)
  BY <1>0, ActorLeaves DEF ActorStart
<1>2. pc = "await" /\ iter = 0 /\ scale = <<0>> /\ trained = 0 /\ updates = 0
  BY <1>0, <1>1 DEF ControlInv, ActorInv
<1>3. scale' = <<>>
  <2>1. Tail(<<0>>) = <<>>
    OBVIOUS
  <2>. QED  BY <1>1, <1>2, <2>1, Zenon
<1>4. ActorTypes'
  <2>1. <<>> \in Seq(Nat)
    OBVIOUS
  <2>2. scale' \in Seq(Nat)
    BY <1>3, <2>1, Zenon
  <2>. QED  BY <1>0, <1>1, <2>2 DEF ControlInv, ActorTypes
<1>5. ActorInv'
  BY <1>1, <1>2, <1>3 DEF ActorInv
<1>6. Told' = world /\ Told = world
  BY <1>1, <1>2, <1>3 DEF Told
<1>7. WorldInv'
  BY <1>0, <1>1, <1>6, WorldStays
<1>. QED  BY <1>0, <1>4, <1>5, <1>7, ActorRest

LEMMA TrainInv ==
  ASSUME SchedInv, Train
  PROVE  SchedInv'
<1>0. ControlInv /\ Actor
  BY InvParts DEF Actor
<1>1. /\ cfg' = cfg /\ pc' = pc /\ iter' = iter /\ inferPc' = inferPc
      /\ trained' = trained + 1 /\ world' = world /\ updates' = updates + 1 /\ scale' = scale
      /\ actorPc = "train" /\ actorPc' = "sync"
  BY <1>0, ActorLeaves DEF Train
<1>2. updates = 0 /\ scale = <<>> /\ ((pc = "await" /\ iter = trained) \/ (Aside /\ trained = 0))
  BY <1>0, <1>1 DEF ControlInv, ActorInv
<1>3. ActorTypes'
  <2>1. trained' \in Nat /\ updates' \in Nat
    BY <1>0, <1>1, <1>2 DEF ControlInv, ActorTypes
  <2>. QED  BY <1>0, <1>1, <2>1 DEF ControlInv, ActorTypes
<1>4. ActorInv'
  <2>1. updates' = 1 /\ (trained = 0 => trained' = 1)
    BY <1>1, <1>2
  <2>. QED  BY <1>1, <1>2, <2>1 DEF ActorInv, Aside
<1>5. Told' = Told
  BY <1>1 DEF Told
<1>6. WorldInv'
  BY <1>0, <1>1, <1>5, WorldStays
<1>. QED  BY <1>0, <1>3, <1>4, <1>6, ActorRest

LEMMA ApplyScaleInv ==
  ASSUME SchedInv, ApplyScale
  PROVE  SchedInv'
<1>0. ControlInv /\ Actor
  BY InvParts DEF Actor
<1>1. /\ cfg' = cfg /\ pc' = pc /\ iter' = iter /\ offset' = offset /\ inferPc' = inferPc /\ inferCur' = inferCur
      /\ actorCur' = actorCur /\ trained' = trained /\ updates' = updates
      /\ actorPc = "sync" /\ scale # <<>> /\ scale' = Tail(scale)
      /\ world' = (IF Head(scale) = 0 THEN world ELSE Head(scale))
      /\ actorPc' = IF trained = cfg.iters THEN "done" ELSE "train"
  BY <1>0, ActorLeaves DEF ApplyScale
<1>2. PICK u \in Nat, a \in Nat, t \in Nat :
        /\ u = RolloutCur * cfg.mp /\ a = actorCur * cfg.amp /\ t = TotalGpus(cfg)
        /\ available \in Nat /\ inferCur \in Nat /\ world \in Nat /\ iter \in Int /\ trained \in Nat
        /\ cfg.iters \in Nat \ {0} /\ iter >= -1 /\ iter <= cfg.iters - 1
  BY <1>0, Numbers
<1>3. updates = 0 /\ Len(scale) = 1 /\ ((pc = "await" /\ iter = trained) \/ (pc = "over" /\ trained = cfg.iters))
  BY <1>0, <1>1 DEF ControlInv, ActorInv
<1>4. scale' = <<>> /\ scale' \in Seq(Nat)
  <2>1. scale \in Seq(Nat)
    BY <1>0 DEF ControlInv, ActorTypes
  <2>2. scale' \in Seq(Nat) /\ Len(scale') = 0
    BY <1>1, <1>3, <2>1
  <2>. QED  BY <2>2
<1>5. world' = a /\ Told' = a
  <2>1. world' = Told
    BY <1>1 DEF Told
  <2>2. Told = a
    BY <1>0, <1>2 DEF ControlInv, WorldInv
  <2>3. Told' = world'
    BY <1>4, Zenon DEF Told
  <2>. QED  BY <2>1, <2>2, <2>3
<1>6. ActorTypes'
  BY <1>0, <1>1, <1>2, <1>4, <1>5, ActorLeaves DEF ControlInv, ActorTypes
<1>7. ActorInv'
  <2>1. CASE pc = "await"
    <3>1. trained # cfg.iters /\ iter = trained
      BY <1>2, <1>3, <2>1
    <3>. QED  BY <1>1, <1>3, <1>4, <2>1, <3>1 DEF ActorInv
  <2>2. CASE pc # "await"
    BY <1>1, <1>3, <1>4, <2>2, ActorLeaves DEF ActorInv
  <2>. QED  BY <2>1, <2>2
<1>8. /\ TotalGpus(cfg)' = t /\ (RolloutCur * cfg.mp)' = u /\ (actorCur * cfg.amp)' = a
      /\ (InLoop' <=> InLoop) /\ (Early' <=> Early)
  <2>1. TotalGpus(cfg)' = t /\ (RolloutCur * cfg.mp)' = u /\ (actorCur * cfg.amp)' = a
    BY <1>1, <1>2 DEF TotalGpus, RolloutBase, ActorGpus, RolloutCur
  <2>. QED  BY <1>1, <2>1 DEF InLoop, Early
<1>9. InLoop => a <= t - u - inferCur
  <2>1. SUFFICES ASSUME InLoop PROVE a <= t - u - inferCur
    OBVIOUS
  <2>2. CASE pc = "await"
    <3>1. u + inferCur + a + available = t
      BY <1>0, <1>2, <2>1, <2>2 DEF ControlInv, LedgerInv
    <3>2. PICK x \in Nat, y \in Nat : x = inferCur /\ y = available /\ u + x + a + y = t
      BY <1>2, <3>1
    <3>. QED  BY <3>2
  <2>3. CASE pc = "over"
    <3>1. actorCur = cfg.actor /\ iter = cfg.iters - 1 /\ offset = cfg.instances
      BY <1>0, <1>2, <2>3 DEF ControlInv, WorldInv, AskedInv, Sooner
    <3>2. PICK p \in Nat, q \in Nat, b \in Nat, c \in Nat \ {0}, m \in Nat, e \in Nat :
            p = ActorGpus(cfg) /\ q = cfg.instances * cfg.mp /\ b = RolloutBase(cfg)
            /\ c = cfg.instances /\ m = cfg.mp /\ e = cfg.infer /\ t = b + q + e
      BY <1>0, <1>2, GpuCounts, CfgFacts DEF ControlInv
    <3>3. a = p /\ u = 0
      <4>1. a = p
        BY <1>2, <3>1, <3>2 DEF ActorGpus
      <4>2. RolloutCur = 0
        BY <3>1, <3>2 DEF RolloutCur
      <4>. QED  BY <1>2, <3>2, <4>1, <4>2
    <3>4. inferCur <= e
      BY <1>0, <3>2 DEF ControlInv, SchedulerTypes
    <3>5. p <= b + q
      <4>1. CASE cfg.pre
        <5>1. PICK k \in Nat : k = PreInstances /\ k * m = p /\ k < c
          BY <1>0, <3>2, <4>1, PreGpus DEF ControlInv
        <5>2. PICK j \in Nat : c = k + j
          BY <5>1, c - k \in Nat, c = k + (c - k)
        <5>3. c * m = k * m + j * m /\ j * m \in Nat
          BY <5>2
        <5>. QED  BY <3>2, <5>1, <5>3
      <4>2. CASE ~cfg.pre
        BY <1>0, <3>2, <4>2, GpuCounts DEF ControlInv
      <4>. QED  BY <4>1, <4>2
    <3>. QED  BY <1>2, <3>2, <3>3, <3>4, <3>5
  <2>. QED  BY <1>3, <2>2, <2>3
<1>10. WorldInv'
  <2>1. Early \/ pc = "over" => actorCur = cfg.actor
    BY <1>0 DEF ControlInv, WorldInv
  <2>2. world' <= a
    BY <1>2, <1>5
  <2>3. InLoop' => world' <= TotalGpus(cfg)' - (RolloutCur * cfg.mp)' - inferCur'
    BY <1>1, <1>5, <1>8, <1>9
  <2>. QED  BY <1>1, <1>5, <1>8, <2>1, <2>2, <2>3, ActorLeaves DEF WorldInv
<1>. QED  BY <1>0, <1>6, <1>7, <1>10, ActorRest

\* After the last training step all instances are released.
LEMMA NextStepInv ==
  ASSUME SchedInv, NextStep
  PROVE  SchedInv'
<1>0. ControlInv
  BY InvParts
<1>1. /\ cfg' = cfg /\ aborted' = aborted /\ responses' = responses /\ iter' = iter /\ asked' = asked
      /\ reports' = reports /\ offset' = offset /\ inferCur' = inferCur /\ actorCur' = actorCur
      /\ available' = available /\ world' = world /\ scale' = scale /\ updates' = updates
      /\ trained' = 0 /\ rolloutPc' = StepStart(cfg).rolloutPc /\ actorPc' = StepStart(cfg).actorPc
      /\ left' = StepStart(cfg).left /\ inferPc' = (IF cfg.infer = 0 THEN "offloaded" ELSE "run")
      /\ pc = "over" /\ pc' = "start" /\ actorPc = "done"
  BY DEF NextStep, StepOver, ledger
<1>2. Instances' = Instances /\ Groups' = Groups /\ Resp' = Resp
  BY <1>1, SameSets
<1>3. /\ rolloutPc' = [i \in Instances |-> "idle"] /\ left' = [g \in Groups |-> cfg.size]
      /\ actorPc' = IF cfg.pre THEN "pre" ELSE "train"
  BY <1>1 DEF StepStart, Instances, Groups
<1>4. cfg.size \in Nat /\ cfg.iters \in Nat \ {0} /\ cfg.pre \in BOOLEAN /\ cfg.infer \in Nat
  BY <1>0, CfgFacts DEF ControlInv
<1>5. InstanceTypes'
  BY <1>1, <1>2, <1>3, <1>4 DEF SchedInv, TypeInv, InstanceTypes
<1>6. offset = cfg.instances
  BY <1>0, <1>1, <1>4 DEF ControlInv, AskedInv, Sooner
<1>7. OffloadInv'
  <2>1. ASSUME NEW i \in Instances, NEW k \in DOMAIN responses[i] PROVE responses[i][k].act # "Offloaded"
    <3>1. ~(i > offset)
      BY <1>0, <1>6, CfgFacts DEF Instances, ControlInv
    <3>. QED  BY <1>1, <3>1 DEF SchedInv, OffloadInv
  <2>. QED  BY <1>1, <1>2, <2>1 DEF OffloadInv
<1>8. updates = 0 /\ scale = <<>>
  BY <1>0, <1>1 DEF ControlInv, ActorInv
<1>9. WellFormed(cfg)' /\ SchedulerTypes' /\ ActorTypes'
  BY <1>0, <1>1, <1>2, <1>4 DEF ControlInv, SchedulerTypes, ActorTypes
<1>10. PreInv' /\ AskedInv'
  BY <1>1 DEF PreInv, AskedInv
<1>11. ActorInv'
  BY <1>1, <1>3, <1>4, <1>8 DEF ActorInv, Early, Aside
<1>12. WorldInv' /\ LedgerInv'
  <2>1. Told = actorCur * cfg.amp /\ actorCur = cfg.actor /\ Told = world /\ Told' = world
    BY <1>0, <1>1, <1>8 DEF ControlInv, WorldInv, Told
  <2>2. world \in Int /\ world <= world
    BY <1>0 DEF ControlInv, ActorTypes
  <2>. QED  BY <1>1, <2>1, <2>2 DEF WorldInv, LedgerInv, InLoop
<1>. QED  BY <1>5, <1>7, <1>9, <1>10, <1>11, <1>12, InvPartsNext DEF ControlInv

LEMMA StutterInv ==
  ASSUME SchedInv, UNCHANGED allVars
  PROVE  SchedInv'
<1>1. /\ UNCHANGED othersStay /\ responses' = responses /\ rolloutPc' = rolloutPc /\ left' = left /\ aborted' = aborted
      /\ cfg' = cfg
  BY DEF allVars, othersStay, instVars, groupVars, schedVars, inferVars, actorVars
<1>2. 1 \in Instances
  BY CfgFacts DEF SchedInv, TypeInv, Instances
<1>3. InstanceTypes'
  BY <1>1, SameSets DEF SchedInv, TypeInv, InstanceTypes
<1>4. Seen(1)
  BY <1>1, <1>3 DEF Seen, Quietly
<1>. QED  BY <1>2, <1>4, SeenInv

LEMMA InitInv ==
  ASSUME \A c \in Configs : WellFormed(c), SchedulerInit
  PROVE  SchedInv
<1>1. WellFormed(cfg)
  BY DEF SchedulerInit
<1>2. /\ rolloutPc = [i \in Instances |-> "idle"] /\ left = [g \in Groups |-> cfg.size]
      /\ actorPc = IF cfg.pre THEN "pre" ELSE "train"
  BY DEF SchedulerInit, StepStart, Instances, Groups
<1>3. /\ aborted = [i \in Instances |-> <<>>] /\ responses = [i \in Instances |-> <<>>]
      /\ reports = [i \in Instances |-> NoReport] /\ pc = "start" /\ iter = -1 /\ offset = 0 /\ inferCur = cfg.infer
      /\ actorCur = cfg.actor /\ available = 0 /\ inferPc = (IF cfg.infer = 0 THEN "offloaded" ELSE "run")
      /\ trained = 0 /\ world = ActorGpus(cfg) /\ scale = <<>> /\ updates = 0
  BY DEF SchedulerInit
<1>4. /\ cfg.instances \in Nat \ {0} /\ cfg.infer \in Nat /\ cfg.iters \in Nat \ {0} /\ cfg.size \in Nat
      /\ cfg.pre \in BOOLEAN /\ cfg.actor \in ValidDpSizes(cfg)
  BY <1>1, CfgFacts
<1>5. \A i \in Instances : aborted[i] = <<>> /\ responses[i] = <<>>
  BY <1>3
<1>6. InstanceTypes
  <2>1. <<>> \in Seq(Groups) /\ <<>> \in Seq(Resp)
    OBVIOUS
  <2>2. aborted \in [Instances -> Seq(Groups)] /\ responses \in [Instances -> Seq(Resp)]
    BY <1>3, <2>1, Zenon
  <2>3. /\ left \in [Groups -> Int]
        /\ rolloutPc \in [Instances -> {"idle", "loop", "wait", "offload", "done"}]
    BY <1>2, <1>4
  <2>. QED  BY <2>2, <2>3 DEF InstanceTypes
<1>7. SchedulerTypes
  <2>1. NoReport \in Counts
    BY NoReportType
  <2>2. reports \in [Instances -> Counts]
    BY <1>3, <2>1
  <2>. QED  BY <1>3, <1>4, <2>2 DEF SchedulerTypes
<1>8. ActorTypes
  <2>1. <<>> \in Seq(Nat)
    OBVIOUS
  <2>2. scale \in Seq(Nat)
    BY <1>3, <2>1, Zenon
  <2>3. world \in Nat
    BY <1>1, <1>3, GpuCounts
  <2>. QED  BY <1>3, <2>2, <2>3 DEF ActorTypes
<1>9. OffloadInv
  <2>1. \A i \in Instances : DOMAIN responses[i] = {}
    <3>1. DOMAIN <<>> = {}
      OBVIOUS
    <3>. QED  BY <1>5, <3>1, Zenon
  <2>. QED  BY <1>3, <2>1 DEF OffloadInv
<1>10. PreInv /\ AskedInv
  BY <1>3 DEF PreInv, AskedInv
<1>11. ActorInv
  BY <1>2, <1>3, <1>4 DEF ActorInv, Early, Aside
<1>12. WorldInv /\ LedgerInv
  <2>1. Told = world
    BY <1>3 DEF Told
  <2>2. world = actorCur * cfg.amp /\ world \in Nat
    BY <1>1, <1>3, GpuCounts DEF ActorGpus
  <2>3. ~InLoop
    BY <1>3 DEF InLoop
  <2>. QED  BY <1>3, <2>1, <2>2, <2>3 DEF WorldInv, LedgerInv
<1>. QED  BY <1>1, <1>6, <1>7, <1>8, <1>9, <1>10, <1>11, <1>12 DEF SchedInv, TypeInv

LEMMA NextInv ==
  ASSUME SchedInv, [SchedulerNext]_allVars
  PROVE  SchedInv'
<1>1. CASE (\E i \in Instances : Rollout(i) \/ Serving(i)) \/ \E g \in Groups : FinishSequence(g)
  BY <1>1, InstanceSeen, SeenInv DEF SchedInv
<1>2. CASE Schedule
  BY <1>2, StartInv, AskReportsInv, TakeReportsInv, MigrateOutInv, MigrateInInv, FinishInv, OffloadedInv, PrepareInv,
     ActorReadyInv, ReleaseInferenceInv, AllocateInv DEF Schedule
<1>3. CASE Inference
  BY <1>3, InferenceInv
<1>4. CASE Actor
  BY <1>4, ActorStartInv, TrainInv, ApplyScaleInv DEF Actor
<1>5. CASE NextStep
  BY <1>5, NextStepInv
<1>6. CASE UNCHANGED allVars
  BY <1>6, StutterInv
<1>. QED  BY <1>1, <1>2, <1>3, <1>4, <1>5, <1>6 DEF SchedulerNext, Terminated

-----------------------------------------------------------------------------
(***************************************************************************)
(* What follows from the invariant.                                        *)
(***************************************************************************)
LEMMA InvImpliesLedger == SchedInv => LedgerIsTrue
BY DEF SchedInv, LedgerInv, OffloadInv, InLoop, LedgerIsTrue

\* Rollout ends where inference begins.
LEMMA RolloutAndInfer ==
  ASSUME WellFormed(cfg), NEW i \in Instances
  PROVE  RolloutUses(i) \cap InferUses = {}
<1>1. PICK b \in Nat, c \in Nat, m \in Nat, e \in Nat, t \in Nat :
        /\ b = RolloutBase(cfg) /\ c = cfg.instances /\ m = cfg.mp /\ e = cfg.infer /\ t = TotalGpus(cfg)
        /\ t = b + c * m + e
  BY CfgFacts, GpuCounts
<1>2. PICK k \in Nat, j \in Nat : i = k + 1 /\ c = k + 1 + j
  <2>1. i \in Nat /\ i >= 1 /\ i <= c
    BY <1>1 DEF Instances
  <2>2. i - 1 \in Nat /\ c - i \in Nat /\ i = (i - 1) + 1 /\ c = (i - 1) + 1 + (c - i)
    BY <1>1, <2>1
  <2>. QED  BY <2>2
<1>3. PICK x \in Nat, y \in Nat : x = k * m /\ y = j * m /\ c * m = x + m + y
  <2>1. k * m \in Nat /\ j * m \in Nat /\ (k + 1 + j) * m = k * m + m + j * m
    OBVIOUS
  <2>. QED  BY <1>2, <2>1
<1>4. RolloutUses(i) \subseteq (b + x) .. (b + x + m - 1)
  <2>1. RolloutBase(cfg) + (i - 1) * cfg.mp = b + x
    <3>1. i - 1 = k
      BY <1>2
    <3>. QED  BY <1>1, <1>3, <3>1
  <2>. QED  BY <1>1, <2>1 DEF RolloutUses
<1>5. InferUses \subseteq (t - e) .. (t - 1)
  BY <1>1 DEF InferUses
<1>6. b + x + m - 1 < t - e
  BY <1>1, <1>3
<1>. QED  BY <1>4, <1>5, <1>6

LEMMA ActorAndInfer ==
  ASSUME SchedInv
  PROVE  ActorUses \cap InferUses = {}
<1>0. ControlInv
  BY InvParts
<1>1. SUFFICES ASSUME actorPc \in {"train", "sync"}, inferPc # "offloaded"
               PROVE  world <= TotalGpus(cfg) - cfg.infer
  <2>1. PICK w \in Nat, t \in Nat, e \in Nat : w = world /\ t = TotalGpus(cfg) /\ e = cfg.infer
    BY <1>0, GpuCounts, CfgFacts DEF ControlInv, ActorTypes
  <2>2. CASE actorPc \in {"train", "sync"} /\ inferPc # "offloaded"
    BY <1>1, <2>1, <2>2 DEF ActorUses, InferUses
  <2>3. CASE ~(actorPc \in {"train", "sync"} /\ inferPc # "offloaded")
    BY <2>3 DEF ActorUses, InferUses
  <2>. QED  BY <2>2, <2>3
<1>2. PICK u \in Nat, a \in Nat, t \in Nat :
        /\ u = RolloutCur * cfg.mp /\ a = actorCur * cfg.amp /\ t = TotalGpus(cfg)
        /\ available \in Nat /\ inferCur \in Nat /\ world \in Nat /\ iter \in Int /\ trained \in Nat
        /\ cfg.iters \in Nat \ {0} /\ iter >= -1 /\ iter <= cfg.iters - 1
  BY <1>0, Numbers
<1>3. CASE InLoop
  <2>1. inferCur = cfg.infer
    BY <1>0, <1>1, <1>3 DEF ControlInv, LedgerInv, SchedulerTypes
  <2>2. world <= t - u - inferCur
    BY <1>0, <1>2, <1>3 DEF ControlInv, WorldInv
  <2>. QED  BY <1>2, <2>1, <2>2
<1>4. CASE ~InLoop
  <2>1. Aside /\ scale = <<>>
    BY <1>0, <1>1, <1>2, <1>4 DEF ControlInv, ActorInv, AskedInv, InLoop, Busy
  <2>2. Early
    BY <1>0, <2>1 DEF ControlInv, PreInv, Early, Aside
  <2>3. world = ActorGpus(cfg)
    BY <1>0, <2>1, <2>2 DEF ControlInv, WorldInv, Told, ActorGpus
  <2>4. PICK b \in Nat, q \in Nat, e \in Nat : b = ActorGpus(cfg) /\ q = cfg.instances * cfg.mp /\ e = cfg.infer /\ t = b + q + e
    BY <1>0, <1>2, <2>1, GpuCounts, CfgFacts DEF ControlInv, Aside
  <2>. QED  BY <1>2, <2>3, <2>4
<1>. QED  BY <1>3, <1>4

LEMMA ActorAndRollout ==
  ASSUME SchedInv, cfg.wait, NEW i \in Instances
  PROVE  RolloutUses(i) \cap ActorUses = {}
<1>0. ControlInv
  BY InvParts
<1>1. PICK b \in Nat, c \in Nat, m \in Nat, e \in Nat, t \in Nat, o \in Nat, w \in Nat :
        /\ b = RolloutBase(cfg) /\ c = cfg.instances /\ m = cfg.mp /\ e = cfg.infer /\ t = TotalGpus(cfg)
        /\ o = offset /\ w = world /\ o <= c /\ t = b + c * m + e
  <2>1. /\ RolloutBase(cfg) \in Nat /\ cfg.instances \in Nat /\ cfg.mp \in Nat /\ cfg.infer \in Nat /\ TotalGpus(cfg) \in Nat
        /\ TotalGpus(cfg) = RolloutBase(cfg) + cfg.instances * cfg.mp + cfg.infer
    BY <1>0, CfgFacts, GpuCounts DEF ControlInv
  <2>2. offset \in Nat /\ offset <= cfg.instances /\ world \in Nat
    BY <1>0, <2>1 DEF ControlInv, SchedulerTypes, ActorTypes
  <2>. QED  BY <2>1, <2>2, Zenon
<1>2. i \in Nat /\ i >= 1 /\ i <= c
  BY <1>1 DEF Instances
<1>3. PICK k \in Nat : i = k + 1
  BY <1>2, i - 1 \in Nat, i = (i - 1) + 1
<1>4. SUFFICES ASSUME actorPc \in {"train", "sync"}, rolloutPc[i] # "done"
               PROVE  w <= b + k * m
  <2>1. PICK x \in Nat : x = k * m
    BY <1>1
  <2>2. RolloutBase(cfg) + (i - 1) * cfg.mp = b + x
    <3>1. i - 1 = k
      BY <1>3
    <3>. QED  BY <1>1, <2>1, <3>1
  <2>3. CASE actorPc \in {"train", "sync"} /\ rolloutPc[i] # "done"
    <3>1. w <= b + x
      BY <1>4, <2>1, <2>3
    <3>2. ActorUses = 0 .. w - 1 /\ RolloutUses(i) = (b + x) .. (b + x + m - 1)
      BY <1>1, <2>2, <2>3 DEF ActorUses, RolloutUses
    <3>. QED  BY <3>1, <3>2
  <2>4. CASE ~(actorPc \in {"train", "sync"} /\ rolloutPc[i] # "done")
    BY <2>4 DEF ActorUses, RolloutUses
  <2>. QED  BY <2>3, <2>4
<1>5. CASE InLoop
  <2>1. i > offset
    BY <1>1, <1>2, <1>4, <1>5 DEF SchedInv, OffloadInv, InLoop
  <2>2. PICK j \in Nat, r \in Nat : k = o + j /\ c = o + r
    <3>1. k - o \in Nat /\ c - o \in Nat /\ k = o + (k - o) /\ c = o + (c - o)
      BY <1>1, <1>3, <2>1
    <3>. QED  BY <3>1
  <2>3. inferCur = e
    BY <1>0, <1>1, <1>2, <1>5, <2>1 DEF ControlInv, LedgerInv, SchedulerTypes
  <2>4. RolloutCur * cfg.mp = r * m
    <3>1. RolloutCur = r
      BY <1>1, <2>2 DEF RolloutCur
    <3>. QED  BY <1>1, <3>1
  <2>5. w <= t - r * m - e
    BY <1>0, <1>1, <1>5, <2>3, <2>4 DEF ControlInv, WorldInv
  <2>6. PICK x \in Nat, y \in Nat, z \in Nat :
          x = o * m /\ y = j * m /\ z = r * m /\ c * m = x + z /\ k * m = x + y
    <3>1. o * m \in Nat /\ j * m \in Nat /\ r * m \in Nat /\ (o + r) * m = o * m + r * m /\ (o + j) * m = o * m + j * m
      OBVIOUS
    <3>. QED  BY <2>2, <3>1
  <2>. QED  BY <1>1, <2>5, <2>6
<1>6. CASE ~InLoop
  <2>1. Aside /\ scale = <<>>
    BY <1>0, <1>4, <1>6 DEF ControlInv, ActorInv, AskedInv, InLoop, Busy
  <2>2. Early
    BY <1>0, <2>1 DEF ControlInv, PreInv, Early, Aside
  <2>3. world = ActorGpus(cfg)
    BY <1>0, <2>1, <2>2 DEF ControlInv, WorldInv, Told, ActorGpus
  <2>4. w = b
    BY <1>0, <1>1, <2>1, <2>3, GpuCounts DEF ControlInv, Aside
  <2>5. k * m \in Nat
    BY <1>1
  <2>. QED  BY <2>4, <2>5
<1>. QED  BY <1>5, <1>6

LEMMA InvImpliesExclusive == SchedInv => GpusExclusiveIfWaiting
<1>. SUFFICES ASSUME SchedInv, cfg.wait PROVE GpusExclusive
  BY DEF GpusExclusiveIfWaiting
<1>1. WellFormed(cfg)
  BY DEF SchedInv, TypeInv
<1>. QED  BY <1>1, RolloutAndInfer, ActorAndInfer, ActorAndRollout DEF GpusExclusive

\* The scheduler's invariant holds in every behaviour, for every set of configurations
\* that pass the assertions of the scheduler and of the placement.
THEOREM SchedulerInvariant ==
  SchedulerSpec => []SchedInv
<1>1. SchedulerInit => SchedInv
  BY InitInv, DynamicSchedulerAssumption
<1>2. SchedInv /\ [SchedulerNext]_allVars => SchedInv'
  BY NextInv
<1>. QED  BY <1>1, <1>2, PTL DEF SchedulerSpec

\* Where the actor waits for rollout and inference before its last step, no GPU is ever
\* computed on by two components: the actor's world grows only over instances that have
\* offloaded, whatever is under way between the parties.
THEOREM GpusAreExclusive ==
  SchedulerSpec => []GpusExclusiveIfWaiting
BY SchedulerInvariant, InvImpliesExclusive, PTL

\* The GPUs the components hold and those the scheduler has left are all GPUs, whenever it
\* counts them, and an instance that it counts as released has offloaded.
THEOREM LedgerStaysTrue ==
  SchedulerSpec => []LedgerIsTrue
BY SchedulerInvariant, InvImpliesLedger, PTL
=============================================================================
