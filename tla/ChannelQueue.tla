----------------------------- MODULE ChannelQueue -----------------------------
(***************************************************************************)
(* The queues of a channel: the ChannelWorker actor.                       *)
(*                                                                         *)
(* A channel is an actor that keeps one FIFO queue (PeekQueue, a subclass  *)
(* of asyncio.Queue) per key.  Every put, get, get_any or get_batch of a   *)
(* client is a coroutine of the actor's single event loop.  A coroutine    *)
(* runs until it waits, on a full queue to put into, on an empty queue to  *)
(* get from or peek at, or for the polling interval of get_any; another    *)
(* one's put or get then wakes the first waiter of the queue, which checks *)
(* its condition again when the loop reaches it.                           *)
(*                                                                         *)
(* Source: scheduler/channel/channel_worker.py.  The event loop and the    *)
(* waiter lists belong to asyncio and are modelled from the way PeekQueue  *)
(* and ChannelWorker use them.  No call is cancelled.                      *)
(***************************************************************************)
EXTENDS Integers, Sequences, FiniteSets, Functions

CONSTANTS
  Keys,      \* keys of the channel
  Calls,     \* identifiers of the clients' calls
  Programs   \* what the clients may do: [maxSize, call, matched]

(***************************************************************************)
(* maxSize  maxsize of every queue, 0 for an unbounded one                 *)
(* matched  whether no call of the program may wait for ever: there are    *)
(*          items enough for those that take, and room for those that put  *)
(* call     call -> [op, items, keys, target, patience]:                   *)
(*   op     "put" (put, put_many), "get" (get), "any" (get_any) or "batch" *)
(*          (get_batch)                                                    *)
(*   items  for a put: the sequence of items to insert                     *)
(*   keys   for the others: the sequence of keys to take from              *)
(*   target for a batch: target_weight                                     *)
(*   patience "none" (nowait), "deadline" (timeout_s, "any" only),         *)
(*          "forever" (the only one of get_batch)                          *)
(***************************************************************************)
Items == [key : Keys, id : Nat, weight : Nat]

GoodCall(c) ==
  /\ c.op \in {"put", "get", "any", "batch"}
  /\ c.items \in Seq(Items)
  /\ c.keys \in Seq(Keys)
  /\ IF c.op = "put" THEN c.items # <<>> ELSE c.keys # <<>>
  /\ c.op \in {"get", "batch"} => Len(c.keys) = 1
  /\ c.target \in Nat
  /\ CASE c.op = "any"   -> c.patience \in {"none", "deadline", "forever"}
       [] c.op = "batch" -> c.patience = "forever"
       [] OTHER          -> c.patience \in {"none", "forever"}

\* Every item of a program is an object of its own.
ItemsDiffer(call) ==
  \A c, d \in Calls : \A i \in DOMAIN call[c].items, j \in DOMAIN call[d].items :
    call[c].items[i] = call[d].items[j] => c = d /\ i = j

ASSUME ChannelQueueAssumption ==
  \A p \in Programs :
    /\ p.maxSize \in Nat /\ p.matched \in BOOLEAN
    /\ \A c \in Calls : GoodCall(p.call[c])
    /\ ItemsDiffer(p.call)

VARIABLES
  program,  \* the clients' program of this execution; no step changes it
  queue,    \* _queue_map: key -> items, oldest first
  getters,  \* key -> calls waiting for an item, in order
  putters,  \* key -> calls waiting for room, in order
  ready,    \* the event loop: calls to run, in order; the first one runs
  status,   \* call -> "new", "ready", "waiting", "sleeping", "done"
  pos,      \* call -> items already put; for get_any, its rr
  taken,    \* call -> items it has taken
  weight,   \* call -> current_weight of a get_batch
  outcome   \* call -> "none", "ok", "full", "empty"

vars == <<program, queue, getters, putters, ready, status, pos, taken, weight, outcome>>

MaxSize == program.maxSize
Call    == program.call

Init ==
  /\ program \in Programs
  /\ queue = [k \in Keys |-> <<>>]
  /\ getters = [k \in Keys |-> <<>>]
  /\ putters = [k \in Keys |-> <<>>]
  /\ ready = <<>>
  /\ status = [c \in Calls |-> "new"]
  /\ pos = [c \in Calls |-> 0]
  /\ taken = [c \in Calls |-> <<>>]
  /\ weight = [c \in Calls |-> 0]
  /\ outcome = [c \in Calls |-> "none"]

-----------------------------------------------------------------------------
Full(k) == MaxSize > 0 /\ Len(queue[k]) >= MaxSize
Running(c) == ready # <<>> /\ Head(ready) = c
Key(c) == Call[c].keys[1]
Next1(c) == Call[c].items[pos[c] + 1]

\* _wakeup_next: the first of the waiters, if any, becomes ready.
Woken(waiters) == IF waiters = <<>> THEN <<>> ELSE <<Head(waiters)>>

DropFirst(waiters) == IF waiters = <<>> THEN <<>> ELSE Tail(waiters)

\* The loop after its running call c stopped (waits or returned) or goes on,
\* having woken the calls w.
Stops(c, st, w) ==
  /\ ready' = Tail(ready) \o w
  /\ status' = [x \in Calls |-> IF x = c THEN st ELSE IF x \in Range(w) THEN "ready" ELSE status[x]]
GoesOn(w) ==
  /\ ready' = ready \o w
  /\ status' = [x \in Calls |-> IF x \in Range(w) THEN "ready" ELSE status[x]]

Returns(c, o, w) == Stops(c, "done", w) /\ outcome' = [outcome EXCEPT ![c] = o]

\* A client's call arrives at the actor.
Arrive(c) ==
  /\ status[c] = "new"
  /\ status' = [status EXCEPT ![c] = "ready"]
  /\ ready' = Append(ready, c)
  /\ UNCHANGED <<program, queue, getters, putters, pos, taken, weight, outcome>>

PutYields(c) ==
  LET it == Next1(c)
      w  == Woken(getters[it.key])
  IN /\ Running(c) /\ Call[c].op = "put" /\ ~Full(it.key)
     /\ queue' = [queue EXCEPT ![it.key] = Append(@, it)]
     /\ getters' = [getters EXCEPT ![it.key] = DropFirst(@)]
     /\ pos' = [pos EXCEPT ![c] = @ + 1]
     /\ IF pos'[c] = Len(Call[c].items)
        THEN Returns(c, "ok", w)
        ELSE Stops(c, "ready", Append(w, c)) /\ UNCHANGED outcome
     /\ UNCHANGED <<program, putters, taken, weight>>

\* put_nowait of one item; it wakes the first getter of the key.
PutItem(c) ==
  LET it == Next1(c)
      w  == Woken(getters[it.key])
  IN /\ Running(c) /\ Call[c].op = "put" /\ ~Full(it.key)
     /\ queue' = [queue EXCEPT ![it.key] = Append(@, it)]
     /\ getters' = [getters EXCEPT ![it.key] = DropFirst(@)]
     /\ pos' = [pos EXCEPT ![c] = @ + 1]
     /\ IF pos'[c] = Len(Call[c].items)
        THEN Returns(c, "ok", w)
        ELSE GoesOn(w) /\ UNCHANGED outcome
     /\ UNCHANGED <<program, putters, taken, weight>>

\* Queue.put on a full queue waits, put_nowait raises QueueFull.
PutBlocked(c) ==
  LET k == Next1(c).key
  IN /\ Running(c) /\ Call[c].op = "put" /\ Full(k)
     /\ IF Call[c].patience = "none"
        THEN Returns(c, "full", <<>>) /\ UNCHANGED putters
        ELSE /\ putters' = [putters EXCEPT ![k] = Append(@, c)]
             /\ Stops(c, "waiting", <<>>) /\ UNCHANGED outcome
     /\ UNCHANGED <<program, queue, getters, pos, taken, weight>>

PeekFrom(c, k) ==
  /\ queue[k] # <<>>
  /\ taken' = [taken EXCEPT ![c] = Append(@, Head(queue[k]))]
  /\ putters' = [putters EXCEPT ![k] = DropFirst(@)]
  /\ UNCHANGED <<program, queue, getters, pos>>

\* get_nowait on a queue that is not empty; it wakes the key's first putter.
TakeFrom(c, k) ==
  /\ queue[k] # <<>>
  /\ queue' = [queue EXCEPT ![k] = Tail(@)]
  /\ taken' = [taken EXCEPT ![c] = Append(@, Head(queue[k]))]
  /\ putters' = [putters EXCEPT ![k] = DropFirst(@)]
  /\ UNCHANGED <<program, getters, pos>>

GetItem(c) ==
  /\ Running(c) /\ Call[c].op = "get"
  /\ TakeFrom(c, Key(c))
  /\ Returns(c, "ok", Woken(putters[Key(c)]))
  /\ UNCHANGED weight

WaitAtTail(c, k) == getters' = [getters EXCEPT ![k] = Append(@, c)]

\* A get or a peek of an empty queue waits, get_nowait raises QueueEmpty.
GetBlocked(c) ==
  /\ Running(c) /\ Call[c].op \in {"get", "batch"}
  /\ queue[Key(c)] = <<>>
  /\ IF Call[c].patience = "none"
     THEN Returns(c, "empty", <<>>) /\ UNCHANGED getters
     ELSE /\ WaitAtTail(c, Key(c))
          /\ Stops(c, "waiting", <<>>) /\ UNCHANGED outcome
  /\ UNCHANGED <<program, queue, putters, pos, taken, weight>>

PolledFirst(c, i) == Call[c].keys[1]

\* The keys of a get_any in the order this poll tries them.
Polled(c, i) == Call[c].keys[((pos[c] + i) % Len(Call[c].keys)) + 1]

GetAny(c) ==
  /\ Running(c) /\ Call[c].op = "any"
  /\ \E i \in 0 .. Len(Call[c].keys) - 1 :
       /\ \A j \in 0 .. i - 1 : queue[Polled(c, j)] = <<>>
       /\ TakeFrom(c, Polled(c, i))
       /\ Returns(c, "ok", Woken(putters[Polled(c, i)]))
       /\ UNCHANGED weight

\* Nothing under any key: give up if told to or past the deadline, or sleep
\* for the polling interval and begin one key further.
GetAnyMissed(c) ==
  /\ Running(c) /\ Call[c].op = "any"
  /\ \A i \in 0 .. Len(Call[c].keys) - 1 : queue[Polled(c, i)] = <<>>
  /\ \/ /\ Call[c].patience \in {"none", "deadline"}
        /\ Returns(c, "empty", <<>>)
        /\ UNCHANGED pos
     \/ /\ Call[c].patience \in {"deadline", "forever"}
        /\ pos' = [pos EXCEPT ![c] = (@ + 1) % Len(Call[c].keys)]
        /\ Stops(c, "sleeping", <<>>) /\ UNCHANGED outcome
  /\ UNCHANGED <<program, queue, getters, putters, taken, weight>>

PollAgain(c) ==
  /\ status[c] = "sleeping"
  /\ status' = [status EXCEPT ![c] = "ready"]
  /\ ready' = Append(ready, c)
  /\ UNCHANGED <<program, queue, getters, putters, pos, taken, weight, outcome>>

FitsAlone(c) == Head(queue[Key(c)]).weight <= Call[c].target
Fits(c) == weight[c] + Head(queue[Key(c)]).weight <= Call[c].target

\* One round of get_batch: peek, and take what was peeked if it fits.
BatchTake(c) ==
  /\ Running(c) /\ Call[c].op = "batch"
  /\ queue[Key(c)] # <<>>
  /\ Fits(c)
  /\ TakeFrom(c, Key(c))
  /\ weight' = [weight EXCEPT ![c] = @ + Head(queue[Key(c)]).weight]
  /\ LET w == Woken(putters[Key(c)])
     IN IF weight'[c] >= Call[c].target
        THEN Returns(c, "ok", w)
        ELSE GoesOn(w) /\ UNCHANGED outcome

\* The next item would exceed the target: return the batch, leave the item.
BatchStop(c) ==
  /\ Running(c) /\ Call[c].op = "batch"
  /\ queue[Key(c)] # <<>>
  /\ ~Fits(c)
  /\ Returns(c, "ok", <<>>)
  /\ UNCHANGED <<program, queue, getters, putters, pos, taken, weight>>

RunCall(c) ==
  \/ PutItem(c) \/ PutBlocked(c) \/ GetItem(c) \/ GetBlocked(c)
  \/ GetAny(c) \/ GetAnyMissed(c) \/ BatchTake(c) \/ BatchStop(c)

AllReturned == \A c \in Calls : status[c] = "done"
Finished == AllReturned /\ UNCHANGED vars

Next == (\E c \in Calls : Arrive(c) \/ PollAgain(c) \/ RunCall(c)) \/ Finished

Spec == Init /\ [][Next]_vars

\* Calls reach the actor, its event loop keeps running, timers expire.
Fairness == \A c \in Calls : WF_vars(Arrive(c) \/ PollAgain(c)) /\ WF_vars(RunCall(c))

FairSpec == Spec /\ Fairness

-----------------------------------------------------------------------------
(***************************************************************************)
(* Properties.                                                             *)
(***************************************************************************)
\* Where an item is: a position in a queue or among what a call has taken.
At(items, it) == {i \in DOMAIN items : items[i] = it}
InQueues(it) == UNION {{"queue"} \X {k} \X At(queue[k], it) : k \in Keys}
WithCalls(it) == UNION {{"call"} \X {c} \X At(taken[c], it) : c \in Calls}
Places(it) == InQueues(it) \cup WithCalls(it)

\* An item that was put is in one place, in its queue or with one call, and no
\* queue holds more than its maximum, however puts and gets wake each other.
ExactlyOnce ==
  /\ MaxSize > 0 => \A k \in Keys : Len(queue[k]) <= MaxSize
  /\ \A c \in Calls : Call[c].op = "put" =>
       \A i \in DOMAIN Call[c].items :
         Cardinality(Places(Call[c].items[i])) = (IF i <= pos[c] THEN 1 ELSE 0)

\* In an unbounded channel a put_many is atomic: no other call runs between
\* its first and its last item, so whoever sees one of them sees them all.
\* The environment managers count on it when they send to all their slots.
PutManyAtomic ==
  MaxSize = 0 => \A c \in Calls : Call[c].op = "put" =>
    Running(c) \/ pos[c] \in {0, Len(Call[c].items)}

\* A batch never weighs more than its target, and is returned only when it
\* reached it or the item it peeked at would have exceeded it, however many
\* other calls took items from the queue while it waited.
BatchIsMaximal ==
  [][\A c \in Calls : Call[c].op = "batch" /\ status[c] # "done" /\ status'[c] = "done" =>
       /\ weight'[c] <= Call[c].target
       /\ \/ weight'[c] = Call[c].target
          \/ /\ queue'[Key(c)] # <<>>
             /\ weight'[c] + Head(queue'[Key(c)]).weight > Call[c].target]_vars

\* Where the calls ask for no more items than are put, every call returns.
EveryCallReturns == program.matched => <>AllReturned
=============================================================================
