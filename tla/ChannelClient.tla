---------------------------- MODULE ChannelClient ----------------------------
(***************************************************************************)
(* The client side of a channel: Channel's calls made by the threads of    *)
(* several worker processes, down to the actor that keeps the queues.      *)
(*                                                                         *)
(* A call travels along two roads.  A remote call tells the actor what to  *)
(* do (AsyncChannelWork: per process and channel key one coroutine, with   *)
(* at most one remote call under way); the data goes through the ordered   *)
(* point-to-point connection of the process with the actor (Worker.send    *)
(* and recv).  Nothing ties a message to its remote call: the actor's put  *)
(* takes the next message of the process, whoever sent it, and a receive   *)
(* gets the actor's next answer, whoever asked.  What puts them together   *)
(* again are the key inside a message, the query id of asynchronous gets   *)
(* (AsyncChannelCommWork) and the locks of the SerializedChannel wrappers. *)
(*                                                                         *)
(* Source: scheduler/channel/channel.py, channel_worker.py (the handlers;  *)
(* ChannelQueue has the queues and their waiters, here the channel is      *)
(* unbounded), collective/async_work.py, CollectiveWorkQueue, and the      *)
(* wrappers in true_per_env_async_worker.py and                            *)
(* per_env_async_rollout_worker.py.                                        *)
(***************************************************************************)
EXTENDS Integers, Sequences, FiniteSets, SequencesExt

CONSTANTS
  Keys,      \* keys of the channel
  Threads,   \* threads, or tasks of an event loop, of all the processes
  NoThread,  \* nobody
  Scenarios  \* what the threads may do: [home, prog]

(***************************************************************************)
(* home   thread -> its process                                            *)
(* prog   thread -> the sequence of its calls [op, keys, patience, wait,   *)
(*        guard, of]:                                                      *)
(*   op       "put", "put_many", "get", "get_any", "get_many" (the         *)
(*            receiver's loop of get_any_nowait until every key had its    *)
(*            item), or "await" (wait for the asynchronous get number of)  *)
(*   patience "forever"; "none" and "deadline" are the nowait and timeout  *)
(*            forms, whose callers try again after an empty answer         *)
(*   wait     FALSE for async_op=True                                      *)
(*   guard    "sender", "receiver": through the wrapper of that name;      *)
(*            "loop": tasks of one event loop, which run a call without    *)
(*            interruption; "none"                                         *)
(***************************************************************************)
IsPut(o) == o.op \in {"put", "put_many"}

ASSUME ChannelClientAssumption ==
  /\ NoThread \notin Threads
  /\ \A s \in Scenarios : \A t \in Threads : \A i \in DOMAIN s.prog[t] :
       LET o == s.prog[t][i]
       IN /\ ToSet(o.keys) \subseteq Keys
          /\ o.op \in {"put", "get"} => Len(o.keys) = 1
          /\ o.op = "await" => o.of \in 1 .. i - 1

VARIABLES
  scenario,  \* the scenario of this execution; no step changes it
  pc,        \* thread -> number of its current call
  at,        \* thread -> where in it: "call", "comm", "rpc", "answer"
  locked,    \* <<process, guard>> -> the thread holding that lock
  calls,     \* process -> its remote calls in order of creation
  returned,  \* calls whose remote call has returned
  wire,      \* process -> messages on the way to the actor, in order
  posted,    \* process -> receives in its receive queue, in order
  direct,    \* threads in a synchronous recv
  back,      \* process -> answers on the way from the actor, in order
  queue,     \* key -> items in the actor, in order
  blocked,   \* put whose recv blocks the actor's event loop, or NoCall
  taken,     \* process -> what its receives got, in order
  sent       \* key -> items whose put was called, in order

vars == <<scenario, pc, at, locked, calls, returned, wire, posted, direct, back, queue,
          blocked, taken, sent>>

Home(t) == scenario.home[t]
Prog(t) == scenario.prog[t]
Workers == {Home(t) : t \in Threads}
Op(t)   == Prog(t)[pc[t]]
Id(t)   == <<t, pc[t]>>
NoCall  == <<NoThread, 0>>
Asked(id) == Prog(id[1])[id[2]]
Locks   == Workers \X {"sender", "receiver", "loop"}

Init ==
  /\ scenario \in Scenarios
  /\ pc = [t \in Threads |-> 1]
  /\ at = [t \in Threads |-> "call"]
  /\ locked = [l \in Locks |-> NoThread]
  /\ calls = [w \in Workers |-> <<>>]
  /\ returned = {}
  /\ wire = [w \in Workers |-> <<>>]
  /\ posted = [w \in Workers |-> <<>>]
  /\ direct = {}
  /\ back = [w \in Workers |-> <<>>]
  /\ queue = [k \in Keys |-> <<>>]
  /\ blocked = NoCall
  /\ taken = [w \in Workers |-> <<>>]
  /\ sent = [k \in Keys |-> <<>>]

-----------------------------------------------------------------------------
(***************************************************************************)
(* The threads.                                                            *)
(***************************************************************************)
\* What thread t has received for its call id.
Got(id) == {x \in ToSet(taken[Home(id[1])]) : x.to = id}

\* The keys a get_many still has to receive an item of.
Remaining(id) == SelectSeq(Asked(id).keys, LAMBDA k : \A x \in Got(id) : x.item.key # k)

Items(t) == [i \in DOMAIN Op(t).keys |-> [key |-> Op(t).keys[i], id |-> Id(t)]]

\* The coroutine of AsyncChannelWork that makes the remote call of a call.
ChannelKey(o) ==
  CASE o.op \in {"put", "get"} -> <<"key", ToSet(o.keys)>>
    [] o.op = "put_many"       -> <<"__put_many__", ToSet(o.keys)>>
    [] OTHER                   -> <<"__get_any__", {}>>

LockOf(t) == <<Home(t), Op(t).guard>>
Guarded(t) == LockOf(t) \in Locks

\* "with self._lock": the wrapper's lock.
TakeLock(t) ==
  IF Guarded(t)
  THEN locked[LockOf(t)] = NoThread /\ locked' = [locked EXCEPT ![LockOf(t)] = t]
  ELSE UNCHANGED locked
DropLock(t) ==
  locked' = [l \in Locks |-> IF locked[l] = t THEN NoThread ELSE locked[l]]

ReturnsFrom(t) ==
  /\ pc' = [pc EXCEPT ![t] = @ + 1]
  /\ at' = [at EXCEPT ![t] = "call"]
  /\ DropLock(t)

GoesTo(t, place) == at' = [at EXCEPT ![t] = place] /\ UNCHANGED pc

PollsNever(o) == FALSE

\* SerializedChannelReceiver.get looks into the queue, and again under the
\* lock, before it calls get.
PollsFirst(o) == o.op = "get" /\ o.guard = "receiver"

\* The call begins: the lock, then the AsyncChannelWork, which puts the
\* remote call behind those of its process and key.
Call(t) ==
  /\ pc[t] <= Len(Prog(t)) /\ at[t] = "call" /\ Op(t).op # "await"
  /\ PollsFirst(Op(t)) => queue[Op(t).keys[1]] # <<>>
  /\ TakeLock(t)
  /\ calls' = [calls EXCEPT ![Home(t)] =
       Append(@, [id |-> Id(t), chan |-> ChannelKey(Op(t)), ran |-> FALSE])]
  /\ GoesTo(t, "comm")
  /\ UNCHANGED <<scenario, returned, wire, posted, direct, back, queue, blocked, taken, sent>>

SendAtOnce(t) ==
  /\ at[t] = "comm" /\ IsPut(Op(t))
  /\ wire' = [wire EXCEPT ![Home(t)] = <<[op |-> Op(t).op, items |-> Items(t)]>> \o @]
  /\ sent' = [k \in Keys |-> sent[k] \o SelectSeq(Items(t), LAMBDA it : it.key = k)]
  /\ IF Op(t).wait THEN GoesTo(t, "rpc") /\ UNCHANGED locked ELSE ReturnsFrom(t)
  /\ UNCHANGED <<scenario, calls, returned, posted, direct, back, queue, blocked, taken>>

\* The asynchronous send of a put's data: one message, in the send queue.
Send(t) ==
  /\ at[t] = "comm" /\ IsPut(Op(t))
  /\ wire' = [wire EXCEPT ![Home(t)] = Append(@, [op |-> Op(t).op, items |-> Items(t)])]
  /\ sent' = [k \in Keys |-> sent[k] \o SelectSeq(Items(t), LAMBDA it : it.key = k)]
  /\ IF Op(t).wait THEN GoesTo(t, "rpc") /\ UNCHANGED locked ELSE ReturnsFrom(t)
  /\ UNCHANGED <<scenario, calls, returned, posted, direct, back, queue, blocked, taken>>

\* The asynchronous recv of get: it waits its turn in the receive queue.
PostReceive(t) ==
  /\ at[t] = "comm" /\ Op(t).op = "get" /\ Op(t).patience = "forever"
  /\ posted' = [posted EXCEPT ![Home(t)] = Append(@, [id |-> Id(t), wait |-> Op(t).wait])]
  /\ IF Op(t).wait THEN GoesTo(t, "rpc") /\ UNCHANGED locked ELSE ReturnsFrom(t)
  /\ UNCHANGED <<scenario, calls, returned, wire, direct, back, queue, blocked, taken, sent>>

\* The synchronous recv of the other forms: it spins until the receive queue
\* is empty, and then receives in the thread itself.
BeginDirect(t) ==
  /\ at[t] = "comm" /\ ~IsPut(Op(t)) /\ Op(t).patience # "forever"
  /\ posted[Home(t)] = <<>>
  /\ direct' = direct \cup {t}
  /\ GoesTo(t, "answer")
  /\ UNCHANGED <<scenario, locked, calls, returned, wire, posted, back, queue, blocked,
                 taken, sent>>

\* async_channel_work.wait() of a put or get.
RemoteReturned(t) ==
  /\ at[t] = "rpc" /\ Id(t) \in returned
  /\ IF IsPut(Op(t)) THEN ReturnsFrom(t) ELSE GoesTo(t, "answer") /\ UNCHANGED locked
  /\ UNCHANGED <<scenario, calls, returned, wire, posted, direct, back, queue, blocked,
                 taken, sent>>

\* async_comm_work.wait() of a get: its receive is done.
TakeAnswer(t) ==
  /\ at[t] = "answer" /\ t \notin direct /\ Got(Id(t)) # {}
  /\ ReturnsFrom(t)
  /\ UNCHANGED <<scenario, calls, returned, wire, posted, direct, back, queue, blocked,
                 taken, sent>>

\* AsyncChannelCommWork.wait: the answer with the query id of the get.
Await(t) ==
  /\ pc[t] <= Len(Prog(t)) /\ at[t] = "call" /\ Op(t).op = "await"
  /\ Got(<<t, Op(t).of>>) # {}
  /\ ReturnsFrom(t)
  /\ UNCHANGED <<scenario, calls, returned, wire, posted, direct, back, queue, blocked,
                 taken, sent>>

-----------------------------------------------------------------------------
(***************************************************************************)
(* The receives of a process.                                              *)
(***************************************************************************)
ToWhoPosted(r, ans) == r.id

\* Whom an answer goes to: an asynchronous get finds its own by the query id
\* in it, a synchronous one drops the id and takes what its receive got.
Recipient(r, ans) == IF r.wait THEN r.id ELSE ans.query

\* The receive queue's thread: the oldest receive gets the next answer.
Receive(w) ==
  /\ posted[w] # <<>> /\ back[w] # <<>>
  /\ LET ans == Head(back[w])
     IN taken' = [taken EXCEPT ![w] =
          Append(@, [to |-> Recipient(Head(posted[w]), ans), query |-> ans.query, item |-> ans.item])]
  /\ posted' = [posted EXCEPT ![w] = Tail(@)]
  /\ back' = [back EXCEPT ![w] = Tail(@)]
  /\ UNCHANGED <<scenario, pc, at, locked, calls, returned, wire, direct, queue, blocked, sent>>

\* A synchronous recv gets the next answer.  After QueueEmpty the caller
\* tries again; get_many goes on until it has an item of every key.
ReceiveDirect(t) ==
  LET w == Home(t)
      ans == Head(back[w])
  IN /\ t \in direct /\ back[w] # <<>>
     /\ direct' = direct \ {t}
     /\ back' = [back EXCEPT ![w] = Tail(@)]
     /\ IF ans.empty
        THEN /\ GoesTo(t, "call") /\ DropLock(t)
             /\ UNCHANGED taken
        ELSE /\ taken' = [taken EXCEPT ![w] =
                  Append(@, [to |-> Id(t), query |-> ans.query, item |-> ans.item])]
             /\ IF Op(t).op = "get_many" /\ Len(Remaining(Id(t))) > 1
                THEN GoesTo(t, "call") /\ DropLock(t)
                ELSE ReturnsFrom(t)
     /\ UNCHANGED <<scenario, calls, returned, wire, posted, queue, blocked, sent>>

-----------------------------------------------------------------------------
(***************************************************************************)
(* Remote calls and the actor.  Calls of one process and key are made one  *)
(* after the other; others run in any order.                               *)
(***************************************************************************)
InFlight(w) ==
  {i \in DOMAIN calls[w] : \A j \in 1 .. i - 1 : calls[w][j].chan # calls[w][i].chan}

Runnable(w) == {i \in InFlight(w) : ~calls[w][i].ran}

Ran(w, i) == calls' = [calls EXCEPT ![w][i].ran = TRUE]

\* put, put_many: a recv from the calling process, which blocks the event
\* loop until there is a message.
BlockOnReceive(w, i) ==
  /\ blocked = NoCall /\ IsPut(Asked(calls[w][i].id)) /\ wire[w] = <<>>
  /\ blocked' = calls[w][i].id
  /\ UNCHANGED <<scenario, pc, at, locked, calls, returned, wire, posted, direct, back,
                 queue, taken, sent>>

\* The message goes into the queues.  The message of the other kind of put
\* cannot be unpacked: the call raises and the message is gone.
RunPut(w, i) ==
  /\ blocked \in {NoCall, calls[w][i].id} /\ IsPut(Asked(calls[w][i].id)) /\ wire[w] # <<>>
  /\ LET msg == Head(wire[w])
     IN queue' = IF msg.op = Asked(calls[w][i].id).op
                 THEN [k \in Keys |->
                         queue[k] \o SelectSeq(msg.items, LAMBDA it : it.key = k)]
                 ELSE queue
  /\ wire' = [wire EXCEPT ![w] = Tail(@)]
  /\ blocked' = NoCall
  /\ Ran(w, i)
  /\ UNCHANGED <<scenario, pc, at, locked, returned, posted, direct, back, taken, sent>>

\* The keys a remote get or get_any asks for.
AskedKeys(id) == IF Asked(id).op = "get_many" THEN Remaining(id) ELSE Asked(id).keys

\* get, get_any: take an item and send it back with the query id.
RunGet(w, i) ==
  LET id == calls[w][i].id
  IN /\ blocked = NoCall /\ ~IsPut(Asked(id))
     /\ \E k \in ToSet(AskedKeys(id)) :
          /\ queue[k] # <<>>
          /\ back' = [back EXCEPT ![w] =
               Append(@, [query |-> id, item |-> Head(queue[k]), empty |-> FALSE])]
          /\ queue' = [queue EXCEPT ![k] = Tail(@)]
     /\ Ran(w, i)
     /\ UNCHANGED <<scenario, pc, at, locked, returned, wire, posted, direct, blocked, taken, sent>>

\* Nothing there: the nowait forms, and after its time the timeout form,
\* answer QueueEmpty.
RunGetEmpty(w, i) ==
  LET id == calls[w][i].id
  IN /\ blocked = NoCall /\ ~IsPut(Asked(id)) /\ Asked(id).patience # "forever"
     /\ \A k \in ToSet(AskedKeys(id)) : queue[k] = <<>>
     /\ back' = [back EXCEPT ![w] = Append(@, [query |-> id, empty |-> TRUE])]
     /\ Ran(w, i)
     /\ UNCHANGED <<scenario, pc, at, locked, returned, wire, posted, direct, queue, blocked,
                    taken, sent>>

\* The remote call returns, or raises, to its coroutine, which goes on with
\* the next one of its key.
RemoteReturns(w, i) ==
  /\ i \in InFlight(w) /\ calls[w][i].ran
  /\ calls' = [calls EXCEPT ![w] = RemoveAt(@, i)]
  /\ returned' = returned \cup {calls[w][i].id}
  /\ UNCHANGED <<scenario, pc, at, locked, wire, posted, direct, back, queue, blocked, taken, sent>>

ThreadStep(t) ==
  Send(t) \/ PostReceive(t) \/ BeginDirect(t) \/ RemoteReturned(t) \/ TakeAnswer(t)
  \/ Await(t) \/ ReceiveDirect(t)

ActorStep(w) ==
  \/ \E i \in Runnable(w) :
       BlockOnReceive(w, i) \/ RunPut(w, i) \/ RunGet(w, i) \/ RunGetEmpty(w, i)
  \/ \E i \in DOMAIN calls[w] : RemoteReturns(w, i)

AllDone == \A t \in Threads : pc[t] > Len(Prog(t))
Finished ==
  /\ AllDone /\ \A w \in Workers : calls[w] = <<>> /\ wire[w] = <<>>
  /\ UNCHANGED vars

Next ==
  \/ \E t \in Threads : Call(t) \/ ThreadStep(t)
  \/ \E w \in Workers : Receive(w) \/ ActorStep(w)
  \/ Finished

Spec == Init /\ [][Next]_vars

AllWorkers == UNION {{s.home[t] : t \in Threads} : s \in Scenarios}

Turn(w, k) ==
  /\ w \in Workers
  /\ \/ \E i \in Runnable(w) :
          /\ calls[w][i].chan = k
          /\ BlockOnReceive(w, i) \/ RunPut(w, i) \/ RunGet(w, i) \/ RunGetEmpty(w, i)
     \/ \E i \in DOMAIN calls[w] : calls[w][i].chan = k /\ RemoteReturns(w, i)

AllChannelKeys ==
  UNION {UNION {{ChannelKey(s.prog[t][i]) : i \in DOMAIN s.prog[t]} : t \in Threads} : s \in Scenarios}

\* Threads, receive queues, coroutines and the actor keep running.  A thread
\* that finds a lock taken gets it in the end: its holder sleeps between two
\* attempts.
Fairness ==
  /\ \A t \in Threads : SF_vars(Call(t)) /\ WF_vars(ThreadStep(t))
  /\ \A w \in AllWorkers : WF_vars(w \in Workers /\ Receive(w))
  /\ \A w \in AllWorkers, k \in AllChannelKeys : WF_vars(Turn(w, k))

FairSpec == Spec /\ Fairness

-----------------------------------------------------------------------------
(***************************************************************************)
(* Properties.                                                             *)
(***************************************************************************)
\* The items of key k in a sequence of answers, and of messages.
InAnswers(answers, k) ==
  LET full == SelectSeq(answers, LAMBDA x : "item" \in DOMAIN x /\ x.item.key = k)
  IN [i \in DOMAIN full |-> full[i].item]
InMessages(msgs, k) ==
  FlattenSeq([i \in DOMAIN msgs |-> SelectSeq(msgs[i].items, LAMBDA it : it.key = k)])

\* Of all processes together; one process sends and one receives a key.
OnTheWay(k) ==
  LET ws == SetToSeq(Workers)
  IN FlattenSeq([i \in DOMAIN ws |-> InAnswers(taken[ws[i]] \o back[ws[i]], k)])
     \o queue[k]
     \o FlattenSeq([i \in DOMAIN ws |-> InMessages(wire[ws[i]], k)])

\* What was put under a key is received or still under way, each item once
\* and all in the order they were sent, although remote calls of different
\* keys run in any order and take one another's messages.
EachItemOnceInOrder == \A k \in Keys : OnTheWay(k) = sent[k]

\* Whoever asks gets the answer to his own question, although receives are
\* matched to answers by their order alone.
OwnAnswer == \A w \in Workers : \A x \in ToSet(taken[w]) : x.to = x.query

\* Never do two threads of a process receive from the connection at the same
\* time, of which Worker.recv says that it is not thread safe: the parts of
\* two messages would be mixed.
OneReceiver ==
  \A w \in Workers :
    Cardinality({t \in direct : Home(t) = w}) + (IF posted[w] = <<>> THEN 0 ELSE 1) <= 1

\* Receives and answers belong together.
AnswersFit == OwnAnswer /\ OneReceiver

\* Every call of every thread returns: nobody keeps the receiver's lock
\* while he waits for an item that comes only after another's receive.
AllCallsReturn == <>AllDone
=============================================================================
