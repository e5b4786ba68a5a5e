---------------------------- MODULE BatchingEngine ----------------------------
(***************************************************************************)
(* The dynamic batching engine of a rollout worker, from generate()'s call *)
(* of start() to its call of stop().                                       *)
(*                                                                         *)
(* Handler threads submit requests and block on their futures.  One        *)
(* inference thread collects requests into a batch until the batch holds   *)
(* MaxBatch samples or a timeout passes, runs the model and completes the  *)
(* futures.  The main thread waits for all handlers, or for the first one  *)
(* that raises, and stops the engine: it sets should_stop, queues a        *)
(* sentinel, joins the thread for a limited time, and completes whatever   *)
(* is left.  The three share request_queue, result_futures and should_stop *)
(* without a lock; every step below is atomic under CPython's GIL.         *)
(*                                                                         *)
(* Sources: workers/rollout/hf/per_env_async_rollout_worker.py and         *)
(* workers/rollout/hf/flexible_per_env_async_rollout_worker.py.  Tensors,  *)
(* sampling parameters and statistics are left out.                        *)
(***************************************************************************)
EXTENDS Integers, Sequences, FiniteSets, SequencesExt

CONSTANTS
  Handlers,     \* handler threads, one per slot
  Size,         \* handler -> samples of one of its requests
  MaxBatch,     \* max_batch_size, the target number of samples
  NumRequests,  \* bound: requests of a handler in one generate()
  NumCalls      \* bound: calls of generate()

ASSUME BatchingEngineAssumption ==
  /\ IsFiniteSet(Handlers) /\ Handlers # {}
  /\ Size \in [Handlers -> Nat \ {0}]
  /\ MaxBatch \in Nat \ {0} /\ NumRequests \in Nat \ {0} /\ NumCalls \in Nat \ {0}

Ids == Handlers \X (1 .. NumRequests)
Sentinel == <<>>

VARIABLES
  calls,          \* calls of generate() that are over
  mainPc,         \* where generate() is, "idle" between two calls
  snapshot,       \* _clear_pending_requests: futures it has still to look at
  looked,         \* _clear_pending_requests: {} or the future it found pending
  raising,        \* generate() leaves its try block with an exception
  stopEvent,      \* _router_stop_event
  requestQueue,   \* request_queue
  resultFutures,  \* keys of result_futures
  shouldStop,     \* should_stop
  enginePc,       \* inference thread: where its loop is, or "dead"
  batch,          \* inference thread: requests of its batch, not yet completed
  held,           \* inference thread: {} or the request whose future it popped
  future,         \* request -> "none", "pending", "result", "error"
  hPc,            \* handler: "recv", "put", "wait", "done", "raised"
  count           \* handler: requests it has made in this generate()

handlerVars == <<future, hPc, count>>
engineVars == <<enginePc, batch, held>>
mainVars == <<calls, mainPc, snapshot, looked, raising, stopEvent>>
shared == <<requestQueue, resultFutures, shouldStop>>
vars == <<mainVars, shared, engineVars, handlerVars>>

Init ==
  /\ calls = 0 /\ mainPc = "idle" /\ snapshot = {} /\ looked = {}
  /\ raising = FALSE /\ stopEvent = FALSE
  /\ requestQueue = <<>> /\ resultFutures = {} /\ shouldStop = FALSE
  /\ enginePc = "dead" /\ batch = <<>> /\ held = {}
  /\ future = [i \in Ids |-> "none"]
  /\ hPc = [h \in Handlers |-> "done"]
  /\ count = [h \in Handlers |-> 0]

Done(i) == future[i] \in {"result", "error"}

-----------------------------------------------------------------------------
(***************************************************************************)
(* The main thread: generate() around start() and stop().                  *)
(***************************************************************************)

\* start() refuses to run beside a thread that did not stop; else it makes a
\* new queue and thread, and generate() submits the handlers.
StartGenerate ==
  /\ mainPc = "idle" /\ calls < NumCalls
  /\ IF enginePc # "dead"
     THEN mainPc' = "raised" /\ UNCHANGED <<shared, engineVars, stopEvent, hPc, count>>
     ELSE /\ mainPc' = "gather"
          /\ requestQueue' = <<>> /\ resultFutures' = {} /\ shouldStop' = FALSE
          /\ enginePc' = "top" /\ batch' = <<>> /\ held' = {}
          /\ stopEvent' = FALSE
          /\ hPc' = [h \in Handlers |-> "recv"]
          /\ count' = [h \in Handlers |-> 0]
  /\ UNCHANGED <<calls, snapshot, looked, raising, future>>

FirstReturned == \E h \in Handlers : hPc[h] = "done"
AllReturned == \A h \in Handlers : hPc[h] = "done"

\* gather returns when all handlers have, or raises with the first that does.
Gathered ==
  /\ mainPc = "gather"
  /\ AllReturned \/ \E h \in Handlers : hPc[h] = "raised"
  /\ mainPc' = "flag"
  /\ raising' = ~AllReturned
  /\ UNCHANGED <<calls, snapshot, looked, stopEvent, shared, engineVars, handlerVars>>

SetFlag ==
  /\ mainPc = "flag"
  /\ mainPc' = "sentinel"
  /\ shouldStop' = TRUE
  /\ UNCHANGED <<calls, snapshot, looked, raising, stopEvent, requestQueue, resultFutures,
                 engineVars, handlerVars>>

SentinelSkipped(q) == q
WithSentinel(q) == Append(q, Sentinel)

PutSentinel ==
  /\ mainPc = "sentinel"
  /\ mainPc' = "join"
  /\ requestQueue' = WithSentinel(requestQueue)
  /\ UNCHANGED <<calls, snapshot, looked, raising, stopEvent, resultFutures, shouldStop,
                 engineVars, handlerVars>>

\* join(timeout=5.0) returns when the thread is over or the time is: only an
\* inference takes that long, or a get() that nothing wakes.
JoinReturns ==
  \/ enginePc \in {"dead", "infer"}
  \/ enginePc = "fill" /\ batch = <<>> /\ requestQueue = <<>>

Join ==
  /\ mainPc = "join" /\ JoinReturns
  /\ mainPc' = "drain"
  /\ UNCHANGED <<calls, snapshot, looked, raising, stopEvent, shared, engineVars, handlerVars>>

\* _clear_pending_requests, first loop: one request or the sentinel.
DrainOne ==
  /\ mainPc = "drain" /\ requestQueue # <<>>
  /\ requestQueue' = Tail(requestQueue)
  /\ LET i == Head(requestQueue)
     IN IF i \in resultFutures
        THEN /\ resultFutures' = resultFutures \ {i}
             /\ future' = [future EXCEPT ![i] = IF Done(i) THEN @ ELSE "error"]
        ELSE UNCHANGED <<resultFutures, future>>
  /\ UNCHANGED <<mainVars, shouldStop, engineVars, hPc, count>>

\* Second loop: over a copy of the futures that are left.
QueuedOnly == {}
LeftFutures == resultFutures

TakeSnapshot ==
  /\ mainPc = "drain" /\ requestQueue = <<>>
  /\ mainPc' = "snap"
  /\ snapshot' = LeftFutures
  /\ UNCHANGED <<calls, looked, raising, stopEvent, shared, engineVars, handlerVars>>

\* if not future.done(): the check, and what it leads to, are two steps.
Look(i) ==
  /\ mainPc = "snap" /\ looked = {} /\ i \in snapshot
  /\ snapshot' = snapshot \ {i}
  /\ looked' = IF Done(i) THEN {} ELSE {i}
  /\ UNCHANGED <<calls, mainPc, raising, stopEvent, shared, engineVars, handlerVars>>

\* set_exception; on a future completed meanwhile it raises InvalidStateError
\* out of stop() and generate().
SetException(i) ==
  /\ mainPc = "snap" /\ i \in looked
  /\ looked' = {}
  /\ IF Done(i) THEN mainPc' = "broken" /\ UNCHANGED future
     ELSE future' = [future EXCEPT ![i] = "error"] /\ UNCHANGED mainPc
  /\ UNCHANGED <<calls, snapshot, raising, stopEvent, shared, engineVars, hPc, count>>

\* result_futures.clear(), the end of stop() and of generate().
EndGenerate ==
  /\ mainPc = "snap" /\ looked = {} /\ snapshot = {}
  /\ resultFutures' = {}
  /\ stopEvent' = TRUE
  /\ calls' = calls + 1
  /\ mainPc' = IF raising THEN "raised" ELSE "idle"
  /\ UNCHANGED <<snapshot, looked, raising, requestQueue, shouldStop, engineVars, handlerVars>>

-----------------------------------------------------------------------------
(***************************************************************************)
(* The inference thread.                                                   *)
(***************************************************************************)

LoopTop ==
  /\ enginePc = "top"
  /\ enginePc' = IF shouldStop THEN "dead" ELSE "fill"
  /\ batch' = <<>>
  /\ UNCHANGED <<mainVars, shared, held, handlerVars>>

\* _request_sample_size, summed over the batch.
Samples(b) == FoldLeft(LAMBDA sum, i : sum + Size[i[1]], 0, b)

Full(b) == Samples(b) >= MaxBatch

\* One item of the queue: the sentinel or a request, which is taken whole.
Take ==
  /\ enginePc = "fill" /\ requestQueue # <<>>
  /\ requestQueue' = Tail(requestQueue)
  /\ LET i == Head(requestQueue)
     IN IF i = Sentinel
        THEN shouldStop' = TRUE /\ enginePc' = "check" /\ UNCHANGED batch
        ELSE /\ batch' = Append(batch, i)
             /\ enginePc' = IF Full(batch') THEN "check" ELSE "fill"
             /\ UNCHANGED shouldStop
  /\ UNCHANGED <<mainVars, resultFutures, held, handlerVars>>

\* batch_timeout_ms, for a batch that is not empty.
MayTimeOut == batch # <<>>

TimeUp ==
  /\ enginePc = "fill" /\ MayTimeOut
  /\ enginePc' = "check"
  /\ UNCHANGED <<mainVars, shared, batch, held, handlerVars>>

Check ==
  /\ enginePc = "check"
  /\ enginePc' = IF batch = <<>> THEN "top" ELSE IF shouldStop THEN "abort" ELSE "infer"
  /\ UNCHANGED <<mainVars, shared, batch, held, handlerVars>>

\* _run_batch_inference returns or raises.
Infer ==
  /\ enginePc = "infer"
  /\ enginePc' \in {"deliver", "fail"}
  /\ UNCHANGED <<mainVars, shared, batch, held, handlerVars>>

Completing == {"deliver", "fail", "abort"}

\* result_futures.pop(request_id, None) for the next request of the batch.
Pop ==
  /\ enginePc \in Completing /\ held = {} /\ batch # <<>>
  /\ batch' = Tail(batch)
  /\ held' = {Head(batch)} \cap resultFutures
  /\ resultFutures' = resultFutures \ held'
  /\ UNCHANGED <<mainVars, requestQueue, shouldStop, enginePc, handlerVars>>

\* set_result or set_exception on the future popped.  If stop() completed it
\* meanwhile it raises InvalidStateError: out of a delivery into the handler
\* that fails the rest of the batch, out of anything else it ends the thread.
LoggedOnly(f, i) == IF enginePc = "deliver" THEN [f EXCEPT ![i] = "result"] ELSE f
Completed(f, i) == [f EXCEPT ![i] = IF enginePc = "deliver" THEN "result" ELSE "error"]

Complete(i) ==
  /\ enginePc \in Completing /\ i \in held /\ ~Done(i)
  /\ held' = {}
  /\ future' = Completed(future, i)
  /\ UNCHANGED <<mainVars, shared, enginePc, batch, hPc, count>>

TooLate(i) ==
  /\ enginePc \in Completing /\ i \in held /\ Done(i)
  /\ held' = {}
  /\ enginePc' = IF enginePc = "deliver" THEN "fail" ELSE "dead"
  /\ UNCHANGED <<mainVars, shared, batch, handlerVars>>

BatchOver ==
  /\ enginePc \in Completing /\ held = {} /\ batch = <<>>
  /\ enginePc' = IF enginePc = "abort" THEN "dead" ELSE "top"
  /\ UNCHANGED <<mainVars, shared, batch, held, handlerVars>>

-----------------------------------------------------------------------------
(***************************************************************************)
(* The handler threads.                                                    *)
(***************************************************************************)
Request(h) == <<h, count[h]>>

\* An observation arrives; submit_request registers a future for it.
Register(h) ==
  /\ hPc[h] = "recv" /\ count[h] < NumRequests
  /\ count' = [count EXCEPT ![h] = @ + 1]
  /\ hPc' = [hPc EXCEPT ![h] = "put"]
  /\ resultFutures' = resultFutures \cup {<<h, count[h] + 1>>}
  /\ future' = [future EXCEPT ![<<h, count[h] + 1>>] = "pending"]
  /\ UNCHANGED <<mainVars, requestQueue, shouldStop, engineVars>>

\* ... and queues the request.
Put(h) ==
  /\ hPc[h] = "put"
  /\ hPc' = [hPc EXCEPT ![h] = "wait"]
  /\ requestQueue' = Append(requestQueue, Request(h))
  /\ UNCHANGED <<mainVars, resultFutures, shouldStop, engineVars, future, count>>

\* future.result() returns or raises.
Answered(h) ==
  /\ hPc[h] = "wait" /\ Done(Request(h))
  /\ hPc' = [hPc EXCEPT ![h] = IF future[Request(h)] = "error" THEN "raised"
                               ELSE IF count[h] = NumRequests THEN "done" ELSE "recv"]
  /\ UNCHANGED <<mainVars, shared, engineVars, future, count>>

\* _recv_env_output_for_slot gives up once the router is told to stop.
GiveUp(h) ==
  /\ hPc[h] = "recv" /\ stopEvent
  /\ hPc' = [hPc EXCEPT ![h] = "raised"]
  /\ UNCHANGED <<mainVars, shared, engineVars, future, count>>

HandlerNext(h) == Register(h) \/ Put(h) \/ Answered(h) \/ GiveUp(h)

EngineNext ==
  \/ LoopTop \/ Take \/ TimeUp \/ Check \/ Infer \/ Pop \/ BatchOver
  \/ \E i \in Ids : Complete(i) \/ TooLate(i)

MainNext ==
  \/ StartGenerate \/ Gathered \/ SetFlag \/ PutSentinel \/ Join \/ DrainOne
  \/ TakeSnapshot \/ EndGenerate
  \/ \E i \in Ids : Look(i) \/ SetException(i)

\* generate() was called as often as it is, or raised; threads it left behind
\* may wait for ever.
Over == mainPc \in {"raised", "broken"} \/ (mainPc = "idle" /\ calls = NumCalls)
Finished == Over /\ UNCHANGED vars

Next == MainNext \/ EngineNext \/ (\E h \in Handlers : HandlerNext(h)) \/ Finished

Spec == Init /\ [][Next]_vars

\* Threads keep running; an inference ends, with a result or an exception.
Fairness ==
  WF_vars(MainNext) /\ WF_vars(EngineNext) /\ \A h \in Handlers : WF_vars(HandlerNext(h))

FairSpec == Spec /\ Fairness

-----------------------------------------------------------------------------
(***************************************************************************)
(* Properties.                                                             *)
(***************************************************************************)

Types ==
  /\ calls \in Nat
  /\ mainPc \in {"idle", "gather", "flag", "sentinel", "join", "drain", "snap",
                 "raised", "broken"}
  /\ enginePc \in {"dead", "top", "fill", "check", "infer"} \cup Completing
  /\ raising \in BOOLEAN /\ stopEvent \in BOOLEAN /\ shouldStop \in BOOLEAN
  /\ snapshot \subseteq Ids /\ resultFutures \subseteq Ids
  /\ looked \subseteq Ids /\ held \subseteq Ids
  /\ requestQueue \in Seq(Ids \cup {Sentinel}) /\ batch \in Seq(Ids)
  /\ future \in [Ids -> {"none", "pending", "result", "error"}]
  /\ hPc \in [Handlers -> {"recv", "put", "wait", "done", "raised"}]
  /\ count \in [Handlers -> 0 .. NumRequests]

Serving == mainPc \in {"gather", "flag", "sentinel", "join"}

\* Until stop() starts to clear, somebody still answers every handler that
\* blocks in future.result(): its request is in the queue or with a live
\* inference thread, and its future can be found under its id.
NoRequestLost ==
  Serving =>
    \A h \in Handlers :
      hPc[h] = "wait" /\ ~Done(Request(h)) =>
        \/ Request(h) \in held /\ enginePc \in Completing
        \/ /\ Request(h) \in resultFutures
           /\ \/ Contains(requestQueue, Request(h))
              \/ Contains(batch, Request(h)) /\ enginePc # "dead"

\* A generate() whose handlers all returned leaves the engine as start() wants
\* it: the thread is over, nothing is queued, and no handler is blocked.  So
\* "Engine already started" is raised after no successful call.
QuietStop ==
  mainPc = "idle" =>
    /\ enginePc = "dead"
    /\ requestQueue = <<>> /\ resultFutures = {}
    /\ \A h \in Handlers : hPc[h] = "done"

\* generate() returns or raises, whatever inferences fail and however the
\* requests of the handlers are grouped into batches.
GenerateEnds == mainPc = "gather" ~> mainPc \in {"idle", "raised", "broken"}

\* A handler that has registered a future by the time _clear_pending_requests
\* drains the queue is released, even if it has not queued its request yet or
\* the join timed out under a running inference; unless stop() itself raised
\* because the inference thread completed a future between its check and its
\* set_exception.
WaitersReleased ==
  \A h \in Handlers :
    (mainPc = "drain" /\ hPc[h] \in {"put", "wait"}) ~>
      (hPc[h] \notin {"put", "wait"} \/ mainPc = "broken")

\* Neither the caller nor a handler that can still be found waits for ever.
NobodyIsLeftWaiting == GenerateEnds /\ WaitersReleased
=============================================================================
