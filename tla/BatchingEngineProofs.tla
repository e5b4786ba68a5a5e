------------------------ MODULE BatchingEngineProofs ------------------------
(***************************************************************************)
(* Theorems about BatchingEngine, for every set of handlers and every size *)
(* of requests and batches.                                                *)
(***************************************************************************)
EXTENDS BatchingEngine, TLAPS

(***************************************************************************)
(* Membership in a sequence that grows at its end and shrinks at its head. *)
(***************************************************************************)
LEMMA ContainsAppend ==
  ASSUME NEW S, NEW q \in Seq(S), NEW x \in S, NEW y
  PROVE  /\ Append(q, x) \in Seq(S)
         /\ Contains(Append(q, x), y) <=> Contains(q, y) \/ x = y
<1>1. /\ Append(q, x) \in Seq(S)
      /\ Len(q) \in Nat
      /\ Len(Append(q, x)) = Len(q) + 1
      /\ Append(q, x)[Len(q) + 1] = x
      /\ \A k \in 1 .. Len(q) : Append(q, x)[k] = q[k]
  OBVIOUS
<1>2. 1 .. Len(q) + 1 = (1 .. Len(q)) \cup {Len(q) + 1}
  BY <1>1
<1>. QED  BY <1>1, <1>2 DEF Contains

LEMMA ContainsHead ==
  ASSUME NEW S, NEW q \in Seq(S), q # <<>>, NEW y
  PROVE  /\ Head(q) \in S /\ Tail(q) \in Seq(S)
         /\ Contains(q, y) => y = Head(q) \/ Contains(Tail(q), y)
         /\ Contains(Tail(q), y) => Contains(q, y)
         /\ Contains(q, Head(q))
<1>1. /\ Head(q) \in S /\ Tail(q) \in Seq(S)
      /\ Len(q) \in Nat \ {0}
      /\ Len(Tail(q)) = Len(q) - 1
      /\ Head(q) = q[1]
      /\ \A k \in 1 .. Len(q) - 1 : Tail(q)[k] = q[k + 1]
  OBVIOUS
<1>2. ASSUME NEW k \in 1 .. Len(q), q[k] = y PROVE y = Head(q) \/ Contains(Tail(q), y)
  <2>1. CASE k = 1  BY <2>1, <1>1, <1>2
  <2>2. CASE k # 1
    <3>1. k - 1 \in 1 .. Len(q) - 1 /\ Tail(q)[k - 1] = q[k]
      BY <1>1, <2>2
    <3>. QED  BY <3>1, <1>1, <1>2 DEF Contains
  <2>. QED  BY <2>1, <2>2
<1>3. ASSUME NEW k \in 1 .. Len(q) - 1 PROVE k + 1 \in 1 .. Len(q)
  BY <1>1
<1>. QED  BY <1>1, <1>2, <1>3 DEF Contains

LEMMA ContainsNothing == \A S : <<>> \in Seq(S) /\ \A y : ~Contains(<<>>, y)
BY DEF Contains

LEMMA SentinelIsNoId == Sentinel \notin Ids
<1>1. \A h, n : Len(<<h, n>>) = 2  OBVIOUS
<1>. QED  BY <1>1 DEF Sentinel, Ids

(***************************************************************************)
(* NoRequestLost is not inductive.  It also needs that the futures of      *)
(* queued requests are found and pending until they are completed, once;   *)
(* that a request is not in the engine's hands before it is queued; and    *)
(* that the loop drops no batch it has not emptied.                        *)
(***************************************************************************)
InHands(i) == Contains(requestQueue, i) \/ Contains(batch, i)

\* While generate() serves, a future that is registered or popped is pending.
FuturesPending ==
  Serving => \A h \in Handlers, n \in 1 .. NumRequests :
    <<h, n>> \in resultFutures \cup held => n <= count[h] /\ ~Done(<<h, n>>)

\* A popped future is no longer registered; one is popped at a time, and by
\* the loops that complete it.
PoppedOnce ==
  /\ Serving => held \cap resultFutures = {}
  /\ \A i, j \in held : i = j
  /\ held # {} => enginePc \in Completing

\* Only requests that were queued are in the engine's hands.
QueuedBefore ==
  Serving => \A h \in Handlers, n \in 1 .. NumRequests :
    InHands(<<h, n>>) => n <= count[h] /\ (hPc[h] = "put" => n < count[h])

\* A request about to be queued is registered.
Registered ==
  Serving => \A h \in Handlers : hPc[h] = "put" => Request(h) \in resultFutures

\* A handler that queues a request or waits for an answer has made a request.
Asked == \A h \in Handlers : hPc[h] \in {"put", "wait"} => count[h] # 0

\* A batch is built from nothing and given up only when it is empty.
StartsEmpty == enginePc = "top" => batch = <<>>

EngineInv ==
  /\ Types /\ Asked
  /\ FuturesPending /\ PoppedOnce /\ QueuedBefore /\ Registered /\ StartsEmpty
  /\ NoRequestLost

LEMMA InitEngineInv == Init => EngineInv
<1>. SUFFICES ASSUME Init PROVE EngineInv
  OBVIOUS
<1>. USE DEF Init
<1>1. Types
  <2>1. 0 \in 0 .. NumRequests
    BY BatchingEngineAssumption
  <2>2. requestQueue \in Seq(Ids \cup {Sentinel}) /\ batch \in Seq(Ids)
    BY ContainsNothing
  <2>3. count \in [Handlers -> 0 .. NumRequests]
    BY <2>1
  <2>. QED  BY <2>2, <2>3 DEF Types
<1>2. ~Serving
  BY DEF Serving
<1>. QED  BY <1>1, <1>2 DEF EngineInv, FuturesPending, PoppedOnce, QueuedBefore,
            Registered, Asked, StartsEmpty, NoRequestLost

LEMMA RequestIsId ==
  ASSUME Types, Asked, NEW h \in Handlers, hPc[h] \in {"put", "wait"}
  PROVE  count[h] \in 1 .. NumRequests /\ Request(h) \in Ids
<1>1. count[h] \in 0 .. NumRequests /\ count[h] # 0
  BY DEF Types, Asked
<1>2. count[h] \in 1 .. NumRequests
  BY <1>1, BatchingEngineAssumption
<1>. QED  BY <1>2 DEF Request, Ids

(***************************************************************************)
(* Every step keeps the types.                                             *)
(***************************************************************************)
LEMMA TypesStep == Types /\ Asked /\ [Next]_vars => Types'
<1>. SUFFICES ASSUME Types, Asked, [Next]_vars PROVE Types'
  OBVIOUS
<1>. USE BatchingEngineAssumption DEF Types
<1>0. Sentinel \in Ids \cup {Sentinel}
  OBVIOUS
<1>1. CASE MainNext
  <2>1. CASE StartGenerate
    <3>1. CASE enginePc # "dead"
      BY <2>1, <3>1 DEF StartGenerate, shared, engineVars
    <3>2. CASE enginePc = "dead"
      <4>1. 0 \in 0 .. NumRequests
        OBVIOUS
      <4>2. requestQueue' \in Seq(Ids \cup {Sentinel}) /\ batch' \in Seq(Ids)
        BY <2>1, <3>2, ContainsNothing DEF StartGenerate
      <4>3. /\ hPc' \in [Handlers -> {"recv", "put", "wait", "done", "raised"}]
            /\ count' \in [Handlers -> 0 .. NumRequests]
        BY <2>1, <3>2, <4>1 DEF StartGenerate
      <4>. QED  BY <2>1, <3>2, <4>2, <4>3 DEF StartGenerate
    <3>. QED  BY <3>1, <3>2
  <2>2. CASE Gathered
    BY <2>2 DEF Gathered, AllReturned, shared, engineVars, handlerVars
  <2>3. CASE SetFlag
    BY <2>3 DEF SetFlag, engineVars, handlerVars
  <2>4. CASE PutSentinel
    BY <2>4, <1>0, ContainsAppend DEF PutSentinel, WithSentinel, engineVars, handlerVars
  <2>5. CASE Join
    BY <2>5 DEF Join, shared, engineVars, handlerVars
  <2>6. CASE DrainOne
    <3>1. requestQueue' \in Seq(Ids \cup {Sentinel})
      BY <2>6, ContainsHead DEF DrainOne
    <3>2. resultFutures' \subseteq Ids /\ future' \in [Ids -> {"none", "pending", "result", "error"}]
      BY <2>6 DEF DrainOne
    <3>. QED  BY <2>6, <3>1, <3>2 DEF DrainOne, mainVars, engineVars
  <2>7. CASE TakeSnapshot
    BY <2>7 DEF TakeSnapshot, LeftFutures, shared, engineVars, handlerVars
  <2>8. CASE EndGenerate
    BY <2>8 DEF EndGenerate, engineVars, handlerVars
  <2>9. ASSUME NEW i \in Ids, Look(i) PROVE Types'
    BY <2>9 DEF Look, shared, engineVars, handlerVars
  <2>10. ASSUME NEW i \in Ids, SetException(i) PROVE Types'
    BY <2>10 DEF SetException, shared, engineVars
  <2>. QED  BY <1>1, <2>1, <2>2, <2>3, <2>4, <2>5, <2>6, <2>7, <2>8, <2>9, <2>10 DEF MainNext
<1>2. CASE EngineNext
  <2>. USE DEF mainVars, shared, handlerVars, Completing
  <2>1. CASE LoopTop
    BY <2>1 DEF LoopTop
  <2>2. CASE Take
    <3>1. /\ Head(requestQueue) \in Ids \cup {Sentinel}
          /\ requestQueue' \in Seq(Ids \cup {Sentinel})
      BY <2>2, ContainsHead DEF Take
    <3>2. batch' \in Seq(Ids)
      <4>1. ASSUME Head(requestQueue) \in Ids PROVE Append(batch, Head(requestQueue)) \in Seq(Ids)
        BY <4>1, ContainsAppend
      <4>. QED  BY <2>2, <3>1, <4>1 DEF Take
    <3>. QED  BY <2>2, <3>1, <3>2 DEF Take
  <2>3. CASE TimeUp
    BY <2>3 DEF TimeUp
  <2>4. CASE Check
    BY <2>4 DEF Check
  <2>5. CASE Infer
    BY <2>5 DEF Infer
  <2>6. CASE Pop
    <3>1. batch' \in Seq(Ids)
      BY <2>6, ContainsHead DEF Pop
    <3>. QED  BY <2>6, <3>1 DEF Pop
  <2>7. CASE BatchOver
    BY <2>7 DEF BatchOver
  <2>8. ASSUME NEW i \in Ids, Complete(i) PROVE Types'
    BY <2>8 DEF Complete, Completed
  <2>9. ASSUME NEW i \in Ids, TooLate(i) PROVE Types'
    BY <2>9 DEF TooLate
  <2>. QED  BY <1>2, <2>1, <2>2, <2>3, <2>4, <2>5, <2>6, <2>7, <2>8, <2>9 DEF EngineNext
<1>3. ASSUME NEW h \in Handlers, HandlerNext(h) PROVE Types'
  <2>. USE DEF mainVars, shared, engineVars
  <2>1. CASE Register(h)
    <3>1. <<h, count[h] + 1>> \in Ids /\ count[h] + 1 \in 0 .. NumRequests
      BY <2>1 DEF Register, Ids
    <3>. QED  BY <2>1, <3>1 DEF Register
  <2>2. CASE Put(h)
    <3>1. Request(h) \in Ids
      BY <2>2, RequestIsId DEF Put
    <3>2. Append(requestQueue, Request(h)) \in Seq(Ids \cup {Sentinel})
      BY <3>1, ContainsAppend
    <3>. QED  BY <2>2, <3>2 DEF Put
  <2>3. CASE Answered(h)
    BY <2>3 DEF Answered
  <2>4. CASE GiveUp(h)
    BY <2>4 DEF GiveUp
  <2>. QED  BY <1>3, <2>1, <2>2, <2>3, <2>4 DEF HandlerNext
<1>4. CASE UNCHANGED vars
  BY <1>4 DEF vars, mainVars, shared, engineVars, handlerVars
<1>. QED  BY <1>1, <1>2, <1>3, <1>4 DEF Next, Finished

\* What the parts of EngineInv are about.
parts == <<requestQueue, resultFutures, batch, held, enginePc, future, hPc, count>>

(***************************************************************************)
(* A step of the main thread that only moves its own counter.              *)
(***************************************************************************)
LEMMA MainMoves ==
  ASSUME EngineInv, Types', Serving' => Serving, UNCHANGED parts
  PROVE  EngineInv'
BY DEF EngineInv, parts, FuturesPending, PoppedOnce, QueuedBefore, Registered, Asked,
       StartsEmpty, NoRequestLost, InHands, Done, Request

(***************************************************************************)
(* Outside the time generate() serves little is left to show.              *)
(***************************************************************************)
LEMMA NotServing ==
  ASSUME Types', Asked', PoppedOnce', StartsEmpty', ~Serving'
  PROVE  EngineInv'
BY DEF EngineInv, FuturesPending, QueuedBefore, Registered, NoRequestLost

(***************************************************************************)
(* The main thread: generate() starts with an engine that holds nothing;   *)
(* the clearing of stop() is over before the next one.                     *)
(***************************************************************************)
LEMMA MainStep ==
  ASSUME EngineInv, Types', MainNext
  PROVE  EngineInv'
<1>. USE DEF Serving
<1>1. CASE StartGenerate
  <2>1. CASE enginePc # "dead"
    BY <1>1, <2>1, MainMoves DEF StartGenerate, shared, engineVars, parts, EngineInv, handlerVars
  <2>2. CASE enginePc = "dead"
    <3>. USE <1>1, <2>2 DEF StartGenerate
    <3>1. \A i : ~InHands(i)'
      BY ContainsNothing DEF InHands
    <3>2. resultFutures' = {} /\ held' = {} /\ batch' = <<>> /\ \A h \in Handlers : hPc'[h] = "recv"
      OBVIOUS
    <3>. QED  BY <3>1, <3>2 DEF EngineInv, FuturesPending, PoppedOnce, QueuedBefore,
                  Registered, Asked, StartsEmpty, NoRequestLost
  <2>. QED  BY <2>1, <2>2
<1>2. CASE Gathered
  BY <1>2, MainMoves DEF Gathered, shared, engineVars, handlerVars, parts
<1>3. CASE SetFlag
  BY <1>3, MainMoves DEF SetFlag, engineVars, handlerVars, parts
<1>4. CASE PutSentinel
  <2>. USE <1>4 DEF PutSentinel, engineVars, handlerVars
  <2>0. requestQueue \in Seq(Ids \cup {Sentinel}) /\ Sentinel \in Ids \cup {Sentinel}
    BY DEF EngineInv, Types
  <2>1. \A i \in Ids : Contains(requestQueue, i)' <=> Contains(requestQueue, i)
    <3>1. \A i : Contains(Append(requestQueue, Sentinel), i) <=>
                   Contains(requestQueue, i) \/ Sentinel = i
      BY <2>0, ContainsAppend
    <3>2. requestQueue' = Append(requestQueue, Sentinel)
      BY DEF WithSentinel
    <3>. QED  BY <3>1, <3>2, SentinelIsNoId
  <2>2. \A i \in Ids : InHands(i)' <=> InHands(i)
    BY <2>1 DEF InHands
  <2>3. \A h \in Handlers, n \in 1 .. NumRequests : <<h, n>> \in Ids
    BY DEF Ids
  <2>4. FuturesPending' /\ PoppedOnce' /\ Registered' /\ Asked' /\ StartsEmpty'
    BY DEF EngineInv, FuturesPending, PoppedOnce, Registered, Asked, StartsEmpty, Done, Request
  <2>5. QueuedBefore'
    <3>1. \A h \in Handlers, n \in 1 .. NumRequests : InHands(<<h, n>>)' <=> InHands(<<h, n>>)
      BY <2>2, <2>3
    <3>. QED  BY <3>1 DEF EngineInv, QueuedBefore
  <2>6. \A h \in Handlers : hPc[h] = "wait" => Request(h) \in Ids
    BY RequestIsId DEF EngineInv
  <2>7. NoRequestLost'
    BY <2>1, <2>6 DEF EngineInv, NoRequestLost, Done, Request
  <2>. QED  BY <2>4, <2>5, <2>7 DEF EngineInv
<1>5. CASE Join
  BY <1>5, MainMoves DEF Join, shared, engineVars, handlerVars, parts
<1>6. CASE DrainOne
  BY <1>6, NotServing DEF DrainOne, mainVars, engineVars, EngineInv, Asked, PoppedOnce, StartsEmpty
<1>7. CASE TakeSnapshot
  BY <1>7, MainMoves DEF TakeSnapshot, shared, engineVars, handlerVars, parts
<1>8. CASE EndGenerate
  BY <1>8, NotServing DEF EndGenerate, engineVars, handlerVars, EngineInv, Asked, PoppedOnce, StartsEmpty
<1>9. ASSUME NEW i \in Ids, Look(i) PROVE EngineInv'
  BY <1>9, MainMoves DEF Look, shared, engineVars, handlerVars, parts
<1>10. ASSUME NEW i \in Ids, SetException(i) PROVE EngineInv'
  BY <1>10, NotServing DEF SetException, shared, engineVars, EngineInv, Asked, PoppedOnce, StartsEmpty
<1>. QED  BY <1>1, <1>2, <1>3, <1>4, <1>5, <1>6, <1>7, <1>8, <1>9, <1>10 DEF MainNext

(***************************************************************************)
(* The inference thread: a request moves from the queue to the batch, from *)
(* there its future is popped, and then completed.                         *)
(***************************************************************************)
LEMMA EngineStep ==
  ASSUME EngineInv, Types', EngineNext
  PROVE  EngineInv'
<1>. USE DEF mainVars, shared, handlerVars, Serving
<1>0. Asked'
  BY DEF EngineNext, LoopTop, Take, TimeUp, Check, Infer, Pop, BatchOver, Complete, TooLate,
         EngineInv, Asked
<1>1. CASE LoopTop
  <2>1. batch = <<>> /\ UNCHANGED batch
    BY <1>1 DEF LoopTop, EngineInv, StartsEmpty
  <2>2. \A i : ~Contains(batch, i)
    BY <2>1, ContainsNothing
  <2>3. held = {}
    BY <1>1 DEF LoopTop, EngineInv, PoppedOnce, Completing
  <2>. QED  BY <1>0, <1>1, <2>1, <2>2, <2>3 DEF LoopTop, EngineInv, FuturesPending, PoppedOnce,
            QueuedBefore, Registered, StartsEmpty, NoRequestLost, InHands, Done, Request
<1>2. CASE Take
  <2>1. held = {} /\ enginePc' \in {"check", "fill"}
    BY <1>2 DEF Take, EngineInv, PoppedOnce, Completing
  <2>2. \A i \in Ids : /\ Contains(requestQueue, i) => InHands(i)'
                       /\ Contains(batch, i) => Contains(batch, i)'
                       /\ InHands(i)' => InHands(i)
    <3>1. /\ requestQueue \in Seq(Ids \cup {Sentinel}) /\ batch \in Seq(Ids)
          /\ requestQueue # <<>> /\ requestQueue' = Tail(requestQueue)
      BY <1>2 DEF Take, EngineInv, Types
    <3>2. CASE Head(requestQueue) = Sentinel
      BY <1>2, <3>1, <3>2, ContainsHead, SentinelIsNoId DEF Take, InHands
    <3>3. CASE Head(requestQueue) # Sentinel
      <4>1. Head(requestQueue) \in Ids /\ batch' = Append(batch, Head(requestQueue))
        BY <1>2, <3>1, <3>3, ContainsHead DEF Take
      <4>2. \A i : Contains(batch, i)' <=> Contains(batch, i) \/ Head(requestQueue) = i
        BY <3>1, <4>1, ContainsAppend
      <4>. QED  BY <3>1, <4>2, ContainsHead DEF InHands
    <3>. QED  BY <3>2, <3>3
  <2>3. FuturesPending' /\ PoppedOnce' /\ Registered' /\ StartsEmpty'
    BY <1>2, <2>1 DEF Take, EngineInv, FuturesPending, PoppedOnce, Registered, StartsEmpty,
       Done, Request
  <2>4. QueuedBefore'
    <3>1. \A h \in Handlers, n \in 1 .. NumRequests : InHands(<<h, n>>)' => InHands(<<h, n>>)
      BY <2>2 DEF Ids
    <3>. QED  BY <1>2, <3>1 DEF Take, EngineInv, QueuedBefore
  <2>5. NoRequestLost'
    <3>1. \A h \in Handlers : hPc[h] = "wait" => Request(h) \in Ids
      BY RequestIsId DEF EngineInv
    <3>. QED  BY <1>2, <2>1, <2>2, <3>1 DEF Take, EngineInv, NoRequestLost, InHands, Done, Request
  <2>. QED  BY <1>0, <2>3, <2>4, <2>5 DEF EngineInv
<1>3. CASE TimeUp \/ Check \/ Infer
  <2>1. /\ enginePc \notin Completing \cup {"dead"} /\ enginePc' # "dead"
        /\ enginePc' = "top" => batch = <<>>
        /\ UNCHANGED <<requestQueue, resultFutures, mainPc, batch, held, future, hPc, count>>
    BY <1>3 DEF TimeUp, Check, Infer, Completing
  <2>. QED  BY <1>0, <2>1 DEF EngineInv, FuturesPending, PoppedOnce, QueuedBefore, Registered,
            StartsEmpty, NoRequestLost, InHands, Done, Request
<1>4. CASE Pop
  <2>1. /\ held = {} /\ enginePc \in Completing /\ UNCHANGED enginePc
        /\ held' = {Head(batch)} \cap resultFutures /\ resultFutures' = resultFutures \ held'
    BY <1>4 DEF Pop
  <2>2. \A i : /\ Contains(batch, i) => i = Head(batch) \/ Contains(batch, i)'
               /\ Contains(batch, i)' => Contains(batch, i)
               /\ Contains(batch, Head(batch))
    BY <1>4, ContainsHead DEF Pop, EngineInv, Types
  <2>3. Head(batch) \in Ids
    BY <1>4, ContainsHead DEF Pop, EngineInv, Types
  <2>4. FuturesPending' /\ PoppedOnce' /\ StartsEmpty'
    BY <1>4, <2>1 DEF Pop, EngineInv, FuturesPending, PoppedOnce, StartsEmpty, Done, Completing
  <2>5. QueuedBefore'
    BY <1>4, <2>2 DEF Pop, EngineInv, QueuedBefore, InHands
  <2>6. Registered'
    <3>1. ASSUME Serving, NEW h \in Handlers, hPc[h] = "put" PROVE Request(h) # Head(batch)
      <4>1. count[h] \in 1 .. NumRequests
        BY <3>1, RequestIsId DEF EngineInv
      <4>2. ~InHands(<<h, count[h]>>)
        BY <3>1, <4>1 DEF EngineInv, QueuedBefore
      <4>. QED  BY <2>2, <4>2 DEF InHands, Request
    <3>. QED  BY <1>4, <2>1, <3>1 DEF Pop, EngineInv, Registered, Request
  <2>7. NoRequestLost'
    BY <1>4, <2>1, <2>2 DEF Pop, EngineInv, NoRequestLost, Done, Request
  <2>. QED  BY <1>0, <2>4, <2>5, <2>6, <2>7 DEF EngineInv
<1>5. CASE BatchOver
  <2>1. batch = <<>> /\ \A i : ~Contains(batch, i)
    BY <1>5, ContainsNothing DEF BatchOver
  <2>. QED  BY <1>0, <1>5, <2>1 DEF BatchOver, EngineInv, FuturesPending, PoppedOnce, QueuedBefore,
            Registered, StartsEmpty, NoRequestLost, InHands, Done, Request
<1>6. ASSUME NEW i \in Ids, Complete(i) PROVE EngineInv'
  <2>1. /\ held = {i} /\ held' = {} /\ enginePc \in Completing
        /\ \A j : j # i => future'[j] = future[j]
        /\ Done(i)'
    BY <1>6 DEF Complete, Completed, EngineInv, PoppedOnce, Types, Done
  <2>2. Serving => i \notin resultFutures
    BY <2>1 DEF EngineInv, PoppedOnce
  <2>3. FuturesPending' /\ PoppedOnce' /\ StartsEmpty'
    BY <1>6, <2>1, <2>2 DEF Complete, EngineInv, FuturesPending, PoppedOnce, StartsEmpty, Done
  <2>4. QueuedBefore' /\ Registered'
    BY <1>6 DEF Complete, EngineInv, QueuedBefore, Registered, InHands, Request
  <2>5. NoRequestLost'
    BY <1>6, <2>1 DEF Complete, EngineInv, NoRequestLost, Done, Request
  <2>. QED  BY <1>0, <2>3, <2>4, <2>5 DEF EngineInv
<1>7. ASSUME NEW i \in Ids, TooLate(i) PROVE EngineInv'
  <2>1. ~Serving
    BY <1>7 DEF TooLate, EngineInv, FuturesPending, Ids
  <2>2. PoppedOnce' /\ StartsEmpty' /\ ~Serving'
    BY <1>7, <2>1 DEF TooLate, EngineInv, PoppedOnce, StartsEmpty
  <2>. QED  BY <1>0, <2>2, NotServing
<1>. QED  BY <1>1, <1>2, <1>3, <1>4, <1>5, <1>6, <1>7 DEF EngineNext

(***************************************************************************)
(* A handler registers, queues, waits.                                     *)
(***************************************************************************)
LEMMA HandlerStep ==
  ASSUME EngineInv, Types', NEW h \in Handlers, HandlerNext(h)
  PROVE  EngineInv'
<1>. USE DEF mainVars, shared, engineVars, Serving
<1>0. count[h] \in 0 .. NumRequests /\ NumRequests \in Nat
  BY BatchingEngineAssumption DEF EngineInv, Types
<1>1. CASE Register(h)
  <2>1. /\ count'[h] = count[h] + 1 /\ hPc[h] = "recv" /\ hPc'[h] = "put"
        /\ \A g \in Handlers : g # h => count'[g] = count[g] /\ hPc'[g] = hPc[g]
        /\ resultFutures' = resultFutures \cup {<<h, count[h] + 1>>}
        /\ <<h, count[h] + 1>> \in Ids
    BY <1>0, <1>1 DEF Register, EngineInv, Types, Ids
  <2>2. /\ future'[<<h, count[h] + 1>>] = "pending"
        /\ \A j : j # <<h, count[h] + 1>> => future'[j] = future[j]
    BY <1>1, <2>1 DEF Register, EngineInv, Types
  <2>3. \A g \in Handlers : count[g] \in Nat
    BY DEF EngineInv, Types
  <2>4. FuturesPending'
    <3>. SUFFICES ASSUME Serving, NEW g \in Handlers, NEW n \in 1 .. NumRequests,
                         <<g, n>> \in resultFutures' \cup held'
                  PROVE  n <= count'[g] /\ ~Done(<<g, n>>)'
      BY <1>1 DEF Register, FuturesPending
    <3>1. CASE <<g, n>> = <<h, count[h] + 1>>
      BY <3>1, <2>1, <2>2, <2>3 DEF Done
    <3>2. CASE <<g, n>> # <<h, count[h] + 1>>
      <4>1. <<g, n>> \in resultFutures \cup held
        BY <1>1, <2>1, <3>2 DEF Register
      <4>2. n <= count[g] /\ ~Done(<<g, n>>)
        BY <4>1 DEF EngineInv, FuturesPending
      <4>3. n <= count'[g]
        BY <2>1, <2>3, <4>2
      <4>. QED  BY <4>2, <4>3, <3>2, <2>2 DEF Done
    <3>. QED  BY <3>1, <3>2
  <2>5. PoppedOnce' /\ StartsEmpty'
    <3>1. ASSUME Serving PROVE <<h, count[h] + 1>> \notin held
      BY <3>1, <2>1, <2>3 DEF EngineInv, FuturesPending, Ids
    <3>. QED  BY <1>1, <2>1, <3>1 DEF Register, EngineInv, PoppedOnce, StartsEmpty
  <2>6. QueuedBefore'
    BY <1>1, <2>1, <2>3 DEF Register, EngineInv, QueuedBefore, InHands
  <2>7. Registered' /\ Asked'
    BY <1>1, <2>1, <2>3 DEF Register, EngineInv, Registered, Asked, Request
  <2>8. NoRequestLost'
    <3>. SUFFICES ASSUME Serving, NEW g \in Handlers, hPc'[g] = "wait", ~Done(Request(g))'
                  PROVE  /\ Request(g)' = Request(g) /\ hPc[g] = "wait" /\ ~Done(Request(g))
      BY <1>1, <2>1 DEF Register, EngineInv, NoRequestLost
    <3>1. g # h /\ Request(g)' = Request(g) /\ hPc[g] = "wait"
      BY <2>1 DEF Request
    <3>2. Request(g) # <<h, count[h] + 1>>
      BY <3>1 DEF Request
    <3>. QED  BY <3>1, <3>2, <2>2 DEF Done
  <2>. QED  BY <2>4, <2>5, <2>6, <2>7, <2>8 DEF EngineInv
<1>2. CASE Put(h)
  <2>1. /\ hPc[h] = "put" /\ hPc'[h] = "wait"
        /\ \A g \in Handlers : g # h => hPc'[g] = hPc[g]
        /\ \A g \in Handlers : Request(g)' = Request(g)
        /\ count[h] \in 1 .. NumRequests /\ Request(h) \in Ids
    BY <1>2, RequestIsId DEF Put, EngineInv, Types, Request
  <2>2. \A i : Contains(requestQueue, i)' <=> Contains(requestQueue, i) \/ Request(h) = i
    BY <1>2, <2>1, ContainsAppend DEF Put, EngineInv, Types
  <2>3. FuturesPending' /\ PoppedOnce' /\ StartsEmpty'
    BY <1>2 DEF Put, EngineInv, FuturesPending, PoppedOnce, StartsEmpty, Done
  <2>4. QueuedBefore'
    BY <1>2, <2>1, <2>2 DEF Put, EngineInv, QueuedBefore, InHands, Request
  <2>5. Registered' /\ Asked'
    BY <1>2, <2>1 DEF Put, EngineInv, Registered, Asked
  <2>6. NoRequestLost'
    BY <1>2, <2>1, <2>2 DEF Put, EngineInv, NoRequestLost, Registered, Done
  <2>. QED  BY <2>3, <2>4, <2>5, <2>6 DEF EngineInv
<1>3. CASE Answered(h) \/ GiveUp(h)
  <2>1. /\ hPc'[h] \in {"raised", "done", "recv"}
        /\ \A g \in Handlers : g # h => hPc'[g] = hPc[g]
        /\ UNCHANGED <<mainPc, requestQueue, resultFutures, batch, held, enginePc, future, count>>
    BY <1>3 DEF Answered, GiveUp, EngineInv, Types
  <2>2. \A g \in Handlers : hPc'[g] \in {"put", "wait"} => hPc'[g] = hPc[g]
    BY <2>1
  <2>3. FuturesPending' /\ PoppedOnce' /\ StartsEmpty'
    BY <2>1 DEF EngineInv, FuturesPending, PoppedOnce, StartsEmpty, Done
  <2>4. QueuedBefore'
    BY <2>1, <2>2 DEF EngineInv, QueuedBefore, InHands
  <2>5. Registered' /\ Asked'
    BY <2>1, <2>2 DEF EngineInv, Registered, Asked, Request
  <2>6. NoRequestLost'
    BY <2>1, <2>2 DEF EngineInv, NoRequestLost, Done, Request
  <2>. QED  BY <2>3, <2>4, <2>5, <2>6 DEF EngineInv
<1>. QED  BY <1>1, <1>2, <1>3 DEF HandlerNext

LEMMA EngineInductive == EngineInv /\ [Next]_vars => EngineInv'
<1>. SUFFICES ASSUME EngineInv, [Next]_vars PROVE EngineInv'
  OBVIOUS
<1>1. Types'
  BY TypesStep DEF EngineInv
<1>2. CASE UNCHANGED vars
  BY <1>1, <1>2, MainMoves DEF vars, mainVars, shared, engineVars, handlerVars, parts, Serving
<1>3. CASE Next
  BY <1>1, <1>2, <1>3, MainStep, EngineStep, HandlerStep DEF Next, Finished
<1>. QED  BY <1>2, <1>3

(***************************************************************************)
(* While generate() serves, no request of a waiting handler is lost: the   *)
(* interleaving of submit_request with the inference loop and with the     *)
(* first steps of stop() always leaves somebody who answers it.            *)
(***************************************************************************)
THEOREM NothingLost == Spec => []NoRequestLost
<1>1. EngineInv => NoRequestLost
  BY DEF EngineInv
<1>. QED  BY <1>1, InitEngineInv, EngineInductive, PTL DEF Spec

(***************************************************************************)
(* The quiet end of generate().  While it serves, a handler has at most    *)
(* one request that is not answered, the one it blocks on, and that is in  *)
(* one place only; so when all handlers have returned the engine has       *)
(* nothing in its hands.  From there stop() can only find the loop on its  *)
(* way out: what is queued is the sentinel, or the loop took it.           *)
(***************************************************************************)

\* The only registered or popped future of a handler is the one it blocks on.
OneOutstanding ==
  Serving => \A i \in Ids : i \in resultFutures \cup held =>
    i[2] = count[i[1]] /\ hPc[i[1]] \in {"put", "wait"}

\* Requests in the engine's hands are registered.
HandsRegistered == Serving => \A i \in Ids : InHands(i) => i \in resultFutures

\* No request stands in s twice.
Distinct(s) == \A a, b \in DOMAIN s : s[a] \in Ids /\ s[a] = s[b] => a = b
Once ==
  Serving => /\ Distinct(requestQueue) /\ Distinct(batch)
             /\ \A i \in Ids : ~(Contains(requestQueue, i) /\ Contains(batch, i))

\* The sentinel is queued by stop() alone, and only a batch is inferred.
SentinelLast == mainPc \in {"gather", "flag", "sentinel"} => requestQueue \in Seq(Ids)
BatchInferred == enginePc = "infer" => batch # <<>>

\* Every handler has returned and the engine has nothing in its hands.
Calm ==
  /\ \A h \in Handlers : hPc[h] = "done"
  /\ resultFutures = {} /\ held = {} /\ batch = <<>>

\* stop() after a gather that did not raise.
Winding ==
  ~raising =>
    /\ mainPc \in {"flag", "sentinel"} => Calm /\ requestQueue = <<>>
    /\ mainPc \in {"sentinel", "join"} => shouldStop
    /\ mainPc = "join" =>
         /\ Calm
         /\ \/ requestQueue = <<Sentinel>>
            \/ requestQueue = <<>> /\ enginePc \in {"check", "top", "dead"}
    /\ mainPc \in {"drain", "snap"} =>
         /\ Calm /\ enginePc = "dead"
         /\ requestQueue = <<>> \/ (requestQueue = <<Sentinel>> /\ mainPc = "drain")
    /\ mainPc = "snap" => snapshot = {}

Quieted ==
  mainPc = "idle" =>
    /\ ~raising /\ enginePc = "dead" /\ requestQueue = <<>>
    /\ resultFutures = {} /\ \A h \in Handlers : hPc[h] = "done"

ServeInv == OneOutstanding /\ HandsRegistered /\ Once

LEMMA DistinctAppend ==
  ASSUME NEW q \in Seq(Ids \cup {Sentinel}), NEW x \in Ids \cup {Sentinel}, Distinct(q),
         x \in Ids => ~Contains(q, x)
  PROVE  Distinct(Append(q, x))
<1> DEFINE u == Append(q, x)
<1>1. PICK n \in Nat : n = Len(q)
  OBVIOUS
<1>2. DOMAIN u = 1 .. n + 1 /\ u[n + 1] = x /\ \A k \in 1 .. n : u[k] = q[k]
  BY <1>1
<1>3. DOMAIN q = 1 .. n
  BY <1>1
<1> HIDE DEF u
<1>4. \A k \in 1 .. n + 1 : k \in 1 .. n \/ k = n + 1
  OBVIOUS
<1>5. \A k \in 1 .. n : u[k] \in Ids => u[k] # x
  BY <1>1, <1>2, <1>3 DEF Contains
<1> SUFFICES ASSUME NEW a \in DOMAIN u, NEW b \in DOMAIN u, u[a] \in Ids, u[a] = u[b] PROVE a = b
  BY DEF Distinct, u
<1>6. CASE a \in 1 .. n /\ b \in 1 .. n
  BY <1>2, <1>3, <1>6 DEF Distinct
<1>7. CASE a \in 1 .. n /\ b = n + 1
  BY <1>2, <1>5, <1>7
<1>8. CASE b \in 1 .. n /\ a = n + 1
  BY <1>2, <1>5, <1>8
<1>. QED  BY <1>2, <1>4, <1>6, <1>7, <1>8

LEMMA DistinctTail ==
  ASSUME NEW q \in Seq(Ids \cup {Sentinel}), q # <<>>, Distinct(q)
  PROVE  Distinct(Tail(q)) /\ (Head(q) \in Ids => ~Contains(Tail(q), Head(q)))
<1>1. PICK n \in Nat : n = Len(Tail(q))
  OBVIOUS
<1>2. /\ Len(q) = n + 1 /\ DOMAIN Tail(q) = 1 .. n /\ DOMAIN q = 1 .. n + 1 /\ Head(q) = q[1]
      /\ \A k \in 1 .. n : Tail(q)[k] = q[k + 1]
  BY <1>1
<1>3. \A k \in 1 .. n : k + 1 \in 1 .. n + 1 /\ k + 1 # 1 /\ 1 \in 1 .. n + 1
  OBVIOUS
<1>4. Distinct(Tail(q))
  <2> SUFFICES ASSUME NEW a \in 1 .. n, NEW b \in 1 .. n, Tail(q)[a] \in Ids,
                      Tail(q)[a] = Tail(q)[b]
               PROVE  a = b
    BY <1>2 DEF Distinct
  <2>1. a + 1 = b + 1
    BY <1>2, <1>3 DEF Distinct
  <2>. QED  BY <2>1
<1>5. ASSUME Head(q) \in Ids, Contains(Tail(q), Head(q)) PROVE FALSE
  <2>1. PICK k \in 1 .. n : Tail(q)[k] = Head(q)
    BY <1>1, <1>5 DEF Contains
  <2>. QED  BY <1>2, <1>3, <1>5, <2>1 DEF Distinct
<1>. QED  BY <1>4, <1>5

LEMMA DistinctNothing == Distinct(<<>>)
BY DEF Distinct

LEMMA NothingIn ==
  ASSUME NEW q \in Seq(Ids), \A i \in Ids : ~Contains(q, i)
  PROVE  q = <<>>
<1> SUFFICES ASSUME q # <<>> PROVE FALSE
  OBVIOUS
<1>. QED  BY ContainsHead

\* What the invariants that hold while generate() serves are about.
hands == <<requestQueue, resultFutures, batch, held, hPc, count>>

LEMMA ServeKept ==
  ASSUME ServeInv, Serving' => Serving, UNCHANGED hands
  PROVE  ServeInv'
BY DEF ServeInv, hands, OneOutstanding, HandsRegistered, Once, InHands

LEMMA ServeOver ==
  ASSUME ~Serving'
  PROVE  ServeInv'
BY DEF ServeInv, OneOutstanding, HandsRegistered, Once

LEMMA MainServes ==
  ASSUME EngineInv, ServeInv, MainNext
  PROVE  ServeInv'
<1>. USE DEF Serving
<1>1. CASE StartGenerate /\ enginePc # "dead"
  BY <1>1, ServeOver DEF StartGenerate
<1>2. CASE StartGenerate /\ enginePc = "dead"
  <2>1. requestQueue' = <<>> /\ resultFutures' = {} /\ batch' = <<>> /\ held' = {}
    BY <1>2 DEF StartGenerate
  <2>2. \A i : ~InHands(i)' /\ ~Contains(requestQueue, i)'
    BY <2>1, ContainsNothing DEF InHands
  <2>. QED  BY <2>1, <2>2, DistinctNothing
            DEF ServeInv, OneOutstanding, HandsRegistered, Once
<1>3. CASE Gathered \/ SetFlag \/ Join \/ TakeSnapshot
  BY <1>3, ServeKept DEF Gathered, SetFlag, Join, TakeSnapshot, shared, engineVars, handlerVars, hands
<1>4. CASE PutSentinel
  <2>1. /\ requestQueue' = Append(requestQueue, Sentinel) /\ batch' = batch /\ held' = held
        /\ resultFutures' = resultFutures /\ hPc' = hPc /\ count' = count /\ Serving
    BY <1>4 DEF PutSentinel, WithSentinel, engineVars, handlerVars
  <2>2. requestQueue \in Seq(Ids \cup {Sentinel}) /\ Sentinel \in Ids \cup {Sentinel}
    BY DEF EngineInv, Types
  <2>3. \A i \in Ids : Contains(requestQueue, i)' <=> Contains(requestQueue, i)
    <3>1. \A i : Contains(Append(requestQueue, Sentinel), i) <=>
                   Contains(requestQueue, i) \/ Sentinel = i
      BY <2>2, ContainsAppend
    <3>. QED  BY <2>1, <3>1, SentinelIsNoId
  <2>4. Distinct(requestQueue')
    <3>1. Distinct(requestQueue)
      BY <2>1 DEF ServeInv, Once
    <3>. QED  BY <2>1, <2>2, <3>1, SentinelIsNoId, DistinctAppend
  <2>5. OneOutstanding' /\ HandsRegistered'
    BY <2>1, <2>3 DEF ServeInv, OneOutstanding, HandsRegistered, InHands
  <2>6. Once'
    BY <2>1, <2>3, <2>4 DEF ServeInv, Once
  <2>. QED  BY <2>5, <2>6 DEF ServeInv
<1>5. CASE DrainOne \/ EndGenerate
  BY <1>5, ServeOver DEF DrainOne, EndGenerate, mainVars
<1>6. ASSUME NEW i \in Ids, Look(i) \/ SetException(i) PROVE ServeInv'
  BY <1>6, ServeOver DEF Look, SetException
<1>. QED  BY <1>1, <1>2, <1>3, <1>4, <1>5, <1>6 DEF MainNext

LEMMA EngineServes ==
  ASSUME EngineInv, ServeInv, EngineNext
  PROVE  ServeInv'
<1>. USE DEF mainVars, handlerVars, Serving
<1>0. /\ requestQueue \in Seq(Ids \cup {Sentinel}) /\ batch \in Seq(Ids) /\ resultFutures \subseteq Ids
      /\ batch \in Seq(Ids \cup {Sentinel})
  BY DEF EngineInv, Types
<1>1. CASE LoopTop
  <2>1. batch = <<>>
    BY <1>1 DEF LoopTop, EngineInv, StartsEmpty
  <2>. QED  BY <1>1, <2>1, ServeKept DEF LoopTop, shared, hands
<1>2. CASE TimeUp \/ Check \/ Infer \/ BatchOver
  BY <1>2, ServeKept DEF TimeUp, Check, Infer, BatchOver, shared, hands
<1>3. ASSUME NEW i \in Ids, Complete(i) \/ TooLate(i) PROVE ServeInv'
  BY <1>3 DEF Complete, TooLate, shared, ServeInv, OneOutstanding, HandsRegistered, Once, InHands
<1>4. CASE Take
  <2>1. /\ requestQueue # <<>> /\ requestQueue' = Tail(requestQueue) /\ mainPc' = mainPc
        /\ resultFutures' = resultFutures /\ held' = held /\ hPc' = hPc /\ count' = count
        /\ \/ Head(requestQueue) = Sentinel /\ batch' = batch
           \/ Head(requestQueue) # Sentinel /\ batch' = Append(batch, Head(requestQueue))
    BY <1>4 DEF Take
  <2>2. SUFFICES ASSUME Serving PROVE ServeInv'
    BY <2>1, ServeOver
  <2>3. /\ Distinct(requestQueue) /\ Distinct(batch)
        /\ \A i \in Ids : ~(Contains(requestQueue, i) /\ Contains(batch, i))
    BY <2>2 DEF ServeInv, Once
  <2>4. /\ Distinct(Tail(requestQueue))
        /\ Head(requestQueue) \in Ids => ~Contains(Tail(requestQueue), Head(requestQueue))
    BY <1>0, <2>1, <2>3, DistinctTail
  <2>5. /\ Head(requestQueue) \in Ids \cup {Sentinel}
        /\ Contains(requestQueue, Head(requestQueue))
        /\ \A i : Contains(requestQueue, i) =>
             i = Head(requestQueue) \/ Contains(Tail(requestQueue), i)
        /\ \A i : Contains(Tail(requestQueue), i) => Contains(requestQueue, i)
    BY <1>0, <2>1, ContainsHead
  <2>6. CASE Head(requestQueue) = Sentinel
    <3>1. \A i \in Ids : InHands(i)' => InHands(i)
      BY <2>1, <2>5, <2>6, SentinelIsNoId DEF InHands
    <3>. QED  BY <2>1, <2>3, <2>4, <2>5, <2>6, <3>1, SentinelIsNoId
              DEF ServeInv, OneOutstanding, HandsRegistered, Once
  <2>7. CASE Head(requestQueue) \in Ids
    <3>1. batch' = Append(batch, Head(requestQueue))
      BY <2>1, <2>7, SentinelIsNoId
    <3>2. \A i : Contains(batch', i) <=> Contains(batch, i) \/ Head(requestQueue) = i
      BY <1>0, <2>7, <3>1, ContainsAppend
    <3>3. Distinct(batch')
      BY <1>0, <2>3, <2>5, <2>7, <3>1, DistinctAppend
    <3>4. \A i \in Ids : InHands(i)' => InHands(i)
      BY <2>1, <2>5, <3>2 DEF InHands
    <3>5. Once'
      BY <2>1, <2>3, <2>4, <2>5, <2>7, <3>2, <3>3 DEF Once
    <3>. QED  BY <2>1, <3>4, <3>5 DEF ServeInv, OneOutstanding, HandsRegistered
  <2>. QED  BY <2>5, <2>6, <2>7
<1>5. CASE Pop
  <2> DEFINE j == Head(batch)
  <2>1. /\ batch # <<>> /\ batch' = Tail(batch) /\ mainPc' = mainPc /\ hPc' = hPc /\ count' = count
        /\ held' = {j} \cap resultFutures /\ resultFutures' = resultFutures \ held'
        /\ requestQueue' = requestQueue
    BY <1>5 DEF Pop
  <2>2. SUFFICES ASSUME Serving PROVE ServeInv'
    BY <2>1, ServeOver
  <2>3. /\ Distinct(requestQueue) /\ Distinct(batch)
        /\ \A i \in Ids : ~(Contains(requestQueue, i) /\ Contains(batch, i))
        /\ \A i \in Ids : InHands(i) => i \in resultFutures
    BY <2>2 DEF ServeInv, Once, HandsRegistered
  <2>4. /\ j \in Ids /\ Contains(batch, j) /\ \A i : Contains(Tail(batch), i) => Contains(batch, i)
    BY <1>0, <2>1, ContainsHead
  <2>5. Distinct(Tail(batch)) /\ ~Contains(Tail(batch), j)
    BY <1>0, <2>1, <2>3, <2>4, DistinctTail
  <2> HIDE DEF j
  <2>6. \A i \in Ids : InHands(i)' => InHands(i) /\ i # j
    BY <2>1, <2>3, <2>4, <2>5 DEF InHands
  <2>7. HandsRegistered'
    BY <2>1, <2>3, <2>6 DEF HandsRegistered
  <2>8. OneOutstanding'
    BY <2>1, <2>2 DEF ServeInv, OneOutstanding
  <2>9. Once'
    BY <2>1, <2>3, <2>4, <2>5 DEF Once
  <2>. QED  BY <2>7, <2>8, <2>9 DEF ServeInv
<1>. QED  BY <1>1, <1>2, <1>3, <1>4, <1>5 DEF EngineNext

LEMMA HandlerServes ==
  ASSUME EngineInv, ServeInv, NEW h \in Handlers, HandlerNext(h)
  PROVE  ServeInv'
<1>. USE DEF mainVars, engineVars, Serving
<1>0. /\ requestQueue \in Seq(Ids \cup {Sentinel}) /\ resultFutures \subseteq Ids
      /\ hPc \in [Handlers -> {"recv", "put", "wait", "done", "raised"}]
      /\ count \in [Handlers -> 0 .. NumRequests]
  BY DEF EngineInv, Types
<1>1. mainPc' = mainPc
  BY DEF HandlerNext, Register, Put, Answered, GiveUp
<1>2. SUFFICES ASSUME Serving PROVE ServeInv'
  BY <1>1, ServeOver
<1>3. \A i \in Ids : i[1] \in Handlers /\ i[2] \in 1 .. NumRequests /\ i = <<i[1], i[2]>>
  BY DEF Ids
<1>4. CASE Register(h)
  <2> DEFINE k == <<h, count[h] + 1>>
  <2>1. /\ hPc[h] = "recv" /\ hPc' = [hPc EXCEPT ![h] = "put"]
        /\ count' = [count EXCEPT ![h] = count[h] + 1] /\ resultFutures' = resultFutures \cup {k}
        /\ requestQueue' = requestQueue /\ batch' = batch /\ held' = held
    BY <1>4 DEF Register
  <2>2. k[1] = h /\ k[2] = count[h] + 1
    OBVIOUS
  <2> HIDE DEF k
  <2>3. ASSUME NEW i \in Ids, i \in resultFutures' \cup held'
        PROVE  i[2] = count'[i[1]] /\ hPc'[i[1]] \in {"put", "wait"}
    <3>1. CASE i = k
      BY <1>0, <2>1, <2>2, <3>1
    <3>2. CASE i # k
      <4>1. i[2] = count[i[1]] /\ hPc[i[1]] \in {"put", "wait"}
        BY <1>2, <2>1, <2>3, <3>2 DEF ServeInv, OneOutstanding
      <4>2. i[1] # h
        BY <2>1, <4>1
      <4>. QED  BY <1>0, <1>3, <2>1, <4>1, <4>2
    <3>. QED  BY <3>1, <3>2
  <2>4. HandsRegistered' /\ Once'
    BY <1>1, <2>1 DEF ServeInv, HandsRegistered, Once, InHands
  <2>. QED  BY <2>3, <2>4 DEF ServeInv, OneOutstanding
<1>5. CASE Put(h)
  <2>1. /\ hPc[h] = "put" /\ hPc' = [hPc EXCEPT ![h] = "wait"] /\ count' = count
        /\ requestQueue' = Append(requestQueue, Request(h)) /\ resultFutures' = resultFutures
        /\ batch' = batch /\ held' = held
    BY <1>5 DEF Put
  <2>2. Request(h) \in Ids /\ count[h] \in 1 .. NumRequests
    BY <2>1, RequestIsId DEF EngineInv
  <2>3. ~InHands(Request(h)) /\ Request(h) \in resultFutures
    <3>1. InHands(<<h, count[h]>>) => count[h] < count[h]
      BY <1>2, <2>1, <2>2 DEF EngineInv, QueuedBefore
    <3>2. ~(count[h] < count[h])
      BY <2>2
    <3>. QED  BY <1>2, <2>1, <3>1, <3>2 DEF Request, EngineInv, Registered
  <2>4. \A i : Contains(requestQueue', i) <=> Contains(requestQueue, i) \/ Request(h) = i
    BY <1>0, <2>1, <2>2, ContainsAppend
  <2>5. Distinct(requestQueue')
    <3>1. Distinct(requestQueue) /\ ~Contains(requestQueue, Request(h))
      BY <1>2, <2>3 DEF ServeInv, Once, InHands
    <3>. QED  BY <1>0, <2>1, <2>2, <3>1, DistinctAppend
  <2>6. Once'
    BY <1>2, <2>1, <2>3, <2>4, <2>5 DEF ServeInv, Once, InHands
  <2>7. HandsRegistered'
    BY <1>2, <2>1, <2>3, <2>4 DEF ServeInv, HandsRegistered, InHands
  <2>8. OneOutstanding'
    BY <1>0, <1>2, <1>3, <2>1 DEF ServeInv, OneOutstanding
  <2>. QED  BY <2>6, <2>7, <2>8 DEF ServeInv
<1>6. CASE Answered(h) \/ GiveUp(h)
  <2>1. /\ UNCHANGED <<requestQueue, resultFutures, batch, held, count>>
        /\ \A g \in Handlers : g # h => hPc'[g] = hPc[g]
        /\ hPc[h] = "recv" \/ (hPc[h] = "wait" /\ Done(Request(h)))
    BY <1>0, <1>6 DEF Answered, GiveUp, shared
  <2>2. ASSUME NEW i \in Ids, i \in resultFutures \cup held
        PROVE  i[2] = count[i[1]] /\ hPc'[i[1]] \in {"put", "wait"}
    <3>1. i[2] = count[i[1]] /\ hPc[i[1]] \in {"put", "wait"}
      BY <1>2, <2>2 DEF ServeInv, OneOutstanding
    <3>2. ~Done(i)
      <4>1. <<i[1], i[2]>> \in resultFutures \cup held => ~Done(<<i[1], i[2]>>)
        BY <1>2, <1>3 DEF EngineInv, FuturesPending
      <4>. QED  BY <1>3, <2>2, <4>1
    <3>3. i[1] # h
      <4>1. ASSUME i[1] = h PROVE FALSE
        <5>1. i = Request(h)
          BY <1>3, <3>1, <4>1 DEF Request
        <5>. QED  BY <2>1, <3>1, <3>2, <4>1, <5>1
      <4>. QED  BY <4>1
    <3>. QED  BY <1>3, <2>1, <3>1, <3>3
  <2>3. HandsRegistered' /\ Once'
    BY <1>1, <2>1 DEF ServeInv, HandsRegistered, Once, InHands
  <2>. QED  BY <2>1, <2>2, <2>3 DEF ServeInv, OneOutstanding
<1>. QED  BY <1>4, <1>5, <1>6 DEF HandlerNext

StopInv ==
  /\ SentinelLast /\ BatchInferred
  /\ mainPc = "gather" => ~raising
  /\ Winding /\ Quieted

\* When all handlers have returned, nothing is left of what they asked for.
LEMMA AllCalm ==
  ASSUME EngineInv, ServeInv, SentinelLast, mainPc = "gather", AllReturned
  PROVE  Calm /\ requestQueue = <<>>
<1>1. /\ requestQueue \in Seq(Ids) /\ batch \in Seq(Ids) /\ resultFutures \subseteq Ids
      /\ held \subseteq Ids /\ Serving
  BY DEF EngineInv, Types, SentinelLast, Serving
<1>2. \A i \in Ids : i[1] \in Handlers
  BY DEF Ids
<1>3. resultFutures = {} /\ held = {}
  BY <1>1, <1>2 DEF ServeInv, OneOutstanding, AllReturned
<1>4. \A i \in Ids : ~InHands(i)
  BY <1>1, <1>3 DEF ServeInv, HandsRegistered
<1>5. requestQueue = <<>> /\ batch = <<>>
  BY <1>1, <1>4, NothingIn DEF InHands
<1>. QED  BY <1>3, <1>5 DEF Calm, AllReturned

LEMMA MainStops ==
  ASSUME EngineInv, ServeInv, StopInv, MainNext
  PROVE  StopInv'
<1>. USE DEF handlerVars, engineVars, shared
<1>1. CASE StartGenerate
  <2>1. CASE enginePc # "dead"
    BY <1>1, <2>1 DEF StartGenerate, StopInv, SentinelLast, BatchInferred, Winding, Quieted
  <2>2. CASE enginePc = "dead"
    <3>1. requestQueue' \in Seq(Ids)
      BY <1>1, <2>2, ContainsNothing DEF StartGenerate
    <3>. QED  BY <1>1, <2>2, <3>1
              DEF StartGenerate, StopInv, SentinelLast, BatchInferred, Winding, Quieted
  <2>. QED  BY <2>1, <2>2
<1>2. CASE Gathered
  <2>1. /\ mainPc = "gather" /\ mainPc' = "flag" /\ raising' = ~AllReturned
        /\ UNCHANGED <<requestQueue, resultFutures, enginePc, batch, held, hPc>>
    BY <1>2 DEF Gathered
  <2>2. ~raising' => Calm' /\ requestQueue' = <<>>
    BY <2>1, AllCalm DEF StopInv, Calm
  <2>. QED  BY <2>1, <2>2 DEF StopInv, SentinelLast, BatchInferred, Winding, Quieted
<1>3. CASE SetFlag
  BY <1>3 DEF SetFlag, StopInv, SentinelLast, BatchInferred, Winding, Quieted, Calm
<1>4. CASE PutSentinel
  <2>1. /\ mainPc = "sentinel" /\ mainPc' = "join" /\ requestQueue' = Append(requestQueue, Sentinel)
        /\ UNCHANGED <<raising, resultFutures, shouldStop, enginePc, batch, held, hPc>>
    BY <1>4 DEF PutSentinel, WithSentinel
  <2>2. requestQueue = <<>> => requestQueue' = <<Sentinel>>
    BY <2>1
  <2>. QED  BY <2>1, <2>2 DEF StopInv, SentinelLast, BatchInferred, Winding, Quieted, Calm
<1>5. CASE Join
  <2>1. /\ mainPc = "join" /\ mainPc' = "drain" /\ JoinReturns
        /\ UNCHANGED <<raising, requestQueue, resultFutures, shouldStop, enginePc, batch, held, hPc>>
    BY <1>5 DEF Join
  <2>2. ~raising => enginePc = "dead"
    <3>1. <<Sentinel>> # <<>>
      OBVIOUS
    <3>. QED  BY <2>1, <3>1 DEF StopInv, Winding, Calm, JoinReturns, BatchInferred
  <2>. QED  BY <2>1, <2>2 DEF StopInv, SentinelLast, BatchInferred, Winding, Quieted, Calm
<1>6. CASE DrainOne
  <2>1. /\ mainPc = "drain" /\ requestQueue # <<>> /\ requestQueue' = Tail(requestQueue)
        /\ resultFutures' \subseteq resultFutures
        /\ UNCHANGED <<mainPc, raising, snapshot, enginePc, batch, held, hPc>>
    BY <1>6 DEF DrainOne, mainVars
  <2>2. requestQueue = <<Sentinel>> => requestQueue' = <<>>
    BY <2>1
  <2>. QED  BY <2>1, <2>2 DEF StopInv, SentinelLast, BatchInferred, Winding, Quieted, Calm
<1>7. CASE TakeSnapshot
  BY <1>7 DEF TakeSnapshot, LeftFutures, StopInv, SentinelLast, BatchInferred, Winding, Quieted, Calm
<1>8. CASE EndGenerate
  BY <1>8 DEF EndGenerate, StopInv, SentinelLast, BatchInferred, Winding, Quieted, Calm
<1>9. ASSUME NEW i \in Ids, Look(i) PROVE StopInv'
  BY <1>9 DEF Look, StopInv, SentinelLast, BatchInferred, Winding, Quieted, Calm
<1>10. ASSUME NEW i \in Ids, SetException(i) PROVE StopInv'
  BY <1>10 DEF SetException, StopInv, SentinelLast, BatchInferred, Winding, Quieted, Calm
<1>. QED  BY <1>1, <1>2, <1>3, <1>4, <1>5, <1>6, <1>7, <1>8, <1>9, <1>10 DEF MainNext

LEMMA EngineStops ==
  ASSUME EngineInv, StopInv, EngineNext
  PROVE  StopInv'
<1>. USE DEF mainVars, handlerVars, shared
<1>1. CASE LoopTop
  BY <1>1 DEF LoopTop, StopInv, SentinelLast, BatchInferred, Winding, Quieted, Calm
<1>2. CASE Take
  <2>1. /\ enginePc = "fill" /\ requestQueue # <<>> /\ requestQueue' = Tail(requestQueue)
        /\ enginePc' \in {"check", "fill"}
        /\ Head(requestQueue) = Sentinel => shouldStop' /\ enginePc' = "check" /\ batch' = batch
        /\ UNCHANGED <<mainPc, raising, snapshot, resultFutures, held, hPc>>
    BY <1>2 DEF Take
  <2>2. requestQueue \in Seq(Ids) => requestQueue' \in Seq(Ids)
    BY <2>1
  <2>3. requestQueue = <<Sentinel>> => requestQueue' = <<>> /\ Head(requestQueue) = Sentinel
    BY <2>1
  <2>4. SentinelLast' /\ BatchInferred'
    BY <2>1, <2>2 DEF StopInv, SentinelLast, BatchInferred
  <2>5. Winding' /\ Quieted'
    BY <2>1, <2>3 DEF StopInv, Winding, Quieted, Calm
  <2>. QED  BY <2>1, <2>4, <2>5 DEF StopInv
<1>3. CASE TimeUp
  BY <1>3 DEF TimeUp, MayTimeOut, StopInv, SentinelLast, BatchInferred, Winding, Quieted, Calm
<1>4. CASE Check
  BY <1>4 DEF Check, StopInv, SentinelLast, BatchInferred, Winding, Quieted, Calm
<1>5. CASE Infer
  BY <1>5 DEF Infer, StopInv, SentinelLast, BatchInferred, Winding, Quieted, Calm
<1>6. CASE Pop
  <2>1. /\ enginePc \in Completing /\ batch # <<>> /\ enginePc' = enginePc
        /\ UNCHANGED <<mainPc, raising, requestQueue, shouldStop>>
    BY <1>6 DEF Pop
  <2>. QED  BY <2>1 DEF StopInv, SentinelLast, BatchInferred, Winding, Quieted, Calm, Completing
<1>7. ASSUME NEW i \in Ids, Complete(i) \/ TooLate(i) PROVE StopInv'
  <2>1. /\ enginePc \in Completing /\ held # {} /\ enginePc' \in {enginePc, "fail", "dead"}
        /\ UNCHANGED <<mainPc, raising, requestQueue, shouldStop>>
    BY <1>7 DEF Complete, TooLate
  <2>. QED  BY <2>1 DEF StopInv, SentinelLast, BatchInferred, Winding, Quieted, Calm, Completing
<1>8. CASE BatchOver
  BY <1>8 DEF BatchOver, Completing, StopInv, SentinelLast, BatchInferred, Winding, Quieted, Calm
<1>. QED  BY <1>1, <1>2, <1>3, <1>4, <1>5, <1>6, <1>7, <1>8 DEF EngineNext

LEMMA HandlerStops ==
  ASSUME EngineInv, StopInv, NEW h \in Handlers, HandlerNext(h)
  PROVE  StopInv'
<1>1. /\ hPc[h] # "done" /\ UNCHANGED <<mainPc, raising, enginePc, batch>>
      /\ requestQueue' = requestQueue \/ (hPc[h] = "put" /\ requestQueue' = Append(requestQueue, Request(h)))
  BY DEF HandlerNext, Register, Put, Answered, GiveUp, mainVars, engineVars, shared
<1>2. requestQueue \in Seq(Ids) => requestQueue' \in Seq(Ids)
  BY <1>1, RequestIsId DEF EngineInv
<1>. QED  BY <1>1, <1>2 DEF StopInv, SentinelLast, BatchInferred, Winding, Quieted, Calm

LEMMA QuietInductive == EngineInv /\ ServeInv /\ StopInv /\ [Next]_vars => ServeInv' /\ StopInv'
<1>. SUFFICES ASSUME EngineInv, ServeInv, StopInv, [Next]_vars PROVE ServeInv' /\ StopInv'
  OBVIOUS
<1>1. CASE UNCHANGED vars
  <2>1. ServeInv'
    BY <1>1, ServeKept DEF vars, mainVars, shared, engineVars, handlerVars, hands, Serving
  <2>2. StopInv'
    BY <1>1 DEF vars, mainVars, shared, engineVars, handlerVars, StopInv, SentinelLast,
                BatchInferred, Winding, Quieted, Calm
  <2>. QED  BY <2>1, <2>2
<1>2. CASE Next
  BY <1>1, <1>2, MainServes, EngineServes, HandlerServes, MainStops, EngineStops, HandlerStops
     DEF Next, Finished
<1>. QED  BY <1>1, <1>2

LEMMA QuietInit == Init => ServeInv /\ StopInv
BY ServeOver DEF Init, ServeInv, Serving, OneOutstanding, HandsRegistered, Once,
   StopInv, SentinelLast, BatchInferred, Winding, Quieted

(***************************************************************************)
(* A generate() whose handlers all returned leaves the engine as start()   *)
(* wants it: stop() finds nothing but its own sentinel, and the join never *)
(* times out.  For any number of handlers, requests and calls, whatever    *)
(* the sizes of requests and batches.                                      *)
(***************************************************************************)
THEOREM StopsQuietly == Spec => []QuietStop
<1>1. StopInv => QuietStop
  BY DEF StopInv, Quieted, QuietStop
<1>. QED  BY <1>1, InitEngineInv, EngineInductive, QuietInit, QuietInductive, PTL DEF Spec
=============================================================================
