--------------------------- MODULE CollectiveGroup ---------------------------
(***************************************************************************)
(* Point-to-point communication of two workers.                            *)
(*                                                                         *)
(* The first message makes the two workers meet: the one whose name sorts  *)
(* first registers their group and publishes a port, the other one polls   *)
(* for both, and they join.  From then on an object travels as a series of *)
(* pieces, each a broadcast in one of four process groups (a direction and *)
(* a device: CPU or accelerator).  Nothing in a piece says what it is: the *)
(* receiver derives from what it received so far, and from where the       *)
(* devices of both are, what comes next.  A worker has a queue and a       *)
(* thread for its asynchronous sends, one for its receives; synchronous    *)
(* calls run in the calling thread once the queue is empty.                *)
(*                                                                         *)
(* Source: scheduler/collective/collective_group.py, collective.py,        *)
(* multi_channel_pg.py, scheduler/manager/coll_manager.py.  A piece is     *)
(* handed over when both ends have come to it; the content of a tensor is  *)
(* its identity.                                                           *)
(***************************************************************************)
EXTENDS Integers, Sequences, FiniteSets, SequencesExt

CONSTANT Scenarios  \* who the workers are and what they do: [node, devices, prog]

(***************************************************************************)
(* node     side -> its cluster node                                       *)
(* devices  side -> its available accelerators                             *)
(* prog     side -> the calls of its main thread:                          *)
(*   [do |-> "send", raw, async, obj], [do |-> "recv", raw, async, on]     *)
(*   raw    send_tensor and recv_tensor                                    *)
(*   obj    [type, place, parts]: "tensor", "tensor_list", "tensor_dict"   *)
(*          or "object"; "cpu" or "accel"; a sequence of [id, on], on the  *)
(*          device of the tensor                                           *)
(*   on     current device of the receiver, of the given tensor if raw;    *)
(*          "cpu" for a CPU tensor                                         *)
(***************************************************************************)
Sides == {0, 1}
Peer(s) == 1 - s

ASSUME CollectiveGroupAssumption ==
  \A x \in Scenarios : \A s \in Sides :
    /\ x.devices[s] # {}
    /\ \A i \in DOMAIN x.prog[s] : x.prog[s][i].raw /\ x.prog[s][i].do = "send" =>
         x.prog[s][i].obj.type = "tensor"

Executors == Sides \X {"main", "send", "recv"}  \* the threads that communicate
Idle == [call |-> 0, todo |-> <<>>, have |-> <<>>, fill |-> <<>>]

VARIABLES
  scenario,    \* the scenario of this execution; no step changes it
  launched,    \* workers that registered with the WorkerManager
  registered,  \* the group's info is with the CollectiveManager
  port,        \* its master_port there, 0 for None
  phase,       \* side -> "new", "found", "joining", "joined", "ready"
  pc,          \* side -> number of its main thread's current call
  queue,       \* <<side, "send"/"recv">> -> calls enqueued, in order
  exec,        \* executor -> [call, todo, have, fill]
  received     \* side -> objects its receives returned, in order

vars == <<scenario, launched, registered, port, phase, pc, queue, exec, received>>

Prog(s) == scenario.prog[s]

Init ==
  /\ scenario \in Scenarios
  /\ launched = {}
  /\ registered = FALSE
  /\ port = 0
  /\ phase = [s \in Sides |-> "new"]
  /\ pc = [s \in Sides |-> 1]
  /\ queue = [q \in Sides \X {"send", "recv"} |-> <<>>]
  /\ exec = [e \in Executors |-> Idle]
  /\ received = [s \in Sides |-> <<>>]

-----------------------------------------------------------------------------
(***************************************************************************)
(* Pieces.                                                                 *)
(***************************************************************************)
Put(dev, tag, val) == [do |-> "put", dev |-> dev, tag |-> tag, val |-> val]
Take(dev, tag) == [do |-> "take", dev |-> dev, tag |-> tag]

\* An object serialized into a CPU tensor, after the size of that tensor.
PutBoxed(tag, val) == <<Put("cpu", "size", Len(tag)), Put("cpu", tag, val)>>
TakeBoxed(tag) == <<Take("cpu", "size"), Take("cpu", tag)>>

PutEach(parts, dev) == [i \in DOMAIN parts |-> Put(dev, "tensor", parts[i].id)]
TakeEach(n, dev) == [i \in 1 .. n |-> Take(dev, "tensor")]

PutIf(cond, steps) == IF cond THEN steps ELSE <<>>
Ids(parts) == [i \in DOMAIN parts |-> parts[i].id]
Ons(parts) == [i \in DOMAIN parts |-> parts[i].on]

\* _check_same_device_with_peer, from the devices of both workers.
Relation(s) ==
  LET mine == scenario.devices[s]
      its  == scenario.devices[Peer(s)]
  IN IF scenario.node[s] # scenario.node[Peer(s)] \/ mine \cap its = {} THEN "apart"
     ELSE IF Cardinality(mine) = 1 /\ Cardinality(its) = 1 THEN "same"
     ELSE "uncertain"

(***************************************************************************)
(* What a sender does.                                                     *)
(***************************************************************************)
\* To a peer on the same device: IPC handles instead of the tensors.
PutHandles(parts) == PutBoxed("handles", Ids(parts))

\* To a peer that may be on the same device: the sender tells where its
\* tensors are and asks where the peer is.
AskPeer(parts) == PutBoxed("devices", Ons(parts)) \o TakeBoxed("peer")

\* The tensors of a list, or the tensor of send_tensor.
TensorSteps(s, obj) ==
  CASE obj.place = "cpu"          -> PutEach(obj.parts, "cpu")
    [] Relation(s) = "apart"      -> PutEach(obj.parts, "accel")
    [] Relation(s) = "same"       -> PutHandles(obj.parts)
    [] Relation(s) = "uncertain"  -> AskPeer(obj.parts)

\* Now that it knows the peer's device: IPC handles of the tensors there,
\* then the others one by one.
AfterPeer(obj, device) ==
  LET here  == SelectSeq(obj.parts, LAMBDA p : p.on = device)
      there == SelectSeq(obj.parts, LAMBDA p : p.on # device)
  IN PutIf(here # <<>>, PutHandles(here)) \o PutEach(there, "accel")

ListSteps(s, obj) ==
  PutBoxed("meta", [place |-> obj.place, n |-> Len(obj.parts)]) \o TensorSteps(s, obj)

DictSteps(s, obj) == PutBoxed("keys", Len(obj.parts)) \o ListSteps(s, obj)

SendSteps(s, call) ==
  LET obj == call.obj
  IN IF call.raw THEN TensorSteps(s, obj)
     ELSE <<Put("cpu", "type", obj.type)>> \o
          CASE obj.type \in {"tensor", "tensor_list"} -> ListSteps(s, obj)
            [] obj.type = "tensor_dict" -> DictSteps(s, obj)
            [] obj.type = "object"      -> PutBoxed("bytes", Ids(obj.parts))

(***************************************************************************)
(* What a receiver does, and how a piece tells it more.                    *)
(***************************************************************************)
TakeHandles == TakeBoxed("handles")
TakeDevices == TakeBoxed("devices")

\* Accelerator tensors, n of them.
AccelSteps(s, n) ==
  CASE Relation(s) = "apart"     -> TakeEach(n, "accel")
    [] Relation(s) = "same"      -> TakeHandles
    [] Relation(s) = "uncertain" -> TakeDevices

RecvSteps(s, call) ==
  IF ~call.raw THEN <<Take("cpu", "type")>>
  ELSE IF call.on = "cpu" THEN TakeEach(1, "cpu")
  ELSE AccelSteps(s, 1)

TakeDict == TakeBoxed("keys") \o TakeBoxed("meta")

AfterType(type) ==
  CASE type \in {"tensor", "tensor_list"} -> TakeBoxed("meta")
    [] type = "tensor_dict" -> TakeDict
    [] type = "object"      -> TakeBoxed("bytes")

AfterMeta(s, meta) ==
  IF meta.place = "cpu" THEN TakeEach(meta.n, "cpu") ELSE AccelSteps(s, meta.n)

IndicesWhere(devices, Test(_)) ==
  SelectSeq([i \in DOMAIN devices |-> i], LAMBDA i : Test(devices[i]))

\* Where the tensors belong that come by IPC first and then one by one.
ArrivalOrder(devices, device) ==
  IndicesWhere(devices, LAMBDA d : d = device) \o IndicesWhere(devices, LAMBDA d : d # device)

AfterDevices(devices, device) ==
  LET there == IndicesWhere(devices, LAMBDA d : d # device)
  IN PutBoxed("peer", device)
     \o PutIf(Len(there) < Len(devices), TakeHandles)
     \o TakeEach(Len(there), "accel")

\* The tensors ids fill the next places of the object.
Filled(x, ids) ==
  [x EXCEPT !.have = [i \in DOMAIN @ |->
                        IF \E j \in DOMAIN ids : x.fill[j] = i
                        THEN ids[CHOOSE j \in DOMAIN ids : x.fill[j] = i] ELSE @[i]],
            !.fill = SubSeq(@, Len(ids) + 1, Len(@))]

Room(x, n) == [x EXCEPT !.have = [i \in 1 .. n |-> 0], !.fill = [i \in 1 .. n |-> i]]

\* Executor e, whose next step takes a piece of value val.
Taken(e, val) ==
  LET s == e[1]
      call == Prog(s)[exec[e].call]
      x == [exec[e] EXCEPT !.todo = Tail(@)]
      goOn(y, steps) == [y EXCEPT !.todo = @ \o steps]
  IN CASE Head(exec[e].todo).tag = "type"    -> goOn(x, AfterType(val))
       [] Head(exec[e].todo).tag = "meta"    -> goOn(Room(x, val.n), AfterMeta(s, val))
       [] Head(exec[e].todo).tag = "devices" ->
            goOn([x EXCEPT !.fill = ArrivalOrder(val, call.on)], AfterDevices(val, call.on))
       [] Head(exec[e].todo).tag = "peer"    -> goOn(x, AfterPeer(call.obj, val))
       [] Head(exec[e].todo).tag = "tensor"  -> Filled(x, <<val>>)
       [] Head(exec[e].todo).tag = "handles" -> Filled(x, val)
       [] Head(exec[e].todo).tag = "bytes"   -> [x EXCEPT !.have = val]
       [] OTHER                              -> x

PutAway(e) == [exec[e] EXCEPT !.todo = Tail(@)]

-----------------------------------------------------------------------------
(***************************************************************************)
(* The workers meet.  self._lock lets one thread of a worker do it.        *)
(***************************************************************************)
Busy(e) == exec[e].call # 0
Wanted(s) == \E e \in Executors : e[1] = s /\ Busy(e)

Launch(s) ==
  /\ s \notin launched
  /\ launched' = launched \cup {s}
  /\ UNCHANGED <<scenario, registered, port, phase, pc, queue, exec, received>>

MovesTo(s, p) == phase' = [phase EXCEPT ![s] = p]

\* _init_group: the first worker waits for the info of both and registers
\* the group, the other one waits for the group.
FindGroup(s) ==
  /\ Wanted(s) /\ phase[s] = "new"
  /\ IF s = 0 THEN launched = Sides /\ registered' = TRUE
              ELSE registered /\ UNCHANGED registered
  /\ MovesTo(s, "found")
  /\ UNCHANGED <<scenario, launched, port, pc, queue, exec, received>>

\* _init_p2p_process_group: set the master port, or wait for it.
GetPort(s) ==
  /\ phase[s] = "found"
  /\ IF s = 0 THEN port' = 1 ELSE port # 0 /\ UNCHANGED port
  /\ MovesTo(s, "joining")
  /\ UNCHANGED <<scenario, launched, registered, pc, queue, exec, received>>

\* MultiChannelProcessGroup.init returns once both have come.
Join ==
  /\ \A s \in Sides : phase[s] = "joining"
  /\ phase' = [s \in Sides |-> IF s = 0 THEN "joined" ELSE "ready"]
  /\ UNCHANGED <<scenario, launched, registered, port, pc, queue, exec, received>>

ForgetPortEarly ==
  /\ phase[0] \in {"joining", "joined"} /\ port # 0
  /\ port' = 0
  /\ phase' = IF phase[0] = "joined" THEN [phase EXCEPT ![0] = "ready"] ELSE phase
  /\ UNCHANGED <<scenario, launched, registered, pc, queue, exec, received>>

\* reset_master_port_info
ForgetPort ==
  /\ phase[0] = "joined"
  /\ port' = 0
  /\ MovesTo(0, "ready")
  /\ UNCHANGED <<scenario, launched, registered, pc, queue, exec, received>>

-----------------------------------------------------------------------------
(***************************************************************************)
(* Calls and threads.                                                      *)
(***************************************************************************)
StepsOf(s, call) == IF call.do = "send" THEN SendSteps(s, call) ELSE RecvSteps(s, call)

\* recv_tensor has the place for its tensor.
Job(s, n) ==
  LET x == [Idle EXCEPT !.call = n, !.todo = StepsOf(s, Prog(s)[n])]
  IN IF Prog(s)[n].do = "recv" /\ Prog(s)[n].raw THEN Room(x, 1) ELSE x

NothingBefore(q) == TRUE

\* "while not work_queue.done: continue"
QueueDone(q) == queue[q] = <<>> /\ ~Busy(q)

\* send, recv, send_tensor, recv_tensor with async_op=True.
CallAsync(s) ==
  LET q == <<s, Prog(s)[pc[s]].do>>
  IN /\ s \in launched /\ pc[s] <= Len(Prog(s)) /\ Prog(s)[pc[s]].async
     /\ queue' = [queue EXCEPT ![q] = Append(@, pc[s])]
     /\ pc' = [pc EXCEPT ![s] = @ + 1]
     /\ UNCHANGED <<scenario, launched, registered, port, phase, exec, received>>

\* The synchronous forms run in the main thread, after the queue.
CallSync(s) ==
  LET e == <<s, "main">>
  IN /\ s \in launched /\ pc[s] <= Len(Prog(s)) /\ ~Prog(s)[pc[s]].async /\ ~Busy(e)
     /\ QueueDone(<<s, Prog(s)[pc[s]].do>>)
     /\ exec' = [exec EXCEPT ![e] = Job(s, pc[s])]
     /\ UNCHANGED <<scenario, launched, registered, port, phase, pc, queue, received>>

\* _run_queue: the queue's thread takes the next call.
Dequeue(q) ==
  /\ queue[q] # <<>> /\ ~Busy(q)
  /\ exec' = [exec EXCEPT ![q] = Job(q[1], Head(queue[q]))]
  /\ queue' = [queue EXCEPT ![q] = Tail(@)]
  /\ UNCHANGED <<scenario, launched, registered, port, phase, pc, received>>

\* The process groups: a direction and a device.
ComingTo(e) ==
  /\ exec[e].todo # <<>> /\ phase[e[1]] = "ready"
SameGroup(e, f) ==
  /\ ComingTo(e) /\ ComingTo(f)
  /\ e[1] = Peer(f[1])
  /\ Head(exec[e].todo).do = "put" /\ Head(exec[f].todo).do = "take"
  /\ Head(exec[e].todo).dev = Head(exec[f].todo).dev

\* A piece goes from e to f.  Who has no step left returns from his call.
Exchange(e, f) ==
  LET after == [exec EXCEPT ![e] = PutAway(e), ![f] = Taken(f, Head(exec[e].todo).val)]
      ended == {g \in {e, f} : after[g].todo = <<>>}
      got(s) == {g \in ended : g[1] = s /\ Prog(s)[exec[g].call].do = "recv"}
  IN /\ SameGroup(e, f) /\ Head(exec[e].todo).tag = Head(exec[f].todo).tag
     /\ exec' = [g \in Executors |-> IF g \in ended THEN Idle ELSE after[g]]
     /\ received' = [s \in Sides |->
          IF got(s) = {} THEN received[s]
          ELSE Append(received[s], after[CHOOSE g \in got(s) : TRUE].have)]
     /\ pc' = [s \in Sides |-> IF <<s, "main">> \in ended THEN pc[s] + 1 ELSE pc[s]]
     /\ UNCHANGED <<scenario, launched, registered, port, phase, queue>>

AllDone ==
  \A s \in Sides : pc[s] > Len(Prog(s)) /\ \A e \in Executors : ~Busy(e)
Finished ==
  /\ AllDone /\ \A q \in DOMAIN queue : queue[q] = <<>>
  /\ UNCHANGED vars

Meet == (\E s \in Sides : Launch(s) \/ FindGroup(s) \/ GetPort(s)) \/ Join \/ ForgetPort
Work ==
  \/ \E s \in Sides : CallAsync(s) \/ CallSync(s)
  \/ \E q \in Sides \X {"send", "recv"} : Dequeue(q)

Next == Meet \/ Work \/ (\E e, f \in Executors : Exchange(e, f)) \/ Finished

Spec == Init /\ [][Next]_vars

\* Threads and process groups keep working.
FairSpec ==
  /\ Spec
  /\ \A s \in Sides : /\ WF_vars(Launch(s)) /\ WF_vars(FindGroup(s)) /\ WF_vars(GetPort(s))
                      /\ WF_vars(CallAsync(s)) /\ WF_vars(CallSync(s))
  /\ WF_vars(Join) /\ WF_vars(ForgetPort)
  /\ \A q \in Sides \X {"send", "recv"} : WF_vars(Dequeue(q))
  /\ WF_vars(\E e, f \in Executors : Exchange(e, f))

-----------------------------------------------------------------------------
(***************************************************************************)
(* Properties.                                                             *)
(***************************************************************************)
\* Two ends that meet in a process group mean the same piece: what the
\* receiver derives from the pieces so far, and from the devices, is what
\* the sender does, and no two threads use one group at the same time.
PiecesMatch ==
  \A e, f \in Executors :
    SameGroup(e, f) => Head(exec[e].todo).tag = Head(exec[f].todo).tag

SendCalls(s) == SelectSeq(Prog(s), LAMBDA c : c.do = "send")

\* What a worker receives is what its peer sent, whole, with every tensor in
\* its place, in the order of the calls, synchronous or not.
ObjectsIntact ==
  \A s \in Sides : \A i \in DOMAIN received[s] :
    /\ i <= Len(SendCalls(Peer(s)))
    /\ received[s][i] = Ids(SendCalls(Peer(s))[i].obj.parts)

\* Pieces meet and make up the objects that were sent.
ObjectsMatch == PiecesMatch /\ ObjectsIntact

\* The workers meet, and everything sent arrives.
EverythingArrives ==
  <>(AllDone /\ \A s \in Sides : Len(received[s]) = Len(SendCalls(Peer(s))))
=============================================================================
