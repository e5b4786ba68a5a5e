----------------------------- MODULE LockManager -----------------------------
(***************************************************************************)
(* The device locks and the port locks of the cluster.                     *)
(*                                                                         *)
(* DeviceLockManager is a Ray actor whose coroutines run on one event      *)
(* loop.  A call for several devices becomes one task per device, made by  *)
(* gather one after the other; a task runs until it ends or waits for its  *)
(* lock, and the task of a woken waiter queues behind the tasks that were  *)
(* ready before.  Workers that share accelerators enclose a rollout, a     *)
(* training step or a reward computation in such a lock.                   *)
(*                                                                         *)
(* PortLockManager keeps the name of the worker that holds a port of a     *)
(* node.  A worker asks the operating system for a port nothing is bound   *)
(* to and then the manager whether it may have it; a daemon thread of the  *)
(* manager frees the ports of names under which Ray knows no live actor.   *)
(*                                                                         *)
(* Sources: scheduler/manager/lock_manager.py, scheduler/worker/lock.py,   *)
(* acquire_free_port and check_worker_alive of scheduler/worker/worker.py. *)
(* One node.  No worker nests its device lock.  A worker that dies is not  *)
(* started again under its name, and never holds a device lock.            *)
(***************************************************************************)
EXTENDS Integers, Sequences, FiniteSets, SequencesExt

CONSTANTS
  Workers,   \* worker addresses
  Nobody,    \* None in place of a worker
  Devices,   \* accelerators of the cluster
  Ports,     \* free ports of the node
  Configs    \* the configurations considered, each a member of Config

(***************************************************************************)
(* needs     worker -> its global_accelerator_ids, in their order          *)
(* laps      how often a worker takes its device lock (a bound)            *)
(* quota     how many ports a worker acquires (a bound)                    *)
(* mortal    workers that may die                                          *)
(* children  workers that another worker created by multiprocessing, so    *)
(*           that they are no Ray actors                                   *)
(***************************************************************************)
Config == [needs : [Workers -> {q \in BoundedSeq(Devices, Cardinality(Devices)) : IsInjective(q)}],
           laps : Nat, quota : Nat, mortal : SUBSET Workers, children : SUBSET Workers]

ASSUME LockManagerAssumption ==
  /\ Nobody \notin Workers
  /\ IsFiniteSet(Devices)
  /\ Configs \subseteq Config

VARIABLES
  conf,     \* the configuration of this execution; no step changes it
  pc,       \* worker: "out", "asking", "waiting", "in", "leaving", "releasing"
  laps,     \* worker: times it has still to take its device lock
  ready,    \* tasks of the event loop that can run, in their order
  holder,   \* device -> _worker_address of its lock, Nobody iff not _locked
  waiters,  \* device -> _waiters, the workers whose futures they are
  todo,     \* worker -> devices whose tasks of its call have not ended
  ahead,    \* history: worker -> those whose requests arrived before and wait still
  alive,    \* worker -> whether its process runs
  asked,    \* worker -> {the port it has asked the manager for} or {}
  owns,     \* worker -> ports acquire_free_port has returned to it
  bound,    \* worker -> ports it listens on
  locks,    \* _port_locks: port -> the name that holds it, or Nobody
  daemon,   \* the daemon: "sleep" or "check"
  unknown,  \* the daemon: names of locked_workers it has still to look up
  dead      \* the daemon: dead_workers

deviceVars == <<pc, laps, ready, holder, waiters, todo, ahead>>
workerPortVars == <<alive, asked, owns, bound>>
daemonVars == <<daemon, unknown, dead>>
portVars == <<workerPortVars, locks, daemonVars>>
vars == <<conf, deviceVars, portVars>>

Init ==
  /\ conf \in Configs
  /\ pc = [w \in Workers |-> "out"]
  /\ laps = [w \in Workers |-> IF conf.needs[w] = <<>> THEN 0 ELSE conf.laps]
  /\ ready = <<>>
  /\ holder = [d \in Devices |-> Nobody]
  /\ waiters = [d \in Devices |-> <<>>]
  /\ todo = [w \in Workers |-> {}]
  /\ ahead = [w \in Workers |-> {}]
  /\ alive = [w \in Workers |-> TRUE]
  /\ asked = [w \in Workers |-> {}]
  /\ owns = [w \in Workers |-> {}]
  /\ bound = [w \in Workers |-> {}]
  /\ locks = [p \in Ports |-> Nobody]
  /\ daemon = "sleep"
  /\ unknown = {}
  /\ dead = {}

-----------------------------------------------------------------------------
(***************************************************************************)
(* Device locks: the worker's side.                                        *)
(***************************************************************************)

DevicesOf(w) == ToSet(conf.needs[w])

\* DeviceLock.acquire and DeviceLock.release: calls that wait for the answer.
Ask(w) ==
  /\ pc[w] = "out"
  /\ laps[w] > 0
  /\ pc' = [pc EXCEPT ![w] = "asking"]
  /\ laps' = [laps EXCEPT ![w] = @ - 1]
  /\ UNCHANGED <<conf, ready, holder, waiters, todo, ahead, portVars>>

Leave(w) ==
  /\ pc[w] = "in"
  /\ pc' = [pc EXCEPT ![w] = "leaving"]
  /\ UNCHANGED <<conf, laps, ready, holder, waiters, todo, ahead, portVars>>

\* The manager's call is over and the worker goes on.
Return(w) ==
  /\ pc[w] \in {"waiting", "releasing"}
  /\ todo[w] = {}
  /\ pc' = [pc EXCEPT ![w] = IF @ = "waiting" THEN "in" ELSE "out"]
  /\ ahead' = [v \in Workers |-> IF v = w THEN {} ELSE ahead[v] \ {w}]
  /\ UNCHANGED <<conf, laps, ready, holder, waiters, todo, portVars>>

-----------------------------------------------------------------------------
(***************************************************************************)
(* Device locks: the manager's event loop.                                 *)
(***************************************************************************)

Task(kind, w, d) == [kind |-> kind, worker |-> w, device |-> d]

\* What gather makes of a call: a task for each device, in the caller's order.
Gather(kind, w) ==
  [i \in DOMAIN conf.needs[w] |-> Task(kind, w, conf.needs[w][i])]

\* acquire_devices and release_devices, up to where gather waits.
Arrive(w) ==
  /\ pc[w] \in {"asking", "leaving"}
  /\ IF pc[w] = "asking"
     THEN /\ pc' = [pc EXCEPT ![w] = "waiting"]
          /\ ready' = ready \o Gather("acquire", w)
          /\ ahead' = [ahead EXCEPT ![w] = {v \in Workers : pc[v] = "waiting"}]
     ELSE /\ pc' = [pc EXCEPT ![w] = "releasing"]
          /\ ready' = ready \o Gather("release", w)
          /\ UNCHANGED ahead
  /\ todo' = [todo EXCEPT ![w] = DevicesOf(w)]
  /\ UNCHANGED <<conf, laps, holder, waiters, portVars>>

\* WorkerDeviceLock.acquire returns without waiting: the lock is the worker's,
\* or nobody holds it or waits for it.
BargesIn(w, d) == holder[d] \in {w, Nobody}
AtOnce(w, d) == holder[d] = w \/ (holder[d] = Nobody /\ waiters[d] = <<>>)

Ended(w, d) == todo' = [todo EXCEPT ![w] = @ \ {d}]

\* WorkerDeviceLock.acquire, up to its end or to "await fut".
RunAcquire(w, d, rest) ==
  /\ ready' = rest
  /\ IF AtOnce(w, d)
     THEN holder' = [holder EXCEPT ![d] = w] /\ Ended(w, d) /\ UNCHANGED waiters
     ELSE waiters' = [waiters EXCEPT ![d] = Append(@, w)] /\ UNCHANGED <<holder, todo>>

\* The rest of acquire, once the future is set.
RunResume(w, d, rest) ==
  /\ ready' = rest
  /\ waiters' = [waiters EXCEPT ![d] = RemoveFirst(@, w)]
  /\ holder' = [holder EXCEPT ![d] = w]
  /\ Ended(w, d)

WakeUpAll(d) == [i \in DOMAIN waiters[d] |-> Task("resume", waiters[d][i], d)]

\* asyncio.Lock._wake_up_first: the future of the first waiter is set and its
\* task scheduled.
WakeUpFirst(d) ==
  IF waiters[d] = <<>> THEN <<>> ELSE <<Task("resume", Head(waiters[d]), d)>>

\* WorkerDeviceLock.release.
RunRelease(w, d, rest) ==
  /\ ready' = rest \o WakeUpFirst(d)
  /\ holder' = [holder EXCEPT ![d] = Nobody]
  /\ Ended(w, d)
  /\ UNCHANGED waiters

\* The event loop runs its ready tasks in order.
AnyTask == DOMAIN ready
NextTask == IF ready = <<>> THEN {} ELSE {1}

RunTask ==
  \E i \in NextTask :
    LET t == ready[i]
        rest == RemoveAt(ready, i)
    IN /\ \/ t.kind = "acquire" /\ RunAcquire(t.worker, t.device, rest)
          \/ t.kind = "resume" /\ RunResume(t.worker, t.device, rest)
          \/ t.kind = "release" /\ RunRelease(t.worker, t.device, rest)
       /\ UNCHANGED <<conf, pc, laps, ahead, portVars>>

-----------------------------------------------------------------------------
(***************************************************************************)
(* Port locks.                                                             *)
(***************************************************************************)

\* Cluster.find_free_port: the system picks a port no process is bound to.
FindFreePort == Ports \ UNION {bound[w] : w \in Workers}

\* One try of acquire_free_port: the request leaves for the manager.
AskForPort(w) ==
  /\ alive[w]
  /\ asked[w] = {}
  /\ Cardinality(owns[w]) < conf.quota
  /\ \E p \in FindFreePort : asked' = [asked EXCEPT ![w] = {p}]
  /\ UNCHANGED <<conf, deviceVars, alive, owns, bound, locks, daemonVars>>

\* PortLockManager.acquire and what its answer does: the caller, if it still
\* runs, has the port or tries again.
AcquirePort(w) ==
  /\ \E p \in asked[w] :
       IF locks[p] # Nobody THEN UNCHANGED <<locks, owns>>
       ELSE /\ locks' = [locks EXCEPT ![p] = w]
            /\ owns' = [owns EXCEPT ![w] = IF alive[w] THEN @ \cup {p} ELSE @]
  /\ asked' = [asked EXCEPT ![w] = {}]
  /\ UNCHANGED <<conf, deviceVars, alive, bound, daemonVars>>

\* The worker listens on a port that is its own.
Listen(w) ==
  /\ alive[w]
  /\ \E p \in owns[w] \cap FindFreePort : bound' = [bound EXCEPT ![w] = @ \cup {p}]
  /\ UNCHANGED <<conf, deviceVars, alive, asked, owns, locks, daemonVars>>

\* The process of a worker ends.
Die(w) ==
  /\ w \in conf.mortal
  /\ alive[w]
  /\ alive' = [alive EXCEPT ![w] = FALSE]
  /\ owns' = [owns EXCEPT ![w] = {}]
  /\ bound' = [bound EXCEPT ![w] = {}]
  /\ UNCHANGED <<conf, deviceVars, asked, locks, daemonVars>>

AnswersOnItsPort(w) == bound[w] # {}

\* Worker.check_worker_alive: Ray has a live actor of this name.
CheckWorkerAlive(w) == alive[w] /\ w \notin conf.children

\* _release_daemon, before and after its lookups; each part holds _lock.
TakeNames ==
  /\ daemon = "sleep"
  /\ daemon' = "check"
  /\ unknown' = {locks[p] : p \in Ports} \ {Nobody}
  /\ dead' = {}
  /\ UNCHANGED <<conf, deviceVars, workerPortVars, locks>>

LookUp(w) ==
  /\ daemon = "check"
  /\ w \in unknown
  /\ unknown' = unknown \ {w}
  /\ dead' = IF CheckWorkerAlive(w) THEN dead ELSE dead \cup {w}
  /\ UNCHANGED <<conf, deviceVars, workerPortVars, locks, daemon>>

AfterFreeing == "sleep"

FreePorts ==
  /\ daemon = "check"
  /\ unknown = {}
  /\ daemon' = AfterFreeing
  /\ locks' = [p \in Ports |-> IF locks[p] \in dead THEN Nobody ELSE locks[p]]
  /\ UNCHANGED <<conf, deviceVars, workerPortVars, unknown, dead>>

-----------------------------------------------------------------------------
Daemon == TakeNames \/ (\E w \in Workers : LookUp(w)) \/ FreePorts

WorkerNext(w) ==
  \/ Ask(w) \/ Leave(w) \/ Return(w) \/ Arrive(w)
  \/ AskForPort(w) \/ AcquirePort(w) \/ Listen(w) \/ Die(w)

Next == RunTask \/ Daemon \/ \E w \in Workers : WorkerNext(w)

Spec == Init /\ [][Next]_vars

\* The event loop and the daemon go on, messages arrive, and a worker that is
\* in leaves; no worker has to ask for anything.
Fairness ==
  /\ WF_vars(RunTask)
  /\ WF_vars(Daemon)
  /\ \A w \in Workers :
       WF_vars(Leave(w)) /\ WF_vars(Return(w)) /\ WF_vars(Arrive(w)) /\ WF_vars(AcquirePort(w))

FairSpec == Spec /\ Fairness

-----------------------------------------------------------------------------
(***************************************************************************)
(* Properties.                                                             *)
(***************************************************************************)

\* Workers inside their device locks have no device in common, although each
\* lock is taken by a task of its own and handed over by a wakeup that leaves
\* it unlocked until the waiter's task runs.
Exclusive ==
  \A v, w \in Workers :
    v # w /\ pc[v] = "in" /\ pc[w] = "in" => DevicesOf(v) \cap DevicesOf(w) = {}

\* The assertion of acquire and the two errors of release: a woken waiter
\* finds the lock unlocked, and a lock is released by the worker that has it.
NoLockError ==
  \A i \in DOMAIN ready :
    LET t == ready[i]
    IN /\ t.kind = "resume" => holder[t.device] = Nobody
       /\ t.kind = "release" => holder[t.device] = t.worker

\* The device lock does what it is for.
LocksHold == Exclusive /\ NoLockError

\* Requests that share a device are served in the order of their arrival:
\* nobody overtakes a waiter, not even between its wakeup and its resumption.
FirstCome ==
  [][\A w \in Workers : pc[w] = "waiting" /\ pc'[w] = "in" =>
       \A v \in ahead[w] : DevicesOf(v) \cap DevicesOf(w) = {}]_vars

\* Who asks for its devices gets them: tasks of two requests for several
\* devices never wait for one another.
EveryoneEnters == \A w \in Workers : pc[w] = "asking" ~> pc[w] = "in"

\* No two live workers Ray knows have been given the same port: the daemon takes
\* no port from them, whenever it was granted.  From a child process it does.
PortsExclusive ==
  \A v, w \in Workers \ conf.children : v # w => owns[v] \cap owns[w] = {}

\* The port of a dead worker becomes free again, even if it was granted after
\* the worker's death.
PortsComeBack ==
  \A w \in Workers, p \in Ports : ~alive[w] /\ locks[p] = w ~> locks[p] # w

\* Neither devices nor ports are kept from those who ask for them.
NothingIsKept == EveryoneEnters /\ PortsComeBack
=============================================================================
