--------------------------- MODULE LockManagerProofs ---------------------------
(***************************************************************************)
(* Theorems about LockManager: its types, mutual exclusion, the order in   *)
(* which the locks serve, and exclusive ports, for any number of workers,  *)
(* devices and ports and for every configuration.                          *)
(*                                                                         *)
(* LockInv says where every request is: Holds gives the device a worker    *)
(* has by its program counter, Waits the one it still wants, and of the    *)
(* latter either the task that acquires it is ready or the worker is among *)
(* the waiters, never both.  A woken waiter is the first of an unlocked    *)
(* device.  TurnInv adds that requests ahead of others are ahead of them   *)
(* wherever the two meet: among the ready tasks, among the waiters, and    *)
(* between the two.                                                        *)
(***************************************************************************)
EXTENDS LockManager, SetSeqLemmas

Tasks == [kind : {"acquire", "resume", "release"}, worker : Workers, device : Devices]

TypeOK ==
  /\ conf \in Configs
  /\ pc \in [Workers -> {"out", "asking", "waiting", "in", "leaving", "releasing"}]
  /\ laps \in [Workers -> Nat]
  /\ ready \in Seq(Tasks)
  /\ holder \in [Devices -> Workers \cup {Nobody}]
  /\ waiters \in [Devices -> Seq(Workers)]
  /\ todo \in [Workers -> SUBSET Devices]
  /\ ahead \in [Workers -> SUBSET Workers]
  /\ alive \in [Workers -> BOOLEAN]
  /\ asked \in [Workers -> SUBSET Ports]
  /\ owns \in [Workers -> SUBSET Ports]
  /\ bound \in [Workers -> SUBSET Ports]
  /\ locks \in [Ports -> Workers \cup {Nobody}]
  /\ daemon \in {"sleep", "check"}
  /\ unknown \subseteq Workers
  /\ dead \subseteq Workers

\* What a worker has, and what it still wants.
Holds(w, d) ==
  /\ d \in DevicesOf(w)
  /\ \/ pc[w] \in {"in", "leaving"}
     \/ pc[w] = "waiting" /\ d \notin todo[w]
     \/ pc[w] = "releasing" /\ d \in todo[w]
Waits(w, d) == pc[w] = "waiting" /\ d \in todo[w]

Queued(kind, w, d) == Task(kind, w, d) \in ToSet(ready)

CallInv(w) ==
  /\ todo[w] \subseteq DevicesOf(w)
  /\ todo[w] # {} => pc[w] \in {"waiting", "releasing"}

PlaceInv(w, d) ==
  /\ holder[d] = w <=> Holds(w, d)
  /\ Waits(w, d) <=> (Queued("acquire", w, d) \/ w \in ToSet(waiters[d]))
  /\ ~(Queued("acquire", w, d) /\ w \in ToSet(waiters[d]))
  /\ Queued("resume", w, d) =>
       waiters[d] # <<>> /\ w = Head(waiters[d]) /\ holder[d] = Nobody
  /\ Queued("release", w, d) => pc[w] = "releasing" /\ d \in todo[w]

LockInv ==
  /\ IsInjective(ready)
  /\ \A d \in Devices : IsInjective(waiters[d])
  /\ \A w \in Workers : CallInv(w)
  /\ \A w \in Workers, d \in Devices : PlaceInv(w, d)

\* v's request came before w's and both want d.
TurnOf(v, w, d) ==
  /\ d \in todo[w]
  /\ w \in ToSet(waiters[d]) => ~Queued("acquire", v, d)
  /\ Queued("acquire", v, d) /\ Queued("acquire", w, d) =>
       Before(ready, Task("acquire", v, d), Task("acquire", w, d))
  /\ v \in ToSet(waiters[d]) /\ w \in ToSet(waiters[d]) => Before(waiters[d], v, w)

TurnInv ==
  \A w \in Workers : \A v \in ahead[w] :
    /\ v # w /\ pc[v] = "waiting" /\ pc[w] = "waiting"
    /\ \A d \in DevicesOf(v) \cap DevicesOf(w) : TurnOf(v, w, d)

\* A live worker Ray knows is the one the manager has its ports under, and
\* the daemon never takes it for dead.
PortInv ==
  /\ \A w \in Workers : owns[w] # {} => alive[w]
  /\ \A w \in Workers \ conf.children : \A p \in owns[w] : locks[p] = w
  /\ \A w \in dead : ~CheckWorkerAlive(w)


-----------------------------------------------------------------------------
(***************************************************************************)
(* Types.                                                                  *)
(***************************************************************************)

LEMMA NeedsType ==
  ASSUME TypeOK, NEW w \in Workers
  PROVE  /\ conf.needs[w] \in Seq(Devices) /\ IsInjective(conf.needs[w])
         /\ DevicesOf(w) \subseteq Devices
<1>1. Cardinality(Devices) \in Nat
  BY LockManagerAssumption, FS_CardinalityType
<1>2. conf.needs[w] \in BoundedSeq(Devices, Cardinality(Devices)) /\ IsInjective(conf.needs[w])
  BY LockManagerAssumption DEF TypeOK, Config
<1>3. PICK m \in 0 .. Cardinality(Devices) : conf.needs[w] \in [1 .. m -> Devices]
  BY <1>2 DEF BoundedSeq, SeqOf
<1>4. conf.needs[w] \in Seq(Devices)
  BY <1>1, <1>3
<1>. QED  BY <1>2, <1>4 DEF DevicesOf, ToSet

LEMMA TaskType ==
  ASSUME NEW kind \in {"acquire", "resume", "release"}, NEW w \in Workers, NEW d \in Devices
  PROVE  /\ Task(kind, w, d) \in Tasks
         /\ Task(kind, w, d).kind = kind /\ Task(kind, w, d).worker = w
         /\ Task(kind, w, d).device = d
BY DEF Task, Tasks

LEMMA GatherType ==
  ASSUME TypeOK, NEW w \in Workers, NEW kind \in {"acquire", "release"}
  PROVE  /\ Gather(kind, w) \in Seq(Tasks) /\ IsInjective(Gather(kind, w))
         /\ \A t : t \in ToSet(Gather(kind, w)) <=> \E d \in DevicesOf(w) : t = Task(kind, w, d)
<1> DEFINE q == conf.needs[w]
           g == Gather(kind, w)
<1>1. q \in Seq(Devices) /\ IsInjective(q) /\ DevicesOf(w) = ToSet(q)
  BY NeedsType DEF DevicesOf
<1>2. DOMAIN g = DOMAIN q /\ \A i \in DOMAIN q : g[i] = Task(kind, w, q[i])
  BY DEF Gather
<1>3. PICK n \in Nat : DOMAIN q = 1 .. n /\ n = Len(q)
  BY <1>1
<1>4. \A i \in DOMAIN q : q[i] \in Devices
  BY <1>1
<1> HIDE DEF q
<1>5. \A i \in 1 .. n : g[i] \in Tasks
  BY <1>2, <1>3, <1>4, TaskType
<1>6. g \in Seq(Tasks)
  <2>1. g = [i \in 1 .. n |-> g[i]]
    BY <1>2, <1>3 DEF Gather, q
  <2>. QED  BY <1>5, <2>1
<1> HIDE DEF g
<1>7. IsInjective(g)
  <2> SUFFICES ASSUME NEW i \in DOMAIN g, NEW j \in DOMAIN g, g[i] = g[j] PROVE i = j
    BY DEF IsInjective
  <2>1. q[i] = q[j]
    BY <1>2, <1>4, TaskType
  <2>. QED  BY <1>1, <1>2, <2>1 DEF IsInjective
<1>8. \A t : t \in ToSet(g) <=> \E d \in ToSet(q) : t = Task(kind, w, d)
  BY <1>2 DEF ToSet
<1>. QED  BY <1>1, <1>6, <1>7, <1>8 DEF g

\* What the event loop runs is the first of its ready tasks.
LEMMA RunCases ==
  ASSUME TypeOK, RunTask
  PROVE  LET rest == RemoveAt(ready, 1) IN
         /\ ready # <<>> /\ rest \in Seq(Tasks) /\ UNCHANGED <<conf, pc, laps, ahead, portVars>>
         /\ \E w \in Workers, d \in Devices :
              \/ ready[1] = Task("acquire", w, d) /\ RunAcquire(w, d, rest)
              \/ ready[1] = Task("resume", w, d) /\ RunResume(w, d, rest)
              \/ ready[1] = Task("release", w, d) /\ RunRelease(w, d, rest)
<1>1. ready # <<>> /\ ready \in Seq(Tasks)
  BY DEF RunTask, NextTask, TypeOK
<1>2. RemoveAt(ready, 1) \in Seq(Tasks) /\ ready[1] \in Tasks
  BY <1>1, FirstDropped
<1>3. /\ UNCHANGED <<conf, pc, laps, ahead, portVars>>
      /\ \/ ready[1].kind = "acquire"
            /\ RunAcquire(ready[1].worker, ready[1].device, RemoveAt(ready, 1))
         \/ ready[1].kind = "resume"
            /\ RunResume(ready[1].worker, ready[1].device, RemoveAt(ready, 1))
         \/ ready[1].kind = "release"
            /\ RunRelease(ready[1].worker, ready[1].device, RemoveAt(ready, 1))
  BY <1>1 DEF RunTask, NextTask
<1>4. /\ ready[1].worker \in Workers /\ ready[1].device \in Devices
      /\ ready[1] = Task(ready[1].kind, ready[1].worker, ready[1].device)
  BY <1>2 DEF Tasks, Task
<1>. QED  BY <1>1, <1>2, <1>3, <1>4

LEMMA WakeType ==
  ASSUME TypeOK, NEW d \in Devices
  PROVE  /\ WakeUpFirst(d) \in Seq(Tasks) /\ IsInjective(WakeUpFirst(d))
         /\ \A t : t \in ToSet(WakeUpFirst(d)) <=>
              waiters[d] # <<>> /\ t = Task("resume", Head(waiters[d]), d)
<1>1. CASE waiters[d] = <<>>
  <2>1. WakeUpFirst(d) = <<>>
    BY <1>1 DEF WakeUpFirst
  <2>. QED  BY <1>1, <2>1 DEF IsInjective, ToSet
<1>2. CASE waiters[d] # <<>>
  <2> DEFINE t == Task("resume", Head(waiters[d]), d)
  <2>1. waiters[d] \in Seq(Workers)
    BY DEF TypeOK
  <2>2. Head(waiters[d]) \in Workers
    BY <1>2, <2>1
  <2>3. t \in Tasks /\ WakeUpFirst(d) = <<t>>
    BY <1>2, <2>2, TaskType DEF WakeUpFirst
  <2> HIDE DEF t
  <2>4. WakeUpFirst(d) \in Seq(Tasks) /\ IsInjective(WakeUpFirst(d)) /\ ToSet(WakeUpFirst(d)) = {t}
    BY <2>3, Single
  <2>. QED  BY <1>2, <2>4 DEF t
<1>. QED  BY <1>1, <1>2

LEMMA RunTypes ==
  ASSUME TypeOK, RunTask
  PROVE  TypeOK'
<1> DEFINE rest == RemoveAt(ready, 1)
<1>1. /\ rest \in Seq(Tasks) /\ UNCHANGED <<conf, pc, laps, ahead, portVars>>
      /\ \E w \in Workers, d \in Devices :
           \/ RunAcquire(w, d, rest) \/ RunResume(w, d, rest) \/ RunRelease(w, d, rest)
  BY RunCases
<1> HIDE DEF rest
<1>2. PICK w \in Workers, d \in Devices :
        RunAcquire(w, d, rest) \/ RunResume(w, d, rest) \/ RunRelease(w, d, rest)
  BY <1>1
<1>3. todo' \in [Workers -> SUBSET Devices] /\ holder' \in [Devices -> Workers \cup {Nobody}]
  <2>1. CASE todo' = todo /\ holder' = holder
    BY <2>1 DEF TypeOK
  <2>2. CASE /\ todo' = [todo EXCEPT ![w] = @ \ {d}]
             /\ holder' = [holder EXCEPT ![d] = w] \/ holder' = [holder EXCEPT ![d] = Nobody]
    <3>1. todo' \in [Workers -> SUBSET Devices]
      BY <2>2 DEF TypeOK
    <3>2. holder' \in [Devices -> Workers \cup {Nobody}]
      BY <2>2 DEF TypeOK
    <3>. QED  BY <3>1, <3>2
  <2>. QED  BY <1>2, <2>1, <2>2 DEF RunAcquire, RunResume, RunRelease, Ended
<1>4. ready' \in Seq(Tasks)
  <2>1. rest \o WakeUpFirst(d) \in Seq(Tasks)
    BY <1>1, WakeType
  <2>. QED  BY <1>1, <1>2, <2>1 DEF RunAcquire, RunResume, RunRelease
<1>5. waiters' \in [Devices -> Seq(Workers)]
  <2>1. CASE RunAcquire(w, d, rest)
    <3>1. waiters[d] \in Seq(Workers)
      BY DEF TypeOK
    <3>2. Append(waiters[d], w) \in Seq(Workers)
      BY <3>1
    <3>. QED  BY <2>1, <3>2 DEF TypeOK, RunAcquire
  <2>2. CASE RunRelease(w, d, rest)
    BY <2>2 DEF TypeOK, RunRelease
  <2>3. CASE RunResume(w, d, rest)
    <3>1. waiters[d] \in Seq(Workers)
      BY DEF TypeOK
    <3>2. RemoveFirst(waiters[d], w) \in Seq(Workers)
      BY <3>1, RemoveKeepsType
    <3>. QED  BY <2>3, <3>2 DEF TypeOK, RunResume
  <2>. QED  BY <1>2, <2>1, <2>2, <2>3
<1>. QED  BY <1>1, <1>3, <1>4, <1>5 DEF TypeOK, portVars, workerPortVars, daemonVars

LEMMA CallTypes ==
  ASSUME TypeOK, NEW w \in Workers, Ask(w) \/ Leave(w) \/ Return(w) \/ Arrive(w)
  PROVE  TypeOK'
<1>1. CASE Ask(w)
  <2>1. laps[w] - 1 \in Nat
    BY <1>1 DEF Ask, TypeOK
  <2>. QED  BY <1>1, <2>1 DEF Ask, TypeOK, portVars, workerPortVars, daemonVars
<1>2. CASE Leave(w)
  BY <1>2 DEF Leave, TypeOK, portVars, workerPortVars, daemonVars
<1>3. CASE Return(w)
  BY <1>3 DEF Return, TypeOK, portVars, workerPortVars, daemonVars
<1>4. CASE Arrive(w)
  <2>1. /\ ready \o Gather("acquire", w) \in Seq(Tasks)
        /\ ready \o Gather("release", w) \in Seq(Tasks)
        /\ DevicesOf(w) \subseteq Devices
    BY GatherType, NeedsType DEF TypeOK
  <2>2. ready' \in Seq(Tasks)
    BY <1>4, <2>1 DEF Arrive
  <2>3. pc' \in [Workers -> {"out", "asking", "waiting", "in", "leaving", "releasing"}]
    BY <1>4 DEF Arrive, TypeOK
  <2>4. ahead' \in [Workers -> SUBSET Workers]
    BY <1>4 DEF Arrive, TypeOK
  <2>5. todo' \in [Workers -> SUBSET Devices]
    BY <1>4, <2>1 DEF Arrive, TypeOK
  <2>. QED  BY <1>4, <2>2, <2>3, <2>4, <2>5 DEF Arrive, TypeOK, portVars, workerPortVars, daemonVars
<1>. QED  BY <1>1, <1>2, <1>3, <1>4

LEMMA PortTypes ==
  ASSUME TypeOK,
         Daemon \/ \E w \in Workers : AskForPort(w) \/ AcquirePort(w) \/ Listen(w) \/ Die(w)
  PROVE  TypeOK'
<1>1. ASSUME NEW w \in Workers, AskForPort(w) PROVE TypeOK'
  BY <1>1 DEF AskForPort, FindFreePort, TypeOK, deviceVars, daemonVars
<1>2. ASSUME NEW w \in Workers, AcquirePort(w) PROVE TypeOK'
  <2>1. PICK p \in asked[w] :
          IF locks[p] # Nobody THEN UNCHANGED <<locks, owns>>
          ELSE /\ locks' = [locks EXCEPT ![p] = w]
               /\ owns' = [owns EXCEPT ![w] = IF alive[w] THEN @ \cup {p} ELSE @]
    BY <1>2 DEF AcquirePort
  <2>2. p \in Ports
    BY <2>1 DEF TypeOK
  <2>3. locks' \in [Ports -> Workers \cup {Nobody}]
    <3>1. locks \in [Ports -> Workers \cup {Nobody}]
      BY DEF TypeOK
    <3>2. locks' = locks \/ locks' = [locks EXCEPT ![p] = w]
      BY <2>1
    <3>. QED  BY <2>2, <3>1, <3>2
  <2>4. owns' \in [Workers -> SUBSET Ports]
    <3>1. owns \in [Workers -> SUBSET Ports] /\ owns[w] \cup {p} \in SUBSET Ports
      BY <2>2 DEF TypeOK
    <3>2. CASE owns' = owns
      BY <3>1, <3>2
    <3>3. CASE owns' = [owns EXCEPT ![w] = owns[w] \cup {p}]
      BY <3>1, <3>3
    <3>4. CASE owns' = [owns EXCEPT ![w] = owns[w]]
      BY <3>1, <3>4
    <3>. QED  BY <2>1, <3>2, <3>3, <3>4
  <2>5. asked' \in [Workers -> SUBSET Ports]
    BY <1>2 DEF AcquirePort, TypeOK
  <2>. QED  BY <1>2, <2>3, <2>4, <2>5 DEF AcquirePort, TypeOK, deviceVars, daemonVars
<1>3. ASSUME NEW w \in Workers, Listen(w) PROVE TypeOK'
  BY <1>3 DEF Listen, FindFreePort, TypeOK, deviceVars, daemonVars
<1>4. ASSUME NEW w \in Workers, Die(w) PROVE TypeOK'
  BY <1>4 DEF Die, TypeOK, deviceVars, daemonVars
<1>5. CASE TakeNames
  BY <1>5 DEF TakeNames, TypeOK, deviceVars, workerPortVars
<1>6. ASSUME NEW w \in Workers, LookUp(w) PROVE TypeOK'
  BY <1>6 DEF LookUp, TypeOK, deviceVars, workerPortVars
<1>7. CASE FreePorts
  BY <1>7 DEF FreePorts, AfterFreeing, TypeOK, deviceVars, workerPortVars
<1>. QED  BY <1>1, <1>2, <1>3, <1>4, <1>5, <1>6, <1>7 DEF Daemon

LEMMA TypeStep ==
  ASSUME TypeOK, [Next]_vars
  PROVE  TypeOK'
<1>1. CASE UNCHANGED vars
  BY <1>1 DEF vars, deviceVars, portVars, workerPortVars, daemonVars, TypeOK
<1>. QED  BY <1>1, RunTypes, CallTypes, PortTypes DEF Next, WorkerNext

LEMMA TypeInit == Init => TypeOK
<1> SUFFICES ASSUME Init PROVE TypeOK
  OBVIOUS
<1>1. laps \in [Workers -> Nat]
  BY LockManagerAssumption DEF Init, Config
<1>. QED  BY <1>1 DEF Init, TypeOK

\* The locks, their waiters, the ready tasks and the daemon's sets stay what
\* lock_manager.py declares them to be, for any number of workers and devices.
THEOREM TypeCorrect == Spec => []TypeOK
BY TypeInit, TypeStep, PTL DEF Spec

-----------------------------------------------------------------------------
(***************************************************************************)
(* Ports.                                                                  *)
(***************************************************************************)

LEMMA PortStep ==
  ASSUME TypeOK, PortInv, [Next]_vars
  PROVE  PortInv'
<1>1. CASE UNCHANGED <<conf, portVars>>
  BY <1>1 DEF PortInv, CheckWorkerAlive, portVars, workerPortVars, daemonVars
<1>2. CASE RunTask
  BY <1>1, <1>2 DEF RunTask
<1>3. ASSUME NEW w \in Workers, Ask(w) \/ Leave(w) \/ Return(w) \/ Arrive(w) PROVE PortInv'
  BY <1>1, <1>3 DEF Ask, Leave, Return, Arrive
<1>4. ASSUME NEW w \in Workers, AskForPort(w) \/ Listen(w) PROVE PortInv'
  BY <1>4 DEF AskForPort, Listen, PortInv, CheckWorkerAlive, daemonVars
<1>5. ASSUME NEW w \in Workers, AcquirePort(w) PROVE PortInv'
  <2>1. conf' = conf /\ alive' = alive /\ dead' = dead
    BY <1>5 DEF AcquirePort, daemonVars
  <2>2. PICK p \in asked[w] :
          IF locks[p] # Nobody THEN UNCHANGED <<locks, owns>>
          ELSE /\ locks' = [locks EXCEPT ![p] = w]
               /\ owns' = [owns EXCEPT ![w] = IF alive[w] THEN @ \cup {p} ELSE @]
    BY <1>5 DEF AcquirePort
  <2>3. \A v \in Workers : owns'[v] # {} => alive'[v]
    BY <2>1, <2>2 DEF PortInv, TypeOK
  <2>4. ASSUME NEW v \in Workers \ conf.children, NEW q \in owns'[v] PROVE locks'[q] = v
    <3>1. CASE q \in owns[v]
      BY <2>2, <2>4, <3>1, LockManagerAssumption DEF PortInv, TypeOK
    <3>2. CASE q \notin owns[v]
      <4>1. v = w /\ q = p /\ locks[p] = Nobody
        BY <2>2, <2>4, <3>2 DEF TypeOK
      <4>. QED  BY <2>2, <4>1 DEF TypeOK
    <3>. QED  BY <3>1, <3>2
  <2>5. \A v \in dead' : ~CheckWorkerAlive(v)'
    BY <2>1 DEF PortInv, CheckWorkerAlive
  <2>. QED  BY <2>1, <2>3, <2>4, <2>5 DEF PortInv
<1>6. ASSUME NEW w \in Workers, Die(w) PROVE PortInv'
  BY <1>6 DEF Die, PortInv, CheckWorkerAlive, TypeOK, daemonVars
<1>7. CASE TakeNames
  BY <1>7 DEF TakeNames, PortInv, CheckWorkerAlive, workerPortVars
<1>8. ASSUME NEW w \in Workers, LookUp(w) PROVE PortInv'
  BY <1>8 DEF LookUp, PortInv, CheckWorkerAlive, workerPortVars
<1>9. CASE FreePorts
  <2>1. /\ conf' = conf /\ alive' = alive /\ dead' = dead /\ owns' = owns
        /\ locks' = [p \in Ports |-> IF locks[p] \in dead THEN Nobody ELSE locks[p]]
    BY <1>9 DEF FreePorts, workerPortVars
  <2>2. ASSUME NEW v \in Workers \ conf.children, NEW q \in owns[v] PROVE locks'[q] = v
    <3>1. alive[v] /\ locks[q] = v /\ q \in Ports
      BY <2>2 DEF PortInv, TypeOK
    <3>2. v \notin dead
      BY <3>1 DEF PortInv, CheckWorkerAlive
    <3>. QED  BY <2>1, <3>1, <3>2
  <2>. QED  BY <2>1, <2>2 DEF PortInv, CheckWorkerAlive
<1>. QED  BY <1>1, <1>2, <1>3, <1>4, <1>5, <1>6, <1>7, <1>8, <1>9
          DEF Next, WorkerNext, Daemon, vars

LEMMA PortsOfOne == PortInv => PortsExclusive
BY DEF PortInv, PortsExclusive

\* No two workers Ray knows are given one port: what the daemon found dead
\* stays dead, so that the names it frees by, however late, have no port of a
\* live worker.  For any number of workers and ports, and whoever dies when.
THEOREM PortsAreExclusive == Spec => []PortsExclusive
<1>1. Init => PortInv
  BY DEF Init, PortInv
<1>. QED  BY <1>1, TypeInit, TypeStep, PortStep, PortsOfOne, PTL DEF Spec

-----------------------------------------------------------------------------
(***************************************************************************)
(* Device locks: where every request is.                                   *)
(***************************************************************************)

LEMMA TaskEq ==
  \A k, l, v, w, d, e : Task(k, v, d) = Task(l, w, e) <=> k = l /\ v = w /\ d = e
BY DEF Task

\* A request stays where it is when nothing of it changes.
LEMMA Elsewhere ==
  ASSUME NEW v \in Workers, NEW e \in Devices, PlaceInv(v, e),
         conf' = conf, pc'[v] = pc[v], e \in todo'[v] <=> e \in todo[v],
         holder'[e] = holder[e], waiters'[e] = waiters[e],
         \A k \in {"acquire", "resume", "release"} : Queued(k, v, e)' <=> Queued(k, v, e)
  PROVE  PlaceInv(v, e)'
<1>1. (Holds(v, e)' <=> Holds(v, e)) /\ (Waits(v, e)' <=> Waits(v, e))
  BY DEF Holds, Waits, DevicesOf
<1>. QED  BY <1>1 DEF PlaceInv

LEMMA FirstRuns ==
  ASSUME TypeOK, LockInv, ready # <<>>, NEW k, NEW w, NEW d, ready[1] = Task(k, w, d)
  PROVE  LET rest == RemoveAt(ready, 1) IN
         /\ rest \in Seq(Tasks) /\ IsInjective(rest) /\ Queued(k, w, d)
         /\ \A l, v, e : Task(l, v, e) \in ToSet(rest) <=>
              Queued(l, v, e) /\ ~(l = k /\ v = w /\ e = d)
         /\ \A x, y : Before(ready, x, y) => y # Task(k, w, d)
         /\ \A x, y : Before(ready, x, y) /\ x # Task(k, w, d) => Before(rest, x, y)
<1> DEFINE rest == RemoveAt(ready, 1)
<1>1. ready \in Seq(Tasks) /\ IsInjective(ready)
  BY DEF TypeOK, LockInv
<1>2. /\ rest \in Seq(Tasks) /\ IsInjective(rest) /\ ToSet(rest) = ToSet(ready) \ {ready[1]}
      /\ ready[1] \in ToSet(ready)
      /\ \A x, y : Before(ready, x, y) => y # ready[1]
      /\ \A x, y : Before(ready, x, y) /\ x # ready[1] => Before(rest, x, y)
  BY <1>1, WithoutFirst
<1> HIDE DEF rest
<1>3. \A l, v, e : Task(l, v, e) \in ToSet(rest) <=>
        Queued(l, v, e) /\ ~(l = k /\ v = w /\ e = d)
  BY <1>2, TaskEq DEF Queued
<1>. QED  BY <1>2, <1>3 DEF rest, Queued

LEMMA CallLocks ==
  ASSUME TypeOK, LockInv, NEW w \in Workers, Ask(w) \/ Leave(w) \/ Return(w)
  PROVE  LockInv'
<1>1. /\ conf' = conf /\ ready' = ready /\ holder' = holder /\ waiters' = waiters /\ todo' = todo
      /\ pc' = [pc EXCEPT ![w] = pc'[w]]
      /\ \/ pc[w] = "out" /\ pc'[w] = "asking"
         \/ pc[w] = "in" /\ pc'[w] = "leaving"
         \/ pc[w] = "waiting" /\ pc'[w] = "in" /\ todo[w] = {}
         \/ pc[w] = "releasing" /\ pc'[w] = "out" /\ todo[w] = {}
  BY DEF Ask, Leave, Return, TypeOK
<1>2. \A k, v, e : Queued(k, v, e)' <=> Queued(k, v, e)
  BY <1>1 DEF Queued
<1>3. \A v \in Workers : CallInv(v)'
  BY <1>1 DEF LockInv, CallInv, DevicesOf, TypeOK
<1>4. ASSUME NEW v \in Workers, NEW e \in Devices PROVE PlaceInv(v, e)'
  <2>1. PlaceInv(v, e) /\ CallInv(v)
    BY DEF LockInv
  <2>2. (Holds(v, e)' <=> Holds(v, e)) /\ (Waits(v, e)' <=> Waits(v, e))
    BY <1>1, <2>1 DEF Holds, Waits, CallInv, DevicesOf, TypeOK
  <2>3. Queued("release", v, e)' => pc'[v] = "releasing" /\ e \in todo'[v]
    BY <1>1, <1>2, <2>1 DEF PlaceInv, TypeOK
  <2>. QED  BY <1>1, <1>2, <2>1, <2>2, <2>3 DEF PlaceInv
<1>. QED  BY <1>1, <1>3, <1>4 DEF LockInv

LEMMA ArriveLocks ==
  ASSUME TypeOK, LockInv, NEW w \in Workers, Arrive(w)
  PROVE  /\ LockInv'
         /\ \A x, y : Before(ready, x, y) => Before(ready', x, y)
         /\ \A v \in Workers, d \in Devices, e \in DevicesOf(w) :
              pc[w] = "asking" /\ Queued("acquire", v, d) =>
                Before(ready', Task("acquire", v, d), Task("acquire", w, e))
         /\ \A v \in Workers, e \in Devices : v # w =>
              (Queued("acquire", v, e)' <=> Queued("acquire", v, e))
<1> DEFINE kind == IF pc[w] = "asking" THEN "acquire" ELSE "release"
           g == Gather(kind, w)
<1>1. /\ conf' = conf /\ holder' = holder /\ waiters' = waiters
      /\ todo' = [todo EXCEPT ![w] = DevicesOf(w)] /\ ready' = ready \o g
      /\ pc' = [pc EXCEPT ![w] = pc'[w]]
      /\ \/ pc[w] = "asking" /\ pc'[w] = "waiting" /\ kind = "acquire"
         \/ pc[w] = "leaving" /\ pc'[w] = "releasing" /\ kind = "release"
  BY DEF Arrive, TypeOK
<1>2. /\ ready \in Seq(Tasks) /\ IsInjective(ready) /\ kind \in {"acquire", "release"}
      /\ DevicesOf(w) \subseteq Devices
  BY NeedsType DEF TypeOK, LockInv
<1>3. /\ g \in Seq(Tasks) /\ IsInjective(g)
      /\ \A t : t \in ToSet(g) <=> \E d \in DevicesOf(w) : t = Task(kind, w, d)
  BY <1>2, GatherType
<1> HIDE DEF g
<1>4. \A d \in Devices : ~Queued(kind, w, d)
  BY <1>1 DEF LockInv, PlaceInv, Waits
<1>5. \A t \in ToSet(ready) : t \notin ToSet(g)
  BY <1>2, <1>3, <1>4 DEF Queued
<1>6. /\ IsInjective(ready') /\ ToSet(ready') = ToSet(ready) \cup ToSet(g)
      /\ \A x, y : Before(ready, x, y) => Before(ready', x, y)
      /\ \A x \in ToSet(ready), y \in ToSet(g) : Before(ready', x, y)
  BY <1>1, <1>2, <1>3, <1>5, Joined
<1>7. \A l, v, e : Queued(l, v, e)' <=>
        Queued(l, v, e) \/ (l = kind /\ v = w /\ e \in DevicesOf(w))
  BY <1>3, <1>6, TaskEq DEF Queued
<1> HIDE DEF kind
<1>8. \A v \in Workers : CallInv(v)'
  BY <1>1 DEF LockInv, CallInv, DevicesOf, TypeOK
<1>9. ASSUME NEW v \in Workers, NEW e \in Devices PROVE PlaceInv(v, e)'
  <2>1. PlaceInv(v, e) /\ CallInv(v)
    BY DEF LockInv
  <2>2. CASE v # w
    BY <1>1, <1>7, <2>1, <2>2, Elsewhere DEF TypeOK
  <2>3. CASE v = w
    <3>1. Holds(v, e)' <=> Holds(v, e)
      BY <1>1, <2>3 DEF Holds, DevicesOf, TypeOK
    <3>2. ~Waits(v, e) /\ (Waits(v, e)' <=> kind = "acquire" /\ e \in DevicesOf(w))
      BY <1>1, <2>3 DEF Waits, TypeOK
    <3>3. ~Queued("resume", v, e)
      <4>1. ASSUME Queued("resume", v, e) PROVE v \in ToSet(waiters[e])
        <5>1. waiters[e] \in Seq(Workers) /\ waiters[e] # <<>> /\ v = Head(waiters[e])
          BY <2>1, <4>1 DEF PlaceInv, TypeOK
        <5>. QED  BY <5>1 DEF ToSet
      <4>. QED  BY <2>1, <3>2, <4>1 DEF PlaceInv
    <3>4. ~Queued("release", v, e)
      BY <1>1, <2>1, <2>3 DEF PlaceInv
    <3>5. ~Queued("acquire", v, e) /\ v \notin ToSet(waiters[e])
      BY <2>1, <3>2 DEF PlaceInv
    <3>6. Queued("release", v, e)' => pc'[v] = "releasing" /\ e \in todo'[v]
      BY <1>1, <1>7, <2>3, <3>4 DEF TypeOK
    <3>7. (Queued("acquire", v, e)' <=> kind = "acquire" /\ e \in DevicesOf(w))
          /\ ~Queued("resume", v, e)'
      BY <1>1, <1>7, <2>3, <3>3, <3>5
    <3>. QED  BY <1>1, <2>1, <3>1, <3>2, <3>5, <3>6, <3>7 DEF PlaceInv
  <2>. QED  BY <2>2, <2>3
<1>10. \A v \in Workers, d \in Devices, e \in DevicesOf(w) :
         pc[w] = "asking" /\ Queued("acquire", v, d) =>
           Before(ready', Task("acquire", v, d), Task("acquire", w, e))
  BY <1>1, <1>3, <1>6 DEF Queued
<1>11. LockInv'
  BY <1>1, <1>6, <1>8, <1>9 DEF LockInv
<1>. QED  BY <1>6, <1>7, <1>10, <1>11

LEMMA HeadWaits ==
  ASSUME TypeOK, NEW d \in Devices, waiters[d] # <<>>
  PROVE  /\ Head(waiters[d]) \in Workers /\ Head(waiters[d]) \in ToSet(waiters[d])
         /\ Head(waiters[d]) = waiters[d][1]
BY DEF TypeOK, ToSet

LEMMA AcquireAtOnce ==
  ASSUME TypeOK, LockInv, ready # <<>>, NEW w \in Workers, NEW d \in Devices,
         ready[1] = Task("acquire", w, d), RunAcquire(w, d, RemoveAt(ready, 1)), AtOnce(w, d),
         UNCHANGED <<conf, pc>>
  PROVE  LockInv'
<1> DEFINE rest == RemoveAt(ready, 1)
<1>1. /\ IsInjective(rest) /\ Queued("acquire", w, d)
      /\ \A l, v, e : Task(l, v, e) \in ToSet(rest) <=>
           Queued(l, v, e) /\ ~(l = "acquire" /\ v = w /\ e = d)
  BY FirstRuns
<1>2. /\ ready' = rest /\ holder' = [holder EXCEPT ![d] = w] /\ waiters' = waiters
      /\ todo' = [todo EXCEPT ![w] = @ \ {d}] /\ conf' = conf /\ pc' = pc
  BY DEF RunAcquire, Ended
<1> HIDE DEF rest
<1>3. PlaceInv(w, d) /\ CallInv(w) /\ pc[w] = "waiting" /\ d \in todo[w] /\ d \in DevicesOf(w)
  BY <1>1 DEF LockInv, PlaceInv, Waits, CallInv
<1>4. holder[d] = Nobody /\ waiters[d] = <<>>
  BY <1>3, LockManagerAssumption DEF AtOnce, PlaceInv, Holds
<1>5. \A l, v, e : Queued(l, v, e)' <=> Queued(l, v, e) /\ ~(l = "acquire" /\ v = w /\ e = d)
  BY <1>1, <1>2 DEF Queued
<1>6. \A v \in Workers : CallInv(v)'
  BY <1>2 DEF LockInv, CallInv, DevicesOf, TypeOK
<1>7. ASSUME NEW v \in Workers, NEW e \in Devices PROVE PlaceInv(v, e)'
  <2>1. PlaceInv(v, e) /\ CallInv(v)
    BY DEF LockInv
  <2>2. CASE e # d
    <3>1. e \in todo'[v] <=> e \in todo[v]
      BY <1>2, <2>2 DEF TypeOK
    <3>. QED  BY <1>2, <1>5, <2>1, <2>2, <3>1, Elsewhere DEF TypeOK
  <2>3. CASE e = d
    <3>1. ToSet(waiters[e]) = {} /\ waiters'[e] = <<>> /\ holder'[e] = w
      BY <1>2, <1>4, <2>3 DEF ToSet, TypeOK
    <3>2. ~Queued("resume", v, e)
      BY <1>4, <2>1, <2>3 DEF PlaceInv
    <3>3. CASE v = w
      <4>1. todo'[v] = todo[v] \ {e} /\ pc'[v] = "waiting"
        BY <1>2, <1>3, <2>3, <3>3 DEF TypeOK
      <4>2. Holds(v, e)' /\ ~Waits(v, e)'
        BY <1>2, <1>3, <2>3, <3>3, <4>1 DEF Holds, Waits, DevicesOf
      <4>3. ~Queued("acquire", v, e)' /\ ~Queued("resume", v, e)' /\ ~Queued("release", v, e)'
        BY <1>3, <1>5, <2>1, <2>3, <3>2, <3>3 DEF PlaceInv
      <4>. QED  BY <1>2, <3>1, <3>3, <4>2, <4>3 DEF PlaceInv
    <3>4. CASE v # w
      <4>1. todo'[v] = todo[v] /\ pc'[v] = pc[v]
        BY <1>2, <3>4 DEF TypeOK
      <4>2. (Holds(v, e)' <=> Holds(v, e)) /\ (Waits(v, e)' <=> Waits(v, e))
        BY <1>2, <4>1 DEF Holds, Waits, DevicesOf
      <4>3. ~Holds(v, e)
        BY <1>4, <2>1, <2>3, LockManagerAssumption DEF PlaceInv
      <4>. QED  BY <1>2, <1>5, <2>1, <3>1, <3>2, <3>4, <4>1, <4>2, <4>3 DEF PlaceInv
    <3>. QED  BY <3>3, <3>4
  <2>. QED  BY <2>2, <2>3
<1>. QED  BY <1>1, <1>2, <1>6, <1>7 DEF LockInv

LEMMA AcquireWaits ==
  ASSUME TypeOK, LockInv, ready # <<>>, NEW w \in Workers, NEW d \in Devices,
         ready[1] = Task("acquire", w, d), RunAcquire(w, d, RemoveAt(ready, 1)), ~AtOnce(w, d),
         UNCHANGED <<conf, pc>>
  PROVE  LockInv'
<1> DEFINE rest == RemoveAt(ready, 1)
<1>1. /\ IsInjective(rest) /\ Queued("acquire", w, d)
      /\ \A l, v, e : Task(l, v, e) \in ToSet(rest) <=>
           Queued(l, v, e) /\ ~(l = "acquire" /\ v = w /\ e = d)
  BY FirstRuns
<1>2. /\ ready' = rest /\ holder' = holder /\ waiters' = [waiters EXCEPT ![d] = Append(@, w)]
      /\ todo' = todo /\ conf' = conf /\ pc' = pc
  BY DEF RunAcquire
<1> HIDE DEF rest
<1>3. /\ PlaceInv(w, d) /\ Waits(w, d) /\ w \notin ToSet(waiters[d])
      /\ waiters[d] \in Seq(Workers) /\ IsInjective(waiters[d])
  BY <1>1 DEF LockInv, PlaceInv, TypeOK
<1>4. /\ IsInjective(Append(waiters[d], w))
      /\ ToSet(Append(waiters[d], w)) = ToSet(waiters[d]) \cup {w}
  BY <1>3, Appended
<1>5. waiters[d] # <<>> => Append(waiters[d], w) # <<>>
                           /\ Head(Append(waiters[d], w)) = Head(waiters[d])
  BY <1>3
<1>6. waiters'[d] = Append(waiters[d], w) /\ \A e \in Devices : e # d => waiters'[e] = waiters[e]
  BY <1>2 DEF TypeOK
<1>7. \A l, v, e : Queued(l, v, e)' <=> Queued(l, v, e) /\ ~(l = "acquire" /\ v = w /\ e = d)
  BY <1>1, <1>2 DEF Queued
<1>8. ASSUME NEW v \in Workers, NEW e \in Devices PROVE PlaceInv(v, e)'
  <2>1. PlaceInv(v, e)
    BY DEF LockInv
  <2>2. CASE e # d
    BY <1>2, <1>6, <1>7, <2>1, <2>2, Elsewhere DEF TypeOK
  <2>3. CASE e = d
    <3>1. (Holds(v, e)' <=> Holds(v, e)) /\ (Waits(v, e)' <=> Waits(v, e))
      BY <1>2 DEF Holds, Waits, DevicesOf
    <3>2. ToSet(waiters'[e]) = ToSet(waiters[e]) \cup {w}
      BY <1>4, <1>6, <2>3
    <3>3. Queued("resume", v, e)' =>
            waiters'[e] # <<>> /\ v = Head(waiters'[e]) /\ holder'[e] = Nobody
      BY <1>2, <1>5, <1>6, <1>7, <2>1, <2>3 DEF PlaceInv
    <3>4. /\ Waits(v, e)' <=> (Queued("acquire", v, e)' \/ v \in ToSet(waiters'[e]))
          /\ ~(Queued("acquire", v, e)' /\ v \in ToSet(waiters'[e]))
      BY <1>3, <1>7, <2>1, <2>3, <3>1, <3>2 DEF PlaceInv
    <3>. QED  BY <1>2, <1>7, <2>1, <3>1, <3>3, <3>4 DEF PlaceInv
  <2>. QED  BY <2>2, <2>3
<1>9. \A e \in Devices : IsInjective(waiters'[e])
  BY <1>4, <1>6 DEF LockInv
<1>10. \A v \in Workers : CallInv(v)'
  BY <1>2 DEF LockInv, CallInv, DevicesOf
<1>. QED  BY <1>1, <1>2, <1>8, <1>9, <1>10 DEF LockInv

LEMMA ResumeLocks ==
  ASSUME TypeOK, LockInv, ready # <<>>, NEW w \in Workers, NEW d \in Devices,
         ready[1] = Task("resume", w, d), RunResume(w, d, RemoveAt(ready, 1)),
         UNCHANGED <<conf, pc>>
  PROVE  /\ LockInv'
         /\ Waits(w, d) /\ holder[d] = Nobody /\ waiters[d] # <<>> /\ w = waiters[d][1]
         /\ w \in ToSet(waiters[d]) /\ waiters'[d] = RemoveAt(waiters[d], 1)
<1> DEFINE rest == RemoveAt(ready, 1)
<1>1. /\ IsInjective(rest) /\ Queued("resume", w, d)
      /\ \A l, v, e : Task(l, v, e) \in ToSet(rest) <=>
           Queued(l, v, e) /\ ~(l = "resume" /\ v = w /\ e = d)
  BY FirstRuns
<1>2. /\ ready' = rest /\ holder' = [holder EXCEPT ![d] = w]
      /\ waiters' = [waiters EXCEPT ![d] = RemoveFirst(@, w)]
      /\ todo' = [todo EXCEPT ![w] = @ \ {d}] /\ conf' = conf /\ pc' = pc
  BY DEF RunResume, Ended
<1> HIDE DEF rest
<1>3. /\ PlaceInv(w, d) /\ holder[d] = Nobody /\ waiters[d] # <<>> /\ w = Head(waiters[d])
      /\ waiters[d] \in Seq(Workers) /\ IsInjective(waiters[d])
  BY <1>1 DEF LockInv, PlaceInv, TypeOK
<1>4. w \in ToSet(waiters[d]) /\ w = waiters[d][1]
  BY <1>3, HeadWaits
<1>5. Waits(w, d) /\ CallInv(w)
  BY <1>3, <1>4 DEF PlaceInv, LockInv
<1>6. pc[w] = "waiting" /\ d \in todo[w] /\ d \in DevicesOf(w)
  BY <1>5 DEF Waits, CallInv
<1>7. RemoveFirst(waiters[d], w) = RemoveAt(waiters[d], 1)
  BY <1>3, RemoveHead
<1>8. /\ IsInjective(RemoveAt(waiters[d], 1))
      /\ ToSet(RemoveAt(waiters[d], 1)) = ToSet(waiters[d]) \ {w}
  BY <1>3, <1>4, WithoutFirst
<1>9. /\ waiters'[d] = RemoveAt(waiters[d], 1) /\ holder'[d] = w
      /\ \A e \in Devices : e # d => waiters'[e] = waiters[e] /\ holder'[e] = holder[e]
  BY <1>2, <1>7 DEF TypeOK
<1>10. \A l, v, e : Queued(l, v, e)' <=> Queued(l, v, e) /\ ~(l = "resume" /\ v = w /\ e = d)
  BY <1>1, <1>2 DEF Queued
<1>11. \A v \in Workers : CallInv(v)'
  BY <1>2 DEF LockInv, CallInv, DevicesOf, TypeOK
<1>12. ASSUME NEW v \in Workers, NEW e \in Devices PROVE PlaceInv(v, e)'
  <2>1. PlaceInv(v, e)
    BY DEF LockInv
  <2>2. CASE e # d
    <3>1. e \in todo'[v] <=> e \in todo[v]
      BY <1>2, <2>2 DEF TypeOK
    <3>. QED  BY <1>2, <1>9, <1>10, <2>1, <2>2, <3>1, Elsewhere DEF TypeOK
  <2>3. CASE e = d
    <3>1. ToSet(waiters'[e]) = ToSet(waiters[e]) \ {w}
      BY <1>8, <1>9, <2>3
    <3>2. ~Queued("resume", v, e)'
      BY <1>3, <1>10, <2>1, <2>3 DEF PlaceInv
    <3>3. CASE v = w
      <4>1. todo'[v] = todo[v] \ {e} /\ pc'[v] = "waiting"
        BY <1>2, <1>6, <2>3, <3>3 DEF TypeOK
      <4>2. Holds(v, e)' /\ ~Waits(v, e)'
        BY <1>2, <1>6, <2>3, <3>3, <4>1 DEF Holds, Waits, DevicesOf
      <4>3. ~Queued("acquire", v, e)' /\ ~Queued("release", v, e)'
        BY <1>4, <1>6, <1>10, <2>1, <2>3, <3>3 DEF PlaceInv
      <4>. QED  BY <1>9, <2>3, <3>1, <3>2, <3>3, <4>2, <4>3 DEF PlaceInv
    <3>4. CASE v # w
      <4>1. todo'[v] = todo[v] /\ pc'[v] = pc[v]
        BY <1>2, <3>4 DEF TypeOK
      <4>2. (Holds(v, e)' <=> Holds(v, e)) /\ (Waits(v, e)' <=> Waits(v, e))
        BY <1>2, <4>1 DEF Holds, Waits, DevicesOf
      <4>3. ~Holds(v, e)
        BY <1>3, <2>1, <2>3, LockManagerAssumption DEF PlaceInv
      <4>. QED  BY <1>9, <1>10, <2>1, <2>3, <3>1, <3>2, <3>4, <4>1, <4>2, <4>3 DEF PlaceInv
    <3>. QED  BY <3>3, <3>4
  <2>. QED  BY <2>2, <2>3
<1>13. \A e \in Devices : IsInjective(waiters'[e])
  BY <1>8, <1>9 DEF LockInv
<1>14. LockInv'
  BY <1>1, <1>2, <1>11, <1>12, <1>13 DEF LockInv
<1>. QED  BY <1>3, <1>4, <1>5, <1>9, <1>14

LEMMA ReleaseLocks ==
  ASSUME TypeOK, LockInv, ready # <<>>, NEW w \in Workers, NEW d \in Devices,
         ready[1] = Task("release", w, d), RunRelease(w, d, RemoveAt(ready, 1)),
         UNCHANGED <<conf, pc>>
  PROVE  /\ LockInv' /\ pc[w] = "releasing"
         /\ \A v, e : Queued("acquire", v, e)' <=> Queued("acquire", v, e)
         /\ \A x, y : Before(ready, x, y) /\ x # Task("release", w, d) => Before(ready', x, y)
<1> DEFINE rest == RemoveAt(ready, 1)
           wake == WakeUpFirst(d)
<1>1. /\ rest \in Seq(Tasks) /\ IsInjective(rest) /\ Queued("release", w, d)
      /\ \A l, v, e : Task(l, v, e) \in ToSet(rest) <=>
           Queued(l, v, e) /\ ~(l = "release" /\ v = w /\ e = d)
      /\ \A x, y : Before(ready, x, y) /\ x # Task("release", w, d) => Before(rest, x, y)
  BY FirstRuns
<1>2. /\ ready' = rest \o wake /\ holder' = [holder EXCEPT ![d] = Nobody] /\ waiters' = waiters
      /\ todo' = [todo EXCEPT ![w] = @ \ {d}] /\ conf' = conf /\ pc' = pc
  BY DEF RunRelease, Ended
<1>3. /\ wake \in Seq(Tasks) /\ IsInjective(wake)
      /\ \A t : t \in ToSet(wake) <=> waiters[d] # <<>> /\ t = Task("resume", Head(waiters[d]), d)
  BY WakeType
<1> HIDE DEF rest, wake
<1>4. PlaceInv(w, d) /\ CallInv(w) /\ pc[w] = "releasing" /\ d \in todo[w] /\ d \in DevicesOf(w)
  BY <1>1 DEF LockInv, PlaceInv, CallInv
<1>5. holder[d] = w
  BY <1>4 DEF PlaceInv, Holds
<1>6. \A v \in Workers : ~Queued("resume", v, d)
  BY <1>5, LockManagerAssumption DEF LockInv, PlaceInv
<1>7. \A t \in ToSet(rest) : t \notin ToSet(wake)
  BY <1>1, <1>3, <1>6, HeadWaits
<1>8. /\ IsInjective(ready') /\ ToSet(ready') = ToSet(rest) \cup ToSet(wake)
      /\ \A x, y : Before(rest, x, y) => Before(ready', x, y)
  BY <1>1, <1>2, <1>3, <1>7, Joined
<1>9. \A l, v, e : Queued(l, v, e)' <=>
        \/ Queued(l, v, e) /\ ~(l = "release" /\ v = w /\ e = d)
        \/ waiters[d] # <<>> /\ l = "resume" /\ v = Head(waiters[d]) /\ e = d
  BY <1>1, <1>3, <1>8, TaskEq DEF Queued
<1>10. \A v \in Workers : CallInv(v)'
  BY <1>2 DEF LockInv, CallInv, DevicesOf, TypeOK
<1>11. ASSUME NEW v \in Workers, NEW e \in Devices PROVE PlaceInv(v, e)'
  <2>1. PlaceInv(v, e)
    BY DEF LockInv
  <2>2. CASE e # d
    <3>1. (e \in todo'[v] <=> e \in todo[v]) /\ holder'[e] = holder[e]
      BY <1>2, <2>2 DEF TypeOK
    <3>. QED  BY <1>2, <1>9, <2>1, <2>2, <3>1, Elsewhere DEF TypeOK
  <2>3. CASE e = d
    <3>1. holder'[e] = Nobody /\ v # Nobody
      BY <1>2, <2>3, LockManagerAssumption DEF TypeOK
    <3>2. Queued("resume", v, e)' => waiters[e] # <<>> /\ v = Head(waiters[e])
      BY <1>6, <1>9, <2>3
    <3>3. Waits(v, e)' <=> Waits(v, e)
      BY <1>2, <1>4 DEF Waits, TypeOK
    <3>4. ~Holds(v, e)'
      <4>1. CASE v = w
        <5>1. todo'[v] = todo[v] \ {e} /\ pc'[v] = "releasing"
          BY <1>2, <1>4, <2>3, <4>1 DEF TypeOK
        <5>. QED  BY <5>1 DEF Holds
      <4>2. CASE v # w
        <5>1. ~Holds(v, e) /\ todo'[v] = todo[v] /\ pc'[v] = pc[v]
          BY <1>2, <1>5, <2>1, <2>3, <4>2 DEF PlaceInv, TypeOK
        <5>. QED  BY <1>2, <5>1 DEF Holds, DevicesOf
      <4>. QED  BY <4>1, <4>2
    <3>5. Queued("release", v, e)' => pc'[v] = "releasing" /\ e \in todo'[v]
      BY <1>2, <1>9, <2>1, <2>3 DEF PlaceInv, TypeOK
    <3>6. Queued("acquire", v, e)' <=> Queued("acquire", v, e)
      BY <1>9
    <3>. QED  BY <1>2, <2>1, <3>1, <3>2, <3>3, <3>4, <3>5, <3>6 DEF PlaceInv
  <2>. QED  BY <2>2, <2>3
<1>12. LockInv'
  BY <1>2, <1>8, <1>10, <1>11 DEF LockInv
<1>. QED  BY <1>1, <1>4, <1>8, <1>9, <1>12

LEMMA LocksStep ==
  ASSUME TypeOK, LockInv, [Next]_vars
  PROVE  LockInv'
<1>1. CASE UNCHANGED <<conf, deviceVars>>
  BY <1>1 DEF LockInv, CallInv, PlaceInv, Holds, Waits, Queued, DevicesOf, deviceVars
<1>2. CASE RunTask
  <2>1. ready # <<>> /\ UNCHANGED <<conf, pc>>
    BY <1>2, RunCases
  <2>2. PICK w \in Workers, d \in Devices :
          \/ ready[1] = Task("acquire", w, d) /\ RunAcquire(w, d, RemoveAt(ready, 1))
          \/ ready[1] = Task("resume", w, d) /\ RunResume(w, d, RemoveAt(ready, 1))
          \/ ready[1] = Task("release", w, d) /\ RunRelease(w, d, RemoveAt(ready, 1))
    BY <1>2, RunCases
  <2>. QED  BY <2>1, <2>2, AcquireAtOnce, AcquireWaits, ResumeLocks, ReleaseLocks
<1>3. ASSUME NEW w \in Workers, WorkerNext(w) PROVE LockInv'
  <2>1. CASE Ask(w) \/ Leave(w) \/ Return(w)
    BY <2>1, CallLocks
  <2>2. CASE Arrive(w)
    BY <2>2, ArriveLocks
  <2>3. CASE AskForPort(w) \/ AcquirePort(w) \/ Listen(w) \/ Die(w)
    BY <1>1, <2>3 DEF AskForPort, AcquirePort, Listen, Die
  <2>. QED  BY <1>3, <2>1, <2>2, <2>3 DEF WorkerNext
<1>4. CASE Daemon
  BY <1>1, <1>4 DEF Daemon, TakeNames, LookUp, FreePorts
<1>. QED  BY <1>1, <1>2, <1>3, <1>4 DEF Next, vars

LEMMA LocksInit == Init => LockInv
<1> SUFFICES ASSUME Init PROVE LockInv
  OBVIOUS
<1>1. ToSet(ready) = {} /\ IsInjective(ready) /\ \A d \in Devices :
        ToSet(waiters[d]) = {} /\ IsInjective(waiters[d])
  BY DEF Init, ToSet, IsInjective
<1>2. \A w \in Workers : CallInv(w)
  BY DEF Init, CallInv
<1>3. \A w \in Workers, d \in Devices : PlaceInv(w, d)
  BY <1>1, LockManagerAssumption DEF Init, PlaceInv, Holds, Waits, Queued
<1>. QED  BY <1>1, <1>2, <1>3 DEF LockInv

LEMMA LocksOfOne ==
  ASSUME TypeOK, LockInv
  PROVE  LocksHold
<1>1. Exclusive
  <2> SUFFICES ASSUME NEW v \in Workers, NEW w \in Workers, v # w, pc[v] = "in", pc[w] = "in",
                      NEW d \in DevicesOf(v) \cap DevicesOf(w)
               PROVE  FALSE
    BY DEF Exclusive
  <2>1. d \in Devices
    BY NeedsType
  <2>2. holder[d] = v /\ holder[d] = w
    BY <2>1 DEF LockInv, PlaceInv, Holds
  <2>. QED  BY <2>2
<1>2. NoLockError
  <2> SUFFICES ASSUME NEW i \in DOMAIN ready
               PROVE  /\ ready[i].kind = "resume" => holder[ready[i].device] = Nobody
                      /\ ready[i].kind = "release" => holder[ready[i].device] = ready[i].worker
    BY DEF NoLockError
  <2>1. PICK k \in {"acquire", "resume", "release"}, w \in Workers, d \in Devices :
          ready[i] = Task(k, w, d)
    <3>1. ready[i] \in Tasks
      BY DEF TypeOK
    <3>. QED  BY <3>1 DEF Tasks, Task
  <2>2. ready[i].kind = k /\ ready[i].worker = w /\ ready[i].device = d
    BY <2>1, TaskType
  <2>3. Queued(k, w, d)
    BY <2>1 DEF Queued, ToSet
  <2>4. k = "resume" => holder[d] = Nobody
    BY <2>3 DEF LockInv, PlaceInv
  <2>5. k = "release" => holder[d] = w
    BY <2>3 DEF LockInv, PlaceInv, CallInv, Holds
  <2>. QED  BY <2>2, <2>4, <2>5
<1>. QED  BY <1>1, <1>2 DEF LocksHold

\* The device locks exclude: workers inside theirs have no device in common,
\* the assertion of WorkerDeviceLock.acquire and the errors of release never
\* fire.  For any number of workers and devices, in whatever order they are
\* named and requested.
THEOREM DevicesExclusive == Spec => []LocksHold
BY TypeInit, TypeStep, LocksInit, LocksStep, LocksOfOne, PTL DEF Spec

-----------------------------------------------------------------------------
(***************************************************************************)
(* Device locks: who is served first.                                      *)
(***************************************************************************)

\* Requests keep their order when neither moves.
LEMMA TurnKept ==
  ASSUME NEW v \in Workers, NEW w \in Workers, NEW d \in Devices, TurnOf(v, w, d),
         d \in todo'[w], waiters'[d] = waiters[d],
         Queued("acquire", v, d)' => Queued("acquire", v, d),
         Queued("acquire", w, d)' => Queued("acquire", w, d),
         Queued("acquire", v, d)' /\ Queued("acquire", w, d)'
           /\ Before(ready, Task("acquire", v, d), Task("acquire", w, d)) =>
             Before(ready', Task("acquire", v, d), Task("acquire", w, d))
  PROVE  TurnOf(v, w, d)'
BY DEF TurnOf

LEMMA CallTurns ==
  ASSUME TypeOK, TurnInv, NEW w \in Workers, Ask(w) \/ Leave(w) \/ Return(w)
  PROVE  TurnInv'
<1>1. /\ conf' = conf /\ ready' = ready /\ waiters' = waiters /\ todo' = todo
      /\ \A u \in Workers : ahead'[u] \subseteq ahead[u]
      /\ \A u \in Workers : u # w => pc'[u] = pc[u]
      /\ pc[w] = "waiting" => ahead'[w] = {} /\ \A u \in Workers : w \notin ahead'[u]
  <2>1. PICK pcs : pc \in [Workers -> pcs]
    BY DEF TypeOK
  <2>2. CASE Ask(w)
    BY <2>1, <2>2 DEF Ask
  <2>3. CASE Leave(w)
    BY <2>1, <2>3 DEF Leave
  <2>4. CASE Return(w)
    <3>1. UNCHANGED <<conf, ready, waiters, todo>>
      BY <2>4 DEF Return
    <3>2. \A u \in Workers : u # w => pc'[u] = pc[u]
      <4>1. PICK p : pc' = [pc EXCEPT ![w] = p]
        BY <2>4 DEF Return
      <4>. QED  BY <2>1, <4>1
    <3>3. ahead' = [v \in Workers |-> IF v = w THEN {} ELSE ahead[v] \ {w}]
      BY <2>4 DEF Return
    <3>4. /\ \A u \in Workers : ahead'[u] \subseteq ahead[u] /\ w \notin ahead'[u]
          /\ ahead'[w] = {}
      BY <3>3
    <3>. QED  BY <3>1, <3>2, <3>4
  <2>. QED  BY <2>2, <2>3, <2>4
<1> SUFFICES ASSUME NEW u \in Workers, NEW v \in ahead'[u]
             PROVE  /\ v # u /\ pc'[v] = "waiting" /\ pc'[u] = "waiting"
                    /\ \A d \in DevicesOf(v)' \cap DevicesOf(u)' : TurnOf(v, u, d)'
  BY DEF TurnInv
<1>2. v \in ahead[u] /\ v \in Workers
  BY <1>1 DEF TypeOK
<1>3. /\ v # u /\ pc[v] = "waiting" /\ pc[u] = "waiting"
      /\ \A d \in DevicesOf(v) \cap DevicesOf(u) : TurnOf(v, u, d)
  BY <1>2 DEF TurnInv
<1>4. v # w /\ u # w
  BY <1>1, <1>3
<1>5. \A d \in DevicesOf(v)' \cap DevicesOf(u)' : TurnOf(v, u, d)'
  BY <1>1, <1>3 DEF TurnOf, Queued, DevicesOf
<1>. QED  BY <1>1, <1>2, <1>3, <1>4, <1>5

LEMMA ArriveTurns ==
  ASSUME TypeOK, LockInv, TurnInv, NEW w \in Workers, Arrive(w)
  PROVE  TurnInv'
<1>1. /\ conf' = conf /\ waiters' = waiters /\ todo' = [todo EXCEPT ![w] = DevicesOf(w)]
      /\ \A u \in Workers : u # w => pc'[u] = pc[u] /\ ahead'[u] = ahead[u] /\ todo'[u] = todo[u]
      /\ pc[w] # "waiting" /\ todo'[w] = DevicesOf(w)
  BY DEF Arrive, TypeOK
<1>2. /\ \A x, y : Before(ready, x, y) => Before(ready', x, y)
      /\ \A v \in Workers, d \in Devices, e \in DevicesOf(w) :
           pc[w] = "asking" /\ Queued("acquire", v, d) =>
             Before(ready', Task("acquire", v, d), Task("acquire", w, e))
      /\ \A v \in Workers, e \in Devices : v # w =>
           (Queued("acquire", v, e)' <=> Queued("acquire", v, e))
  BY ArriveLocks
<1> SUFFICES ASSUME NEW u \in Workers, NEW v \in ahead'[u]
             PROVE  /\ v # u /\ pc'[v] = "waiting" /\ pc'[u] = "waiting"
                    /\ \A d \in DevicesOf(v)' \cap DevicesOf(u)' : TurnOf(v, u, d)'
  BY DEF TurnInv
<1>3. CASE u # w
  <2>1. v \in ahead[u] /\ v \in Workers
    BY <1>1, <1>3 DEF TypeOK
  <2>2. /\ v # u /\ pc[v] = "waiting" /\ pc[u] = "waiting"
        /\ \A d \in DevicesOf(v) \cap DevicesOf(u) : TurnOf(v, u, d)
    BY <2>1 DEF TurnInv
  <2>3. v # w
    BY <1>1, <2>2
  <2>4. ASSUME NEW d \in DevicesOf(v) \cap DevicesOf(u) PROVE TurnOf(v, u, d)'
    <3>1. d \in Devices /\ TurnOf(v, u, d)
      BY <2>1, <2>2, NeedsType
    <3>2. d \in todo'[u]
      BY <1>1, <1>3, <3>1 DEF TurnOf
    <3>. QED  BY <1>1, <1>2, <1>3, <2>1, <2>3, <3>1, <3>2, TurnKept
  <2>. QED  BY <1>1, <1>3, <2>1, <2>2, <2>3, <2>4 DEF DevicesOf
<1>4. CASE u = w
  <2>1. pc[w] = "asking" /\ pc'[w] = "waiting" /\ v \in Workers /\ pc[v] = "waiting"
    <3>1. CASE pc[w] = "asking"
      BY <1>4, <3>1 DEF Arrive, TypeOK
    <3>2. CASE pc[w] = "leaving"
      <4>1. ahead' = ahead /\ v \in ahead[w]
        BY <1>4, <3>2 DEF Arrive
      <4>. QED  BY <3>2, <4>1 DEF TurnInv
    <3>. QED  BY <3>1, <3>2 DEF Arrive
  <2>2. v # w /\ pc'[v] = "waiting"
    BY <1>1, <2>1
  <2>3. ASSUME NEW d \in DevicesOf(v) \cap DevicesOf(w) PROVE TurnOf(v, w, d)'
    <3>1. d \in Devices
      BY NeedsType
    <3>2. w \notin ToSet(waiters'[d])
      BY <1>1, <2>1, <3>1 DEF LockInv, PlaceInv, Waits
    <3>3. d \in todo'[w]
      BY <1>1
    <3>4. Queued("acquire", v, d)' =>
            Before(ready', Task("acquire", v, d), Task("acquire", w, d))
      BY <1>2, <2>1, <2>2, <3>1
    <3>. QED  BY <3>2, <3>3, <3>4 DEF TurnOf
  <2>. QED  BY <1>1, <1>4, <2>1, <2>2, <2>3 DEF DevicesOf
<1>. QED  BY <1>3, <1>4

\* Who gets a device at once, or when it is woken, is behind nobody there.
LEMMA NobodyAhead ==
  ASSUME TypeOK, LockInv, TurnInv, NEW w \in Workers, NEW d \in Devices, holder[d] = Nobody,
         NEW v \in ahead[w], d \in DevicesOf(v) \cap DevicesOf(w),
         \A x : ~Before(ready, x, Task("acquire", w, d)) \/ ~Queued("acquire", w, d),
         \A x : ~Before(waiters[d], x, w),
         Queued("acquire", w, d) => waiters[d] = <<>>
  PROVE  FALSE
<1>1. v \in Workers /\ v # w /\ pc[v] = "waiting" /\ pc[w] = "waiting" /\ TurnOf(v, w, d)
  BY DEF TurnInv, TypeOK
<1>2. PlaceInv(v, d) /\ PlaceInv(w, d)
  BY <1>1 DEF LockInv
<1>3. Waits(v, d)
  BY <1>1, <1>2, LockManagerAssumption DEF PlaceInv, Holds, Waits
<1>4. Waits(w, d)
  BY <1>1 DEF Waits, TurnOf
<1>5. CASE Queued("acquire", w, d)
  <2>1. ToSet(waiters[d]) = {}
    BY <1>5 DEF ToSet
  <2>2. Queued("acquire", v, d)
    BY <1>2, <1>3, <2>1 DEF PlaceInv
  <2>. QED  BY <1>1, <1>5, <2>2 DEF TurnOf
<1>6. CASE w \in ToSet(waiters[d])
  <2>1. ~Queued("acquire", v, d)
    BY <1>1, <1>6 DEF TurnOf
  <2>2. v \in ToSet(waiters[d])
    BY <1>2, <1>3, <2>1 DEF PlaceInv
  <2>. QED  BY <1>1, <1>6, <2>2 DEF TurnOf
<1>. QED  BY <1>2, <1>4, <1>5, <1>6 DEF PlaceInv

LEMMA AtOnceTurns ==
  ASSUME TypeOK, LockInv, TurnInv, ready # <<>>, NEW w \in Workers, NEW d \in Devices,
         ready[1] = Task("acquire", w, d), RunAcquire(w, d, RemoveAt(ready, 1)), AtOnce(w, d),
         UNCHANGED <<conf, pc, ahead>>
  PROVE  TurnInv'
<1> DEFINE rest == RemoveAt(ready, 1)
<1>1. /\ Queued("acquire", w, d)
      /\ \A l, v, e : Task(l, v, e) \in ToSet(rest) <=>
           Queued(l, v, e) /\ ~(l = "acquire" /\ v = w /\ e = d)
      /\ \A x, y : Before(ready, x, y) => y # Task("acquire", w, d)
      /\ \A x, y : Before(ready, x, y) /\ x # Task("acquire", w, d) => Before(rest, x, y)
  BY FirstRuns
<1>2. /\ ready' = rest /\ waiters' = waiters /\ todo' = [todo EXCEPT ![w] = @ \ {d}]
      /\ conf' = conf /\ pc' = pc /\ ahead' = ahead
  BY DEF RunAcquire, Ended
<1> HIDE DEF rest
<1>3. PlaceInv(w, d) /\ pc[w] = "waiting" /\ d \in todo[w]
  BY <1>1 DEF LockInv, PlaceInv, Waits
<1>4. holder[d] = Nobody /\ waiters[d] = <<>>
  BY <1>3, LockManagerAssumption DEF AtOnce, PlaceInv, Holds
<1>5. \A l, v, e : Queued(l, v, e)' <=> Queued(l, v, e) /\ ~(l = "acquire" /\ v = w /\ e = d)
  BY <1>1, <1>2 DEF Queued
<1>6. \A x : ~Before(waiters[d], x, w)
  BY <1>4 DEF Before
<1> SUFFICES ASSUME NEW u \in Workers, NEW v \in ahead[u]
             PROVE  /\ v # u /\ pc[v] = "waiting" /\ pc[u] = "waiting"
                    /\ \A e \in DevicesOf(v) \cap DevicesOf(u) : TurnOf(v, u, e)'
  BY <1>2 DEF TurnInv, DevicesOf
<1>7. /\ v \in Workers /\ v # u /\ pc[v] = "waiting" /\ pc[u] = "waiting"
      /\ \A e \in DevicesOf(v) \cap DevicesOf(u) : TurnOf(v, u, e)
  BY DEF TurnInv, TypeOK
<1>8. ASSUME NEW e \in DevicesOf(v) \cap DevicesOf(u) PROVE TurnOf(v, u, e)'
  <2>1. e \in Devices /\ TurnOf(v, u, e)
    BY <1>7, NeedsType
  <2>2. ~(u = w /\ e = d)
    BY <1>1, <1>4, <1>6, <2>1, NobodyAhead
  <2>3. e \in todo'[u]
    BY <1>2, <2>1, <2>2 DEF TurnOf, TypeOK
  <2>4. Queued("acquire", v, e)' => Task("acquire", v, e) # Task("acquire", w, d)
    BY <1>5, TaskEq
  <2>5. Queued("acquire", v, e)' /\ Before(ready, Task("acquire", v, e), Task("acquire", u, e)) =>
          Before(ready', Task("acquire", v, e), Task("acquire", u, e))
    BY <1>1, <1>2, <2>4
  <2>. QED  BY <1>2, <1>5, <1>7, <2>1, <2>3, <2>5, TurnKept
<1>. QED  BY <1>7, <1>8

LEMMA WaitsTurns ==
  ASSUME TypeOK, LockInv, TurnInv, ready # <<>>, NEW w \in Workers, NEW d \in Devices,
         ready[1] = Task("acquire", w, d), RunAcquire(w, d, RemoveAt(ready, 1)), ~AtOnce(w, d),
         UNCHANGED <<conf, pc, ahead>>
  PROVE  TurnInv'
<1> DEFINE rest == RemoveAt(ready, 1)
           queue == Append(waiters[d], w)
<1>1. /\ Queued("acquire", w, d)
      /\ \A l, v, e : Task(l, v, e) \in ToSet(rest) <=>
           Queued(l, v, e) /\ ~(l = "acquire" /\ v = w /\ e = d)
      /\ \A x, y : Before(ready, x, y) => y # Task("acquire", w, d)
      /\ \A x, y : Before(ready, x, y) /\ x # Task("acquire", w, d) => Before(rest, x, y)
  BY FirstRuns
<1>2. /\ ready' = rest /\ waiters' = [waiters EXCEPT ![d] = queue] /\ todo' = todo
      /\ conf' = conf /\ pc' = pc /\ ahead' = ahead
  BY DEF RunAcquire
<1> HIDE DEF rest
<1>3. w \notin ToSet(waiters[d]) /\ waiters[d] \in Seq(Workers) /\ IsInjective(waiters[d])
  BY <1>1 DEF LockInv, PlaceInv, TypeOK
<1>4. /\ ToSet(queue) = ToSet(waiters[d]) \cup {w}
      /\ \A y, z : Before(waiters[d], y, z) => Before(queue, y, z)
      /\ \A y \in ToSet(waiters[d]) : Before(queue, y, w)
  BY <1>3, Appended
<1> HIDE DEF queue
<1>5. \A l, v, e : Queued(l, v, e)' <=> Queued(l, v, e) /\ ~(l = "acquire" /\ v = w /\ e = d)
  BY <1>1, <1>2 DEF Queued
<1>6. waiters'[d] = queue /\ \A e \in Devices : e # d => waiters'[e] = waiters[e]
  BY <1>2 DEF TypeOK
<1> SUFFICES ASSUME NEW u \in Workers, NEW v \in ahead[u]
             PROVE  /\ v # u /\ pc[v] = "waiting" /\ pc[u] = "waiting"
                    /\ \A e \in DevicesOf(v) \cap DevicesOf(u) : TurnOf(v, u, e)'
  BY <1>2 DEF TurnInv, DevicesOf
<1>7. /\ v \in Workers /\ v # u /\ pc[v] = "waiting" /\ pc[u] = "waiting"
      /\ \A e \in DevicesOf(v) \cap DevicesOf(u) : TurnOf(v, u, e)
  BY DEF TurnInv, TypeOK
<1>8. ASSUME NEW e \in DevicesOf(v) \cap DevicesOf(u) PROVE TurnOf(v, u, e)'
  <2>1. e \in Devices /\ TurnOf(v, u, e)
    BY <1>7, NeedsType
  <2>2. Queued("acquire", v, e)' => Task("acquire", v, e) # Task("acquire", w, d)
    BY <1>5, TaskEq
  <2>3. Queued("acquire", v, e)' /\ Before(ready, Task("acquire", v, e), Task("acquire", u, e)) =>
          Before(ready', Task("acquire", v, e), Task("acquire", u, e))
    BY <1>1, <1>2, <2>2
  <2>4. CASE e # d
    <3>1. e \in todo'[u] /\ waiters'[e] = waiters[e]
      BY <1>2, <1>6, <2>1, <2>4 DEF TurnOf
    <3>. QED  BY <1>5, <1>7, <2>1, <2>3, <3>1, TurnKept
  <2>5. CASE e = d /\ u = w
    <3>1. ~Queued("acquire", v, e)
      BY <1>1, <1>7, <2>1, <2>5 DEF TurnOf
    <3>2. v \in ToSet(waiters'[e]) => Before(waiters'[e], v, u)
      BY <1>4, <1>6, <1>7, <2>5
    <3>. QED  BY <1>2, <1>5, <2>1, <3>1, <3>2 DEF TurnOf
  <2>6. CASE e = d /\ v = w
    <3>1. u \notin ToSet(waiters[e])
      BY <1>1, <2>1, <2>6 DEF TurnOf
    <3>2. u \notin ToSet(waiters'[e])
      BY <1>4, <1>6, <1>7, <2>6, <3>1
    <3>3. ~Queued("acquire", v, e)'
      BY <1>5, <2>6
    <3>. QED  BY <1>2, <2>1, <3>2, <3>3 DEF TurnOf
  <2>7. CASE e = d /\ u # w /\ v # w
    <3>1. /\ v \in ToSet(waiters'[e]) <=> v \in ToSet(waiters[e])
          /\ u \in ToSet(waiters'[e]) <=> u \in ToSet(waiters[e])
          /\ Before(waiters[e], v, u) => Before(waiters'[e], v, u)
      BY <1>4, <1>6, <2>7
    <3>. QED  BY <1>2, <1>5, <2>1, <2>3, <3>1 DEF TurnOf
  <2>. QED  BY <2>4, <2>5, <2>6, <2>7
<1>. QED  BY <1>7, <1>8

LEMMA ResumeTurns ==
  ASSUME TypeOK, LockInv, TurnInv, ready # <<>>, NEW w \in Workers, NEW d \in Devices,
         ready[1] = Task("resume", w, d), RunResume(w, d, RemoveAt(ready, 1)),
         UNCHANGED <<conf, pc, ahead>>
  PROVE  TurnInv'
<1> DEFINE rest == RemoveAt(ready, 1)
           queue == RemoveAt(waiters[d], 1)
<1>1. /\ \A l, v, e : Task(l, v, e) \in ToSet(rest) <=>
           Queued(l, v, e) /\ ~(l = "resume" /\ v = w /\ e = d)
      /\ \A x, y : Before(ready, x, y) /\ x # Task("resume", w, d) => Before(rest, x, y)
  BY FirstRuns
<1>2. /\ Waits(w, d) /\ holder[d] = Nobody /\ waiters[d] # <<>> /\ w = waiters[d][1]
      /\ w \in ToSet(waiters[d]) /\ waiters'[d] = queue
  BY ResumeLocks
<1>3. /\ ready' = rest /\ waiters' = [waiters EXCEPT ![d] = RemoveFirst(@, w)]
      /\ todo' = [todo EXCEPT ![w] = @ \ {d}] /\ conf' = conf /\ pc' = pc /\ ahead' = ahead
  BY DEF RunResume, Ended
<1> HIDE DEF rest
<1>4. waiters[d] \in Seq(Workers) /\ IsInjective(waiters[d]) /\ ~Queued("acquire", w, d)
  BY <1>2 DEF LockInv, PlaceInv, TypeOK
<1>5. /\ ToSet(queue) = ToSet(waiters[d]) \ {w}
      /\ \A x, y : Before(waiters[d], x, y) => y # w
      /\ \A x, y : Before(waiters[d], x, y) /\ x # w => Before(queue, x, y)
  BY <1>2, <1>4, WithoutFirst
<1> HIDE DEF queue
<1>6. \A v, e : Queued("acquire", v, e)' <=> Queued("acquire", v, e)
  BY <1>1, <1>3 DEF Queued
<1>7. \A e \in Devices : e # d => waiters'[e] = waiters[e]
  BY <1>3 DEF TypeOK
<1> SUFFICES ASSUME NEW u \in Workers, NEW v \in ahead[u]
             PROVE  /\ v # u /\ pc[v] = "waiting" /\ pc[u] = "waiting"
                    /\ \A e \in DevicesOf(v) \cap DevicesOf(u) : TurnOf(v, u, e)'
  BY <1>3 DEF TurnInv, DevicesOf
<1>8. /\ v \in Workers /\ v # u /\ pc[v] = "waiting" /\ pc[u] = "waiting"
      /\ \A e \in DevicesOf(v) \cap DevicesOf(u) : TurnOf(v, u, e)
  BY DEF TurnInv, TypeOK
<1>9. ASSUME NEW e \in DevicesOf(v) \cap DevicesOf(u) PROVE TurnOf(v, u, e)'
  <2>1. e \in Devices /\ TurnOf(v, u, e)
    BY <1>8, NeedsType
  <2>2. ~(u = w /\ e = d)
    BY <1>2, <1>4, <1>5, <2>1, NobodyAhead
  <2>3. e \in todo'[u]
    BY <1>3, <2>1, <2>2 DEF TurnOf, TypeOK
  <2>4. Task("acquire", v, e) # Task("resume", w, d)
    BY TaskEq
  <2>5. Before(ready, Task("acquire", v, e), Task("acquire", u, e)) =>
          Before(ready', Task("acquire", v, e), Task("acquire", u, e))
    BY <1>1, <1>3, <2>4
  <2>6. CASE e # d
    BY <1>6, <1>7, <1>8, <2>1, <2>3, <2>5, <2>6, TurnKept
  <2>7. CASE e = d
    <3>1. /\ v \in ToSet(waiters'[e]) => v \in ToSet(waiters[e]) /\ v # w
          /\ u \in ToSet(waiters'[e]) => u \in ToSet(waiters[e])
          /\ Before(waiters[e], v, u) /\ v # w => Before(waiters'[e], v, u)
      BY <1>2, <1>5, <2>7
    <3>. QED  BY <1>6, <2>1, <2>3, <2>5, <3>1 DEF TurnOf
  <2>. QED  BY <2>6, <2>7
<1>. QED  BY <1>8, <1>9

LEMMA ReleaseTurns ==
  ASSUME TypeOK, LockInv, TurnInv, ready # <<>>, NEW w \in Workers, NEW d \in Devices,
         ready[1] = Task("release", w, d), RunRelease(w, d, RemoveAt(ready, 1)),
         UNCHANGED <<conf, pc, ahead>>
  PROVE  TurnInv'
<1>1. /\ pc[w] = "releasing"
      /\ \A v, e : Queued("acquire", v, e)' <=> Queued("acquire", v, e)
      /\ \A x, y : Before(ready, x, y) /\ x # Task("release", w, d) => Before(ready', x, y)
  BY ReleaseLocks
<1>2. /\ waiters' = waiters /\ todo' = [todo EXCEPT ![w] = @ \ {d}]
      /\ conf' = conf /\ pc' = pc /\ ahead' = ahead
  BY DEF RunRelease, Ended
<1> SUFFICES ASSUME NEW u \in Workers, NEW v \in ahead[u]
             PROVE  /\ v # u /\ pc[v] = "waiting" /\ pc[u] = "waiting"
                    /\ \A e \in DevicesOf(v) \cap DevicesOf(u) : TurnOf(v, u, e)'
  BY <1>2 DEF TurnInv, DevicesOf
<1>3. /\ v \in Workers /\ v # u /\ pc[v] = "waiting" /\ pc[u] = "waiting"
      /\ \A e \in DevicesOf(v) \cap DevicesOf(u) : TurnOf(v, u, e)
  BY DEF TurnInv, TypeOK
<1>4. ASSUME NEW e \in DevicesOf(v) \cap DevicesOf(u) PROVE TurnOf(v, u, e)'
  <2>1. e \in Devices /\ TurnOf(v, u, e)
    BY <1>3, NeedsType
  <2>2. e \in todo'[u]
    BY <1>1, <1>2, <1>3, <2>1 DEF TurnOf, TypeOK
  <2>3. Before(ready, Task("acquire", v, e), Task("acquire", u, e)) =>
          Before(ready', Task("acquire", v, e), Task("acquire", u, e))
    BY <1>1, TaskEq
  <2>. QED  BY <1>1, <1>2, <1>3, <2>1, <2>2, <2>3, TurnKept
<1>. QED  BY <1>3, <1>4

LEMMA TurnStep ==
  ASSUME TypeOK, LockInv, TurnInv, [Next]_vars
  PROVE  TurnInv'
<1>1. CASE UNCHANGED <<conf, deviceVars>>
  BY <1>1 DEF TurnInv, TurnOf, Queued, DevicesOf, deviceVars
<1>2. CASE RunTask
  <2>1. ready # <<>> /\ UNCHANGED <<conf, pc, ahead>>
    BY <1>2, RunCases
  <2>2. PICK w \in Workers, d \in Devices :
          \/ ready[1] = Task("acquire", w, d) /\ RunAcquire(w, d, RemoveAt(ready, 1))
          \/ ready[1] = Task("resume", w, d) /\ RunResume(w, d, RemoveAt(ready, 1))
          \/ ready[1] = Task("release", w, d) /\ RunRelease(w, d, RemoveAt(ready, 1))
    BY <1>2, RunCases
  <2>. QED  BY <2>1, <2>2, AtOnceTurns, WaitsTurns, ResumeTurns, ReleaseTurns
<1>3. ASSUME NEW w \in Workers, WorkerNext(w) PROVE TurnInv'
  <2>1. CASE Ask(w) \/ Leave(w) \/ Return(w)
    BY <2>1, CallTurns
  <2>2. CASE Arrive(w)
    BY <2>2, ArriveTurns
  <2>3. CASE AskForPort(w) \/ AcquirePort(w) \/ Listen(w) \/ Die(w)
    BY <1>1, <2>3 DEF AskForPort, AcquirePort, Listen, Die
  <2>. QED  BY <1>3, <2>1, <2>2, <2>3 DEF WorkerNext
<1>4. CASE Daemon
  BY <1>1, <1>4 DEF Daemon, TakeNames, LookUp, FreePorts
<1>. QED  BY <1>1, <1>2, <1>3, <1>4 DEF Next, vars

\* A call that returns has no device left to wait for, and a request ahead of
\* it that wants one of its devices would have kept that device from it.
LEMMA OneFirst ==
  ASSUME TypeOK, TurnInv, [Next]_vars, NEW w \in Workers, pc[w] = "waiting", pc'[w] = "in",
         NEW v \in ahead[w]
  PROVE  DevicesOf(v) \cap DevicesOf(w) = {}
<1>1. todo[w] = {}
  <2>1. CASE \E u \in Workers : Return(u)
    BY <2>1 DEF Return, TypeOK
  <2>2. ASSUME NEW u \in Workers, Ask(u) \/ Leave(u) \/ Arrive(u) PROVE FALSE
    BY <2>2 DEF Ask, Leave, Arrive, TypeOK
  <2>3. CASE pc' = pc
    BY <2>3
  <2>4. ASSUME NEW u \in Workers, AskForPort(u) \/ AcquirePort(u) \/ Listen(u) \/ Die(u)
        PROVE  pc' = pc
    BY <2>4 DEF AskForPort, AcquirePort, Listen, Die, deviceVars
  <2>5. CASE RunTask \/ Daemon \/ UNCHANGED vars
    BY <2>3, <2>5 DEF RunTask, Daemon, TakeNames, LookUp, FreePorts, vars, deviceVars
  <2>. QED  BY <2>1, <2>2, <2>3, <2>4, <2>5 DEF Next, WorkerNext
<1>. QED  BY <1>1 DEF TurnInv, TurnOf

\* Nobody overtakes: a worker enters its locks only when no earlier request
\* for one of its devices waits still, although its tasks for several devices
\* run and are woken one by one.  For any number of workers and devices.
THEOREM FirstComeFirstServed == Spec => FirstCome
<1>1. Init => TurnInv
  BY DEF Init, TurnInv
<1>2. TypeOK /\ TurnInv /\ [Next]_vars =>
        [\A w \in Workers : pc[w] = "waiting" /\ pc'[w] = "in" =>
           \A v \in ahead[w] : DevicesOf(v) \cap DevicesOf(w) = {}]_vars
  BY OneFirst
<1>. QED  BY <1>1, <1>2, TypeInit, TypeStep, LocksInit, LocksStep, TurnStep, PTL
          DEF Spec, FirstCome
=============================================================================
