------------------------------ MODULE LockStep ------------------------------
(***************************************************************************)
(* What the rollout pipeline promises, without channels, routers or        *)
(* threads: each environment emits a sequence of observations, one per     *)
(* slot at a time, and each of its slots is served exactly once per        *)
(* observation, in order.  An environment may emit the next observation    *)
(* only when the previous one has been served on every slot; with          *)
(* prefetching it may emit the first observation of the next epoch while   *)
(* the last one of this epoch is still being served.  A training step      *)
(* starts only when the one before is completely served.                   *)
(***************************************************************************)
EXTENDS Integers

CONSTANTS Slots, EnvOf, NumEpochs, NumSteps, NumIters

Envs == {EnvOf[s] : s \in Slots}

VARIABLES emitted,  \* environment -> number of observations emitted so far
          served,   \* slot -> number of observations served so far
          prefetch  \* whether epochs are prefetched; no step changes it

vars == <<emitted, served, prefetch>>

PerEpoch == NumSteps + 1
PerIter  == NumEpochs * PerEpoch

\* How many observations of e may still be unserved when it emits another one.
Slack(e) == IF prefetch /\ emitted[e] % PerEpoch = 0 THEN 1 ELSE 0

Init == /\ emitted = [e \in Envs |-> 0]
        /\ served = [s \in Slots |-> 0]
        /\ prefetch \in BOOLEAN

Emit(e) ==
  /\ emitted[e] < NumIters * PerIter
  /\ IF emitted[e] % PerIter = 0
     THEN \A s \in Slots : served[s] >= emitted[e]
     ELSE \A s \in Slots : EnvOf[s] = e => served[s] >= emitted[e] - Slack(e)
  /\ emitted' = [emitted EXCEPT ![e] = @ + 1]
  /\ UNCHANGED <<served, prefetch>>

Serve(s) ==
  /\ served[s] < emitted[EnvOf[s]]
  /\ served' = [served EXCEPT ![s] = @ + 1]
  /\ UNCHANGED <<emitted, prefetch>>

Next == (\E e \in Envs : Emit(e)) \/ (\E s \in Slots : Serve(s))

Spec == Init /\ [][Next]_vars
             /\ \A e \in Envs : WF_vars(Emit(e))
             /\ \A s \in Slots : WF_vars(Serve(s))
=============================================================================
