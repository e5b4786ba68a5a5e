---------------------------- MODULE MCLockManager ----------------------------
(***************************************************************************)
(* Configurations of LockManager: three workers, three devices, two ports. *)
(***************************************************************************)
EXTENDS LockManager

CONSTANTS w1, w2, w3, d1, d2, d3

NoDevices == [w \in Workers |-> <<>>]

Locking(a, b, c) ==
  [needs |-> [w \in Workers |-> CASE w = w1 -> a [] w = w2 -> b [] w = w3 -> c],
   laps |-> 2, quota |-> 0, mortal |-> {}, children |-> {}]

Porting(n, dying, kids) ==
  [needs |-> NoDevices, laps |-> 0, quota |-> n, mortal |-> dying, children |-> kids]

\* Two workers that name the same devices in opposite orders and a third that
\* wants one of them; and three workers that want two devices each, in a ring.
LockConfigs == {
  Locking(<<d1, d2>>, <<d2, d1>>, <<d2>>),
  Locking(<<d1, d2>>, <<d2, d3>>, <<d3, d1>>) }

\* More workers than ports, two of which may die.
PortConfigs == { Porting(1, {w1, w2}, {}), Porting(2, {w1}, {}), Porting(1, {w3}, {w2}) }

AllConfigs == LockConfigs \cup PortConfigs

=============================================================================
