--------------------------- MODULE MCChannelClient ---------------------------
(***************************************************************************)
(* Small scenarios for ChannelClient: the ways the workers use a channel.  *)
(***************************************************************************)
EXTENDS ChannelClient, TLC

CONSTANTS a, b, c, d, m1, m2, r1, r2, E, R

Method(op, keys, patience, wait, guard) ==
  [op |-> op, keys |-> keys, patience |-> patience, wait |-> wait, guard |-> guard, of |-> 0]

PutAsync(k)  == Method("put", <<k>>, "forever", FALSE, "sender")
PutSync(k)   == Method("put", <<k>>, "forever", TRUE, "sender")
PutMany(ks)  == Method("put_many", ks, "forever", FALSE, "sender")
Poll(k)      == Method("get", <<k>>, "forever", TRUE, "receiver")
Gather(ks)   == Method("get_many", ks, "none", TRUE, "receiver")
Pull(ks)     == Method("get_any", ks, "deadline", TRUE, "none")
GetAsync(k)  == Method("get", <<k>>, "forever", FALSE, "loop")
AwaitOf(n)   == [Method("await", <<>>, "forever", TRUE, "none") EXCEPT !.of = n]

Homes == m1 :> E @@ m2 :> E @@ r1 :> R @@ r2 :> R
Scenario(p1, p2, p3, p4) ==
  [home |-> Homes, prog |-> m1 :> p1 @@ m2 :> p2 @@ r1 :> p3 @@ r2 :> p4]

\* Two managers of one environment worker send to all their slots, the first
\* one twice; the puller of a rollout worker takes what comes.
Slots == Scenario(
  <<PutMany(<<a, b>>), PutMany(<<a, b>>)>>,
  <<PutMany(<<c, d>>)>>,
  [i \in 1 .. 6 |-> Pull(<<a, b, c, d>>)], <<>>)

\* Two managers without slots.  The answer to the first comes after the next
\* observation of the second, which needs its own answer first.
Managers == Scenario(
  <<PutAsync(a), Poll(c)>>,
  <<PutAsync(b), Poll(d), PutAsync(b)>>,
  <<Pull(<<a, b>>), Pull(<<a, b>>), PutSync(d), Pull(<<b>>), PutSync(c)>>, <<>>)

\* One manager collects the actions of its slots beside another one that
\* waits for an acknowledgement; two threads of the rollout worker send.
Collect == Scenario(
  <<Gather(<<a, b>>)>>,
  <<Poll(c), Gather(<<d>>)>>,
  <<PutAsync(b), PutSync(c)>>, <<PutSync(a), PutAsync(d)>>)

\* Asynchronous gets of two tasks of an event loop.
Tasks == Scenario(
  <<GetAsync(a), GetAsync(b), AwaitOf(2), AwaitOf(1)>>,
  <<GetAsync(c), AwaitOf(1)>>,
  <<PutSync(b), PutSync(a)>>, <<PutSync(c)>>)

AllScenarios == {Slots, Managers, Collect, Tasks}
=============================================================================
