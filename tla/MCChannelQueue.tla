---------------------------- MODULE MCChannelQueue ----------------------------
(***************************************************************************)
(* Small sets of calls for ChannelQueue.                                   *)
(***************************************************************************)
EXTENDS ChannelQueue, TLC

CONSTANTS a, b, p1, p2, p3, g1, g2, g3

Item(k, n, w) == [key |-> k, id |-> n, weight |-> w]

Puts(items, patience) ==
  [op |-> "put", items |-> items, keys |-> <<>>, target |-> 0, patience |-> patience]
Takes(op, keys, target, patience) ==
  [op |-> op, items |-> <<>>, keys |-> keys, target |-> target, patience |-> patience]

Program(maxSize, matched, call) == [maxSize |-> maxSize, matched |-> matched, call |-> call]

CallIds == {p1, p2, p3, g1, g2, g3}

\* Two put_many over both keys, as two managers send, and the consumers of
\* a puller (get_any) and of plain gets.
Many == Program(0, TRUE,
  p1 :> Puts(<<Item(a, 1, 0), Item(b, 2, 0)>>, "forever") @@
  p2 :> Puts(<<Item(b, 3, 0), Item(a, 4, 0)>>, "forever") @@
  p3 :> Puts(<<Item(b, 5, 0)>>, "none") @@
  g1 :> Takes("get", <<a>>, 0, "forever") @@
  g2 :> Takes("any", <<a, b>>, 0, "deadline") @@
  g3 :> Takes("get", <<b>>, 0, "forever"))

\* Producers against queues of one place; at most one item is not asked for.
Tight == Program(1, TRUE,
  p1 :> Puts(<<Item(a, 1, 0), Item(b, 2, 0)>>, "forever") @@
  p2 :> Puts(<<Item(a, 3, 0)>>, "forever") @@
  p3 :> Puts(<<Item(a, 4, 0)>>, "forever") @@
  g1 :> Takes("get", <<a>>, 0, "forever") @@
  g2 :> Takes("any", <<b, a>>, 0, "forever") @@
  g3 :> Takes("get", <<a>>, 0, "forever"))

\* As many gets as puts; the first key of the get_any never has an item.
Exact == Program(1, TRUE,
  p1 :> Puts(<<Item(a, 1, 0), Item(a, 2, 0)>>, "forever") @@
  p2 :> Puts(<<Item(a, 3, 0)>>, "forever") @@
  p3 :> Puts(<<Item(a, 4, 0)>>, "none") @@
  g1 :> Takes("get", <<a>>, 0, "forever") @@
  g2 :> Takes("any", <<b, a>>, 0, "forever") @@
  g3 :> Takes("get", <<a>>, 0, "forever"))

\* The same contention with calls that do not wait: a put may wait for ever.
Nowait == Program(1, FALSE,
  p1 :> Puts(<<Item(a, 1, 0)>>, "forever") @@
  p2 :> Puts(<<Item(a, 2, 0)>>, "none") @@
  p3 :> Puts(<<Item(a, 3, 0)>>, "forever") @@
  g1 :> Takes("get", <<a>>, 0, "none") @@
  g2 :> Takes("any", <<b, a>>, 0, "none") @@
  g3 :> Takes("get", <<b>>, 0, "none"))

\* Batches of weight 3 beside other takers, on items that do not add up.
Batch == Program(0, FALSE,
  p1 :> Puts(<<Item(a, 1, 1), Item(a, 2, 1)>>, "forever") @@
  p2 :> Puts(<<Item(a, 3, 2)>>, "forever") @@
  p3 :> Puts(<<Item(a, 4, 3)>>, "forever") @@
  g1 :> Takes("batch", <<a>>, 3, "forever") @@
  g2 :> Takes("get", <<a>>, 0, "forever") @@
  g3 :> Takes("any", <<a>>, 0, "none"))

AllPrograms   == {Many, Tight, Exact, Nowait, Batch}
=============================================================================
