------------------------- MODULE MCCollectiveGroup -------------------------
(***************************************************************************)
(* Small scenarios for CollectiveGroup: every kind of object between       *)
(* workers on different devices, on the same one, and on several.          *)
(***************************************************************************)
EXTENDS CollectiveGroup, TLC

CONSTANTS d1, d2

Obj(type, place, parts) == [type |-> type, place |-> place, parts |-> parts]
Part(id, on) == [id |-> id, on |-> on]
Send(obj, raw, async) == [do |-> "send", raw |-> raw, async |-> async, obj |-> obj]
Recv(on, raw, async) == [do |-> "recv", raw |-> raw, async |-> async, on |-> on]

Cpu(id)   == Obj("tensor", "cpu", <<Part(id, "cpu")>>)
Gpu(id, d) == Obj("tensor", "accel", <<Part(id, d)>>)
Plain(id)   == Obj("object", "cpu", <<Part(id, "cpu")>>)
Mixed(t)  == Obj(t, "accel", <<Part(11, d2), Part(12, d1), Part(13, d2)>>)
Nothing   == Obj("tensor_list", "accel", <<>>)
CpuDict   == Obj("tensor_dict", "cpu", <<Part(21, "cpu"), Part(22, "cpu")>>)

Pair(n0, n1, s0, s1, p0, p1) ==
  [node |-> 0 :> n0 @@ 1 :> n1, devices |-> 0 :> s0 @@ 1 :> s1, prog |-> 0 :> p0 @@ 1 :> p1]

\* Both directions at once, asynchronous and synchronous calls in turn.
BothWays(d) == <<
  <<Send(Gpu(1, d), FALSE, TRUE), Recv(d, FALSE, TRUE), Send(Obj("tensor_dict", "accel", <<Part(2, d), Part(3, d)>>), FALSE, TRUE),
    Send(Plain(4), FALSE, FALSE), Recv(d, TRUE, FALSE)>>,
  <<Recv(d, FALSE, TRUE), Send(Nothing, FALSE, TRUE), Recv(d, FALSE, TRUE),
    Send(Gpu(5, d), TRUE, TRUE), Recv(d, FALSE, FALSE)>> >>

\* One direction, to a worker that may or may not be on the device.
OneWay == <<
  <<Send(Mixed("tensor_list"), FALSE, TRUE), Send(Gpu(1, d1), TRUE, TRUE),
    Send(Gpu(2, d2), TRUE, FALSE), Send(Nothing, FALSE, TRUE), Send(Mixed("tensor_dict"), FALSE, FALSE)>>,
  <<Recv(d1, FALSE, FALSE), Recv(d1, TRUE, TRUE), Recv(d1, TRUE, TRUE),
    Recv(d2, FALSE, FALSE), Recv(d2, FALSE, TRUE)>> >>

\* CPU tensors and objects, the second worker first.
CpuOnly == <<
  <<Recv("cpu", FALSE, TRUE), Recv("cpu", TRUE, TRUE), Send(CpuDict, FALSE, FALSE), Recv("cpu", FALSE, FALSE)>>,
  <<Send(Cpu(1), FALSE, TRUE), Recv("cpu", FALSE, TRUE), Send(Cpu(2), TRUE, FALSE), Send(Plain(3), FALSE, TRUE)>> >>

AllScenarios ==
  {Pair(0, 0, {d1}, {d2}, BothWays(d1)[1], BothWays(d1)[2]),
   Pair(0, 0, {d1}, {d1}, BothWays(d1)[1], BothWays(d1)[2]),
   Pair(0, 1, {d1, d2}, {d1, d2}, OneWay[1], OneWay[2]),
   Pair(0, 0, {d1, d2}, {d1, d2}, OneWay[1], OneWay[2]),
   Pair(0, 0, {d1, d2}, {d1}, CpuOnly[1], CpuOnly[2])}

=============================================================================
