--------------------------- MODULE MCActorTraining ---------------------------
(***************************************************************************)
(* Configurations of ActorTraining.                                        *)
(***************************************************************************)
EXTENDS ActorTraining

Conf(mode, sizes, n, t, m, p, g) ==
  [loop |-> mode, slots |-> Len(sizes), actors |-> n, batch |-> sizes,
   split |-> ComputeSplitNum(n, Len(sizes)), target |-> t, micro |-> m, passes |-> p, group |-> g]

\* Two slots, four actors: an actor gets half of one slot's batch as one
\* message an epoch, one sample or two.  Targets that do not divide a message,
\* so that slices straddle messages, passes and epochs; the grouped streaming
\* loop ends in an incomplete group.
SplitConfigs == {
  Conf("accumulate", <<4, 4>>, 4, 3, 2, 3, 1),
  Conf("stream", <<4, 4>>, 4, 3, 1, 1, 3),
  Conf("epoch", <<2, 2>>, 4, 2, 1, 2, 1)}

\* Four slots, two actors: an actor gets two messages an epoch, in any order.
\* An epoch is no multiple of the target, or the streaming loop ends in an
\* incomplete update.
SharedConfigs == {
  Conf("epoch", <<2, 2, 2, 2>>, 2, 3, 3, 2, 1),
  Conf("stream", <<3, 3, 3, 3>>, 2, 5, 2, 2, 1)}

AllConfigs == SplitConfigs \cup SharedConfigs

\* Samples that are no multiple of the target.
RemainderConfigs == {Conf("accumulate", <<2, 2>>, 2, 3, 1, 1, 1)}
=============================================================================
