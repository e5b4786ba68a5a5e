--------------------------- MODULE MCBatchingEngine ---------------------------
(***************************************************************************)
(* A configuration of BatchingEngine: a slot of two samples beside slots   *)
(* of one, so that with MaxBatch = 3 a batch fills up exactly, with two    *)
(* requests or three, or past the target, or times out.                    *)
(***************************************************************************)
EXTENDS BatchingEngine

UnevenSize == [h \in Handlers |-> IF h = 1 THEN 2 ELSE 1]
=============================================================================
