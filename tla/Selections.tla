------------------------------ MODULE Selections ------------------------------
(* Parts of sequences. *)
EXTENDS Sequences, SequencesExt

\* The elements of a sequence that are in a set, in their order.
Those(seq, set) == FlattenSeq([i \in DOMAIN seq |-> IF seq[i] \in set THEN <<seq[i]>> ELSE <<>>])
=============================================================================
