------------------------------ MODULE Picking ------------------------------
(***************************************************************************)
(* What the vectors that are filled in a loop have in them.                *)
(***************************************************************************)
EXTENDS Integers, Sequences, SequencesExt

\* The elements of s that are in S, in their order.
Those(S, s) == FlattenSeq([k \in DOMAIN s |-> IF s[k] \in S THEN <<s[k]>> ELSE <<>>])
=============================================================================
