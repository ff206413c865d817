----------------------------- MODULE Positions -----------------------------
(***************************************************************************)
(* Copying the records of a table that a loop keeps, in their order.       *)
(***************************************************************************)
EXTENDS Integers, Sequences, FiniteSets

\* The elements of `seq' at the positions `ps', in order.
AtPositions(seq, ps) ==
    LET nth(i) == CHOOSE p \in ps : Cardinality({q \in ps : q <= p}) = i
    IN  [i \in 1 .. Cardinality(ps) |-> seq[nth(i)]]
=============================================================================
