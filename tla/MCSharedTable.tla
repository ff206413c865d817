---------------------------- MODULE MCSharedTable ----------------------------
(***************************************************************************)
(* Up to four requests on a table of two rows.                             *)
(***************************************************************************)
EXTENDS SharedTableProps

TwoStored == <<"s1", "s2">>

\* INSERTs beside a SELECT, INSERTs beside a DELETE that also matches one of
\* them, and two DELETEs with one temp file beside an INSERT and a SELECT.
MCMixes == {{"i1", "i2", "i3", "q1"}, {"i1", "i2", "d1"}, {"i2", "d1", "d2", "q1"}}

MCMatching == [d1 |-> {"s2", "i1"}, d2 |-> {"s1"}]

JustInserts == {{"i1", "i2", "i3"}}
=============================================================================
