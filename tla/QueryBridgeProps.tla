-------------------------- MODULE QueryBridgeProps --------------------------
(***************************************************************************)
(* What the cards of the web page say about the statements.                *)
(***************************************************************************)
EXTENDS QueryBridge, Positions

Parsed == {n \in DOMAIN file : file[n].parses}

\* Every statement prints its card on one line and no other line reads as one.
Readable(n) == file[n].clean /\ \A k \in DOMAIN file[n].result : file[n].result[k] # "statement"

(***************************************************************************)
(* server.py: a line that reads as JSON is a statement, any other is of    *)
(* the statement before it.  If every line reads as what it is, the cards  *)
(* are the statements that parsed, in their order, each with its own       *)
(* result, line by line, and all of it but the blank lines.               *)
(***************************************************************************)
Shown(n) == {k \in DOMAIN file[n].result : file[n].result[k] # "blank"}

Card(n) == [of |-> n, result |-> AtPositions(ResultLines(n), Shown(n))]

AllReadable == \A n \in Parsed : Readable(n)

CardsAreStatements ==
    answer = "cards" /\ AllReadable =>
        statements = AtPositions([n \in DOMAIN file |-> Card(n)], Parsed)

(***************************************************************************)
(* Every request is answered, if only by the timeout.                      *)
(***************************************************************************)
EveryRequestIsAnswered == <>(answer # "none")
=============================================================================
