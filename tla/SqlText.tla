------------------------------- MODULE SqlText -------------------------------
(***************************************************************************)
(* tokenize of src/parser.c on a text, a sequence of one-character strings. *)
(* The quotes of a quoted text are gone from its token.                    *)
(***************************************************************************)
EXTENDS Integers, Sequences, FiniteSetsExt

\* Words that are not spelled out: each stands in a text as if it were a letter.
CONSTANT Words

Blanks == {" ", "\n"}
Quotes == {"'", "\""}
Singles == {",", "(", ")", ";", "*", "="}
Compares == {">", "<", "!"}
Letters == {"a", "b", "1", "2", ".", "-"} \cup Words

ASSUME WordsAssumption == Words \cap (Blanks \cup Quotes \cup Singles \cup Compares) = {}

\* The first position from p on that holds a character of S, or one behind.
FirstOf(text, p, S) == Min({q \in p .. Len(text) : text[q] \in S} \cup {Len(text) + 1})

At2(text, p, c) == p < Len(text) /\ text[p + 1] = c
IsComment(text, p) == text[p] = "-" /\ At2(text, p, "-")

\* Where the element that starts at p ends, and the tokens it makes.
EndOf(text, p) ==
    CASE IsComment(text, p) -> FirstOf(text, p, {"\n"})
      [] text[p] \in Quotes -> FirstOf(text, p + 1, {text[p]}) + 1
      [] text[p] \in Compares /\ At2(text, p, "=") -> p + 2
      [] text[p] \in Letters /\ ~IsComment(text, p) ->
           Min({q \in p .. Len(text) : text[q] \notin Letters} \cup {Len(text) + 1})
      [] OTHER -> p + 1

Made(text, p) ==
    CASE IsComment(text, p) -> <<>>
      [] text[p] \in Quotes ->
           << SubSeq(text, p + 1, FirstOf(text, p + 1, {text[p]}) - 1) >>
      [] text[p] \in Singles \cup Compares \cup Letters /\ ~IsComment(text, p) ->
           << SubSeq(text, p, EndOf(text, p) - 1) >>
      [] OTHER -> <<>>

Tokens(text) ==
    LET from[p \in 1 .. Len(text) + 2] ==
          IF p > Len(text) THEN <<>> ELSE Made(text, p) \o from[EndOf(text, p)]
    IN  from[1]

\* The comments: everything tokenize skips from -- to the end of the line.
Comments(text) ==
    LET from[p \in 1 .. Len(text) + 2] ==
          IF p > Len(text) THEN {}
          ELSE (IF IsComment(text, p) THEN {SubSeq(text, p, EndOf(text, p) - 1)} ELSE {})
               \cup from[EndOf(text, p)]
    IN  from[1]
=============================================================================
