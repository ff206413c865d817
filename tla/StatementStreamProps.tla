------------------------ MODULE StatementStreamProps ------------------------
(***************************************************************************)
(* The splitter knows quotes, the tokenizer quotes and comments: what the  *)
(* two make of one file together.                                          *)
(***************************************************************************)
EXTENDS StatementStream, SequencesExt

\* The tokens of the statements, each but an open last one with its semicolon.
TokensOfStatements ==
    LET ended == Len(processed) - (IF FirstInk(start) > Len(src) THEN 0 ELSE 1)
    IN  FlattenSeq([k \in DOMAIN processed |->
          Tokens(processed[k]) \o IF k <= ended THEN << <<";">> >> ELSE <<>>])

(***************************************************************************)
(* Cut first and tokenized then, or tokenized at once: the file is the     *)
(* same tokens, if no comment holds a semicolon or a quote (the splitter   *)
(* takes both for its own).  A quoted text is never cut, nothing is lost   *)
(* and no statement is run twice.                                          *)
(***************************************************************************)
HarmlessComments ==
    \A c \in Comments(src) : ToSet(c) \cap (Quotes \cup {";"}) = {}

SplitsBetweenTokens ==
    AtEnd /\ HarmlessComments => TokensOfStatements = Tokens(src)
=============================================================================
