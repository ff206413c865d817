--------------------------- MODULE StatementStream ---------------------------
(***************************************************************************)
(* run_statements of src/main.c (and its twin in sql_processor.c): one     *)
(* step per character of the file.  A statement that is cut off goes to    *)
(* process_stmt, which cuts it into tokens.                                *)
(***************************************************************************)
EXTENDS SqlText

CONSTANT Sources        \* the files considered

ASSUME SourcesAssumption == Sources \subseteq Seq(STRING)

NoQuote == "none"

VARIABLES
    src,        \* the file
    p,          \* the character looked at
    start,      \* where the current statement starts
    quote,      \* NoQuote, or the quote the loop is in
    processed   \* the statements handed to process_stmt

splitVars == <<src, p, start, quote, processed>>

SplitInit ==
    /\ src \in Sources
    /\ p = 1 /\ start = 1
    /\ quote = NoQuote
    /\ processed = <<>>

Running == p <= Len(src)
Advance == p' = p + 1 /\ UNCHANGED src

\* (Mutant: any quote ends a quoted text.)
ClosesAny(c) == c \in Quotes
Closes(c) == c = quote

InQuote ==
    /\ Running /\ quote # NoQuote
    /\ quote' = IF Closes(src[p]) THEN NoQuote ELSE quote
    /\ Advance /\ UNCHANGED <<start, processed>>

OpenQuote ==
    /\ Running /\ quote = NoQuote /\ src[p] \in Quotes
    /\ quote' = src[p]
    /\ Advance /\ UNCHANGED <<start, processed>>

EndStatement ==
    /\ Running /\ quote = NoQuote /\ src[p] = ";"
    /\ processed' = Append(processed, SubSeq(src, start, p - 1))
    /\ start' = p + 1
    /\ Advance /\ UNCHANGED quote

OtherCharacter ==
    /\ Running /\ quote = NoQuote /\ src[p] \notin Quotes \cup {";"}
    /\ Advance /\ UNCHANGED <<start, quote, processed>>

\* The rest of the file, unless it is blank.
FirstInk(q) == Min({k \in q .. Len(src) : src[k] \notin Blanks} \cup {Len(src) + 1})

EndFile ==
    /\ p = Len(src) + 1
    /\ processed' = IF FirstInk(start) > Len(src) THEN processed
                    ELSE Append(processed, SubSeq(src, FirstInk(start), Len(src)))
    /\ p' = p + 1
    /\ UNCHANGED <<src, start, quote>>

AtEnd == p = Len(src) + 2

Exit == AtEnd /\ UNCHANGED splitVars

SplitNext == InQuote \/ OpenQuote \/ EndStatement \/ OtherCharacter \/ EndFile \/ Exit

SplitSpec == SplitInit /\ [][SplitNext]_splitVars
=============================================================================
