------------------------------ MODULE CsvFile ------------------------------
(***************************************************************************)
(* The table file of src/storage.c, character by character: what           *)
(* write_csv_row writes, what read_csv_record and parse_csv_record make of *)
(* it, and what is left when the write of a row is cut short, with or      *)
(* without a later row behind it.                                          *)
(***************************************************************************)
EXTENDS Integers, Sequences, SequencesExt

CONSTANTS
    Values,     \* cells, as sequences of characters
    Width,      \* cells in a row
    MaxLines    \* bound: rows written, cut ones included

ASSUME ValuesAssumption == Values \subseteq Seq(STRING)
ASSUME WidthAssumption == Width \in Nat \ {0}
ASSUME MaxLinesAssumption == MaxLines \in Nat

VARIABLES
    file,       \* its characters
    rows,       \* the rows written whole, in order
    cutAt       \* how many of them came before one that was cut, or -1

vars == <<file, rows, cutAt>>

Comma == ","
Quote == "\""
LineEnds == {"\n", "\r"}

(***************************************************************************)
(* Writing                                                                 *)
(***************************************************************************)
\* (Mutants: a carriage return needs none; a quote is written once.)
QuotedForNewline == {Comma, Quote, "\n"}
NeedQuotes == {Comma, Quote} \cup LineEnds

EscapedOnce(value) == value
Escaped(value) ==
    FlattenSeq([n \in DOMAIN value |-> IF value[n] = Quote THEN <<Quote, Quote>> ELSE <<value[n]>>])

\* write_csv_field
Field(value) ==
    IF ToSet(value) \cap NeedQuotes = {} THEN value
    ELSE <<Quote>> \o Escaped(value) \o <<Quote>>

\* write_csv_row
Line(row) ==
    FlattenSeq([n \in DOMAIN row |-> (IF n = 1 THEN <<>> ELSE <<Comma>>) \o Field(row[n])])
    \o <<"\n">>

(***************************************************************************)
(* Reading                                                                 *)
(***************************************************************************)
\* One turn of the loop of read_csv_record: the character at s.at is taken.
RecordTurn(text, s) ==
    IF s.at > Len(text) \/ (~s.quoted /\ text[s.at] \in LineEnds) THEN s
    ELSE IF text[s.at] # Quote THEN [s EXCEPT !.at = s.at + 1]
    ELSE IF s.quoted /\ s.at < Len(text) /\ text[s.at + 1] = Quote THEN [s EXCEPT !.at = s.at + 2]
    ELSE [at |-> s.at + 1, quoted |-> ~s.quoted]

\* The place behind the record that starts at `start', 0 when the file ends
\* inside quotes.
RecordEnd(text, start) ==
    LET turn[n \in 0 .. Len(text)] ==
            IF n = 0 THEN [at |-> start, quoted |-> FALSE] ELSE RecordTurn(text, turn[n - 1])
        last == turn[Len(text)]
    IN  IF last.at > Len(text) /\ last.quoted THEN 0 ELSE last.at

\* Where the next record starts: \r\n is one line end.
AfterRecord(text, end) ==
    IF end < Len(text) /\ text[end] = "\r" /\ text[end + 1] = "\n" THEN end + 2 ELSE end + 1

\* One turn of the loop of parse_csv_record, until the record is done or malformed.
ParseTurn(record, s) ==
    LET ended     == s.at > Len(record)
        ch        == record[s.at]
        doubled   == s.at < Len(record) /\ record[s.at + 1] = Quote
        malformed == [s EXCEPT !.mode = "malformed"]
        entered(m) == [at |-> s.at + 1, mode |-> m, field |-> s.field, fields |-> s.fields]
        grown(n)  == [at |-> s.at + n, mode |-> s.mode,
                      field |-> Append(s.field, ch), fields |-> s.fields]
        pushed    == [at |-> s.at + 1, mode |-> IF ended THEN "done" ELSE "open",
                      field |-> <<>>, fields |-> Append(s.fields, s.field)]
    IN  CASE s.mode \in {"done", "malformed"} -> s
          [] s.mode = "quoted" ->
                IF ended THEN malformed
                ELSE IF ch # Quote THEN grown(1)
                ELSE IF doubled THEN grown(2)
                ELSE entered("closed")
          [] s.mode \in {"open", "closed"} ->
                IF ended \/ ch = Comma THEN pushed
                ELSE IF s.mode = "closed" THEN malformed
                ELSE IF ch # Quote THEN grown(1)
                ELSE IF s.field = <<>> THEN entered("quoted")
                ELSE malformed

ParseStart == [at |-> 1, mode |-> "open", field |-> <<>>, fields |-> <<>>]

Parsed(record) ==
    LET turn[n \in 0 .. Len(record) + 1] ==
            IF n = 0 THEN ParseStart ELSE ParseTurn(record, turn[n - 1])
    IN  turn[Len(record) + 1]

\* One turn of the loop of load_table_rows: a record.
LoadTurn(text, s) ==
    LET end    == RecordEnd(text, s.at)
        parsed == Parsed(SubSeq(text, s.at, end - 1))
    IN  IF s.failed \/ s.at > Len(text) THEN s
        ELSE IF end = 0 \/ parsed.mode # "done" \/ Len(parsed.fields) # Width
        THEN [s EXCEPT !.failed = TRUE]
        ELSE [at |-> AfterRecord(text, end), rows |-> Append(s.rows, parsed.fields), failed |-> FALSE]

LoadStart == [at |-> 1, rows |-> <<>>, failed |-> FALSE]

Load(text) ==
    LET turn[n \in 0 .. Len(text)] ==
            IF n = 0 THEN LoadStart ELSE LoadTurn(text, turn[n - 1])
    IN  turn[Len(text)]

(***************************************************************************)
(* Rows are appended, whatever the last line looks like.                   *)
(***************************************************************************)
Row == [1 .. Width -> Values]

Lines == Len(rows) + (IF cutAt = -1 THEN 0 ELSE 1)

Init == file = <<>> /\ rows = <<>> /\ cutAt = -1

WriteRow ==
    /\ Lines < MaxLines
    /\ \E row \in Row :
         /\ file' = file \o Line(row)
         /\ rows' = Append(rows, row)
    /\ UNCHANGED cutAt

\* A kill or a full disk: only a part of the line reaches the file.
CutRow ==
    /\ Lines < MaxLines /\ cutAt = -1
    /\ \E row \in Row : \E n \in 1 .. Len(Line(row)) - 1 :
         file' = file \o SubSeq(Line(row), 1, n)
    /\ cutAt' = Len(rows)
    /\ UNCHANGED rows

Next == WriteRow \/ CutRow

Spec == Init /\ [][Next]_vars
-----------------------------------------------------------------------------
\* The rows written whole before any cut.
Before == IF cutAt = -1 THEN rows ELSE SubSeq(rows, 1, cutAt)

Readable == ~Load(file).failed
Loaded == Load(file).rows

(***************************************************************************)
(* load_table_rows reads back what write_csv_row wrote, for values of any  *)
(* characters.                                                             *)
(***************************************************************************)
WhatIsWrittenIsRead == cutAt = -1 => Readable /\ Loaded = rows

(***************************************************************************)
(* A cut is confined to the line it cut and those joined to it, if         *)
(* load_table_rows reads the file at all (a cut inside quotes makes it     *)
(* refuse the whole file): whatever is written behind, the rows before the *)
(* cut are read as they were, and no line is read as two.  With nothing    *)
(* behind it the cut line is read as a row like the one that was written   *)
(* but for a shorter last cell: this is what TableRows takes a cut record  *)
(* to be.                                                                  *)
(***************************************************************************)
ShortenedRow(read) ==
    \E row \in Row :
        /\ \A n \in 1 .. Width - 1 : read[n] = row[n]
        /\ IsPrefix(read[Width], row[Width])

CutIsConfined ==
    Readable =>
        /\ IsPrefix(Before, Loaded)
        /\ Len(Loaded) <= Lines
        /\ cutAt = Len(rows) => Len(Loaded) = cutAt + 1 /\ ShortenedRow(Last(Loaded))
=============================================================================
