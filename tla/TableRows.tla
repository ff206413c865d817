------------------------------ MODULE TableRows ------------------------------
(***************************************************************************)
(* Rows, records and WHERE / SET clauses of one table, as far as the       *)
(* statements of src/storage.c tell them apart.  A table has the column    *)
(* "id" and one more column "val".  The text of an INT id cell is the      *)
(* number parse_long_value reads from it.                                  *)
(***************************************************************************)
EXTENDS Positions, SequencesExt

CONSTANTS
    Ids,        \* id literals that statements use
    Vals,       \* values of the other column
    MaxInt,     \* INT_MAX, scaled down
    Torn        \* a line of the file that does not parse

ASSUME IdsAssumption == Ids \subseteq Int
ASSUME MaxIntAssumption == MaxInt \in Nat

Row == [id : Int, val : Vals]

ASSUME TornAssumption == Torn \notin Row

Record == Row \cup {Torn}

\* parse_id_key_text: the long must fit an int.
IsIntKey(i) == -MaxInt - 1 <= i /\ i <= MaxInt

(***************************************************************************)
(* Clauses.  One comparison stands for any WHERE tree; a clause on a       *)
(* column the schema does not have is what validate_delete_clause rejects. *)
(***************************************************************************)
All == [col |-> "", to |-> 0]
Unknown == [col |-> "?", to |-> 0]
ById == [col : {"id"}, to : Ids]
ByVal == [col : {"val"}, to : Vals]

Where == {All, Unknown} \cup ById \cup ByVal
SetClause == ById \cup ByVal

(***************************************************************************)
(* What a statement tells its caller: which statement succeeded and, for a *)
(* SELECT, with which WHERE and rows; or that it failed.                   *)
(***************************************************************************)
Done(st) == [st |-> st, where |-> All, rows |-> <<>>]
Answer(w, rows) == [st |-> "SELECT", where |-> w, rows |-> rows]
Error == Done("failed")

\* row_matches_delete, row_matches_select
Matches(w, r) ==
    CASE w.col = ""    -> TRUE
      [] w.col = "id"  -> r.id = w.to
      [] w.col = "val" -> r.val = w.to
      [] OTHER         -> FALSE

\* apply_update_to_row
Assign(c, r) == IF c.col = "id" THEN [r EXCEPT !.id = c.to] ELSE [r EXCEPT !.val = c.to]

MatchPositions(w, rows) == {p \in DOMAIN rows : Matches(w, rows[p])}

Selected(w, rows) == AtPositions(rows, MatchPositions(w, rows))
Kept(w, rows) == AtPositions(rows, DOMAIN rows \ MatchPositions(w, rows))
Updated(w, c, rows) ==
    [i \in DOMAIN rows |-> IF Matches(w, rows[i]) THEN Assign(c, rows[i]) ELSE rows[i]]

\* load_table_rows reads it to the end.
Readable(records) == \A i \in DOMAIN records : records[i] # Torn

IdsOf(rows) == {rows[i].id : i \in DOMAIN rows}

(***************************************************************************)
(* A record of which only a part was written, at the end of the file.  Cut *)
(* before the comma it does not parse: Torn.  Cut later it still does,     *)
(* with a shorter value; any value may be a prefix of another.             *)
(***************************************************************************)
Shortened(r) == {[r EXCEPT !.val = v] : v \in Vals}

\* What the line `last', which has no newline, becomes when the record or the
\* part r is written behind it.  Two cells too many do not parse; a number cut
\* in two runs into the next one.
Merged(last, r) ==
    {Torn} \cup
    CASE last = Torn /\ r # Torn -> {[r EXCEPT !.id = i] : i \in Ids}
      [] last # Torn /\ r = Torn -> Shortened(last)
      [] OTHER                   -> {}

\* The files that may result when `new' is appended.
Joined(file, cut, new) ==
    IF cut /\ new # <<>>
    THEN {Front(file) \o <<m>> \o Tail(new) : m \in Merged(Last(file), new[1])}
    ELSE {file \o new}
=============================================================================
