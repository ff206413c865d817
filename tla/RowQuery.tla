------------------------------ MODULE RowQuery ------------------------------
(***************************************************************************)
(* How src/storage.c answers one SELECT, or picks the rows of one DELETE,  *)
(* once the rows of the table are in memory: check the clauses, walk the   *)
(* rows and for each row the AND/OR chain, sort, cut at LIMIT, project or  *)
(* aggregate.  One step per clause evaluated and per pair compared.        *)
(*                                                                         *)
(* A cell is a text, the sequence of its characters.  What the code can    *)
(* tell of it is the number each type reads from it, if it does, its place *)
(* in the order of strcmp, and the LIKE patterns it matches.               *)
(***************************************************************************)
EXTENDS Integers, Sequences, SequencesExt, LikeMatch

CONSTANTS
    Types,      \* the schema: column -> type
    Cells,      \* texts of cells and literals
    Numbers,    \* numeric type -> text it parses -> number (scaled)
    Rank,       \* text -> its place in the order of strcmp
    Calls       \* the calls considered: a row buffer and a statement

Columns == DOMAIN Types
Numeric == {"INT", "FLOAT", "BOOLEAN"}
Row == [Columns -> Cells]
Ordering == {"=", "!=", ">", "<", ">=", "<="}

ASSUME CellsAssumption == Cells \subseteq Seq(STRING)
ASSUME NumbersAssumption ==
    \A t \in Numeric : DOMAIN Numbers[t] \subseteq Cells /\ \A c \in DOMAIN Numbers[t] :
                                                              Numbers[t][c] \in Int
ASSUME RankAssumption == Rank \in [Cells -> Int]
ASSUME TablesAssumption == \A c \in Calls : c.rows \in Seq(Row)

Clause == [column : STRING, op : STRING, value : Cells, quoted : BOOLEAN]

Queries == {c.query : c \in Calls}

ASSUME QueriesAssumption ==
    \A q \in Queries :
        /\ q.kind \in {"SELECT", "DELETE"}
        /\ q.where \in Seq(Clause)
        /\ q.links \in Seq({"AND", "OR"})
        /\ q.where # <<>> => Len(q.links) = Len(q.where) - 1
        /\ q.asc \in BOOLEAN
        /\ q.limit \in Int

VARIABLES
    stage,      \* check, where, sort, package, scan, done or failed
    rows,       \* the rows of the table
    query,      \* the parsed statement
    row,        \* row_index
    clause,     \* the last clause evaluated on that row, 0 before the first
    group,      \* group_match
    matched,    \* *out_match
    selection,  \* the rows selected so far
    i, j,       \* row_index and next_index of the sort
    next, best, \* the scan for MIN or MAX: the row to come, the row of the best cell
    result      \* the RowSet handed out

vars == <<stage, rows, query, row, clause, group, matched, selection, i, j, next, best, result>>
inputs == <<rows, query>>
chain == <<row, clause, group, matched>>
pair == <<i, j>>
scan == <<next, best>>
loops == <<i, j, next, best>>

\* Does a text parse as the type?  Every text does as one that is no number.
Parses(type, text) == type \in Numeric => text \in DOMAIN Numbers[type]

\* The sign of this is what the comparisons compute.
Difference(type, a, b) ==
    IF type \in Numeric THEN Numbers[type][a] - Numbers[type][b]
                        ELSE Rank[a] - Rank[b]

\* is_supported_operator and is_supported_operator_for_type.
Supported(type) ==
    CASE type = "DATETIME" -> {"=", "!="}
      [] type = "VARCHAR"  -> Ordering \cup {"LIKE"}
      [] OTHER             -> Ordering

Compare(d, op) ==
    \/ op = "="  /\ d = 0
    \/ op = "!=" /\ d # 0
    \/ op = ">"  /\ d > 0
    \/ op = "<"  /\ d < 0
    \/ op = ">=" /\ d >= 0
    \/ op = "<=" /\ d <= 0

\* What validate_delete_clause refuses.  It looks at the literal as it was
\* written, where the evaluation strips a pair of quotes first.
Refused(c) ==
    \/ c.column \notin Columns
    \/ c.op \notin Supported(Types[c.column])
    \/ ~Parses(Types[c.column], c.value)
    \/ c.quoted /\ Types[c.column] \in Numeric

\* evaluate_select_clause returns -1.  (Mutant: not looked at where it cannot
\* change the outcome.)
ClauseFailsIfNeeded(r, c) ==
    /\ clause = 0 \/ group \/ query.links[clause] = "OR"
    /\ \/ c.column \notin Columns
       \/ c.op \notin Supported(Types[c.column])
       \/ ~Parses(Types[c.column], c.value)
       \/ ~Parses(Types[c.column], r[c.column])
ClauseFails(r, c) ==
    \/ c.column \notin Columns
    \/ c.op \notin Supported(Types[c.column])
    \/ ~Parses(Types[c.column], c.value)
    \/ ~Parses(Types[c.column], r[c.column])

\* compare_value_by_type.
ClauseHolds(r, c) ==
    IF c.op = "LIKE" THEN Matches(r[c.column], c.value)
    ELSE Compare(Difference(Types[c.column], r[c.column], c.value), c.op)

Init ==
    /\ stage = "check"
    /\ \E c \in Calls : query = c.query /\ rows = c.rows
    /\ row = 1 /\ clause = 0 /\ group = FALSE /\ matched = FALSE
    /\ selection = <<>>
    /\ i = 1 /\ j = 2
    /\ next = 2 /\ best = 1
    /\ result = <<>>

Fail ==
    /\ stage' = "failed"
    /\ UNCHANGED <<inputs, chain, selection, loops, result>>

(***************************************************************************)
(* Before the rows: a SELECT looks up the columns of its WHERE only.       *)
(***************************************************************************)
Rejected(q) ==
    \E k \in DOMAIN q.where :
        IF q.kind = "SELECT" THEN q.where[k].column \notin Columns
                             ELSE Refused(q.where[k])

Check ==
    /\ stage = "check"
    /\ IF Rejected(query) THEN Fail
       ELSE /\ stage' = "where"
            /\ UNCHANGED <<inputs, chain, selection, loops, result>>

(***************************************************************************)
(* row_matches_delete, also behind row_matches_select.                     *)
(***************************************************************************)
\* The row is through: `hit' says whether it is selected.
RowIs(hit) ==
    /\ selection' = IF hit THEN Append(selection, rows[row]) ELSE selection
    /\ row' = row + 1
    /\ clause' = 0
    /\ group' = FALSE
    /\ matched' = FALSE
    /\ UNCHANGED <<stage, inputs, loops, result>>

AnyRow ==
    /\ stage = "where" /\ row <= Len(rows) /\ query.where = <<>>
    /\ RowIs(TRUE)

FirstClause ==
    /\ stage = "where" /\ row <= Len(rows) /\ clause = 0 /\ query.where # <<>>
    /\ IF ClauseFails(rows[row], query.where[1]) THEN Fail
       ELSE /\ clause' = 1
            /\ group' = ClauseHolds(rows[row], query.where[1])
            /\ matched' = FALSE
            /\ UNCHANGED <<stage, inputs, row, selection, loops, result>>

\* An AND extends the group; an OR closes it and opens the next.
\* (Mutant: from left to right, without groups.)
LinkLeftToRight(link, holds) ==
    /\ group' = IF link = "AND" THEN group /\ holds ELSE group \/ holds
    /\ matched' = matched
Link(link, holds) ==
    /\ group' = IF link = "AND" THEN group /\ holds ELSE holds
    /\ matched' = IF link = "AND" THEN matched ELSE matched \/ group

NextClause ==
    /\ stage = "where" /\ clause # 0 /\ clause < Len(query.where)
    /\ IF ClauseFails(rows[row], query.where[clause + 1]) THEN Fail
       ELSE /\ clause' = clause + 1
            /\ Link(query.links[clause],
                    ClauseHolds(rows[row], query.where[clause + 1]))
            /\ UNCHANGED <<stage, inputs, row, selection, loops, result>>

LastClause ==
    /\ stage = "where" /\ clause # 0 /\ clause = Len(query.where)
    /\ RowIs(matched \/ group)

\* The rows of a DELETE are known; a SELECT goes on.
EndRows ==
    /\ stage = "where" /\ row > Len(rows)
    /\ stage' = IF query.kind = "DELETE" THEN "done" ELSE "sort"
    /\ UNCHANGED <<inputs, chain, selection, loops, result>>

(***************************************************************************)
(* sort_selection: exchange sort.                                          *)
(***************************************************************************)
\* compare_rows_for_order: by strcmp when one of the cells does not parse.
RowDifference(column, a, b) ==
    LET t == Types[column]
    IN  IF Parses(t, a[column]) /\ Parses(t, b[column])
        THEN Difference(t, a[column], b[column])
        ELSE Rank[a[column]] - Rank[b[column]]

\* (Mutant: the direction is forgotten.)
OutOfOrderUpwards(a, b) == RowDifference(query.orderBy, a, b) > 0
OutOfOrder(a, b) ==
    IF query.asc THEN RowDifference(query.orderBy, a, b) > 0
                 ELSE RowDifference(query.orderBy, a, b) < 0

Sorts == query.orderBy \in Columns \ {""}

NoSort ==
    /\ stage = "sort" /\ query.orderBy = ""
    /\ stage' = "package"
    /\ UNCHANGED <<inputs, chain, selection, loops, result>>

SortRejected ==
    /\ stage = "sort" /\ query.orderBy \notin Columns \cup {""}
    /\ Fail

\* (Mutant: copies instead of exchanging.)
ExchangeOneWay(s, a, b) == [s EXCEPT ![a] = s[b]]
Exchange(s, a, b) == [s EXCEPT ![a] = s[b], ![b] = s[a]]

ComparePair ==
    /\ stage = "sort" /\ Sorts
    /\ j <= Len(selection)
    /\ selection' = IF OutOfOrder(selection[i], selection[j])
                    THEN Exchange(selection, i, j) ELSE selection
    /\ j' = j + 1
    /\ UNCHANGED <<stage, inputs, chain, i, scan, result>>

NextPlace ==
    /\ stage = "sort" /\ Sorts
    /\ j > Len(selection) /\ i <= Len(selection)
    /\ i' = i + 1
    /\ j' = i + 2
    /\ UNCHANGED <<stage, inputs, chain, selection, scan, result>>

EndSort ==
    /\ stage = "sort" /\ Sorts
    /\ i > Len(selection)
    /\ stage' = "package"
    /\ UNCHANGED <<inputs, chain, selection, loops, result>>

(***************************************************************************)
(* The RowSet.  A selected item is [fn, arg]; parse_aggregate_call leaves  *)
(* fn empty for a plain column.  Only a lone aggregate is one.             *)
(***************************************************************************)
IsAggregate(q) == Len(q.items) = 1 /\ q.items[1].fn # ""
IsSelectAll(q) == q.items = <<>> \/ q.items = << [fn |-> "", arg |-> "*"] >>

\* (Mutant: LIMIT 0 is taken for no LIMIT.)
TakenUnlessZero(q) ==
    IF q.limit <= 0 \/ q.limit > Len(selection) THEN Len(selection) ELSE q.limit
Taken(q) ==
    IF q.limit < 0 \/ q.limit > Len(selection) THEN Len(selection) ELSE q.limit

PackageRejected ==
    /\ stage = "package" /\ ~IsAggregate(query) /\ ~IsSelectAll(query)
    /\ \E k \in DOMAIN query.items :
         query.items[k].fn # "" \/ query.items[k].arg \notin Columns
    /\ Fail

PackageRows ==
    /\ stage = "package" /\ ~IsAggregate(query)
    /\ IsSelectAll(query)
         \/ \A k \in DOMAIN query.items :
               query.items[k].fn = "" /\ query.items[k].arg \in Columns
    /\ result' = [n \in 1 .. Taken(query) |->
                    IF IsSelectAll(query) THEN selection[n]
                    ELSE [k \in DOMAIN query.items |-> selection[n][query.items[k].arg]]]
    /\ stage' = "done"
    /\ UNCHANGED <<inputs, chain, selection, loops>>

\* build_rowset_for_aggregate: COUNT takes any argument that is a column or *.
AggregateFails(fn, arg) ==
    \/ arg # "*" /\ arg \notin Columns
    \/ arg = "*" /\ fn # "COUNT"
    \/ fn \in {"SUM", "AVG"} /\ Types[arg] \notin {"INT", "FLOAT"}
    \/ fn \in {"SUM", "AVG"} /\ \E n \in DOMAIN selection :
                                   ~Parses(Types[arg], selection[n][arg])

\* The loop of SUM and AVG over the rows of s.
Total(column, s) ==
    LET sum[n \in 0 .. Len(s)] ==
          IF n = 0 THEN 0 ELSE sum[n - 1] + Numbers[Types[column]][s[n][column]]
    IN  sum[Len(s)]

AggregateRejected ==
    /\ stage = "package" /\ IsAggregate(query)
    /\ AggregateFails(query.items[1].fn, query.items[1].arg)
    /\ Fail

\* The scan for MIN and MAX keeps the first of equals.  (Mutant: MAX keeps
\* whatever is larger as a text.)
BeatsAsText(fn, column, a, b) ==
    IF fn = "MAX" THEN Rank[a[column]] > Rank[b[column]]
                  ELSE Rank[a[column]] < Rank[b[column]]
Beats(fn, column, a, b) ==
    IF fn = "MAX" THEN RowDifference(column, a, b) > 0
                  ELSE RowDifference(column, a, b) < 0

Scans(fn) == fn \in {"MIN", "MAX"} /\ selection # <<>>

\* The only cell; an empty MIN or MAX is the empty text.
AggregateValue(fn, arg) ==
    CASE fn = "COUNT"          -> <<Len(selection)>>
      [] fn \in {"MIN", "MAX"} -> <<>>
      [] fn = "SUM"            -> <<Total(arg, selection)>>
      [] fn = "AVG"            -> IF selection = <<>> THEN <<0>>
                                  ELSE <<Total(arg, selection), Len(selection)>>

PackageAggregate ==
    /\ stage = "package" /\ IsAggregate(query)
    /\ ~AggregateFails(query.items[1].fn, query.items[1].arg)
    /\ ~Scans(query.items[1].fn)
    /\ result' = <<AggregateValue(query.items[1].fn, query.items[1].arg)>>
    /\ stage' = "done"
    /\ UNCHANGED <<inputs, chain, selection, loops>>

StartScan ==
    /\ stage = "package" /\ IsAggregate(query)
    /\ ~AggregateFails(query.items[1].fn, query.items[1].arg)
    /\ Scans(query.items[1].fn)
    /\ stage' = "scan"
    /\ best' = 1 /\ next' = 2
    /\ UNCHANGED <<inputs, chain, selection, pair, result>>

ScanRow ==
    /\ stage = "scan" /\ next <= Len(selection)
    /\ best' = IF Beats(query.items[1].fn, query.items[1].arg, selection[next], selection[best])
               THEN next ELSE best
    /\ next' = next + 1
    /\ UNCHANGED <<stage, inputs, chain, selection, pair, result>>

EndScan ==
    /\ stage = "scan" /\ next > Len(selection)
    /\ result' = << <<selection[best][query.items[1].arg]>> >>
    /\ stage' = "done"
    /\ UNCHANGED <<inputs, chain, selection, loops>>

Step ==
    \/ Check
    \/ AnyRow \/ FirstClause \/ NextClause \/ LastClause \/ EndRows
    \/ NoSort \/ SortRejected \/ ComparePair \/ NextPlace \/ EndSort
    \/ PackageRows \/ PackageRejected
    \/ PackageAggregate \/ AggregateRejected \/ StartScan \/ ScanRow \/ EndScan

\* The call has returned.
Returned ==
    /\ stage \in {"done", "failed"}
    /\ UNCHANGED vars

Next == Step \/ Returned

Spec == Init /\ [][Next]_vars
=============================================================================
