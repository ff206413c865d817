---------------------------- MODULE RowQueryProps ----------------------------
(***************************************************************************)
(* What a WHERE, an ORDER BY, a LIMIT and an aggregate mean, and that the  *)
(* loops of RowQuery compute it.                                           *)
(***************************************************************************)
EXTENDS RowQuery, Positions

(***************************************************************************)
(* The reading of an AND/OR chain in storage.c and its tests: AND binds    *)
(* tighter.  A group is a run of clauses joined by AND that no AND         *)
(* extends.  (The plan had another reading: AnswersAsPlanned, below.)      *)
(***************************************************************************)
Starts(q, a) == a = 1 \/ q.links[a - 1] = "OR"
Ends(q, b) == b = Len(q.where) \/ q.links[b] = "OR"
Joined(q, a, b) == \A k \in a .. b - 1 : q.links[k] = "AND"

Accepts(q, r) ==
    \/ q.where = <<>>
    \/ \E a, b \in DOMAIN q.where :
         /\ a <= b /\ Starts(q, a) /\ Ends(q, b) /\ Joined(q, a, b)
         /\ \A k \in a .. b : ClauseHolds(r, q.where[k])

\* The rows the WHERE accepts among the first n, in the order of the table.
Accepted(n) == AtPositions(rows, {m \in 1 .. n : Accepts(query, rows[m])})
Matching == Accepted(Len(rows))

Comparable(column) == \A n \in DOMAIN rows : Parses(Types[column], rows[n][column])

Ordered == Sorts /\ Comparable(query.orderBy)

\* The row `a' must not stand before `b'.
Misplaced(a, b) ==
    LET d == Difference(Types[query.orderBy], a[query.orderBy], b[query.orderBy])
    IN  IF query.asc THEN d > 0 ELSE d < 0

SameRows(s, t) ==
    /\ Len(s) = Len(t)
    /\ \A r \in ToSet(s) \cup ToSet(t) :
         Cardinality({n \in DOMAIN s : s[n] = r}) = Cardinality({n \in DOMAIN t : t[n] = r})

(***************************************************************************)
(* The variables hold what their C types allow.                            *)
(***************************************************************************)
TypeOK ==
    /\ stage \in {"check", "where", "sort", "package", "scan", "done", "failed"}
    /\ row \in 1 .. Len(rows) + 1
    /\ clause \in 0 .. Len(query.where)
    /\ group \in BOOLEAN /\ matched \in BOOLEAN
    /\ selection \in Seq(Row) /\ Len(selection) <= Len(rows)
    /\ i \in 1 .. Len(selection) + 1 /\ j \in i + 1 .. Len(selection) + 2
    /\ next \in 2 .. Len(selection) + 2 /\ best \in 1 .. Len(selection) + 1

(***************************************************************************)
(* While the rows are walked, the loop variables of row_matches_delete     *)
(* mean: the open group holds so far, and a closed one held.  At the end   *)
(* of the chain their disjunction is the reading in which AND binds        *)
(* tighter (test_storage_delete.c:596-619), not the one from left to right *)
(* of agent.md:159.                                                        *)
(***************************************************************************)
ChainMeansReading ==
    stage = "where" /\ clause # 0 =>
        /\ group = \E a \in 1 .. clause :
                     /\ Starts(query, a) /\ Joined(query, a, clause)
                     /\ \A k \in a .. clause : ClauseHolds(rows[row], query.where[k])
        /\ clause = Len(query.where) =>
             ((matched \/ group) = Accepts(query, rows[row]))

(***************************************************************************)
(* A LIKE accepts a cell if and only if the cell can be cut into pieces of *)
(* the kinds the pattern names: the greedy skip and the backtracking of    *)
(* like_match find a cut whenever there is one, and none otherwise.        *)
(***************************************************************************)
LikeIsCutting ==
    stage = "where" /\ row \in DOMAIN rows =>
        \A k \in DOMAIN query.where :
          LET c == query.where[k]
          IN  c.op = "LIKE" =>
                (ClauseHolds(rows[row], c) <=> Reads(rows[row][c.column], c.value))

(***************************************************************************)
(* The rows a DELETE removes, and those a SELECT goes on with, are exactly *)
(* the rows the WHERE accepts, in the order of the table.                  *)
(***************************************************************************)
SelectionIsMatching ==
    /\ stage = "where" => selection = Accepted(row - 1)
    /\ stage = "done" /\ query.kind = "DELETE" => selection = Matching

(***************************************************************************)
(* collect_matching_rows is all or nothing: a statement that gets past the *)
(* rows evaluated every clause on every row, so not one of them had a cell *)
(* or a literal that does not parse, not even where AND or OR had decided. *)
(***************************************************************************)
AllOrNothing ==
    stage \in {"sort", "package", "scan"} \/ (stage = "done" /\ query.kind = "DELETE") =>
        \A n \in DOMAIN rows, k \in DOMAIN query.where :
            ~ClauseFails(rows[n], query.where[k])

(***************************************************************************)
(* sort_selection only moves rows: none is lost or doubled, at any point   *)
(* of the sort, comparable cells or not.                                   *)
(***************************************************************************)
SortKeepsRows ==
    stage \in {"sort", "package", "scan"} \/ (stage = "done" /\ query.kind = "SELECT") =>
        SameRows(selection, Matching)

(***************************************************************************)
(* While it sorts, the places before i are final: nothing behind them      *)
(* belongs before them; and no row between i and j belongs before i.       *)
(***************************************************************************)
PrefixIsFinal ==
    stage = "sort" /\ Ordered =>
        /\ \A a \in 1 .. i - 1, b \in DOMAIN selection :
             a < b => ~Misplaced(selection[a], selection[b])
        /\ i \in DOMAIN selection =>
             \A b \in i + 1 .. j - 1 : ~Misplaced(selection[i], selection[b])

(***************************************************************************)
(* After the sort the rows are in the order asked for, whenever all cells  *)
(* of the column parse.  (With cells that do not, compare_rows_for_order   *)
(* mixes two orders and is not transitive; nothing is claimed then.)       *)
(***************************************************************************)
SortedWhenComparable ==
    stage \in {"package", "scan", "done"} /\ query.kind = "SELECT" /\ Ordered =>
        \A a, b \in DOMAIN selection : a < b => ~Misplaced(selection[a], selection[b])

(***************************************************************************)
(* LIMIT keeps as many rows as it says, or all the WHERE accepts, and      *)
(* leaves out none that belongs before one it keeps.                       *)
(***************************************************************************)
LimitKeepsFirst ==
    stage = "done" /\ query.kind = "SELECT" /\ IsSelectAll(query) =>
        LET n == Len(Matching)
        IN  /\ Len(result) = IF query.limit \in 0 .. n THEN query.limit ELSE n
            /\ Ordered =>
                 \A a \in DOMAIN result, b \in Len(result) + 1 .. n :
                     ~Misplaced(result[a], selection[b])

(***************************************************************************)
(* An aggregate is over all rows the WHERE accepts, whatever ORDER BY and  *)
(* LIMIT say: COUNT counts them, MIN and MAX are cells of theirs that none *)
(* of theirs beats (when they are comparable), and SUM and AVG are what    *)
(* adding up their cells in the order of the table gives.  This is what    *)
(* storage.c does; agent.md:122 has them over the rows that LIMIT leaves.  *)
(***************************************************************************)
AggregatesOverMatching ==
    stage = "done" /\ query.kind = "SELECT" /\ IsAggregate(query) =>
        LET fn     == query.items[1].fn
            arg    == query.items[1].arg
            value  == result[1]
            Of(n)  == Matching[n]
        IN  /\ fn = "COUNT" => value = <<Len(Matching)>>
            /\ fn = "SUM" => value = <<Total(arg, Matching)>>
            /\ fn = "AVG" => value = IF Matching = <<>> THEN <<0>>
                                     ELSE <<Total(arg, Matching), Len(Matching)>>
            /\ fn \in {"MIN", "MAX"} /\ Comparable(arg) =>
                 /\ Matching = <<>> <=> value = <<>>
                 /\ \A n \in DOMAIN Matching :
                      \E m \in DOMAIN Matching :
                        /\ Of(m)[arg] = value[1]
                        /\ LET d == Difference(Types[arg], Of(n)[arg], Of(m)[arg])
                           IN  IF fn = "MAX" THEN d <= 0 ELSE d >= 0

(***************************************************************************)
(* What agent.md plans.  A chain that mixes AND and OR is evaluated from   *)
(* left to right, without grouping (agent.md:159); an aggregate is over    *)
(* the rows that passed WHERE, ORDER BY and LIMIT (agent.md:122).          *)
(* storage.c does neither.                                                 *)
(***************************************************************************)
AcceptsFromLeft(q, r) ==
    LET holds[k \in DOMAIN q.where] ==
          LET clauseHolds == ClauseHolds(r, q.where[k])
          IN  CASE k = 1 -> clauseHolds
                [] k > 1 /\ q.links[k - 1] = "AND" -> holds[k - 1] /\ clauseHolds
                [] OTHER -> holds[k - 1] \/ clauseHolds
    IN  q.where = <<>> \/ holds[Len(q.where)]

SelectsFromLeft ==
    stage = "done" =>
        SameRows(selection, AtPositions(rows, {n \in DOMAIN rows : AcceptsFromLeft(query, rows[n])}))

CountsWithinLimit ==
    stage = "done" /\ query.kind = "SELECT" /\ IsAggregate(query) /\ query.items[1].fn = "COUNT" =>
        LET n == Len(selection)
        IN  result[1] = <<IF query.limit \in 0 .. n THEN query.limit ELSE n>>

AnswersAsPlanned == SelectsFromLeft /\ CountsWithinLimit
=============================================================================
