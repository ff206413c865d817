----------------------------- MODULE MCRowQuery -----------------------------
(***************************************************************************)
(* The instance of RowQuery for TLC.  Its texts are chosen so that the     *)
(* order of numbers and the order of strcmp differ, and one parses as no   *)
(* number: 9 < 10 as numbers, "10" < "5x" < "9" as texts.                  *)
(***************************************************************************)
EXTENDS RowQueryProps, TLC

CONSTANTS
    MaxText,        \* bounds of the texts and patterns of LIKE
    MaxPattern

UpTo(n, S) == UNION {[1 .. m -> S] : m \in 0 .. n}

Nine == <<"9">>
Ten == <<"1", "0">>
FiveX == <<"5", "x">>
True == <<"t", "r", "u", "e">>

Texts == UpTo(MaxText, {"a", "b"})
Patterns == UpTo(MaxPattern, {"a", "b", "%", "_"})

MCCells == {Nine, Ten, FiveX, True} \cup Texts \cup Patterns

Decimals == (Nine :> 9) @@ (Ten :> 10)
MCNumbers == [INT |-> Decimals, FLOAT |-> Decimals, BOOLEAN |-> (True :> 1)]

\* The texts of LIKE are never compared.
MCRank ==
    (Ten :> 1) @@ (FiveX :> 2) @@ (Nine :> 3) @@ (True :> 4) @@ [c \in MCCells |-> 0]

MCTypes == [age |-> "INT", name |-> "VARCHAR", seen |-> "DATETIME", flag |-> "BOOLEAN"]

MCRow(a, n, s) == [age |-> a, name |-> n, seen |-> s, flag |-> True]
Where(c, o, v) == [column |-> c, op |-> o, value |-> v, quoted |-> FALSE]

Query == [kind |-> "SELECT", where |-> <<>>, links |-> <<>>, orderBy |-> "",
          asc |-> TRUE, limit |-> -1, items |-> <<>>]

CallsOf(tables, queries) == [rows : tables, query : queries]

(***************************************************************************)
(* All AND/OR chains of up to three clauses over tables of up to two rows. *)
(***************************************************************************)
WhereRows == {MCRow(Nine, Nine, Ten), MCRow(Ten, FiveX, Nine), MCRow(FiveX, Nine, Nine)}

Clauses ==
    {Where("age", ">", Nine), Where("name", "LIKE", FiveX), Where("seen", "=", Ten),
     Where("flag", "<=", True), Where("seen", ">", Nine), Where("flag", "!=", Nine),
     Where("ghost", "=", Nine), [Where("age", "<=", Nine) EXCEPT !.quoted = TRUE]}

Chains(n) ==
    {[Query EXCEPT !.kind = k, !.where = w, !.links = l] :
       k \in {"SELECT", "DELETE"}, w \in [1 .. n -> Clauses],
       l \in [1 .. (IF n = 0 THEN 0 ELSE n - 1) -> {"AND", "OR"}]}

WhereCalls == CallsOf(UpTo(2, WhereRows), UNION {Chains(n) : n \in 0 .. 3})

(***************************************************************************)
(* Every sort, LIMIT and select list over tables of up to three rows, and  *)
(* of four rows for the sort.                                              *)
(***************************************************************************)
SortRows == {MCRow(a, Nine, Nine) : a \in {Nine, Ten, FiveX}}
OrderRows == {MCRow(a, n, Nine) : a \in {Nine, Ten, FiveX}, n \in {Nine, Ten}}

Item(f, a) == [fn |-> f, arg |-> a]
Items ==
    {<<>>, <<Item("", "*")>>, <<Item("", "name"), Item("", "age")>>,
     <<Item("", "ghost")>>, <<Item("", "age"), Item("COUNT", "*")>>}
    \cup {<<Item(f, "age")>> : f \in {"COUNT", "SUM", "AVG", "MIN", "MAX"}}
    \cup {<<Item("COUNT", "*")>>, <<Item("MAX", "*")>>, <<Item("SUM", "name")>>,
          <<Item("MIN", "name")>>, <<Item("MAX", "ghost")>>}

Sorted(columns, limits, items) ==
    {[Query EXCEPT !.orderBy = o, !.asc = a, !.limit = n, !.items = s] :
       o \in columns, a \in BOOLEAN, n \in limits, s \in items}

OrderCalls ==
    CallsOf(UpTo(4, SortRows), Sorted({"age"}, {-1, 2}, {<<>>}))
    \cup CallsOf(UpTo(3, OrderRows),
                 Sorted({"", "age", "name", "ghost"}, {-1, 0, 2}, {<<>>})
                 \cup Sorted({"", "age"}, {1}, Items))

(***************************************************************************)
(* LIKE: every text up to MaxText, against every pattern up to MaxPattern. *)
(***************************************************************************)
LikeCalls ==
    CallsOf({<<MCRow(Nine, t, Nine)>> : t \in Texts},
            {[Query EXCEPT !.where = <<Where("name", "LIKE", p)>>] : p \in Patterns})

MCCalls == WhereCalls \cup OrderCalls \cup LikeCalls

(***************************************************************************)
(* One call on which the code and the plan differ twice: a OR b AND c with *)
(* a true and b, c false, and a COUNT of two rows with a LIMIT of 1.       *)
(***************************************************************************)
PlannedCalls ==
    CallsOf({<<MCRow(Nine, Nine, Ten), MCRow(Nine, Nine, Ten)>>},
            {[Query EXCEPT !.where = <<Where("flag", "=", True), Where("age", "=", Ten),
                                       Where("seen", "=", Nine)>>,
                           !.links = <<"OR", "AND">>,
                           !.items = <<Item("COUNT", "*")>>, !.limit = 1]})
=============================================================================
