----------------------------- MODULE MCSqlParser -----------------------------
(***************************************************************************)
(* Instances of SqlParser and SqlRoundTrip: heads of statements followed   *)
(* by every short list of tokens that matter there, WHERE chains of up to  *)
(* four conditions cut off at every token, and complete statements with    *)
(* texts that were quoted: a date, a text with a blank, an empty text, a   *)
(* number, a comma, a keyword, and some that cannot be printed.            *)
(***************************************************************************)
EXTENDS SqlRoundTrip, SqlParserProps, TLC

UpTo(n, S) == UNION {[1 .. m -> S] : m \in 0 .. n}

MCAtoi == ("0" :> 0) @@ ("1" :> 1)

MCSpelling ==
    ("2.5" :> <<"2", ".", "1">>) @@ ("-1" :> <<"-", "1">>)
    @@ ("2024-01-15" :> <<"2", "-", "1">>) @@ ("hello world" :> <<"a", " ", "b">>)
    @@ ("" :> <<>>) @@ (">=" :> <<">", "=">>)
    @@ ("2,1" :> <<"2", ",", "1">>) @@ ("+1" :> <<"+", "1">>) @@ ("it's" :> <<"a", "'", "b">>)
    @@ ("a--b" :> <<"a", "-", "-", "b">>) @@ ("--" :> <<"-", "-">>)

(***************************************************************************)
(* Statements cut short.                                                   *)
(***************************************************************************)
Tails(head, n, S) == {head \o s : s \in UpTo(n, S)}

Condition1 == <<"x", "=", "1">>
Condition2 == <<"AND", "OR", "x">>
Links2 == {"AND", "OR"}

Chains ==
    {a \o <<l>> \o b \o <<m>> \o Condition1 \o <<n>> \o Condition1 :
       a \in {Condition1, Condition2}, b \in {Condition1, Condition2},
       l \in Links2, m \in Links2, n \in Links2 \cup {"x"}}

CutChains(head) == {head \o SubSeq(c, 1, k) : c \in Chains, k \in 0 .. 15}

CutShort ==
    Tails(<<"DELETE">>, 4, {"FROM", "t", "WHERE", "AND"})
    \cup Tails(<<"UPDATE", "t", "SET">>, 5, {"x", "=", ",", "WHERE", ";"})
    \cup Tails(<<"INSERT", "INTO", "t", "(">>, 5, {"x", ",", ")", "VALUES", "("})
    \cup Tails(<<"INSERT">>, 2, {"INTO", "t", "("})
    \cup Tails(<<"CREATE", "TABLE", "t", "(">>, 4, {"x", "INT", ",", ")"})
    \cup Tails(<<"CREATE">>, 2, {"TABLE", "t", "("})
    \cup Tails(<<"SELECT">>, 5, {"x", "(", ")", ",", "FROM", ";"})
    \cup Tails(<<"SELECT", "x", "FROM", "t">>, 4, {"ORDER", "BY", "x", "DESC", "LIMIT", "1"})
    \cup CutChains(<<"DELETE", "FROM", "t", "WHERE">>)
    \cup CutChains(<<"UPDATE", "t", "SET", "x", "=", "1", "WHERE">>)
    \cup CutChains(<<"SELECT", "*", "FROM", "t", "WHERE">>)
    \cup {<<"DROP", "t">>}

(***************************************************************************)
(* Complete statements.                                                    *)
(***************************************************************************)
Values ==
    {"1", "2024-01-15", "hello world", "", "2.5", "hello", "-1", ",", "VALUES", "a--b",
     "2,1", "+1", "it's"}

Columns == {"x", "hello world", "--", ">="}

Wheres ==
    {<<>>} \cup {<<"WHERE", "x", "=", v>> : v \in Values}
    \cup {<<"WHERE", "x", "=", v, l, "y", ">=", "1">> : v \in Values, l \in Links2}
    \cup {<<"WHERE", "x", "=", "1", l, "y", "=", "1", m, "x", "=", v>> :
            l \in Links2, m \in Links2, v \in Values}

Ends ==
    {o \o l : o \in {<<>>, <<"ORDER", "BY", "x">>, <<"ORDER", "BY", "x", "DESC">>,
                     <<"ORDER", "BY", "x", "ASC">>},
              l \in {<<>>, <<"LIMIT", "1">>, <<"LIMIT", "1", ";">>}}

Items == {<<"*">>, <<"x">>, <<"x", ",", "y">>, <<"COUNT", "(", "*", ")">>,
          <<"x", ",", "SUM", "(", "y", ")">>}

Whole ==
    {<<"SELECT">> \o i \o <<"FROM", "t">> \o w \o e : i \in Items, w \in Wheres, e \in Ends}
    \cup {<<"DELETE", "FROM", "t">> \o w : w \in Wheres}
    \cup {<<"UPDATE", "t", "SET", "x", "=", v>> \o w : v \in Values, w \in Wheres}
    \cup {<<"UPDATE", "t", "SET", "x", "=", v, ",", "y", "=", u>> : v \in Values, u \in Values}
    \cup {<<"INSERT", "INTO", "t", "(", c, ",", "y", ")", "VALUES", "(", u, ",", v, ")">> :
            c \in Columns, u \in Values, v \in Values}
    \cup {<<"SELECT", c, "FROM", "t", "ORDER", "BY", d>> : c \in Columns, d \in Columns}
    \cup {<<"CREATE", "TABLE", "t", "(", "x", "INT", ",", "y", d, ")">> : d \in {"DATE", "TEXT"}}

MCStatements == CutShort \cup Whole

\* The words of the statements and of what is printed of them.
MCWords ==
    (UNION {ToSet(s) : s \in MCStatements} \ (DOMAIN MCSpelling \cup Singles))
    \cup {"AND", "INTO", "BY", "ASC"}
=============================================================================
