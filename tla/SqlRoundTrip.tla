---------------------------- MODULE SqlRoundTrip ----------------------------
(***************************************************************************)
(* print_format of src/sql_format.c between two runs of the parser: what   *)
(* was parsed is written out as a text, the text is cut into tokens again  *)
(* (SqlText), and the tokens are parsed.                                   *)
(***************************************************************************)
EXTENDS SqlParser, SqlText

\* The characters of the tokens that are not one word or one operator.
CONSTANT Spelling

ASSUME SpellingAssumption ==
    \A t \in DOMAIN Spelling, u \in DOMAIN Spelling : Spelling[t] = Spelling[u] => t = u

VARIABLES
    first,      \* the ParsedSQL that was printed, None before
    whole       \* was it parsed without a complaint?

None == [type |-> "none"]

rtVars == <<vars, first, whole>>

Chars(t) == IF t \in DOMAIN Spelling THEN Spelling[t] ELSE <<t>>

\* The token spelled like a text.  Texts that no token of a statement is spelled
\* like are one token here: they come of a text that fell apart.
Garbled == "<garbled>"
Named(text) ==
    CASE \E t \in DOMAIN Spelling : Spelling[t] = text ->
           CHOOSE t \in DOMAIN Spelling : Spelling[t] = text
      [] Len(text) = 1 -> text[1]
      [] OTHER -> Garbled

Digits == {"1", "2"}
NeedsQuote(text) ==
    \/ text = <<>>
    \/ ToSet(text) \cap {" ", "-", ":"} # {}
    \/ text[1] \notin Digits \cup {"+"}

\* emit_value; a name is printed as it is.
Value(t) == IF NeedsQuote(Chars(t)) THEN <<"'">> \o Chars(t) \o <<"'">> ELSE Chars(t)

Numeral(n) == CHOOSE t \in DOMAIN Atoi : Atoi[t] = n

Spaced(texts) == FlattenSeq([k \in DOMAIN texts |-> texts[k] \o <<" ">>])
Commas(texts) ==
    FlattenSeq([k \in DOMAIN texts |-> IF k = 1 THEN texts[k] ELSE <<",", " ">> \o texts[k]])
EachName(s) == [k \in DOMAIN s |-> Chars(s[k])]
EachValue(s) == [k \in DOMAIN s |-> Value(s[k])]
\* A column of a SELECT or a CREATE is one text.
EachText(s) == [k \in DOMAIN s |-> Spaced(EachName(s[k]))]

\* where_link_at and emit_where.  (Mutant: the link behind the condition.)
LinkBehind(s, k) == IF k <= Len(s.where_links) THEN s.where_links[k] ELSE "AND"
LinkAt(s, k) == s.where_links[k - 1]
FormatWhere(s) ==
    IF s.where = <<>> THEN <<>>
    ELSE <<" ", "WHERE", " ">> \o FlattenSeq(
           [k \in DOMAIN s.where |->
              (IF k = 1 THEN <<>> ELSE <<" ", LinkAt(s, k), " ">>)
              \o Spaced(<<Chars(s.where[k][1]), Chars(s.where[k][2])>>) \o Value(s.where[k][3])])

FormatTail(s) ==
    (IF s.order_by = <<>> THEN <<>>
     ELSE <<" ", "ORDER", " ", "BY", " ">> \o Chars(s.order_by[1].column)
          \o <<" ", IF s.order_by[1].asc THEN "ASC" ELSE "DESC">>)
    \o IF s.limit < 0 THEN <<>> ELSE <<" ", "LIMIT", " ">> \o Chars(Numeral(s.limit))

Format(s) ==
    (CASE s.type = "CREATE" ->
           <<"CREATE", " ", "TABLE", " ">> \o Chars(s.table) \o <<" ", "(">>
           \o Commas(EachText(s.col_defs)) \o <<")">>
       [] s.type = "INSERT" ->
           <<"INSERT", " ", "INTO", " ">> \o Chars(s.table) \o <<" ", "(">>
           \o Commas(EachName(s.columns)) \o <<")", " ", "VALUES", " ", "(">>
           \o Commas(EachValue(s.values)) \o <<")">>
       [] s.type = "SELECT" ->
           <<"SELECT", " ">> \o Commas(EachText(s.columns)) \o <<" ", "FROM", " ">>
           \o Chars(s.table) \o FormatWhere(s) \o FormatTail(s)
       [] s.type = "DELETE" ->
           <<"DELETE", " ", "FROM", " ">> \o Chars(s.table) \o FormatWhere(s)
       [] OTHER ->
           <<"UPDATE", " ">> \o Chars(s.table) \o <<" ", "SET", " ">>
           \o Commas([k \in DOMAIN s.set |->
                        Spaced(<<Chars(s.set[k][1]), <<"=">>>>) \o Value(s.set[k][2])])
           \o FormatWhere(s))
    \o <<";">>

RTInit == Init /\ first = None /\ whole = FALSE

Parse == Step /\ UNCHANGED <<first, whole>>

\* process_stmt prints a statement of a known type only.
PrintFormat ==
    /\ pc = "done" /\ first = None /\ sql.type # "UNKNOWN"
    /\ first' = sql
    /\ whole' = ~errors
    /\ \E text \in {Format(sql)} : \E cut \in {Tokens(text)} :
         tokens' = [k \in DOMAIN cut |-> Named(cut[k])]
    /\ pos' = 1 /\ pc' = "start" /\ sql' = NewSql /\ errors' = FALSE

ParsedTwice ==
    /\ pc = "done" /\ (first # None \/ sql.type = "UNKNOWN")
    /\ UNCHANGED rtVars

RTNext == Parse \/ PrintFormat \/ ParsedTwice

RTSpec == RTInit /\ [][RTNext]_rtVars

RTFairSpec == RTSpec /\ WF_rtVars(Parse \/ PrintFormat)

(***************************************************************************)
(* What sql_format.c can print so that it is read back.  A name is printed *)
(* as it is, and so is a value that begins with a digit or a +: each has   *)
(* to be one word, where 2,1 is three tokens and +1 loses its sign.  Any   *)
(* other value stands in single quotes, which end at the first quote it    *)
(* holds: it's.                                                            *)
(***************************************************************************)
IsWord(text) == text # <<>> /\ ToSet(text) \subseteq Letters /\ ~IsComment(text, 1)
IsOperator(text) ==
    \/ Len(text) = 1 /\ text[1] \in Singles \cup Compares
    \/ Len(text) = 2 /\ text[1] \in Compares /\ text[2] = "="

PrintableName(t) == IsWord(Chars(t)) \/ IsOperator(Chars(t))
PrintableValue(t) ==
    IF NeedsQuote(Chars(t)) THEN "'" \notin ToSet(Chars(t)) ELSE IsWord(Chars(t))

Names(s) ==
    {s.table} \cup {s.order_by[k].column : k \in DOMAIN s.order_by}
    \cup {s.set[k][1] : k \in DOMAIN s.set}
    \cup UNION {{c[1], c[2]} : c \in ToSet(s.where)}
    \cup (IF s.type = "INSERT" THEN ToSet(s.columns) ELSE UNION {ToSet(c) : c \in ToSet(s.columns)})
    \cup UNION {ToSet(c) : c \in ToSet(s.col_defs)}
ValuesOf(s) == ToSet(s.values) \cup {c[3] : c \in ToSet(s.where)} \cup {a[2] : a \in ToSet(s.set)}

Printable(s) ==
    (\A t \in Names(s) : PrintableName(t)) /\ (\A t \in ValuesOf(s) : PrintableValue(t))

(***************************************************************************)
(* sql_format.c:11 calls parse, format, parse a proof that the parser      *)
(* loses nothing.  It is, for a statement that parsed without a complaint  *)
(* and whose names and values are printable: every field is printed and    *)
(* read back.  Of other texts it is not true (and nothing is claimed).     *)
(***************************************************************************)
FormatParsesBack ==
    pc = "done" /\ first # None /\ whole /\ Printable(first) => sql = first /\ ~errors
=============================================================================
