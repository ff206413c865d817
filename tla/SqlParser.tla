------------------------------ MODULE SqlParser ------------------------------
(***************************************************************************)
(* The recursive descent of src/parser.c over the tokens of one statement: *)
(* one step per turn of a loop.  A token is its text; the tokenizer has    *)
(* taken the quotes off, so that a quoted text cannot be told from a       *)
(* keyword or a bracket of the same text.  Keywords are in capitals (ieq   *)
(* ignores case); names are not cut to the size of their buffers.          *)
(***************************************************************************)
EXTENDS Integers, Sequences, SequencesExt

CONSTANTS
    Statements,     \* the token lists considered
    Atoi            \* token -> the number atoi reads from it

\* peek and advance return NULL at the end of the list.
Null == "<eof>"
NoText == ""

ASSUME StatementsAssumption ==
    Statements \subseteq Seq(STRING) /\ \A s \in Statements : s # <<>> /\ Null \notin ToSet(s)
ASSUME AtoiAssumption == \A t \in DOMAIN Atoi : Atoi[t] \in Int

VARIABLES
    tokens,     \* TokenList.tok
    pos,        \* TokenList.pos, from 1
    pc,         \* which loop or clause the parser is in
    sql,        \* the ParsedSQL
    errors      \* has it complained on stderr?

vars == <<tokens, pos, pc, sql, errors>>

Types == {"CREATE", "INSERT", "SELECT", "DELETE", "UPDATE"}

\* parsed_new.
NewSql ==
    [type |-> "UNKNOWN", table |-> NoText, columns |-> <<>>, values |-> <<>>,
     col_defs |-> <<>>, set |-> <<>>, where |-> <<>>, where_links |-> <<>>,
     where_logic |-> NoText, order_by |-> <<>>, limit |-> -1]

At(p) == IF p <= Len(tokens) THEN tokens[p] ELSE Null
Peek == At(pos)
\* The position behind tokens that may not all be there.
Behind(p) == IF p <= Len(tokens) + 1 THEN p ELSE Len(tokens) + 1
Closed(p) == IF At(p) = ")" THEN p + 1 ELSE p

Init ==
    /\ tokens \in Statements
    /\ pos = 1
    /\ pc = "start"
    /\ sql = NewSql
    /\ errors = FALSE

Go(next, p) == pc' = next /\ pos' = p /\ UNCHANGED tokens
Complain(yes) == errors' = (errors \/ yes)

\* Where the parser of each kind begins.
Entry(type) ==
    CASE type = "CREATE" -> "create" [] type = "INSERT" -> "insert"
      [] type = "SELECT" -> "items"  [] type = "DELETE" -> "from"
      [] type = "UPDATE" -> "update" [] OTHER           -> "done"

Start ==
    /\ pc = "start"
    /\ sql' = [sql EXCEPT !.type = IF Peek \in Types THEN Peek ELSE "UNKNOWN"]
    /\ Go(Entry(Peek), pos + 1)
    /\ Complain(Peek \notin Types)

(***************************************************************************)
(* CREATE TABLE name ( ... and INSERT INTO name ( ...                      *)
(***************************************************************************)
Opening(kind, second, next) ==
    LET named  == Peek = second /\ At(pos + 1) # Null
        opened == named /\ At(pos + 2) = "("
    IN  /\ pc = kind
        /\ sql' = IF named THEN [sql EXCEPT !.table = At(pos + 1)] ELSE sql
        /\ Go(IF opened THEN next ELSE "done",
              IF Peek # second THEN pos ELSE Behind(pos + (IF opened THEN 3 ELSE 2)))
        /\ Complain(~opened)

ParseCreate == Opening("create", "TABLE", "col_defs")
ParseInsert == Opening("insert", "INTO", "columns")

\* The columns of a CREATE; types are checked for a warning only.
ValidType(t) == t \in {"INT", "VARCHAR", "FLOAT", "BOOLEAN", "DATE", "DATETIME"}

ColumnDef ==
    LET read == Peek \notin {Null, ")"} /\ At(pos + 1) # Null
        more == read /\ At(pos + 2) = ","
        end  == IF read THEN pos + 2
                ELSE IF Peek \in {Null, ")"} THEN pos ELSE Len(tokens) + 1
    IN  /\ pc = "col_defs"
        /\ sql' = IF read THEN [sql EXCEPT !.col_defs =
                                  Append(@, <<Peek, At(pos + 1)>>)] ELSE sql
        /\ IF more THEN Go("col_defs", pos + 3) ELSE Go("done", Closed(end))
        /\ Complain(\/ read /\ ~ValidType(At(pos + 1))
                    \/ ~more /\ At(end) # ")")

\* parse_ident_list, for the columns and for the values of an INSERT.
IdentList(field, next) ==
    LET read == Peek \notin {Null, ")"}
        more == read /\ At(pos + 1) = ","
        end  == IF read THEN pos + 1 ELSE pos
    IN  /\ pc = field
        /\ sql' = IF read THEN [sql EXCEPT ![field] = Append(@, Peek)] ELSE sql
        /\ IF more THEN Go(field, pos + 2) ELSE Go(next, Closed(end))
        /\ Complain(~more /\ At(end) # ")")

InsertColumns == IdentList("columns", "between")
InsertValues == IdentList("values", "done")

InsertBeforeValues ==
    /\ pc = "between"
    /\ IF Peek = "VALUES" /\ At(pos + 1) = "(" THEN Go("values", pos + 2)
       ELSE Go("done", IF Peek = "VALUES" THEN pos + 1 ELSE pos)
    /\ Complain(~(Peek = "VALUES" /\ At(pos + 1) = "("))
    /\ UNCHANGED sql

(***************************************************************************)
(* SELECT items FROM name, DELETE FROM name.                               *)
(***************************************************************************)
IsStop(t) == t \in {Null, "FROM", "WHERE", "ORDER", "LIMIT", ")", ";"}

\* One item: a name, or a call with all tokens up to its bracket.
SelectItem ==
    LET call  == At(pos + 1) = "("
        inner == {p \in pos + 2 .. Len(tokens) + 1 : At(p) \in {Null, ")", ";"}}
        last  == IF call THEN CHOOSE p \in inner : \A q \in inner : p <= q ELSE pos
        next  == IF call THEN Closed(last) ELSE pos + 1
    IN  /\ pc = "items" /\ ~IsStop(Peek)
        /\ sql' = [sql EXCEPT !.columns = Append(@, SubSeq(tokens, pos, next - 1))]
        /\ IF At(next) = "," THEN Go("items", next + 1) ELSE Go("from", next)
        /\ UNCHANGED errors

EndItems ==
    /\ pc = "items" /\ IsStop(Peek)
    /\ Go("from", pos)
    /\ UNCHANGED <<sql, errors>>

\* The tail of parse_select and all of parse_delete.
After(kind) == IF kind = "SELECT" THEN "order" ELSE "done"

FromName ==
    /\ pc = "from"
    /\ IF Peek # "FROM" THEN Go("done", pos) /\ UNCHANGED sql
       ELSE /\ sql' = IF At(pos + 1) = Null THEN sql
                      ELSE [sql EXCEPT !.table = At(pos + 1)]
            /\ IF At(pos + 2) = "WHERE" THEN Go("where", pos + 3)
                                        ELSE Go(After(sql.type), Behind(pos + 2))
    /\ Complain(Peek # "FROM")

(***************************************************************************)
(* parse_where: three tokens a condition, then AND, OR or the end.         *)
(***************************************************************************)
\* (Mutant: the link is looked at but not taken.)
LinkStays(p) == p
BehindLink(p) == p + 1

Condition ==
    LET link == At(pos + 3)
    IN  /\ pc = "where" /\ At(pos + 2) # Null
        /\ sql' = [sql EXCEPT
                     !.where = Append(@, <<Peek, At(pos + 1), At(pos + 2)>>),
                     !.where_links = IF link \in {"AND", "OR"} THEN Append(@, link) ELSE @]
        /\ IF link \in {"AND", "OR"} THEN Go("where", BehindLink(pos + 3))
                                     ELSE Go("links", pos + 3)
        /\ UNCHANGED errors

\* Less than three tokens are left: they are taken, and no condition is made.
\* (Mutant: the loop goes on.)
NoConditionRetries ==
    /\ pc = "where" /\ At(pos + 2) = Null
    /\ Go("where", Len(tokens) + 1)
    /\ UNCHANGED <<sql, errors>>
NoCondition ==
    /\ pc = "where" /\ At(pos + 2) = Null
    /\ Go("links", Len(tokens) + 1)
    /\ UNCHANGED <<sql, errors>>

\* A link without a condition behind it is dropped.  (Mutant: it is kept.)
AllLinks(s) == s.where_links
Links(s) ==
    IF s.where_links # <<>> /\ Len(s.where_links) # Len(s.where) - 1
    THEN SubSeq(s.where_links, 1, Len(s.where_links) - 1) ELSE s.where_links

Logic(links) ==
    IF links # <<>> /\ \A k \in DOMAIN links : links[k] = links[1] THEN links[1] ELSE NoText

EndWhere ==
    /\ pc = "links"
    /\ sql' = [sql EXCEPT !.where_links = Links(sql), !.where_logic = Logic(Links(sql))]
    /\ Go(After(sql.type), pos)
    /\ UNCHANGED errors

(***************************************************************************)
(* ORDER BY and LIMIT.                                                     *)
(***************************************************************************)
OrderBy ==
    LET c == IF At(pos + 1) = "BY" THEN pos + 2 ELSE pos + 1
        d == Behind(c + 1)
    IN  /\ pc = "order"
        /\ IF Peek # "ORDER" THEN Go("limit", pos) /\ UNCHANGED <<sql, errors>>
           ELSE /\ sql' = [sql EXCEPT !.order_by =
                             << [column |-> IF At(c) = Null THEN NoText ELSE At(c),
                                 asc    |-> At(d) # "DESC"] >>]
                /\ Go("limit", IF At(d) \in {"DESC", "ASC"} THEN d + 1 ELSE d)
                /\ Complain(At(pos + 1) # "BY")

Limit ==
    /\ pc = "limit"
    /\ IF Peek # "LIMIT" THEN Go("done", pos) /\ UNCHANGED sql
       ELSE /\ sql' = IF At(pos + 1) = Null THEN sql
                      ELSE [sql EXCEPT !.limit = IF At(pos + 1) \in DOMAIN Atoi
                                                 THEN Atoi[At(pos + 1)] ELSE 0]
            /\ Go("done", Behind(pos + 2))
    /\ UNCHANGED errors

(***************************************************************************)
(* UPDATE name SET ...: three tokens a pair, whatever the middle one is.   *)
(***************************************************************************)
ParseUpdate ==
    /\ pc = "update"
    /\ sql' = IF Peek = Null THEN sql ELSE [sql EXCEPT !.table = Peek]
    /\ IF At(pos + 1) = "SET" THEN Go("set", pos + 2) ELSE Go("done", Behind(pos + 1))
    /\ Complain(At(pos + 1) # "SET")

SetPair ==
    LET read == At(pos + 2) # Null
        more == read /\ At(pos + 3) = ","
    IN  /\ pc = "set" /\ Peek \notin {Null, "WHERE", ";"}
        /\ sql' = IF read THEN [sql EXCEPT !.set = Append(@, <<Peek, At(pos + 2)>>)]
                          ELSE sql
        /\ IF more THEN Go("set", pos + 4)
                   ELSE Go("set end", IF read THEN pos + 3 ELSE Len(tokens) + 1)
        /\ UNCHANGED errors

EndSet ==
    /\ \/ pc = "set end"
       \/ pc = "set" /\ Peek \in {Null, "WHERE", ";"}
    /\ IF Peek = "WHERE" THEN Go("where", pos + 1) ELSE Go("done", pos)
    /\ UNCHANGED <<sql, errors>>

Step ==
    \/ Start
    \/ ParseCreate \/ ColumnDef
    \/ ParseInsert \/ InsertColumns \/ InsertBeforeValues \/ InsertValues
    \/ SelectItem \/ EndItems \/ FromName
    \/ Condition \/ NoCondition \/ EndWhere
    \/ OrderBy \/ Limit
    \/ ParseUpdate \/ SetPair \/ EndSet

\* parse_sql has returned.
Returned ==
    /\ pc = "done"
    /\ UNCHANGED vars

Next == Step \/ Returned

Spec == Init /\ [][Next]_vars

FairSpec == Spec /\ WF_vars(Step)
=============================================================================
