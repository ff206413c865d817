--------------------------- MODULE SqlParserProps ---------------------------
(***************************************************************************)
(* What a ParsedSQL promises those who read it, for every list of tokens,  *)
(* complete or not.                                                        *)
(***************************************************************************)
EXTENDS SqlParser

(***************************************************************************)
(* The cursor stays in the list or one behind it, and the parser in its    *)
(* clauses.                                                                *)
(***************************************************************************)
TypeOK ==
    /\ pos \in 1 .. Len(tokens) + 1
    /\ pc \in {"start", "create", "col_defs", "insert", "columns", "between", "values",
               "items", "from", "where", "links", "order", "limit", "update", "set",
               "set end", "done"}
    /\ errors \in BOOLEAN

(***************************************************************************)
(* types.h: one link fewer than conditions, none for one condition or for  *)
(* none; the old field where_logic is the link if all links are the same,  *)
(* and empty otherwise.  sql_format.c, json_out.c and storage.c index      *)
(* where_links up to where_count - 1 on the strength of it.                *)
(***************************************************************************)
LinksFit ==
    pc \notin {"where", "links"} =>
        /\ Len(sql.where_links) = IF sql.where = <<>> THEN 0 ELSE Len(sql.where) - 1
        /\ sql.where_logic # NoText <=>
             /\ sql.where_links # <<>>
             /\ \A k \in DOMAIN sql.where_links : sql.where_links[k] = sql.where_logic

(***************************************************************************)
(* The conditions and the links between them are the tokens behind a       *)
(* WHERE, in their order, with nothing skipped and nothing taken twice.    *)
(***************************************************************************)
ConditionsFrom(w) ==
    /\ \A k \in DOMAIN sql.where :
         /\ w + 4 * k - 2 <= Len(tokens)
         /\ sql.where[k] = << tokens[w + 4 * k - 4], tokens[w + 4 * k - 3],
                              tokens[w + 4 * k - 2] >>
    /\ \A k \in DOMAIN sql.where_links :
         w + 4 * k - 1 <= Len(tokens) /\ sql.where_links[k] = tokens[w + 4 * k - 1]

ConditionsAreTokens ==
    sql.where # <<>> =>
        \E w \in 2 .. Len(tokens) : tokens[w - 1] = "WHERE" /\ ConditionsFrom(w)

(***************************************************************************)
(* Every statement is parsed: no list of tokens keeps a loop running.      *)
(***************************************************************************)
ParseEnds == []<>(pc = "done")

(***************************************************************************)
(* types.h:142 says where_count == 0 stands for a statement without WHERE, *)
(* which is how DELETE and UPDATE read it.  No error was reported.          *)
(***************************************************************************)
NoConditionsMeansNoWhere ==
    pc = "done" /\ ~errors /\ sql.type \in {"DELETE", "UPDATE"} /\ sql.where = <<>> =>
        \A k \in 4 .. Len(tokens) : tokens[k] # "WHERE"
=============================================================================
