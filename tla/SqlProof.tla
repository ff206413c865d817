------------------------------ MODULE SqlProof ------------------------------
(***************************************************************************)
(* The way of a text to statements, for every text: the parser stays       *)
(* inside its list, and the conditions and links it hands on fit together  *)
(* and are the tokens behind the WHERE; the splitter cuts a file where the *)
(* tokenizer starts an element.                                            *)
(***************************************************************************)
EXTENDS SqlParserProps, StatementStreamProps, PositionLemmas, WellFoundedInduction

(***************************************************************************)
(* The inductive invariant.  The two loops of parse_where are the only     *)
(* ones that write the three fields, so that everywhere before them the    *)
(* fields are empty, and everywhere behind them the promise holds.  Inside *)
(* the loop the cursor is four tokens a condition behind the WHERE.        *)
(***************************************************************************)
Before == {"start", "create", "col_defs", "insert", "columns", "between", "values",
           "items", "from", "update", "set", "set end"}
Remains == {"order", "limit", "done"}

Texts == STRING
LinkWords == {"AND", "OR"}
Triples == Texts \X Texts \X Texts

Lists ==
    /\ {"where", "where_links", "where_logic"} \subseteq DOMAIN sql
    /\ sql.where \in Seq(Triples)
    /\ sql.where_links \in Seq(LinkWords)

NothingYet ==
    sql.where = <<>> /\ sql.where_links = <<>> /\ sql.where_logic = NoText

Follows(w) == w \in 2 .. Len(tokens) + 1 /\ tokens[w - 1] = "WHERE" /\ ConditionsFrom(w)

InLoop ==
    \E w \in Nat :
        /\ Follows(w)
        /\ pos = w + 4 * Len(sql.where)
        /\ Len(sql.where_links) = Len(sql.where)

BehindLoop ==
    \E w \in Nat :
        /\ Follows(w)
        /\ Len(sql.where_links) \in {Len(sql.where), Len(sql.where) - 1}

Position ==
    /\ tokens \in Statements
    /\ TypeOK
    /\ pc = "start" => pos = 1

Clauses ==
    /\ pc \in Before => NothingYet
    /\ pc \in {"where", "links"} => sql.where_logic = NoText
    /\ pc = "where" => InLoop
    /\ pc = "links" => BehindLoop
    /\ pc \in Remains => LinksFit /\ ConditionsAreTokens

IInv == Position /\ Lists /\ Clauses

-----------------------------------------------------------------------------
LEMMA TokensAreTexts ==
    ASSUME tokens \in Statements
    PROVE  /\ tokens \in Seq(Texts)
           /\ Len(tokens) \in Nat \ {0}
           /\ DOMAIN tokens = 1 .. Len(tokens)
           /\ \A m \in 1 .. Len(tokens) : At(m) = tokens[m] /\ tokens[m] \in Texts
           /\ \A m \in Int : At(m) # Null => m <= Len(tokens)
<1>1. tokens \in Seq(Texts) /\ tokens # <<>>
  BY StatementsAssumption DEF Texts
<1>2. Len(tokens) \in Nat \ {0} /\ DOMAIN tokens = 1 .. Len(tokens)
  BY <1>1, LenProperties, EmptySeq
<1>3. ASSUME NEW m \in 1 .. Len(tokens) PROVE At(m) = tokens[m] /\ tokens[m] \in Texts
  BY <1>1, <1>2, <1>3, ElementOfSeq DEF At
<1> QED BY <1>1, <1>2, <1>3 DEF At

\* A set of positions has a first one.
LessThan == {ss \in Nat \X Nat : ss[1] < ss[2]}

LEMMA FirstPosition ==
    ASSUME NEW S \in SUBSET Nat, S # {}
    PROVE  \E m \in S : \A q \in S : m <= q
<1>1. IsWellFoundedOn(LessThan, Nat)
  BY NatLessThanWellFounded DEF LessThan, OpToRel
<1>2. PICK m \in S : \A q \in S : <<q, m>> \notin LessThan
  BY <1>1, WFMin
<1>3. ASSUME NEW q \in S PROVE m <= q
  <2>1. <<q, m>> \notin LessThan
    BY <1>2
  <2> QED BY <2>1 DEF LessThan
<1> QED BY <1>2, <1>3

Kept ==
    /\ sql'.where = sql.where
    /\ sql'.where_links = sql.where_links
    /\ sql'.where_logic = sql.where_logic
    /\ DOMAIN sql' = DOMAIN sql
    /\ tokens' = tokens

(***************************************************************************)
(* The steps outside parse_where: where they lead, what they leave alone,  *)
(* and that the cursor moves over tokens that are there.                   *)
(***************************************************************************)
Reading ==
    \/ Start \/ ParseCreate \/ ColumnDef
    \/ ParseInsert \/ InsertColumns \/ InsertBeforeValues \/ InsertValues
    \/ SelectItem \/ EndItems \/ ParseUpdate \/ SetPair
Turning == FromName \/ EndSet
Ending == OrderBy \/ Limit

LEMMA ReadingKeeps ==
    ASSUME Lists, Reading
    PROVE  Kept /\ pc \in Before /\ pc' \in Before \cup {"done"} /\ pc' # "start"
<1> USE DEF Lists, Kept, Before, Go
<1>1. CASE Start
  BY <1>1 DEF Start, Entry
<1>2. CASE ParseCreate
  BY <1>2 DEF ParseCreate, Opening
<1>3. CASE ColumnDef
  BY <1>3 DEF ColumnDef
<1>4. CASE ParseInsert
  BY <1>4 DEF ParseInsert, Opening
<1>5. CASE InsertColumns
  BY <1>5 DEF InsertColumns, IdentList
<1>6. CASE InsertBeforeValues
  BY <1>6 DEF InsertBeforeValues
<1>7. CASE InsertValues
  BY <1>7 DEF InsertValues, IdentList
<1>8. CASE SelectItem
  BY <1>8 DEF SelectItem
<1>9. CASE EndItems
  BY <1>9 DEF EndItems
<1>10. CASE ParseUpdate
  BY <1>10 DEF ParseUpdate
<1>11. CASE SetPair
  BY <1>11 DEF SetPair
<1> QED BY <1>1, <1>2, <1>3, <1>4, <1>5, <1>6, <1>7, <1>8, <1>9, <1>10, <1>11 DEF Reading

LEMMA TurningKeeps ==
    ASSUME Lists, Position, Turning
    PROVE  /\ Kept
           /\ pc \in Before /\ pc' \in {"where", "order", "done"}
           /\ pc' = "where" => pos' \in 2 .. Len(tokens) + 1 /\ tokens[pos' - 1] = "WHERE"
<1> USE DEF Kept, Before, Go
<1>0. Len(tokens) \in Nat /\ pos \in 1 .. Len(tokens) + 1
  BY TokensAreTexts DEF Position, TypeOK
<1>1. CASE FromName
  BY <1>0, <1>1 DEF Lists, FromName, After, At, Peek, Null
<1>2. CASE EndSet
  <2>1. Kept /\ pc \in Before
    BY <1>2 DEF EndSet
  <2>2. CASE Peek = "WHERE"
    <3>1. pos <= Len(tokens) /\ tokens[pos] = "WHERE"
      BY <1>0, <2>2 DEF At, Peek, Null
    <3>2. pc' = "where" /\ pos' = pos + 1
      BY <1>2, <2>2 DEF EndSet
    <3>3. pos' - 1 = pos /\ pos' \in 2 .. Len(tokens) + 1
      BY <1>0, <3>1, <3>2
    <3> QED BY <2>1, <3>1, <3>2, <3>3
  <2>3. CASE Peek # "WHERE"
    BY <1>2, <2>1, <2>3 DEF EndSet
  <2> QED BY <2>2, <2>3
<1> QED BY <1>1, <1>2 DEF Turning

LEMMA EndingKeeps ==
    ASSUME Lists, Ending
    PROVE  Kept /\ pc \in Remains /\ pc' \in Remains
<1> USE DEF Lists, Kept, Remains, Go
<1>1. CASE OrderBy
  BY <1>1 DEF OrderBy
<1>2. CASE Limit
  BY <1>2 DEF Limit
<1> QED BY <1>1, <1>2 DEF Ending

-----------------------------------------------------------------------------
(***************************************************************************)
(* The cursor.                                                             *)
(***************************************************************************)
LEMMA PositionStep == Position /\ Step => Position'
<1> SUFFICES ASSUME Position, Step PROVE Position'
  OBVIOUS
<1>a. Len(tokens) \in Nat \ {0} /\ pos \in 1 .. Len(tokens) + 1
  BY TokensAreTexts DEF Position, TypeOK
<1>b. At(Len(tokens) + 1) = "<eof>"
  BY <1>a DEF Null, At
<1>0. /\ Len(tokens) \in Nat \ {0} /\ pos \in 1 .. Len(tokens) + 1
      /\ At(pos) # "<eof>" => pos <= Len(tokens)
      /\ At(pos + 1) # "<eof>" => pos + 1 <= Len(tokens)
      /\ At(pos + 2) # "<eof>" => pos + 2 <= Len(tokens)
      /\ At(pos + 3) # "<eof>" => pos + 3 <= Len(tokens)
      /\ At(Len(tokens) + 1) = "<eof>"
  BY <1>a, <1>b DEF Null, At
<1>1. tokens' = tokens
  BY DEF Step, Start, ParseCreate, ParseInsert, Opening, ColumnDef, InsertColumns,
         InsertValues, IdentList, InsertBeforeValues, SelectItem, EndItems, FromName,
         Condition, NoCondition, EndWhere, OrderBy, Limit, ParseUpdate, SetPair, EndSet, Go
<1>2. errors' \in BOOLEAN
  BY DEF Position, TypeOK, Step, Start, ParseCreate, ParseInsert, Opening, ColumnDef, InsertColumns,
         InsertValues, IdentList, InsertBeforeValues, SelectItem, EndItems, FromName,
         Condition, NoCondition, EndWhere, OrderBy, Limit, ParseUpdate, SetPair, EndSet,
         Complain
<1>3. pc' # "start" /\ pc' \in
        {"create", "col_defs", "insert", "columns", "between", "values", "items", "from",
         "where", "links", "order", "limit", "update", "set", "set end", "done"}
  BY DEF Step, Start, Entry, ParseCreate, ParseInsert, Opening, ColumnDef, InsertColumns,
         InsertValues, IdentList, InsertBeforeValues, SelectItem, EndItems, FromName, After,
         Condition, NoCondition, EndWhere, OrderBy, Limit, ParseUpdate, SetPair, EndSet, Go
<1>4. pos' \in 1 .. Len(tokens) + 1
  <2> USE <1>0 DEF Go, Peek, Null
  <2>1. CASE Start
    BY <2>1 DEF Start, Position
  <2>2. CASE ParseCreate \/ ParseInsert
    BY <2>2 DEF ParseCreate, ParseInsert, Opening, Behind
  <2>3. CASE ColumnDef
    <3>1. \/ pos' = pos + 3 /\ At(pos + 2) # "<eof>"
          \/ pos' = pos + 2 /\ At(pos + 1) # "<eof>"
          \/ pos' = pos + 1 /\ At(pos) # "<eof>"
          \/ pos' \in {pos, Len(tokens) + 1}
          \/ pos' = Len(tokens) + 2 /\ At(Len(tokens) + 1) # "<eof>"
      <4> DEFINE read == Peek \notin {Null, ")"} /\ At(pos + 1) # Null
                 end == IF read THEN pos + 2
                        ELSE IF Peek \in {Null, ")"} THEN pos ELSE Len(tokens) + 1
      <4>1. pos' = IF read /\ At(pos + 2) = "," THEN pos + 3 ELSE Closed(end)
        BY <2>3 DEF ColumnDef
      <4>2. CASE read
        <5>1. \/ Closed(end) = pos + 2
              \/ Closed(end) = pos + 3 /\ At(pos + 2) = ")"
          BY <4>2 DEF Closed
        <5>2. At(pos + 1) # "<eof>"
          BY <4>2
        <5>3. \/ pos' = Closed(end)
              \/ pos' = pos + 3 /\ At(pos + 2) = ","
          <6> HIDE DEF end, read
          <6> QED BY <4>1
        <5> HIDE DEF end, read
        <5> QED BY <5>1, <5>2, <5>3
      <4>3. CASE ~read
        BY <4>1, <4>3 DEF Closed
      <4> QED BY <4>2, <4>3
    <3> QED BY <3>1
  <2>4. CASE InsertColumns \/ InsertValues
    <3>1. \/ pos' = pos + 2 /\ At(pos + 1) # "<eof>"
          \/ pos' = pos + 1 /\ At(pos) # "<eof>"
          \/ pos' = pos
      <4> DEFINE read == Peek \notin {Null, ")"}
                 end == IF read THEN pos + 1 ELSE pos
      <4>1. pos' = IF read /\ At(pos + 1) = "," THEN pos + 2 ELSE Closed(end)
        BY <2>4 DEF InsertColumns, InsertValues, IdentList
      <4>2. CASE read
        <5>1. \/ Closed(end) = pos + 1
              \/ Closed(end) = pos + 2 /\ At(pos + 1) = ")"
          BY <4>2 DEF Closed
        <5>2. At(pos) # "<eof>"
          BY <4>2
        <5>3. \/ pos' = Closed(end)
              \/ pos' = pos + 2 /\ At(pos + 1) = ","
          <6> HIDE DEF end, read
          <6> QED BY <4>1
        <5> HIDE DEF end, read
        <5> QED BY <5>1, <5>2, <5>3
      <4>3. CASE ~read
        BY <4>1, <4>3 DEF Closed
      <4> QED BY <4>2, <4>3
    <3> QED BY <3>1
  <2>5. CASE InsertBeforeValues
    BY <2>5 DEF InsertBeforeValues
  <2>6. CASE SelectItem
    <3> DEFINE call == At(pos + 1) = "("
               inner == {m \in pos + 2 .. Len(tokens) + 1 : At(m) \in {"<eof>", ")", ";"}}
               last == IF call THEN CHOOSE m \in inner : \A q \in inner : m <= q ELSE pos
               next == IF call THEN Closed(last) ELSE pos + 1
    <3>2. pos <= Len(tokens)
      BY <2>6 DEF SelectItem, IsStop
    <3>3. next \in 1 .. Len(tokens) + 1
      <4>1. CASE call
        <5>a. pos + 1 <= Len(tokens)
          BY <4>1
        <5>b. Len(tokens) + 1 \in pos + 2 .. Len(tokens) + 1
          BY <5>a
        <5>c. At(Len(tokens) + 1) \in {"<eof>", ")", ";"}
          OBVIOUS
        <5>d. pos + 2 .. Len(tokens) + 1 \subseteq 1 .. Len(tokens) + 1
          OBVIOUS
        <5>e. inner \subseteq 1 .. Len(tokens) + 1
          <6>1. inner \subseteq pos + 2 .. Len(tokens) + 1
            OBVIOUS
          <6> HIDE DEF inner
          <6> QED BY <5>d, <6>1
        <5>1. Len(tokens) + 1 \in inner
          BY <5>b, <5>c
        <5>f. inner \in SUBSET Nat
          <6> HIDE DEF inner
          <6> QED BY <5>e
        <5>2. \E m \in inner : \A q \in inner : m <= q
          BY <5>1, <5>f, FirstPosition
        <5>3. last \in inner
          BY <4>1, <5>2
        <5>4. next = IF At(last) = ")" THEN last + 1 ELSE last
          BY <4>1 DEF Closed
        <5>5. At(last) = ")" => last <= Len(tokens)
          <6> HIDE DEF last
          <6> QED BY <5>3
        <5>6. last \in 1 .. Len(tokens) + 1
          <6> HIDE DEF last, inner
          <6> QED BY <5>3, <5>e
        <5> HIDE DEF last, next
        <5> QED BY <5>4, <5>5, <5>6
      <4>2. CASE ~call
        BY <3>2, <4>2
      <4> QED BY <4>1, <4>2
    <3>4. \/ pos' = next + 1 /\ At(next) # "<eof>"
          \/ pos' = next
      <4> HIDE DEF Closed
      <4> QED BY <2>6 DEF SelectItem
    <3> HIDE DEF next
    <3> QED BY <3>3, <3>4
  <2>7. CASE EndItems \/ EndWhere
    BY <2>7 DEF EndItems, EndWhere
  <2>8. CASE FromName
    BY <2>8 DEF FromName, Behind
  <2>9. CASE Condition
    BY <2>9 DEF Condition, BehindLink
  <2>10. CASE NoCondition
    BY <2>10 DEF NoCondition
  <2>11. CASE OrderBy
    BY <2>11 DEF OrderBy, Behind
  <2>12. CASE Limit
    BY <2>12 DEF Limit, Behind
  <2>13. CASE ParseUpdate
    BY <2>13 DEF ParseUpdate, Behind
  <2>14. CASE SetPair
    <3>1. \/ pos' = pos + 4 /\ At(pos + 3) # "<eof>"
          \/ pos' = pos + 3 /\ At(pos + 2) # "<eof>"
          \/ pos' = Len(tokens) + 1
      BY <2>14 DEF SetPair
    <3> QED BY <3>1
  <2>15. CASE EndSet
    <3>1. CASE Peek = "WHERE"
      <4>1. pos' = pos + 1
        BY <2>15, <3>1 DEF EndSet
      <4>2. pos <= Len(tokens)
        BY <3>1
      <4> QED BY <4>1, <4>2
    <3>2. CASE Peek # "WHERE"
      BY <2>15, <3>2 DEF EndSet
    <3> QED BY <3>1, <3>2
  <2> QED BY <2>1, <2>2, <2>3, <2>4, <2>5, <2>6, <2>7, <2>8, <2>9, <2>10, <2>11, <2>12,
             <2>13, <2>14, <2>15 DEF Step
<1> QED BY <1>1, <1>2, <1>3, <1>4 DEF Position, TypeOK

-----------------------------------------------------------------------------
(***************************************************************************)
(* The two loops of parse_where.                                           *)
(***************************************************************************)
LEMMA Enter ==
    ASSUME IInv, Turning
    PROVE  Lists' /\ Clauses'
<1>1. /\ Kept
      /\ pc \in Before /\ pc' \in {"where", "order", "done"}
      /\ pc' = "where" => pos' \in 2 .. Len(tokens) + 1 /\ tokens[pos' - 1] = "WHERE"
  BY TurningKeeps DEF IInv
<1>2. Lists'
  BY <1>1 DEF IInv, Lists, Kept
<1>3. NothingYet /\ NothingYet'
  BY <1>1 DEF IInv, Clauses, Kept, NothingYet
<1>4. LinksFit' /\ ConditionsAreTokens'
  BY <1>3 DEF NothingYet, LinksFit, ConditionsAreTokens
<1>5. ASSUME pc' = "where" PROVE InLoop'
  <2>1. Len(tokens) \in Nat
    BY TokensAreTexts DEF IInv, Position
  <2>w. PICK w \in Nat : w = pos'
    BY <1>1, <1>5, <2>1
  <2>2. tokens' = tokens /\ sql'.where = <<>> /\ sql'.where_links = <<>>
    BY <1>1, <1>3 DEF Kept, NothingYet
  <2>3. (\A k \in DOMAIN sql'.where : FALSE) /\ (\A k \in DOMAIN sql'.where_links : FALSE)
        /\ Len(sql'.where) = 0 /\ Len(sql'.where_links) = 0
    BY <2>2
  <2>4. ConditionsFrom(w)'
    BY <2>3 DEF ConditionsFrom
  <2>5. Follows(w)'
    BY <1>1, <1>5, <2>w, <2>2, <2>4 DEF Follows
  <2>6. pos' = w + 4 * Len(sql'.where)
    <3>1. 4 * Len(sql'.where) = 0
      BY <2>3
    <3> QED BY <2>w, <3>1
  <2> QED BY <2>3, <2>5, <2>6 DEF InLoop
<1> QED BY <1>1, <1>2, <1>3, <1>4, <1>5 DEF Clauses, Before, Remains, NothingYet

LEMMA Loop ==
    ASSUME IInv, Condition
    PROVE  Lists' /\ Clauses'
<1> DEFINE triple == <<tokens[pos], tokens[pos + 1], tokens[pos + 2]>>
           link == At(pos + 3)
           linked == link \in {"AND", "OR"}
<1>1. PICK w \in Nat : /\ Follows(w)
                       /\ pos = w + 4 * Len(sql.where)
                       /\ Len(sql.where_links) = Len(sql.where)
  BY DEF IInv, Clauses, Condition, InLoop
<1>2. /\ sql.where \in Seq(Triples) /\ sql.where_links \in Seq(LinkWords)
      /\ Len(sql.where) \in Nat
      /\ DOMAIN sql.where = 1 .. Len(sql.where)
      /\ DOMAIN sql.where_links = 1 .. Len(sql.where)
  BY <1>1, LenProperties DEF IInv, Lists
<1>3. /\ tokens' = tokens /\ tokens \in Seq(Texts) /\ Len(tokens) \in Nat
      /\ pos \in 1 .. Len(tokens) + 1
  BY TokensAreTexts DEF IInv, Position, TypeOK, Condition, Go
<1>4. pos + 2 <= Len(tokens)
  BY <1>3 DEF Condition, At
<1>5. /\ At(pos) = tokens[pos] /\ At(pos + 1) = tokens[pos + 1]
      /\ At(pos + 2) = tokens[pos + 2] /\ triple \in Triples
  <2>1. pos \in 1 .. Len(tokens) /\ pos + 1 \in 1 .. Len(tokens) /\ pos + 2 \in 1 .. Len(tokens)
    BY <1>3, <1>4
  <2> QED BY <2>1, TokensAreTexts DEF IInv, Position, Triples
<1>6. linked => pos + 3 <= Len(tokens) /\ link = tokens[pos + 3] /\ link \in LinkWords
  <2>1. linked => pos + 3 \in 1 .. Len(tokens)
    BY <1>3 DEF At, Null
  <2> QED BY <2>1, TokensAreTexts DEF IInv, Position, LinkWords
<1>7. /\ sql'.where = Append(sql.where, triple)
      /\ sql'.where_links = IF linked THEN Append(sql.where_links, link) ELSE sql.where_links
      /\ sql'.where_logic = sql.where_logic /\ DOMAIN sql' = DOMAIN sql
  BY <1>5 DEF Condition, IInv, Lists, Peek
<1>8. Lists'
  <2>1. sql'.where \in Seq(Triples)
    BY <1>2, <1>5, <1>7, AppendProperties
  <2>2. sql'.where_links \in Seq(LinkWords)
    BY <1>2, <1>6, <1>7, AppendProperties
  <2> QED BY <1>7, <2>1, <2>2 DEF IInv, Lists
<1>9. /\ Len(sql'.where) = Len(sql.where) + 1 /\ DOMAIN sql'.where = 1 .. Len(sql.where) + 1
      /\ sql'.where[Len(sql.where) + 1] = triple
      /\ \A k \in 1 .. Len(sql.where) : sql'.where[k] = sql.where[k]
  <2> HIDE DEF triple
  <2> QED BY <1>2, <1>5, <1>7, AppendProperties
<1>12. ASSUME NEW k \in 1 .. Len(sql.where) + 1
       PROVE  /\ w + 4 * k - 2 <= Len(tokens)
              /\ sql'.where[k] = << tokens[w + 4 * k - 4], tokens[w + 4 * k - 3],
                                   tokens[w + 4 * k - 2] >>
  <2>1. CASE k \in 1 .. Len(sql.where)
    BY <1>1, <1>2, <1>9, <2>1 DEF Follows, ConditionsFrom
  <2>2. CASE k = Len(sql.where) + 1
    <3>1. w + 4 * k - 4 = pos /\ w + 4 * k - 3 = pos + 1 /\ w + 4 * k - 2 = pos + 2
      <4>1. Len(sql.where) \in Nat /\ w \in Nat /\ pos = w + 4 * Len(sql.where)
        BY <1>1, <1>2
      <4> QED BY <2>2, <4>1
    <3> QED BY <1>4, <1>9, <2>2, <3>1
  <2>3. k \in 1 .. Len(sql.where) \/ k = Len(sql.where) + 1
    <3>1. Len(sql.where) \in Nat
      BY <1>1
    <3> QED BY <3>1
  <2> QED BY <2>1, <2>2, <2>3
<1>13. sql'.where_logic = NoText
  BY <1>7 DEF IInv, Clauses, Condition
<1>10. CASE linked
  <2>1. /\ Len(sql'.where_links) = Len(sql.where) + 1
        /\ DOMAIN sql'.where_links = 1 .. Len(sql.where) + 1
        /\ sql'.where_links[Len(sql.where) + 1] = tokens[pos + 3]
        /\ \A k \in 1 .. Len(sql.where) : sql'.where_links[k] = sql.where_links[k]
    <3>1. sql'.where_links = Append(sql.where_links, tokens[pos + 3]) /\ tokens[pos + 3] \in LinkWords
      <4> HIDE DEF link, linked
      <4> QED BY <1>6, <1>7, <1>10
    <3> DEFINE x == tokens[pos + 3]
               links == sql.where_links
               more == sql'.where_links
    <3>2. more = Append(links, x) /\ links \in Seq(LinkWords) /\ x \in LinkWords /\ Len(links) = Len(sql.where)
      BY <1>1, <1>2, <3>1
    <3> HIDE DEF x, links, more
    <3>3. /\ more \in Seq(LinkWords) /\ Len(more) = Len(links) + 1 /\ more[Len(links) + 1] = x
          /\ \A k \in 1 .. Len(links) : more[k] = links[k]
      BY <3>2, AppendProperties
    <3>4. DOMAIN more = 1 .. Len(more)
      BY <3>3
    <3> QED BY <3>2, <3>3, <3>4 DEF x, links, more
  <2>2. pc' = "where" /\ pos' = pos + 4
    BY <1>3, <1>10 DEF Condition, Go, BehindLink
  <2>3. ASSUME NEW k \in 1 .. Len(sql.where) + 1
        PROVE  w + 4 * k - 1 <= Len(tokens) /\ sql'.where_links[k] = tokens[w + 4 * k - 1]
    <3>1. CASE k \in 1 .. Len(sql.where)
      BY <1>1, <1>2, <2>1, <3>1 DEF Follows, ConditionsFrom
    <3>2. CASE k = Len(sql.where) + 1
      <4>1. w + 4 * k - 1 = pos + 3
        BY <1>1, <1>2, <3>2
      <4> HIDE DEF link, linked
      <4> QED BY <1>6, <1>10, <2>1, <3>2, <4>1
    <3> QED BY <3>1, <3>2
  <2>4. Follows(w)'
    BY <1>1, <1>3, <1>9, <1>12, <2>1, <2>3 DEF Follows, ConditionsFrom
  <2>5. pos' = w + 4 * Len(sql'.where) /\ Len(sql'.where_links) = Len(sql'.where)
    BY <1>1, <1>2, <1>9, <2>1, <2>2
  <2>6. InLoop'
    BY <2>4, <2>5 DEF InLoop
  <2> QED BY <1>8, <1>13, <2>2, <2>6 DEF Clauses, Before, Remains
<1>11. CASE ~linked
  <2>1. sql'.where_links = sql.where_links /\ pc' = "links"
    BY <1>7, <1>11 DEF Condition, Go
  <2>2. Follows(w)'
    BY <1>1, <1>2, <1>3, <1>9, <1>12, <2>1 DEF Follows, ConditionsFrom
  <2>3. Len(sql'.where_links) = Len(sql'.where) - 1
    BY <1>1, <1>2, <1>9, <2>1
  <2>4. BehindLoop'
    BY <2>2, <2>3 DEF BehindLoop
  <2> QED BY <1>8, <1>13, <2>1, <2>4 DEF Clauses, Before, Remains
<1> QED BY <1>10, <1>11

LEMMA LoopEnds ==
    ASSUME IInv, NoCondition
    PROVE  Lists' /\ Clauses'
<1>1. tokens' = tokens /\ sql' = sql /\ pc' = "links" /\ pc = "where"
  BY DEF NoCondition, Go
<1>2. BehindLoop'
  BY <1>1 DEF IInv, Clauses, InLoop, BehindLoop, Follows, ConditionsFrom
<1>3. Lists' /\ sql'.where_logic = NoText
  BY <1>1 DEF IInv, Lists, Clauses
<1> QED BY <1>1, <1>2, <1>3 DEF Clauses, Before, Remains

(***************************************************************************)
(* The links are cut to one fewer than the conditions, which the loop left *)
(* at the same number or one fewer.                                        *)
(***************************************************************************)
LEMMA LinksAreCut ==
    ASSUME IInv, EndWhere
    PROVE  Lists' /\ Clauses'
<1> DEFINE links == Links(sql)
<1>1. PICK w \in Nat : /\ Follows(w)
                       /\ Len(sql.where_links) \in {Len(sql.where), Len(sql.where) - 1}
  BY DEF IInv, Clauses, EndWhere, BehindLoop
<1>2. /\ sql.where \in Seq(Triples) /\ sql.where_links \in Seq(LinkWords)
      /\ Len(sql.where) \in Nat /\ Len(sql.where_links) \in Nat
      /\ DOMAIN sql.where = 1 .. Len(sql.where)
      /\ DOMAIN sql.where_links = 1 .. Len(sql.where_links)
  BY LenProperties DEF IInv, Lists
<1>3. /\ links \in Seq(LinkWords) /\ Len(links) = IF Len(sql.where) = 0 THEN 0 ELSE Len(sql.where) - 1
      /\ \A k \in 1 .. Len(links) : links[k] = sql.where_links[k] /\ k \in DOMAIN sql.where_links
  <2>1. CASE sql.where_links # <<>> /\ Len(sql.where_links) # Len(sql.where) - 1
    <3>1. links = SubSeq(sql.where_links, 1, Len(sql.where_links) - 1)
      BY <2>1 DEF Links
    <3>2. Len(sql.where_links) = Len(sql.where) /\ Len(sql.where_links) # 0
      BY <1>1, <1>2, <2>1, EmptySeq
    <3>3. links \in Seq(LinkWords) /\ Len(links) = Len(sql.where_links) - 1
          /\ \A k \in 1 .. Len(links) : links[k] = sql.where_links[k]
      <4> HIDE DEF links
      <4> QED BY <1>2, <3>1, <3>2, SubSeqProperties
    <3> HIDE DEF links
    <3> QED BY <1>2, <3>2, <3>3
  <2>2. CASE ~(sql.where_links # <<>> /\ Len(sql.where_links) # Len(sql.where) - 1)
    <3>1. links = sql.where_links
      BY <2>2 DEF Links
    <3>2. sql.where_links = <<>> => Len(sql.where_links) = 0
      BY EmptySeq
    <3> HIDE DEF links
    <3> QED BY <1>1, <1>2, <2>2, <3>1, <3>2
  <2> QED BY <2>1, <2>2
<1>4. /\ tokens' = tokens /\ sql'.where = sql.where /\ sql'.where_links = links
      /\ sql'.where_logic = Logic(links) /\ DOMAIN sql' = DOMAIN sql /\ pc' \in Remains
  BY DEF EndWhere, IInv, Lists, Go, After, Remains
<1>5. Lists'
  <2> HIDE DEF links
  <2> QED BY <1>2, <1>3, <1>4 DEF Lists, IInv
<1>6. DOMAIN links = 1 .. Len(links) /\ Len(links) \in Nat /\ (links # <<>> <=> Len(links) # 0)
  <2> HIDE DEF links
  <2> QED BY <1>3, LenProperties, EmptySeq
<1>7. ConditionsAreTokens'
  <2>1. ConditionsFrom(w)'
    <3> HIDE DEF links
    <3> QED BY <1>1, <1>3, <1>4, <1>6 DEF Follows, ConditionsFrom
  <2>2. ASSUME sql'.where # <<>> PROVE w \in 2 .. Len(tokens)
    <3>1. 1 \in DOMAIN sql.where
      BY <1>2, <1>4, <2>2, EmptySeq
    <3> QED BY <1>1, <3>1, TokensAreTexts DEF Follows, ConditionsFrom, IInv, Position
  <2> QED BY <1>1, <1>4, <2>1, <2>2 DEF ConditionsAreTokens, Follows
<1>8. LinksFit'
  <2>1. Len(sql'.where_links) = IF sql'.where = <<>> THEN 0 ELSE Len(sql'.where) - 1
    <3>1. sql.where = <<>> <=> Len(sql.where) = 0
      BY <1>2, EmptySeq
    <3> HIDE DEF links
    <3> QED BY <1>3, <1>4, <3>1
  <2>2. sql'.where_logic # NoText <=>
          /\ sql'.where_links # <<>>
          /\ \A k \in DOMAIN sql'.where_links : sql'.where_links[k] = sql'.where_logic
    <3> HIDE DEF links
    <3>1. CASE links # <<>> /\ \A k \in DOMAIN links : links[k] = links[1]
      <4>1. Logic(links) = links[1]
        BY <3>1 DEF Logic
      <4>2. 1 \in DOMAIN links
        BY <1>6, <3>1
      <4>3. links[1] # NoText
        <5>1. links[1] \in LinkWords
          BY <1>3, <1>6, <4>2, ElementOfSeq
        <5> QED BY <5>1 DEF LinkWords, NoText
      <4> QED BY <1>4, <3>1, <4>1, <4>3
    <3>2. CASE ~(links # <<>> /\ \A k \in DOMAIN links : links[k] = links[1])
      <4>1. Logic(links) = NoText
        BY <3>2 DEF Logic
      <4>2. ASSUME links # <<>>, \A k \in DOMAIN links : links[k] = NoText PROVE FALSE
        <5>1. links[1] = NoText
          BY <1>6, <4>2
        <5> QED BY <3>2, <4>2, <5>1
      <4>3. sql'.where_logic = NoText /\ sql'.where_links = links
        BY <1>4, <4>1
      <4> QED BY <4>2, <4>3
    <3> QED BY <3>1, <3>2
  <2> QED BY <2>1, <2>2 DEF LinksFit
<1> QED BY <1>4, <1>5, <1>7, <1>8 DEF Clauses, Before, Remains

LEMMA InitInv == Init => IInv
<1> SUFFICES ASSUME Init PROVE IInv
  OBVIOUS
<1>1. tokens \in Statements /\ pos = 1 /\ pc = "start" /\ errors = FALSE /\ sql = NewSql
  BY DEF Init
<1>2. Position
  <2>1. pos \in 1 .. Len(tokens) + 1
    BY <1>1, TokensAreTexts
  <2> QED BY <1>1, <2>1 DEF Position, TypeOK
<1>3. DOMAIN sql = {"type", "table", "columns", "values", "col_defs", "set", "where",
                    "where_links", "where_logic", "order_by", "limit"}
  BY <1>1 DEF NewSql
<1>4. NothingYet
  BY <1>1 DEF NewSql, NothingYet
<1>5. Lists
  BY <1>3, <1>4, EmptySeq DEF Lists, NothingYet
<1>6. Clauses
  BY <1>1, <1>4 DEF Clauses, Before, Remains
<1> QED BY <1>2, <1>5, <1>6 DEF IInv

-----------------------------------------------------------------------------
LEMMA StepInv == IInv /\ [Next]_vars => IInv'
<1> SUFFICES ASSUME IInv, [Next]_vars PROVE IInv'
  OBVIOUS
<1>1. CASE UNCHANGED vars
  <2>1. tokens' = tokens /\ pos' = pos /\ pc' = pc /\ sql' = sql /\ errors' = errors
    BY <1>1 DEF vars
  <2>2. Position' /\ Lists'
    BY <2>1 DEF IInv, Position, TypeOK, Lists
  <2>3. InLoop => InLoop'
    BY <2>1 DEF InLoop, Follows, ConditionsFrom
  <2>4. BehindLoop => BehindLoop'
    BY <2>1 DEF BehindLoop, Follows, ConditionsFrom
  <2>5. /\ NothingYet => NothingYet'
        /\ LinksFit => LinksFit'
        /\ ConditionsAreTokens => ConditionsAreTokens'
    BY <2>1 DEF NothingYet, LinksFit, ConditionsAreTokens, ConditionsFrom
  <2>6. Clauses'
    BY <2>1, <2>3, <2>4, <2>5 DEF IInv, Clauses
  <2> QED BY <2>2, <2>6 DEF IInv
<1>2. ASSUME Step PROVE IInv'
  <2>1. Position'
    BY <1>2, PositionStep DEF IInv
  <2>2. Lists' /\ Clauses'
    <3>1. CASE Reading
      <4>1. Kept /\ pc \in Before /\ pc' \in Before \cup {"done"}
        BY <3>1, ReadingKeeps DEF IInv
      <4>2. NothingYet'
        BY <4>1 DEF IInv, Clauses, Kept, NothingYet
      <4> QED BY <4>1, <4>2 DEF IInv, Lists, Clauses, Kept, NothingYet, Before, Remains,
                                LinksFit, ConditionsAreTokens
    <3>2. CASE Turning
      BY <3>2, Enter
    <3>3. CASE Condition
      BY <3>3, Loop
    <3>4. CASE NoCondition
      BY <3>4, LoopEnds
    <3>5. CASE EndWhere
      BY <3>5, LinksAreCut
    <3>6. CASE Ending
      <4>1. Kept /\ pc \in Remains /\ pc' \in Remains
        BY <3>6, EndingKeeps DEF IInv
      <4>2. LinksFit' /\ ConditionsAreTokens'
        BY <4>1 DEF IInv, Clauses, Kept, Remains, LinksFit, ConditionsAreTokens, ConditionsFrom
      <4> QED BY <4>1, <4>2 DEF IInv, Lists, Clauses, Kept, Before, Remains
    <3> QED BY <1>2, <3>1, <3>2, <3>3, <3>4, <3>5, <3>6 DEF Step, Reading, Turning, Ending
  <2> QED BY <2>1, <2>2 DEF IInv
<1> QED BY <1>1, <1>2 DEF Next, Returned

(***************************************************************************)
(* The clauses of the parser hold together at every step of every loop of  *)
(* parser.c.                                                               *)
(***************************************************************************)
THEOREM ParserInvariant == Spec => []IInv
<1> QED BY InitInv, StepInv, PTL DEF Spec

(***************************************************************************)
(* No list of tokens takes the cursor of peek and advance past its end.    *)
(***************************************************************************)
THEOREM CursorStaysInList == Spec => []TypeOK
<1>1. IInv => TypeOK
  BY DEF IInv, Position
<1> QED BY <1>1, ParserInvariant, PTL

(***************************************************************************)
(* Behind parse_where there is one link fewer than conditions, whatever    *)
(* the statement was cut to, and where_logic agrees with the links.        *)
(***************************************************************************)
THEOREM LinksFitConditions == Spec => []LinksFit
<1>1. IInv => LinksFit
  <2> SUFFICES ASSUME IInv PROVE LinksFit
    OBVIOUS
  <2>1. CASE pc \in Before
    BY <2>1 DEF IInv, Clauses, NothingYet, LinksFit
  <2>2. CASE pc \in Remains
    BY <2>2 DEF IInv, Clauses
  <2>3. CASE pc \in {"where", "links"}
    BY <2>3 DEF LinksFit
  <2> QED BY <2>1, <2>2, <2>3 DEF IInv, Position, TypeOK, Before, Remains
<1> QED BY <1>1, ParserInvariant, PTL

(***************************************************************************)
(* The conditions and links handed to storage.c are the tokens behind a    *)
(* WHERE, each once and in order.                                          *)
(***************************************************************************)
THEOREM ConditionsAreTheTokens == Spec => []ConditionsAreTokens
<1>1. IInv => ConditionsAreTokens
  <2> SUFFICES ASSUME IInv, sql.where # <<>>
               PROVE  \E w \in 2 .. Len(tokens) : tokens[w - 1] = "WHERE" /\ ConditionsFrom(w)
    BY DEF ConditionsAreTokens
  <2>1. CASE pc \in Before
    BY <2>1 DEF IInv, Clauses, NothingYet
  <2>2. CASE pc \in Remains
    BY <2>2 DEF IInv, Clauses, ConditionsAreTokens
  <2>3. CASE pc \in {"where", "links"}
    <3>1. PICK w \in Nat : Follows(w)
      BY <2>3 DEF IInv, Clauses, InLoop, BehindLoop
    <3>2. 1 \in DOMAIN sql.where
      BY LenProperties, EmptySeq DEF IInv, Lists
    <3>3. w \in 2 .. Len(tokens)
      BY <3>1, <3>2, TokensAreTexts DEF Follows, ConditionsFrom, IInv, Position
    <3> QED BY <3>1, <3>3 DEF Follows
  <2> QED BY <2>1, <2>2, <2>3 DEF IInv, Position, TypeOK, Before, Remains
<1> QED BY <1>1, ParserInvariant, PTL

Files == Seq(STRING)
Lexemes == Seq(Files)

(***************************************************************************)
(* Elements of a text: where one ends, and the token it makes.             *)
(***************************************************************************)
\* e is the first place from q on that holds a character of S, or one behind the last.
First(text, q, S, e) ==
    /\ e \in q .. Len(text) + 1
    /\ \A k \in q .. e - 1 : text[k] \notin S
    /\ e <= Len(text) => text[e] \in S

\* FirstOf, and any other definition of the least such place.
LEMMA LeastIsFirst ==
    ASSUME NEW text \in Files, NEW q \in 1 .. Len(text) + 1, NEW S
    PROVE  First(text, q, S, Min({k \in q .. Len(text) : text[k] \in S} \cup {Len(text) + 1}))
<1> DEFINE N == Len(text)
           P == {k \in q .. N : text[k] \in S}
           R == P \cup {N + 1}
<1>1. N \in Nat
  BY DEF Files
<1>2. R \in SUBSET Int /\ R # {}
  BY <1>1
<1>3. IsFiniteSet(R)
  <2>1. IsFiniteSet(q .. N)
    BY <1>1, FS_Interval
  <2>2. IsFiniteSet(P)
    BY <2>1, FS_Subset
  <2> QED
    BY <2>2, FS_AddElement
<1> DEFINE e == Min(R)
<1>4. e \in R /\ \A x \in R : e <= x
  BY <1>2, <1>3, MinIsLeast
<1> HIDE DEF e
<1>5. e \in q .. N + 1 /\ (e <= N => text[e] \in S)
  BY <1>1, <1>4
<1>6. ASSUME NEW k \in q .. e - 1, text[k] \in S PROVE FALSE
  <2>1. k \in R
    BY <1>1, <1>5, <1>6
  <2> QED
    BY <1>4, <1>5, <1>6, <2>1
<1>7. First(text, q, S, e)
  BY <1>5, <1>6 DEF First
<1> QED
  BY <1>7 DEF e

\* There is but one.
LEMMA FirstIsUnique ==
    ASSUME NEW text \in Files, NEW q \in 1 .. Len(text) + 1, NEW S, NEW d, NEW e,
           First(text, q, S, d), First(text, q, S, e)
    PROVE  d = e
<1>1. Len(text) \in Nat
  BY DEF Files
<1>2. d \in q .. Len(text) + 1 /\ e \in q .. Len(text) + 1
  BY DEF First
<1>3. ~(d < e)
  <2> SUFFICES ASSUME d < e PROVE FALSE
    OBVIOUS
  <2>1. d \in q .. e - 1 /\ d <= Len(text)
    BY <1>1, <1>2
  <2> QED
    BY <2>1 DEF First
<1>4. ~(e < d)
  <2> SUFFICES ASSUME e < d PROVE FALSE
    OBVIOUS
  <2>1. e \in q .. d - 1 /\ e <= Len(text)
    BY <1>1, <1>2
  <2> QED
    BY <2>1 DEF First
<1> QED
  BY <1>1, <1>2, <1>3, <1>4

\* FirstOf is it.
LEMMA FirstOfIs ==
    ASSUME NEW text \in Files, NEW q \in 1 .. Len(text) + 1, NEW S
    PROVE  First(text, q, S, FirstOf(text, q, S))
BY LeastIsFirst DEF FirstOf

\* Where a word ends.
LEMMA WordEnds ==
    ASSUME NEW text \in Files, NEW q \in 1 .. Len(text) + 1, NEW S
    PROVE  Min({k \in q .. Len(text) : text[k] \notin S} \cup {Len(text) + 1}) = FirstOf(text, q, STRING \ S)
<1>1. {k \in q .. Len(text) : text[k] \notin S} = {k \in q .. Len(text) : text[k] \in STRING \ S}
  BY DEF Files
<1> QED
  BY <1>1 DEF FirstOf

IsPair(text, k) == text[k] \in Compares /\ At2(text, k, "=")
IsWord(text, k) == text[k] \in Letters /\ ~IsComment(text, k)
IsSingle(text, k) == text[k] \notin Quotes \cup Letters /\ ~IsPair(text, k)

\* The element that starts at k ends before e and makes the tokens `made'.
IsElement(text, k, e, made) ==
    \/ IsComment(text, k) /\ First(text, k, {"\n"}, e) /\ made = <<>>
    \/ text[k] \in Quotes /\ First(text, k + 1, {text[k]}, e - 1) /\ made = <<SubSeq(text, k + 1, e - 2)>>
    \/ IsPair(text, k) /\ e = k + 2 /\ made = <<SubSeq(text, k, e - 1)>>
    \/ IsWord(text, k) /\ First(text, k, STRING \ Letters, e) /\ made = <<SubSeq(text, k, e - 1)>>
    \/ /\ IsSingle(text, k) /\ e = k + 1
       /\ made = IF text[k] \in Singles \cup Compares THEN <<SubSeq(text, k, e - 1)>> ELSE <<>>

\* No letter ends a word, opens a text or stands alone.
LEMMA LettersAreNoMarks ==
    Letters \cap (Blanks \cup Quotes \cup Singles \cup Compares) = {}
BY WordsAssumption DEF Letters, Blanks, Quotes, Singles, Compares

\* A place starts one kind of element.
LEMMA KindsDiffer ==
    ASSUME NEW text, NEW k
    PROVE  /\ IsComment(text, k) \/ text[k] \in Quotes \/ IsPair(text, k) \/ IsWord(text, k) \/ IsSingle(text, k)
           /\ IsComment(text, k) =>
                text[k] \notin Quotes \cup Singles \cup Compares /\ ~IsPair(text, k) /\ ~IsWord(text, k) /\ ~IsSingle(text, k)
           /\ text[k] \in Quotes =>
                text[k] \notin Singles \cup Compares \cup Letters /\ ~IsPair(text, k) /\ ~IsWord(text, k) /\ ~IsSingle(text, k)
           /\ IsPair(text, k) => text[k] \in Compares /\ ~IsWord(text, k) /\ ~IsSingle(text, k)
           /\ IsWord(text, k) => text[k] \in Letters /\ ~IsSingle(text, k)
           /\ IsSingle(text, k) => text[k] \notin Letters
<1>1. "-" \in Letters
  BY DEF Letters
<1> QED
  BY <1>1, LettersAreNoMarks DEF IsPair, IsWord, IsSingle, IsComment, Quotes, Singles, Compares

\* EndOf and Made, without their order of cases.
LEMMA ElementIs ==
    ASSUME NEW text \in Files, NEW k \in 1 .. Len(text)
    PROVE  IsElement(text, k, EndOf(text, k), Made(text, k)) /\ EndOf(text, k) \in Int
<1>1. Len(text) \in Nat /\ k \in 1 .. Len(text) + 1 /\ k + 1 \in 1 .. Len(text) + 1
  BY DEF Files
<1> DEFINE e == EndOf(text, k)
           m == Made(text, k)
<1>2. CASE IsComment(text, k)
  <2>1. e = FirstOf(text, k, {"\n"})
    BY <1>2, KindsDiffer DEF EndOf, IsPair, IsWord
  <2>2. m = <<>>
    BY <1>2, KindsDiffer DEF Made, IsPair, IsWord
  <2> HIDE DEF e, m
  <2>3. First(text, k, {"\n"}, e)
    BY <1>1, <2>1, FirstOfIs
  <2> QED
    BY <1>1, <1>2, <2>2, <2>3 DEF IsElement, First, e, m
<1>3. CASE text[k] \in Quotes
  <2> DEFINE x == FirstOf(text, k + 1, {text[k]})
  <2>0. ~IsComment(text, k) /\ ~IsPair(text, k) /\ ~IsWord(text, k) /\ text[k] \notin Singles \cup Compares \cup Letters
    BY <1>3, KindsDiffer
  <2>1. e = x + 1
    BY <1>3, <2>0 DEF EndOf, IsPair, IsWord
  <2>2. m = <<SubSeq(text, k + 1, x - 1)>>
    BY <1>3, <2>0 DEF Made
  <2>3. First(text, k + 1, {text[k]}, x)
    BY <1>1, FirstOfIs
  <2> HIDE DEF e, m, x
  <2>4. x \in Int
    BY <1>1, <2>3 DEF First
  <2>5. e - 1 = x /\ e - 2 = x - 1
    BY <2>1, <2>4
  <2> QED
    BY <1>3, <2>1, <2>2, <2>3, <2>4, <2>5 DEF IsElement, e, m
<1>4. CASE IsPair(text, k)
  <2>0. ~IsComment(text, k) /\ text[k] \notin Quotes /\ ~IsWord(text, k) /\ text[k] \in Compares
    BY <1>4, KindsDiffer
  <2>1. e = k + 2
    BY <1>4, <2>0 DEF EndOf, IsPair, IsWord
  <2>2. m = <<SubSeq(text, k, e - 1)>>
    BY <1>4, <2>0 DEF Made
  <2> HIDE DEF e, m
  <2> QED
    BY <1>4, <2>1, <2>2 DEF IsElement, e, m
<1>5. CASE IsWord(text, k)
  <2>0. ~IsComment(text, k) /\ text[k] \notin Quotes /\ ~IsPair(text, k) /\ text[k] \in Letters
    BY <1>5, KindsDiffer
  <2>1. e = FirstOf(text, k, STRING \ Letters)
    BY <1>1, <1>5, <2>0, WordEnds DEF EndOf, IsPair, IsWord
  <2>2. m = <<SubSeq(text, k, e - 1)>>
    BY <1>5, <2>0 DEF Made
  <2> HIDE DEF e, m
  <2>3. First(text, k, STRING \ Letters, e)
    BY <1>1, <2>1, FirstOfIs
  <2> QED
    BY <1>1, <1>5, <2>2, <2>3 DEF IsElement, First, e, m
<1>6. CASE IsSingle(text, k)
  <2>0. ~IsComment(text, k) /\ text[k] \notin Quotes /\ ~IsPair(text, k) /\ ~IsWord(text, k) /\ text[k] \notin Letters
    BY <1>6, KindsDiffer
  <2>1. e = k + 1
    BY <1>6, <2>0 DEF EndOf, IsPair, IsWord
  <2>2. m = IF text[k] \in Singles \cup Compares THEN <<SubSeq(text, k, e - 1)>> ELSE <<>>
    BY <1>6, <2>0 DEF Made
  <2> HIDE DEF e, m
  <2> QED
    BY <1>6, <2>1, <2>2 DEF IsElement, e, m
<1> QED
  BY <1>2, <1>3, <1>4, <1>5, <1>6, KindsDiffer DEF e, m

\* One end and one token make an element of a place.
LEMMA ElementIsUnique ==
    ASSUME NEW text \in Files, NEW k \in 1 .. Len(text), NEW d \in Int, NEW e \in Int, NEW l, NEW m,
           IsElement(text, k, d, l), IsElement(text, k, e, m)
    PROVE  d = e /\ l = m
<1>1. Len(text) \in Nat /\ k \in 1 .. Len(text) + 1 /\ k + 1 \in 1 .. Len(text) + 1
  BY DEF Files
<1>2. CASE IsComment(text, k)
  <2>1. /\ First(text, k, {"\n"}, d) /\ l = <<>>
        /\ First(text, k, {"\n"}, e) /\ m = <<>>
    BY <1>2, KindsDiffer DEF IsElement
  <2> QED
    BY <1>1, <2>1, FirstIsUnique
<1>3. CASE text[k] \in Quotes
  <2>1. /\ First(text, k + 1, {text[k]}, d - 1) /\ l = <<SubSeq(text, k + 1, d - 2)>>
        /\ First(text, k + 1, {text[k]}, e - 1) /\ m = <<SubSeq(text, k + 1, e - 2)>>
    BY <1>3, KindsDiffer DEF IsElement
  <2>2. d - 1 = e - 1
    BY <1>1, <2>1, FirstIsUnique
  <2>3. d = e
    BY <2>2
  <2> QED
    BY <2>1, <2>3
<1>4. CASE IsPair(text, k)
  BY <1>4, KindsDiffer DEF IsElement
<1>5. CASE IsWord(text, k)
  <2>1. /\ First(text, k, STRING \ Letters, d) /\ l = <<SubSeq(text, k, d - 1)>>
        /\ First(text, k, STRING \ Letters, e) /\ m = <<SubSeq(text, k, e - 1)>>
    BY <1>5, KindsDiffer DEF IsElement
  <2>2. d = e
    BY <1>1, <2>1, FirstIsUnique
  <2> QED
    BY <2>1, <2>2
<1>6. CASE IsSingle(text, k)
  BY <1>6, KindsDiffer DEF IsElement
<1> QED
  BY <1>2, <1>3, <1>4, <1>5, <1>6, KindsDiffer

\* An element has a character, and only one that is a quoted text can end
\* behind the place behind the last.
LEMMA ElementType ==
    ASSUME NEW text \in Files, NEW k \in 1 .. Len(text)
    PROVE  /\ EndOf(text, k) \in k + 1 .. Len(text) + 2
           /\ text[k] \notin Quotes => EndOf(text, k) <= Len(text) + 1
           /\ Made(text, k) \in Lexemes
<1> DEFINE N == Len(text)
           e == EndOf(text, k)
           m == Made(text, k)
<1>1. N \in Nat /\ (\A i \in 1 .. N : text[i] \in STRING)
  BY DEF Files
<1>2. IsElement(text, k, e, m) /\ e \in Int
  BY ElementIs
<1> HIDE DEF e, m
<1>3. e \in k + 1 .. N + 2 /\ (text[k] \notin Quotes => e <= N + 1)
  <2>1. CASE IsComment(text, k)
    <3>1. First(text, k, {"\n"}, e) /\ text[k] = "-"
      BY <1>2, <2>1, KindsDiffer DEF IsElement, IsComment
    <3>2. e \in k .. N + 1 /\ (e <= N => text[e] = "\n")
      BY <3>1 DEF First
    <3>3. e # k
      BY <1>1, <3>1, <3>2
    <3> QED
      BY <1>1, <3>2, <3>3
  <2>2. CASE text[k] \in Quotes
    <3>1. First(text, k + 1, {text[k]}, e - 1)
      BY <1>2, <2>2, KindsDiffer DEF IsElement
    <3> QED
      BY <1>1, <1>2, <2>2, <3>1 DEF First
  <2>3. CASE IsPair(text, k)
    <3>1. e = k + 2 /\ k < N
      BY <1>2, <2>3, KindsDiffer DEF IsElement, IsPair, At2
    <3> QED
      BY <1>1, <3>1
  <2>4. CASE IsWord(text, k)
    <3>1. First(text, k, STRING \ Letters, e) /\ text[k] \in Letters
      BY <1>2, <2>4, KindsDiffer DEF IsElement
    <3>2. e \in k .. N + 1 /\ (e <= N => text[e] \notin Letters)
      BY <3>1 DEF First
    <3>3. e # k
      BY <1>1, <3>1, <3>2
    <3> QED
      BY <1>1, <3>2, <3>3
  <2>5. CASE IsSingle(text, k)
    <3>1. e = k + 1
      BY <1>2, <2>5, KindsDiffer DEF IsElement
    <3> QED
      BY <1>1, <3>1
  <2> QED
    BY <2>1, <2>2, <2>3, <2>4, <2>5, KindsDiffer
<1>4. \A a, b \in Int : 1 <= a /\ b <= N => <<SubSeq(text, a, b)>> \in Lexemes
  <2> SUFFICES ASSUME NEW a \in Int, NEW b \in Int, 1 <= a, b <= N PROVE <<SubSeq(text, a, b)>> \in Lexemes
    OBVIOUS
  <2>1. SubSeq(text, a, b) \in Files
    BY <1>1 DEF Files
  <2> QED
    BY <2>1 DEF Lexemes
<1>5. <<>> \in Lexemes
  BY DEF Lexemes
<1>6. m \in Lexemes
  <2>1. CASE text[k] \in Quotes
    <3>1. m = <<SubSeq(text, k + 1, e - 2)>>
      BY <1>2, <2>1, KindsDiffer DEF IsElement
    <3>2. k + 1 \in Int /\ e - 2 \in Int /\ 1 <= k + 1 /\ e - 2 <= N
      BY <1>1, <1>3
    <3> QED
      BY <1>4, <3>1, <3>2
  <2>2. CASE text[k] \notin Quotes
    <3>1. m = <<>> \/ m = <<SubSeq(text, k, e - 1)>>
      BY <1>2, <2>2 DEF IsElement
    <3>2. k \in Int /\ e - 1 \in Int /\ 1 <= k /\ e - 1 <= N
      BY <1>1, <1>3, <2>2
    <3> QED
      BY <1>4, <1>5, <3>1, <3>2
  <2> QED
    BY <2>1, <2>2
<1> QED
  BY <1>3, <1>6 DEF e, m

-----------------------------------------------------------------------------
(***************************************************************************)
(* Elements of a part of a text: they are those of the text.               *)
(***************************************************************************)
\* A part of a text, and where its characters stand.
LEMMA PartIs ==
    ASSUME NEW text \in Files, NEW a \in 1 .. Len(text) + 1, NEW b \in a - 1 .. Len(text)
    PROVE  LET part == SubSeq(text, a, b)
           IN  /\ part \in Files /\ Len(part) = b - a + 1
               /\ \A k \in a .. b : part[k - a + 1] = text[k]
<1> DEFINE part == SubSeq(text, a, b)
<1>1. Len(text) \in Nat /\ (\A i \in 1 .. Len(text) : text[i] \in STRING) /\ a \in Int /\ b \in Int
  BY DEF Files
<1>2. part \in Files /\ Len(part) = b - a + 1
  BY <1>1 DEF Files
<1>3. ASSUME NEW k \in a .. b PROVE part[k - a + 1] = text[k]
  <2>1. k - a + 1 \in 1 .. b - a + 1 /\ a + (k - a + 1) - 1 = k
    BY <1>1
  <2>2. \A i \in 1 .. b - a + 1 : part[i] = text[a + i - 1]
    BY <1>1 DEF Files
  <2> QED
    BY <2>1, <2>2
<1> QED
  BY <1>2, <1>3

\* A part of it is a part of the text.
LEMMA PartOfPart ==
    ASSUME NEW text \in Files, NEW a \in 1 .. Len(text) + 1, NEW b \in a - 1 .. Len(text),
           NEW x \in Int, NEW y \in Int, a <= x, y <= b
    PROVE  SubSeq(SubSeq(text, a, b), x - a + 1, y - a + 1) = SubSeq(text, x, y)
<1> DEFINE part == SubSeq(text, a, b)
           r == SubSeq(part, x - a + 1, y - a + 1)
           s == SubSeq(text, x, y)
<1>1. Len(text) \in Nat /\ a \in Int /\ b \in Int /\ b <= Len(text) /\ 1 <= a
  BY DEF Files
<1>2. part \in Files /\ Len(part) = b - a + 1 /\ \A k \in a .. b : part[k - a + 1] = text[k]
  BY PartIs
<1>3. s \in Files /\ DOMAIN s = 1 .. y - x + 1 /\ \A i \in 1 .. y - x + 1 : s[i] = text[x + i - 1]
  BY <1>1 DEF Files
<1> HIDE DEF part
<1>4. r \in Files /\ DOMAIN r = 1 .. y - x + 1 /\ \A i \in 1 .. y - x + 1 : r[i] = part[x - a + 1 + i - 1]
  BY <1>1, <1>2 DEF Files
<1>5. \A i \in 1 .. y - x + 1 : x + i - 1 \in a .. b /\ x + i - 1 - a + 1 = x - a + 1 + i - 1
  BY <1>1
<1>6. \A i \in 1 .. y - x + 1 : r[i] = s[i]
  BY <1>2, <1>3, <1>4, <1>5
<1> HIDE DEF r, s
<1>7. r = s
  BY <1>3, <1>4, <1>6 DEF Files
<1> QED
  BY <1>7 DEF r, s, part

\* A first place inside a part is one of the part.
LEMMA FirstOfPart ==
    ASSUME NEW text \in Files, NEW a \in 1 .. Len(text) + 1, NEW b \in a - 1 .. Len(text),
           NEW q \in a .. b + 1, NEW S, NEW e \in Int, First(text, q, S, e), e <= b + 1
    PROVE  First(SubSeq(text, a, b), q - a + 1, S, e - a + 1)
<1> DEFINE part == SubSeq(text, a, b)
           c == e - a + 1
<1>1. Len(text) \in Nat /\ a \in Int /\ b \in Int /\ b <= Len(text) /\ 1 <= a /\ q \in Int
  BY DEF Files
<1>2. part \in Files /\ Len(part) = b - a + 1 /\ \A k \in a .. b : part[k - a + 1] = text[k]
  BY PartIs
<1> HIDE DEF part
<1>3. e \in q .. b + 1 /\ (\A k \in q .. e - 1 : text[k] \notin S) /\ (e <= b => text[e] \in S)
  BY <1>1 DEF First
<1>4. c \in q - a + 1 .. Len(part) + 1
  BY <1>1, <1>2, <1>3
<1>5. ASSUME NEW i \in q - a + 1 .. c - 1 PROVE part[i] \notin S
  <2> DEFINE k == i + a - 1
  <2>1. k \in q .. e - 1 /\ k \in a .. b /\ k - a + 1 = i
    BY <1>1, <1>3
  <2> QED
    BY <1>2, <1>3, <2>1
<1>6. c <= Len(part) => part[c] \in S
  <2> SUFFICES ASSUME c <= Len(part) PROVE part[c] \in S
    OBVIOUS
  <2>1. e \in a .. b
    BY <1>1, <1>2, <1>3
  <2> QED
    BY <1>2, <1>3, <2>1
<1> QED
  BY <1>4, <1>5, <1>6 DEF First, part

\* An element that ends inside a part is an element of the part.
LEMMA ElementOfPart ==
    ASSUME NEW text \in Files, NEW a \in 1 .. Len(text) + 1, NEW b \in a - 1 .. Len(text),
           NEW k \in a .. b, EndOf(text, k) <= b + 1 \/ b = Len(text)
    PROVE  LET part == SubSeq(text, a, b)
           IN  /\ EndOf(part, k - a + 1) = EndOf(text, k) - a + 1
               /\ Made(part, k - a + 1) = Made(text, k)
<1> DEFINE N == Len(text)
           part == SubSeq(text, a, b)
           e == EndOf(text, k)
           m == Made(text, k)
           i == k - a + 1
           d == e - a + 1
<1>1. N \in Nat /\ a \in Int /\ b \in Int /\ k \in Int /\ b <= N /\ 1 <= a /\ a <= k /\ k <= b
      /\ k \in 1 .. N /\ k + 1 \in a .. b + 1 /\ k \in a .. b + 1
  BY DEF Files
<1>2. part \in Files /\ Len(part) = b - a + 1 /\ \A j \in a .. b : part[j - a + 1] = text[j]
  BY PartIs
<1>3. IsElement(text, k, e, m) /\ e \in k + 1 .. N + 2 /\ (text[k] \notin Quotes => e <= N + 1)
  BY <1>1, ElementIs, ElementType
<1>4. (text[k] \notin Quotes => e <= b + 1) /\ (text[k] \in Quotes => e - 1 <= b + 1)
  <2> HIDE DEF e, m
  <2> QED
    BY <1>1, <1>3 DEF e
<1>5. \A x, y \in Int : a <= x /\ y <= b => SubSeq(part, x - a + 1, y - a + 1) = SubSeq(text, x, y)
  BY PartOfPart
<1>6. \A S, x : \A q \in a .. b + 1 : x \in Int /\ First(text, q, S, x) /\ x <= b + 1 => First(part, q - a + 1, S, x - a + 1)
  BY FirstOfPart
<1> HIDE DEF e, m, part
<1>7. part[i] = text[k] /\ i \in 1 .. Len(part) /\ d \in Int /\ i \in Int /\ e \in Int
  BY <1>1, <1>2, <1>3
<1>8. \A c : At2(part, i, c) <=> k < b /\ text[k + 1] = c
  <2>1. i < Len(part) <=> k < b
    BY <1>1, <1>2
  <2>2. k < b => k + 1 \in a .. b /\ (k + 1) - a + 1 = i + 1
    BY <1>1
  <2>3. k < b => part[i + 1] = text[k + 1]
    BY <1>2, <2>2
  <2> QED
    BY <2>1, <2>3 DEF At2
<1>9. IsComment(text, k) <=> IsComment(part, i)
  <2>1. ASSUME IsComment(text, k) PROVE k < b
    <3>1. First(text, k, {"\n"}, e) /\ text[k] = "-" /\ text[k + 1] = "-" /\ k < N
      BY <1>3, <2>1, KindsDiffer DEF IsElement, IsComment, At2
    <3>2. text[e] = "\n" \/ e = N + 1
      BY <1>1, <1>7, <3>1 DEF First
    <3>3. e # k + 1
      BY <1>1, <3>1, <3>2
    <3>4. text[k] \notin Quotes
      BY <3>1 DEF Quotes
    <3> QED
      BY <1>1, <1>3, <1>4, <3>3, <3>4
  <2>2. At2(part, i, "-") <=> k < b /\ text[k + 1] = "-"
    BY <1>8
  <2>3. At2(text, k, "-") <=> k < N /\ text[k + 1] = "-"
    BY DEF At2
  <2>4. k < b => k < N
    BY <1>1
  <2> QED
    BY <1>7, <2>1, <2>2, <2>3, <2>4 DEF IsComment
<1>10. IsPair(text, k) <=> IsPair(part, i)
  <2>1. ASSUME IsPair(text, k) PROVE k < b
    <3>1. e = k + 2 /\ text[k] \notin Quotes
      BY <1>3, <2>1, KindsDiffer DEF IsElement
    <3> QED
      BY <1>1, <1>4, <3>1
  <2>2. At2(part, i, "=") <=> k < b /\ text[k + 1] = "="
    BY <1>8
  <2>3. At2(text, k, "=") <=> k < N /\ text[k + 1] = "="
    BY DEF At2
  <2>4. k < b => k < N
    BY <1>1
  <2> QED
    BY <1>7, <2>1, <2>2, <2>3, <2>4 DEF IsPair
<1>11. IsElement(part, i, d, m)
  <2>1. CASE IsComment(text, k)
    <3>1. First(text, k, {"\n"}, e) /\ m = <<>> /\ text[k] \notin Quotes
      BY <1>3, <2>1, KindsDiffer DEF IsElement
    <3>2. First(part, i, {"\n"}, d)
      BY <1>1, <1>4, <1>6, <1>7, <3>1
    <3> QED
      BY <1>9, <2>1, <3>1, <3>2 DEF IsElement
  <2>2. CASE text[k] \in Quotes
    <3>1. First(text, k + 1, {text[k]}, e - 1) /\ m = <<SubSeq(text, k + 1, e - 2)>>
      BY <1>3, <2>2, KindsDiffer DEF IsElement
    <3>2. /\ (k + 1) - a + 1 = i + 1 /\ e - 1 - a + 1 = d - 1 /\ e - 2 - a + 1 = d - 2
          /\ e - 1 \in Int /\ e - 2 \in Int /\ k + 1 \in Int /\ a <= k + 1
          /\ e - 1 <= b + 1 => e - 2 <= b
      <4>1. e \in Int /\ k \in Int /\ a \in Int /\ b \in Int /\ a <= k
        BY <1>1, <1>7
      <4>2. /\ (k + 1) - a + 1 = i + 1 /\ e - 1 - a + 1 = d - 1 /\ e - 2 - a + 1 = d - 2
        BY <4>1
      <4> HIDE DEF d, i
      <4> QED
        BY <4>1, <4>2
    <3>3. First(part, (k + 1) - a + 1, {text[k]}, e - 1 - a + 1)
      BY <1>1, <1>4, <1>6, <2>2, <3>1, <3>2
    <3>4. SubSeq(part, (k + 1) - a + 1, e - 2 - a + 1) = SubSeq(text, k + 1, e - 2)
      <4> DEFINE x == k + 1
                 y == e - 2
      <4>1. x \in Int /\ y \in Int /\ a <= x /\ y <= b
        BY <1>4, <2>2, <3>2
      <4> HIDE DEF x, y
      <4>2. SubSeq(part, x - a + 1, y - a + 1) = SubSeq(text, x, y)
        BY <1>5, <4>1
      <4> QED
        BY <4>2 DEF x, y
    <3> HIDE DEF i, d
    <3> QED
      BY <1>7, <2>2, <3>1, <3>2, <3>3, <3>4 DEF IsElement
  <2>3. CASE IsPair(text, k) \/ IsWord(text, k) \/ IsSingle(text, k)
    <3>1. text[k] \notin Quotes
      BY <2>3, KindsDiffer
    <3>2. k - a + 1 = i /\ e - 1 - a + 1 = d - 1 /\ e - 1 \in Int /\ (e <= b + 1 => e - 1 <= b)
      <4>1. e \in Int /\ a \in Int /\ b \in Int
        BY <1>1, <1>7
      <4> QED
        BY <4>1
    <3>3. SubSeq(part, i, d - 1) = SubSeq(text, k, e - 1)
      <4>1. SubSeq(part, k - a + 1, e - 1 - a + 1) = SubSeq(text, k, e - 1)
        BY <1>1, <1>4, <1>5, <3>1, <3>2
      <4> QED
        BY <3>2, <4>1
    <3>4. CASE IsPair(text, k)
      <4>1. e = k + 2 /\ m = <<SubSeq(text, k, e - 1)>>
        BY <1>3, <3>4, KindsDiffer DEF IsElement
      <4>2. d = i + 2
        BY <1>1, <4>1
      <4> QED
        BY <1>10, <3>3, <3>4, <4>1, <4>2 DEF IsElement
    <3>5. CASE IsWord(text, k)
      <4>1. First(text, k, STRING \ Letters, e) /\ m = <<SubSeq(text, k, e - 1)>>
        BY <1>3, <3>5, KindsDiffer DEF IsElement
      <4>2. First(part, i, STRING \ Letters, d)
        BY <1>1, <1>4, <1>6, <1>7, <3>1, <4>1
      <4>3. IsWord(part, i)
        BY <1>7, <1>9, <3>5 DEF IsWord
      <4> QED
        BY <3>3, <4>1, <4>2, <4>3 DEF IsElement
    <3>6. CASE IsSingle(text, k)
      <4>1. e = k + 1 /\ m = IF text[k] \in Singles \cup Compares THEN <<SubSeq(text, k, e - 1)>> ELSE <<>>
        BY <1>3, <3>6, KindsDiffer DEF IsElement
      <4>2. d = i + 1 /\ IsSingle(part, i)
        BY <1>1, <1>7, <1>10, <3>6, <4>1 DEF IsSingle
      <4> QED
        BY <1>7, <3>3, <4>1, <4>2 DEF IsElement
    <3> QED
      BY <2>3, <3>4, <3>5, <3>6
  <2> QED
    BY <2>1, <2>2, <2>3, KindsDiffer
<1>12. IsElement(part, i, EndOf(part, i), Made(part, i)) /\ EndOf(part, i) \in Int
  BY <1>2, <1>7, ElementIs
<1>13. EndOf(part, i) = d /\ Made(part, i) = m
  BY <1>2, <1>7, <1>11, <1>12, ElementIsUnique
<1> QED
  BY <1>13 DEF e, m, part

-----------------------------------------------------------------------------
(***************************************************************************)
(* The tokens and the comments from a place on, as functions of the place. *)
(***************************************************************************)
TokensFrom(text) ==
    CHOOSE f : f = [k \in 1 .. Len(text) + 2 |->
                      IF k > Len(text) THEN <<>> ELSE Made(text, k) \o f[EndOf(text, k)]]

CommentsFrom(text) ==
    CHOOSE f : f = [k \in 1 .. Len(text) + 2 |->
                      IF k > Len(text) THEN {}
                      ELSE (IF IsComment(text, k) THEN {SubSeq(text, k, EndOf(text, k) - 1)} ELSE {})
                           \cup f[EndOf(text, k)]]

\* What holds at a place when it holds at all later ones holds everywhere.
LEMMA FromTheEnd ==
    ASSUME NEW N \in Nat, NEW S, N + 1 \in S, N + 2 \in S,
           \A k \in 1 .. N : (\A j \in k + 1 .. N + 2 : j \in S) => k \in S
    PROVE  \A k \in 1 .. N + 2 : k \in S
<1> DEFINE Good == {n \in 0 .. N : \A j \in N + 1 - n .. N + 2 : j \in S}
<1>1. 0 \in Good
  <2>1. \A j \in N + 1 - 0 .. N + 2 : j = N + 1 \/ j = N + 2
    OBVIOUS
  <2> QED
    BY <2>1
<1>2. ASSUME NEW n \in 0 .. N - 1, n \in Good PROVE n + 1 \in Good
  <2> DEFINE k == N - n
  <2>1. /\ k \in 1 .. N /\ n + 1 \in 0 .. N
        /\ k + 1 = N + 1 - n /\ N + 1 - (n + 1) = k
        /\ \A j \in k .. N + 2 : j = k \/ j \in k + 1 .. N + 2
    OBVIOUS
  <2>2. \A j \in k + 1 .. N + 2 : j \in S
    BY <1>2, <2>1
  <2>3. k \in S
    BY <2>1, <2>2
  <2>4. \A j \in k .. N + 2 : j \in S
    BY <2>1, <2>2, <2>3
  <2> QED
    BY <2>1, <2>4
<1> HIDE DEF Good
<1>3. \A n \in 0 .. N : n \in Good
  BY <1>1, <1>2, UpTo
<1>4. N \in Good
  BY <1>3
<1> QED
  BY <1>4 DEF Good

\* A function of the place that is given by its value at a later one.
Backward(f, next, op, S, z, N) ==
    /\ f \in [1 .. N + 2 -> S]
    /\ \A k \in 1 .. N + 2 : f[k] = IF k > N THEN z ELSE op[k][f[next[k]]]

LEMMA Backwards ==
    ASSUME NEW N \in Nat, NEW S, NEW z \in S, NEW next \in [1 .. N -> Int],
           \A k \in 1 .. N : next[k] \in k + 1 .. N + 2, NEW op \in [1 .. N -> [S -> S]]
    PROVE  \E f : Backward(f, next, op, S, z, N)
<1> DEFINE From(f, a) == \A k \in a .. N + 2 : f[k] = IF k > N THEN z ELSE op[k][f[next[k]]]
           Good == {n \in 0 .. N : \E f \in [1 .. N + 2 -> S] : From(f, N + 1 - n)}
<1>1. 0 \in Good
  <2> DEFINE f == [k \in 1 .. N + 2 |-> z]
  <2>1. \A k \in N + 1 - 0 .. N + 2 : k > N /\ k \in 1 .. N + 2
    OBVIOUS
  <2>2. f \in [1 .. N + 2 -> S] /\ From(f, N + 1 - 0)
    BY <2>1
  <2> QED
    BY <2>2
<1>2. ASSUME NEW n \in 0 .. N - 1, n \in Good PROVE n + 1 \in Good
  <2> DEFINE i == N - n
  <2>1. /\ i \in 1 .. N /\ n + 1 \in 0 .. N /\ ~(i > N) /\ i \in 1 .. N + 2
        /\ i + 1 = N + 1 - n /\ N + 1 - (n + 1) = i
        /\ \A k \in i .. N + 2 : k = i \/ k \in i + 1 .. N + 2
        /\ \A k \in i + 1 .. N + 2 : k # i /\ k \in 1 .. N + 2
        /\ \A k \in i + 1 .. N + 2 : k > N \/ k \in 1 .. N
    OBVIOUS
  <2>2. PICK f \in [1 .. N + 2 -> S] : From(f, i + 1)
    BY <1>2, <2>1
  <2> HIDE DEF i
  <2> DEFINE g == [k \in 1 .. N + 2 |-> IF k = i THEN op[i][f[next[i]]] ELSE f[k]]
  <2>3. next[i] \in i + 1 .. N + 2 /\ \A k \in i + 1 .. N + 2 : k \in 1 .. N => next[k] \in i + 1 .. N + 2
    <3>1. \A k \in i + 1 .. N + 2 : \A x \in k + 1 .. N + 2 : x \in i + 1 .. N + 2
      BY <2>1
    <3> QED
      BY <2>1, <3>1
  <2>4. op[i][f[next[i]]] \in S
    BY <2>1, <2>3
  <2>5. g \in [1 .. N + 2 -> S]
    BY <2>4
  <2>6. g[i] = op[i][f[next[i]]] /\ \A k \in i + 1 .. N + 2 : g[k] = f[k]
    BY <2>1
  <2> HIDE DEF g
  <2>7. From(g, i)
    <3> SUFFICES ASSUME NEW k \in i .. N + 2 PROVE g[k] = IF k > N THEN z ELSE op[k][g[next[k]]]
      OBVIOUS
    <3>1. CASE k = i
      BY <2>1, <2>3, <2>6, <3>1
    <3>2. CASE k \in i + 1 .. N + 2
      BY <2>1, <2>2, <2>3, <2>6, <3>2
    <3> QED
      BY <2>1, <3>1, <3>2
  <2> QED
    BY <2>1, <2>5, <2>7
<1> HIDE DEF Good
<1>3. \A n \in 0 .. N : n \in Good
  BY <1>1, <1>2, UpTo
<1>4. N \in Good /\ N + 1 - N = 1
  BY <1>3
<1> QED
  BY <1>4 DEF Good, Backward

\* The tokens from each place on.
LEMMA TokensFromIs ==
    ASSUME NEW text \in Files
    PROVE  LET f == TokensFrom(text)
               N == Len(text)
           IN  /\ f \in [1 .. N + 2 -> Lexemes]
               /\ f[N + 1] = <<>> /\ f[N + 2] = <<>>
               /\ \A k \in 1 .. N : f[k] = Made(text, k) \o f[EndOf(text, k)]
               /\ Tokens(text) = f[1]
<1> DEFINE N == Len(text)
           Is(f) == f = [k \in 1 .. N + 2 |-> IF k > N THEN <<>> ELSE Made(text, k) \o f[EndOf(text, k)]]
           next == [k \in 1 .. N |-> EndOf(text, k)]
           op == [k \in 1 .. N |-> [s \in Lexemes |-> Made(text, k) \o s]]
           f == TokensFrom(text)
<1>1. N \in Nat /\ <<>> \in Lexemes
  BY DEF Files, Lexemes
<1>2. \A k \in 1 .. N : EndOf(text, k) \in k + 1 .. N + 2 /\ Made(text, k) \in Lexemes
  BY ElementType
<1>3. \A k \in 1 .. N : \A s \in Lexemes : Made(text, k) \o s \in Lexemes
  BY <1>2 DEF Lexemes
<1>4. f = CHOOSE g : Is(g)
  BY DEF TokensFrom
<1>5. Tokens(text) = f[1]
  BY DEF Tokens, TokensFrom
<1> HIDE DEF N, f
<1>6. \E g : Is(g)
  <2>1. next \in [1 .. N -> Int] /\ \A k \in 1 .. N : next[k] \in k + 1 .. N + 2
    BY <1>1, <1>2
  <2>2. op \in [1 .. N -> [Lexemes -> Lexemes]]
    BY <1>3
  <2> HIDE DEF next, op
  <2>3. PICK g \in [1 .. N + 2 -> Lexemes] :
          \A k \in 1 .. N + 2 : g[k] = IF k > N THEN <<>> ELSE op[k][g[next[k]]]
    <3>1. \E g : Backward(g, next, op, Lexemes, <<>>, N)
      BY <1>1, <2>1, <2>2, Backwards
    <3> QED
      BY <3>1 DEF Backward
  <2>4. \A k \in 1 .. N + 2 : k > N \/ k \in 1 .. N
    BY <1>1
  <2>5. \A k \in 1 .. N : op[k][g[next[k]]] = Made(text, k) \o g[EndOf(text, k)]
    <3> SUFFICES ASSUME NEW k \in 1 .. N PROVE op[k][g[next[k]]] = Made(text, k) \o g[EndOf(text, k)]
      OBVIOUS
    <3>1. next[k] = EndOf(text, k)
      BY DEF next
    <3>2. EndOf(text, k) \in 1 .. N + 2
      BY <1>1, <1>2
    <3>3. g[EndOf(text, k)] \in Lexemes
      BY <3>2
    <3> QED
      BY <3>1, <3>3 DEF op
  <2>6. \A k \in 1 .. N + 2 : g[k] = IF k > N THEN <<>> ELSE Made(text, k) \o g[EndOf(text, k)]
    BY <2>3, <2>4, <2>5
  <2>7. g = [k \in 1 .. N + 2 |-> g[k]]
    OBVIOUS
  <2>8. Is(g)
    BY <2>6, <2>7
  <2> QED
    BY <2>8
<1>7. Is(f)
  BY <1>4, <1>6
<1>8. /\ DOMAIN f = 1 .. N + 2 /\ f = [k \in 1 .. N + 2 |-> f[k]]
      /\ f[N + 1] = <<>> /\ f[N + 2] = <<>>
      /\ \A k \in 1 .. N : f[k] = Made(text, k) \o f[EndOf(text, k)]
  <2>1. \A k \in 1 .. N : k \in 1 .. N + 2 /\ ~(k > N)
    BY <1>1
  <2>2. N + 1 \in 1 .. N + 2 /\ N + 2 \in 1 .. N + 2 /\ N + 1 > N /\ N + 2 > N
    BY <1>1
  <2> QED
    BY <1>7, <2>1, <2>2
<1> HIDE DEF Is
<1> DEFINE S == {k \in 1 .. N + 2 : f[k] \in Lexemes}
<1>9. N + 1 \in S /\ N + 2 \in S
  BY <1>1, <1>8
<1>10. \A k \in 1 .. N : (\A j \in k + 1 .. N + 2 : j \in S) => k \in S
  <2> SUFFICES ASSUME NEW k \in 1 .. N, \A j \in k + 1 .. N + 2 : j \in S PROVE k \in S
    OBVIOUS
  <2>1. f[EndOf(text, k)] \in Lexemes
    BY <1>2
  <2>2. f[k] = Made(text, k) \o f[EndOf(text, k)]
    BY <1>8
  <2>3. f[k] \in Lexemes
    BY <1>3, <2>1, <2>2
  <2> QED
    BY <1>1, <2>3
<1> HIDE DEF S
<1>11. \A k \in 1 .. N + 2 : k \in S
  BY <1>1, <1>9, <1>10, FromTheEnd
<1>12. f \in [1 .. N + 2 -> Lexemes]
  BY <1>8, <1>11 DEF S
<1> QED
  BY <1>5, <1>8, <1>12 DEF N, f

\* The comments from each place on.
LEMMA CommentsFromIs ==
    ASSUME NEW text \in Files
    PROVE  LET f == CommentsFrom(text)
               N == Len(text)
           IN  /\ \A k \in 1 .. N : /\ f[EndOf(text, k)] \subseteq f[k]
                                    /\ IsComment(text, k) => SubSeq(text, k, EndOf(text, k) - 1) \in f[k]
               /\ Comments(text) = f[1]
<1> DEFINE N == Len(text)
           S == SUBSET Files
           here == [k \in 1 .. N |-> IF IsComment(text, k) THEN {SubSeq(text, k, EndOf(text, k) - 1)} ELSE {}]
           Is(f) == f = [k \in 1 .. N + 2 |->
                           IF k > N THEN {}
                           ELSE (IF IsComment(text, k) THEN {SubSeq(text, k, EndOf(text, k) - 1)} ELSE {})
                                \cup f[EndOf(text, k)]]
           next == [k \in 1 .. N |-> EndOf(text, k)]
           op == [k \in 1 .. N |-> [s \in S |-> here[k] \cup s]]
           f == CommentsFrom(text)
<1>1. N \in Nat /\ {} \in S
  BY DEF Files
<1>2. \A k \in 1 .. N : EndOf(text, k) \in k + 1 .. N + 2 /\ (IsComment(text, k) => EndOf(text, k) - 1 <= N)
  <2> SUFFICES ASSUME NEW k \in 1 .. N
               PROVE  EndOf(text, k) \in k + 1 .. N + 2 /\ (IsComment(text, k) => EndOf(text, k) - 1 <= N)
    OBVIOUS
  <2>1. EndOf(text, k) \in k + 1 .. N + 2 /\ (text[k] \notin Quotes => EndOf(text, k) <= N + 1)
    BY ElementType
  <2>2. IsComment(text, k) => text[k] \notin Quotes
    BY KindsDiffer
  <2> QED
    BY <1>1, <2>1, <2>2
<1>3. \A k \in 1 .. N : here[k] \in S
  <2> SUFFICES ASSUME NEW k \in 1 .. N, IsComment(text, k)
               PROVE  SubSeq(text, k, EndOf(text, k) - 1) \in Files
    OBVIOUS
  <2>1. EndOf(text, k) - 1 \in k .. N
    BY <1>1, <1>2
  <2> QED
    BY <1>1, <2>1 DEF Files
<1>4. f = CHOOSE g : Is(g)
  BY DEF CommentsFrom
<1>5. Comments(text) = f[1]
  BY DEF Comments, CommentsFrom
<1>0. \A k \in 1 .. N : here[k] = IF IsComment(text, k) THEN {SubSeq(text, k, EndOf(text, k) - 1)} ELSE {}
  OBVIOUS
<1> HIDE DEF N, f, here
<1>6. \E g : Is(g)
  <2>1. next \in [1 .. N -> Int] /\ \A k \in 1 .. N : next[k] \in k + 1 .. N + 2
    BY <1>1, <1>2
  <2>2. op \in [1 .. N -> [S -> S]]
    BY <1>3
  <2>3. \A k \in 1 .. N : \A s \in S : op[k][s] = here[k] \cup s
    OBVIOUS
  <2> HIDE DEF op, S
  <2>4. PICK g \in [1 .. N + 2 -> S] :
          \A k \in 1 .. N + 2 : g[k] = IF k > N THEN {} ELSE op[k][g[next[k]]]
    <3> HIDE DEF next
    <3>1. \E g : Backward(g, next, op, S, {}, N)
      BY <1>1, <2>1, <2>2, Backwards
    <3> QED
      BY <3>1 DEF Backward
  <2>5. \A k \in 1 .. N + 2 : k > N \/ k \in 1 .. N
    BY <1>1
  <2>6. \A k \in 1 .. N : op[k][g[next[k]]] = here[k] \cup g[EndOf(text, k)]
    <3> SUFFICES ASSUME NEW k \in 1 .. N PROVE op[k][g[next[k]]] = here[k] \cup g[EndOf(text, k)]
      OBVIOUS
    <3>1. next[k] = EndOf(text, k)
      OBVIOUS
    <3>2. EndOf(text, k) \in 1 .. N + 2
      BY <1>1, <1>2
    <3>3. g[EndOf(text, k)] \in S
      BY <3>2
    <3> QED
      BY <2>3, <3>1, <3>3
  <2>7. \A k \in 1 .. N + 2 :
          g[k] = IF k > N THEN {}
                 ELSE (IF IsComment(text, k) THEN {SubSeq(text, k, EndOf(text, k) - 1)} ELSE {})
                      \cup g[EndOf(text, k)]
    BY <1>0, <2>4, <2>5, <2>6
  <2>8. g = [k \in 1 .. N + 2 |-> g[k]]
    OBVIOUS
  <2>9. Is(g)
    BY <2>7, <2>8
  <2> QED
    BY <2>9
<1>7. Is(f)
  BY <1>4, <1>6
<1>8. \A k \in 1 .. N : f[k] = here[k] \cup f[EndOf(text, k)]
  <2>1. \A k \in 1 .. N : k \in 1 .. N + 2 /\ ~(k > N)
    BY <1>1
  <2> QED
    BY <1>0, <1>7, <2>1
<1> HIDE DEF Is
<1> QED
  BY <1>0, <1>5, <1>8 DEF N, f

-----------------------------------------------------------------------------
(***************************************************************************)
(* Tokens of parts.                                                        *)
(***************************************************************************)
\* C are the elements the tokenizer comes to between a and b.
Chain(text, a, b, C) ==
    C \subseteq a .. b /\ a \in C /\ b \in C /\ \A c \in C : c # b => EndOf(text, c) \in C

\* Sequences of tokens one after the other.
LEMMA Grouping ==
    ASSUME NEW r \in Lexemes, NEW s \in Lexemes, NEW t \in Lexemes
    PROVE  (r \o s) \o t = r \o (s \o t) /\ r \o s \in Lexemes /\ <<>> \o r = r /\ r \o <<>> = r
BY DEF Lexemes
LEMMA Regrouping == \A r, s, t \in Lexemes : (r \o s) \o t = r \o (s \o t)
BY DEF Lexemes

\* A text cut where an element starts has the tokens of its two parts.
LEMMA CutTokens ==
    ASSUME NEW text \in Files, NEW a \in 1 .. Len(text) + 1, NEW b \in a .. Len(text) + 1, NEW C,
           Chain(text, a, b, C)
    PROVE  LET part == SubSeq(text, a, b - 1)
               f    == TokensFrom(text)
           IN  Tokens(part) \in Lexemes /\ f[a] = Tokens(part) \o f[b]
<1> DEFINE N == Len(text)
           part == SubSeq(text, a, b - 1)
           f == TokensFrom(text)
           g == TokensFrom(part)
           L == b - a
           S == {c \in 1 .. N + 2 : c \in C => f[c] = g[c - a + 1] \o f[b]}
<1>1. N \in Nat /\ a \in Int /\ b \in Int /\ 1 <= a /\ a <= b /\ b <= N + 1 /\ b - 1 \in a - 1 .. N /\ L \in Nat
      /\ b - 1 + 1 = b
  BY DEF Files
<1>2. part \in Files /\ Len(part) = L
  <2>1. part \in Files /\ Len(part) = b - 1 - a + 1
    BY <1>1, PartIs
  <2> QED
    BY <1>1, <2>1
<1>3. /\ f \in [1 .. N + 2 -> Lexemes]
      /\ \A k \in 1 .. N : f[k] = Made(text, k) \o f[EndOf(text, k)]
  BY TokensFromIs
<1>4. /\ g \in [1 .. L + 2 -> Lexemes] /\ g[L + 1] = <<>> /\ Tokens(part) = g[1]
      /\ \A k \in 1 .. L : g[k] = Made(part, k) \o g[EndOf(part, k)]
  BY <1>2, TokensFromIs
<1>5. \A k \in a .. b - 1 : EndOf(text, k) <= b =>
        EndOf(part, k - a + 1) = EndOf(text, k) - a + 1 /\ Made(part, k - a + 1) = Made(text, k)
  BY <1>1, ElementOfPart
<1>6. \A k \in 1 .. N : EndOf(text, k) \in k + 1 .. N + 2 /\ Made(text, k) \in Lexemes
  BY ElementType
<1> HIDE DEF N, part, f, g, L
<1>7. C \subseteq a .. b /\ a \in C /\ b \in C /\ \A c \in C : c # b => EndOf(text, c) \in C
  BY DEF Chain
<1>8. b \in S
  <2>1. b - a + 1 = L + 1 /\ b \in 1 .. N + 2
    BY <1>1 DEF L
  <2>2. <<>> \o f[b] = f[b]
    BY <1>3, <2>1, Grouping
  <2>3. f[b] = g[b - a + 1] \o f[b]
    BY <1>4, <2>1, <2>2
  <2> QED
    BY <2>1, <2>3
<1>9. N + 1 \in S /\ N + 2 \in S
  <2>1. N + 1 \in 1 .. N + 2 /\ N + 2 \in 1 .. N + 2 /\ (N + 1 \in a .. b => N + 1 = b) /\ N + 2 \notin a .. b
    BY <1>1
  <2> QED
    BY <1>7, <1>8, <2>1
<1>10. ASSUME NEW k \in 1 .. N, \A j \in k + 1 .. N + 2 : j \in S PROVE k \in S
  <2>1. CASE k \notin C
    <3>1. k \in 1 .. N + 2
      BY <1>1
    <3> QED
      BY <2>1, <3>1
  <2>2. CASE k = b
    BY <1>8, <2>2
  <2>3. CASE k \in C /\ k # b
    <3> DEFINE e == EndOf(text, k)
               i == k - a + 1
               d == e - a + 1
    <3>1. e \in k + 1 .. N + 2 /\ e \in C /\ Made(text, k) \in Lexemes
      BY <1>6, <1>7, <2>3
    <3>2. k \in a .. b - 1 /\ e \in a .. b /\ i \in 1 .. L /\ d \in 1 .. L + 2 /\ k \in 1 .. N + 2 /\ e \in 1 .. N + 2
      <4>1. k \in a .. b /\ e \in a .. b
        BY <1>7, <2>3, <3>1
      <4> QED
        BY <1>1, <2>3, <4>1 DEF L
    <3>3. f[e] = g[d] \o f[b]
      BY <1>10, <3>1
    <3>4. EndOf(part, i) = d /\ Made(part, i) = Made(text, k)
      BY <1>5, <3>2
    <3> HIDE DEF e
    <3>5. f[k] = Made(text, k) \o f[e] /\ g[i] = Made(text, k) \o g[d]
      <4>1. f[k] = Made(text, k) \o f[e]
        BY <1>3 DEF e
      <4>2. g[i] = Made(part, i) \o g[EndOf(part, i)]
        BY <1>4, <3>2
      <4> QED
        BY <3>4, <4>1, <4>2
    <3>6. g[d] \in Lexemes /\ f[b] \in Lexemes
      BY <1>1, <1>3, <1>4, <3>2
    <3> HIDE DEF d, i
    <3>7. f[k] = g[i] \o f[b]
      <4>1. (Made(text, k) \o g[d]) \o f[b] = Made(text, k) \o (g[d] \o f[b])
        <5>1. Made(text, k) \in Lexemes
          BY <3>1
        <5> QED
          BY <3>6, <5>1, Regrouping
      <4> QED
        BY <3>3, <3>5, <4>1
    <3> QED
      BY <3>2, <3>7 DEF i
  <2> QED
    BY <2>1, <2>2, <2>3
<1> HIDE DEF S
<1>11. \A k \in 1 .. N + 2 : k \in S
  BY <1>1, <1>9, <1>10, FromTheEnd
<1>12. a \in S /\ a - a + 1 = 1
  BY <1>1, <1>11
<1>13. f[a] = g[1] \o f[b]
  BY <1>7, <1>12 DEF S
<1>14. g[1] \in Lexemes
  BY <1>1, <1>4
<1> QED
  BY <1>4, <1>13, <1>14 DEF f, part

\* So has the last part, wherever it begins.
LEMMA LastTokens ==
    ASSUME NEW text \in Files, NEW a \in 1 .. Len(text) + 1
    PROVE  Tokens(SubSeq(text, a, Len(text))) = TokensFrom(text)[a]
<1> DEFINE N == Len(text)
           part == SubSeq(text, a, N)
           f == TokensFrom(text)
           g == TokensFrom(part)
           L == N - a + 1
           S == {c \in 1 .. N + 2 : c >= a => f[c] = g[c - a + 1]}
<1>1. N \in Nat /\ a \in Int /\ 1 <= a /\ a <= N + 1 /\ N \in a - 1 .. N /\ L \in Nat
  BY DEF Files
<1>2. part \in Files /\ Len(part) = L
  BY <1>1, PartIs
<1>3. /\ f[N + 1] = <<>> /\ f[N + 2] = <<>>
      /\ \A k \in 1 .. N : f[k] = Made(text, k) \o f[EndOf(text, k)]
  BY TokensFromIs
<1>4. /\ g[L + 1] = <<>> /\ g[L + 2] = <<>> /\ Tokens(part) = g[1]
      /\ \A k \in 1 .. L : g[k] = Made(part, k) \o g[EndOf(part, k)]
  BY <1>2, TokensFromIs
<1>5. \A k \in a .. N :
        EndOf(part, k - a + 1) = EndOf(text, k) - a + 1 /\ Made(part, k - a + 1) = Made(text, k)
  BY <1>1, ElementOfPart
<1>6. \A k \in 1 .. N : EndOf(text, k) \in k + 1 .. N + 2
  BY ElementType
<1> HIDE DEF N, part, f, g, L
<1>7. N + 1 \in S /\ N + 2 \in S
  <2> DEFINE y == N + 1
             z == N + 2
  <2>1. y \in 1 .. N + 2 /\ z \in 1 .. N + 2 /\ y - a + 1 = L + 1 /\ z - a + 1 = L + 2
    BY <1>1 DEF L
  <2>2. f[y] = <<>> /\ f[z] = <<>>
    BY <1>3
  <2> HIDE DEF y, z
  <2>3. y \in S /\ z \in S
    BY <1>4, <2>1, <2>2
  <2> QED
    BY <2>3 DEF y, z
<1>8. ASSUME NEW k \in 1 .. N, \A j \in k + 1 .. N + 2 : j \in S PROVE k \in S
  <2>1. CASE ~(k >= a)
    BY <1>1, <2>1
  <2>2. CASE k >= a
    <3> DEFINE e == EndOf(text, k)
               i == k - a + 1
               d == e - a + 1
    <3>1. e \in k + 1 .. N + 2
      BY <1>6
    <3>2. k \in a .. N /\ e >= a /\ i \in 1 .. L /\ k \in 1 .. N + 2
      BY <1>1, <2>2, <3>1 DEF L
    <3>3. f[e] = g[d]
      BY <1>8, <3>1, <3>2
    <3>4. EndOf(part, i) = d /\ Made(part, i) = Made(text, k)
      BY <1>5, <3>2
    <3> HIDE DEF e, d
    <3>5. f[k] = Made(text, k) \o f[e]
      BY <1>3 DEF e
    <3>6. g[i] = Made(part, i) \o g[EndOf(part, i)]
      BY <1>4, <3>2
    <3>7. f[k] = g[i]
      BY <3>3, <3>4, <3>5, <3>6
    <3> QED
      BY <3>2, <3>7
  <2> QED
    BY <2>1, <2>2
<1> HIDE DEF S
<1>9. \A k \in 1 .. N + 2 : k \in S
  BY <1>1, <1>7, <1>8, FromTheEnd
<1>10. a \in S /\ a - a + 1 = 1 /\ a >= a
  BY <1>1, <1>9
<1> QED
  BY <1>4, <1>10 DEF S, f, part, N

\* Blanks make no token.
LEMMA BlankTokens ==
    ASSUME NEW text \in Files, NEW q \in 1 .. Len(text) + 1, NEW e, First(text, q, STRING \ Blanks, e)
    PROVE  TokensFrom(text)[q] = TokensFrom(text)[e]
<1> DEFINE N == Len(text)
           f == TokensFrom(text)
           S == {c \in 1 .. N + 2 : c \in q .. e => f[c] = f[e]}
<1>1. N \in Nat /\ q \in Int /\ e \in q .. N + 1 /\ 1 <= q /\ \A k \in q .. e - 1 : text[k] \in Blanks
  BY DEF Files, First
<1>2. /\ f \in [1 .. N + 2 -> Lexemes]
      /\ \A k \in 1 .. N : f[k] = Made(text, k) \o f[EndOf(text, k)]
  BY TokensFromIs
<1>3. \A k \in 1 .. N : text[k] \in Blanks => EndOf(text, k) = k + 1 /\ Made(text, k) = <<>>
  <2> SUFFICES ASSUME NEW k \in 1 .. N, text[k] \in Blanks PROVE EndOf(text, k) = k + 1 /\ Made(text, k) = <<>>
    OBVIOUS
  <2>1. text[k] \notin Quotes \cup Letters \cup Compares \cup Singles /\ text[k] # "-"
    BY LettersAreNoMarks DEF Blanks, Quotes, Compares, Singles
  <2> QED
    BY <2>1 DEF EndOf, Made, IsComment
<1> HIDE DEF N, f
<1>4. \A c \in 1 .. N + 2 : c = e => c \in S
  OBVIOUS
<1>5. N + 1 \in S /\ N + 2 \in S
  <2>1. N + 1 \in 1 .. N + 2 /\ N + 2 \in 1 .. N + 2 /\ (N + 1 \in q .. e => N + 1 = e) /\ N + 2 \notin q .. e
    BY <1>1
  <2> QED
    BY <2>1
<1>6. ASSUME NEW k \in 1 .. N, \A j \in k + 1 .. N + 2 : j \in S PROVE k \in S
  <2>1. CASE k \in q .. e /\ k # e
    <3>1. k \in q .. e - 1 /\ k + 1 \in q .. e /\ k + 1 \in k + 1 .. N + 2 /\ k + 1 \in 1 .. N + 2 /\ k \in 1 .. N + 2
      BY <1>1, <2>1
    <3>2. f[k] = <<>> \o f[k + 1]
      BY <1>1, <1>2, <1>3, <3>1
    <3>3. <<>> \o f[k + 1] = f[k + 1]
      BY <1>2, <3>1, Grouping
    <3>4. f[k + 1] = f[e]
      BY <1>6, <3>1
    <3> QED
      BY <3>1, <3>2, <3>3, <3>4
  <2>2. CASE k \notin q .. e \/ k = e
    BY <1>1, <2>2
  <2> QED
    BY <2>1, <2>2
<1> HIDE DEF S
<1>7. \A k \in 1 .. N + 2 : k \in S
  BY <1>1, <1>5, <1>6, FromTheEnd
<1>8. q \in S /\ q \in q .. e
  BY <1>1, <1>7
<1> QED
  BY <1>8 DEF S, f

\* Where the last statement starts.
LEMMA InkIs ==
    ASSUME NEW text \in Files, NEW q \in 1 .. Len(text) + 1
    PROVE  First(text, q, STRING \ Blanks,
                 Min({k \in q .. Len(text) : text[k] \notin Blanks} \cup {Len(text) + 1}))
<1>1. Min({k \in q .. Len(text) : text[k] \notin Blanks} \cup {Len(text) + 1}) = FirstOf(text, q, STRING \ Blanks)
  BY WordEnds
<1> QED
  BY <1>1, FirstOfIs

-----------------------------------------------------------------------------
(***************************************************************************)
(* Where the splitter is among the tokenizer's elements.                   *)
(***************************************************************************)
Special == Quotes \cup {";"}

Harmless(text) == \A c \in Comments(text) : ToSet(c) \cap Special = {}

\* The tokenizer comes from a to the element at k, whose comments are the text's.
Reached(text, a, k) ==
    /\ k \in a .. Len(text) + 1 /\ \E C : Chain(text, a, k, C)
    /\ CommentsFrom(text)[k] \subseteq Comments(text)

\* q is inside that element: a quoted text, or one without a quote or a semicolon.
Inside(text, q, k) == k <= Len(text) /\ k < q /\ q < EndOf(text, k)
Plain(text, k) == \A j \in k + 1 .. EndOf(text, k) - 1 : text[j] \notin Special

\* With m for its quote, the splitter is at q.
Spot(text, a, q, m, k) ==
    /\ Reached(text, a, k)
    /\ \/ m = NoQuote /\ q = k
       \/ m = NoQuote /\ Inside(text, q, k) /\ Plain(text, k)
       \/ m \in Quotes /\ m = text[k] /\ Inside(text, q, k)

\* Without a quote or a semicolon in its comments: no element but a quoted text has one inside.
LEMMA NothingInside ==
    ASSUME NEW text \in Files, NEW k \in 1 .. Len(text), text[k] \notin Quotes,
           Harmless(text), CommentsFrom(text)[k] \subseteq Comments(text)
    PROVE  \A j \in k + 1 .. EndOf(text, k) - 1 : text[j] \notin Special
<1> DEFINE e == EndOf(text, k)
<1>1. e \in k + 1 .. Len(text) + 1 /\ Len(text) \in Nat /\ k \in Int
  BY ElementType DEF Files
<1>2. SUFFICES ASSUME NEW j \in k + 1 .. e - 1 PROVE text[j] \notin Special
  OBVIOUS
<1>3. IsElement(text, k, e, Made(text, k))
  BY ElementIs
<1>4. j \in 1 .. Len(text) /\ j \in k .. e - 1 /\ text[j] \in STRING
  BY <1>1, <1>2 DEF Files
<1> HIDE DEF e
<1>5. CASE IsComment(text, k)
  <2> DEFINE c == SubSeq(text, k, e - 1)
  <2>1. c \in Comments(text)
    <3>1. SubSeq(text, k, EndOf(text, k) - 1) \in CommentsFrom(text)[k]
      BY <1>5, CommentsFromIs
    <3> QED
      BY <3>1 DEF e
  <2>2. text[j] \in ToSet(c)
    <3> DEFINE i == j - k + 1
    <3>1. e - 1 \in k - 1 .. Len(text) /\ k \in 1 .. Len(text) + 1
      BY <1>1
    <3>2. c \in Files /\ Len(c) = e - 1 - k + 1 /\ \A n \in k .. e - 1 : c[n - k + 1] = text[n]
      BY <3>1, PartIs
    <3>3. c[i] = text[j] /\ i \in 1 .. Len(c)
      BY <1>1, <1>2, <1>4, <3>2
    <3>4. DOMAIN c = 1 .. Len(c)
      BY <3>2 DEF Files
    <3> HIDE DEF i, c
    <3> QED
      BY <3>3, <3>4 DEF ToSet
  <2> QED
    BY <2>1, <2>2 DEF Harmless
<1>6. CASE IsPair(text, k)
  <2>1. e = k + 2
    BY <1>3, <1>6, KindsDiffer DEF IsElement
  <2>2. j = k + 1
    BY <1>1, <1>2, <2>1
  <2>3. text[k + 1] = "="
    BY <1>6 DEF IsPair, At2
  <2> QED
    BY <2>2, <2>3 DEF Special, Quotes
<1>7. CASE IsWord(text, k)
  <2>1. First(text, k, STRING \ Letters, e)
    BY <1>3, <1>7, KindsDiffer DEF IsElement
  <2>2. text[j] \in Letters
    BY <1>4, <2>1 DEF First
  <2> QED
    BY <2>2, LettersAreNoMarks DEF Special, Quotes, Singles
<1>8. CASE IsSingle(text, k)
  <2>1. e = k + 1
    BY <1>3, <1>8, KindsDiffer DEF IsElement
  <2> QED
    BY <1>1, <1>2, <2>1
<1> QED
  BY <1>5, <1>6, <1>7, <1>8, KindsDiffer

\* A chain goes on to the end of the element it has reached.
LEMMA ChainGrows ==
    ASSUME NEW text \in Files, NEW a \in 1 .. Len(text) + 1, NEW k \in 1 .. Len(text),
           Reached(text, a, k), EndOf(text, k) <= Len(text) + 1
    PROVE  Reached(text, a, EndOf(text, k))
<1> DEFINE e == EndOf(text, k)
<1>1. Len(text) \in Nat /\ a \in Int /\ k \in Int
  BY DEF Files
<1>2. e \in k + 1 .. Len(text) + 1
  BY <1>1, ElementType
<1>3. k \in a .. Len(text) + 1 /\ CommentsFrom(text)[k] \subseteq Comments(text)
  BY DEF Reached
<1>4. PICK C : Chain(text, a, k, C)
  BY DEF Reached
<1>5. C \subseteq a .. k /\ a \in C /\ k \in C /\ \A c \in C : c # k => EndOf(text, c) \in C
  BY <1>4 DEF Chain
<1>6. CommentsFrom(text)[e] \subseteq CommentsFrom(text)[k]
  BY <1>1, CommentsFromIs
<1> DEFINE D == C \cup {e}
<1>7. \A c \in D : c # e => EndOf(text, c) \in D
  BY <1>5
<1> HIDE DEF e
<1>8. D \subseteq a .. e /\ a \in D /\ e \in D /\ e \in a .. Len(text) + 1
  <2>1. a .. k \subseteq a .. e /\ e \in a .. e /\ e \in a .. Len(text) + 1
    BY <1>1, <1>2, <1>3
  <2> QED
    BY <1>5, <2>1
<1>9. Chain(text, a, e, D)
  BY <1>7, <1>8 DEF Chain
<1>10. Reached(text, a, e)
  BY <1>3, <1>6, <1>8, <1>9 DEF Reached
<1> QED
  BY <1>10 DEF e

\* A statement starts at an element.
LEMMA ChainStarts ==
    ASSUME NEW text \in Files, NEW a \in 1 .. Len(text) + 1, CommentsFrom(text)[a] \subseteq Comments(text)
    PROVE  Spot(text, a, a, NoQuote, a)
<1>1. a \in a .. a /\ a \in a .. Len(text) + 1
  BY DEF Files
<1>2. Chain(text, a, a, {a})
  BY <1>1 DEF Chain
<1> QED
  BY <1>1, <1>2 DEF Spot, Reached

\* What the splitter knows of the element it is at or in.
LEMMA SpotIs ==
    ASSUME NEW text \in Files, NEW a \in 1 .. Len(text) + 1, NEW q \in 1 .. Len(text), NEW m, NEW k,
           Spot(text, a, q, m, k)
    PROVE  /\ Len(text) \in Nat /\ q \in Int /\ k \in 1 .. Len(text) /\ EndOf(text, k) \in k + 1 .. Len(text) + 2
           /\ m = NoQuote => q = k \/ (Inside(text, q, k) /\ Plain(text, k))
           /\ m \in Quotes => m = text[k] /\ Inside(text, q, k)
           /\ text[k] \in Quotes => First(text, k + 1, {text[k]}, EndOf(text, k) - 1)
<1>1. Len(text) \in Nat /\ a \in Int /\ q \in Int /\ k \in a .. Len(text) + 1
  BY DEF Files, Spot, Reached
<1>2. NoQuote \notin Quotes
  BY DEF Quotes, NoQuote
<1>3. m = NoQuote => q = k \/ (Inside(text, q, k) /\ Plain(text, k))
  <2> SUFFICES ASSUME m = NoQuote, ~(q = k) PROVE Inside(text, q, k) /\ Plain(text, k)
    OBVIOUS
  <2>1. m \notin Quotes
    BY <1>2
  <2> QED
    BY <2>1 DEF Spot
<1>4. m \in Quotes => m = text[k] /\ Inside(text, q, k)
  BY <1>2 DEF Spot
<1>5. q = k \/ Inside(text, q, k)
  BY DEF Spot
<1>6. k \in 1 .. Len(text)
  BY <1>1, <1>5 DEF Inside
<1>7. EndOf(text, k) \in k + 1 .. Len(text) + 2
  BY <1>6, ElementType
<1>8. text[k] \in Quotes => First(text, k + 1, {text[k]}, EndOf(text, k) - 1)
  BY <1>6, ElementIs, KindsDiffer DEF IsElement
<1> QED
  BY <1>1, <1>3, <1>4, <1>6, <1>7, <1>8

\* A quote or a semicolon outside of quotes starts an element.
LEMMA OutsideQuotes ==
    ASSUME NEW text \in Files, NEW a \in 1 .. Len(text) + 1, NEW q \in 1 .. Len(text), NEW k,
           Spot(text, a, q, NoQuote, k), text[q] \in Special
    PROVE  q = k
<1>1. q = k \/ (Inside(text, q, k) /\ Plain(text, k))
  BY SpotIs
<1>2. Len(text) \in Nat /\ q \in Int /\ k \in 1 .. Len(text) /\ EndOf(text, k) \in k + 1 .. Len(text) + 2
  BY SpotIs
<1> QED
  BY <1>1, <1>2 DEF Inside, Plain

\* The step that opens a quote ...
LEMMA QuoteOpens ==
    ASSUME NEW text \in Files, NEW a \in 1 .. Len(text) + 1, NEW q \in 1 .. Len(text), NEW k,
           Spot(text, a, q, NoQuote, k), text[q] \in Quotes
    PROVE  Spot(text, a, q + 1, text[q], k)
<1>1. q = k /\ text[k] \in Quotes
  BY OutsideQuotes DEF Special
<1>2. Len(text) \in Nat /\ k \in 1 .. Len(text) /\ EndOf(text, k) \in k + 1 .. Len(text) + 2
  BY SpotIs
<1>3. First(text, k + 1, {text[k]}, EndOf(text, k) - 1)
  BY <1>1, SpotIs
<1>4. k + 1 < EndOf(text, k)
  <2>1. EndOf(text, k) - 1 \in k + 1 .. Len(text) + 1
    BY <1>3 DEF First
  <2> QED
    BY <1>2, <2>1
<1>5. Inside(text, k + 1, k)
  BY <1>2, <1>4 DEF Inside
<1> QED
  BY <1>1, <1>5 DEF Spot

\* ... the steps inside of it and the one that closes it ...
LEMMA QuoteGoesOn ==
    ASSUME NEW text \in Files, NEW a \in 1 .. Len(text) + 1, NEW q \in 1 .. Len(text), NEW m \in Quotes, NEW k,
           Spot(text, a, q, m, k)
    PROVE  /\ text[q] # m => Spot(text, a, q + 1, m, k)
           /\ text[q] = m => Spot(text, a, q + 1, NoQuote, q + 1)
<1> DEFINE e == EndOf(text, k)
<1>1. Len(text) \in Nat /\ q \in Int /\ k \in 1 .. Len(text) /\ e \in k + 1 .. Len(text) + 2
  BY SpotIs
<1>2. m = text[k] /\ Inside(text, q, k)
  BY SpotIs
<1>3. First(text, k + 1, {m}, e - 1)
  BY <1>2, SpotIs
<1>4. k < q /\ q < e
  BY <1>2 DEF Inside
<1> HIDE DEF e
<1>5. ASSUME text[q] # m PROVE Spot(text, a, q + 1, m, k)
  <2>1. q # e - 1
    <3> SUFFICES ASSUME q = e - 1 PROVE FALSE
      OBVIOUS
    <3>1. e - 1 <= Len(text) => text[e - 1] = m
      BY <1>3 DEF First
    <3> QED
      BY <1>5, <3>1
  <2>2. k <= Len(text) /\ k < q + 1 /\ q + 1 < e
    BY <1>1, <1>4, <2>1
  <2>3. Inside(text, q + 1, k)
    BY <2>2 DEF Inside, e
  <2> QED
    BY <1>2, <2>3 DEF Spot
<1>6. ASSUME text[q] = m PROVE Spot(text, a, q + 1, NoQuote, q + 1)
  <2>1. \A j \in k + 1 .. e - 1 - 1 : text[j] # m
    BY <1>3 DEF First
  <2>2. q \notin k + 1 .. e - 1 - 1
    BY <1>6, <2>1
  <2>3. q + 1 = e /\ e <= Len(text) + 1
    BY <1>1, <1>4, <2>2
  <2>4. Reached(text, a, e)
    BY <1>1, <2>3, ChainGrows DEF e, Spot
  <2> QED
    BY <2>3, <2>4 DEF Spot
<1> QED
  BY <1>5, <1>6

\* ... and those over any other character.
LEMMA ElementGoesOn ==
    ASSUME NEW text \in Files, NEW a \in 1 .. Len(text) + 1, NEW q \in 1 .. Len(text), NEW k,
           Spot(text, a, q, NoQuote, k), text[q] \notin Special, Harmless(text)
    PROVE  \E l : Spot(text, a, q + 1, NoQuote, l)
<1> DEFINE e == EndOf(text, k)
<1>1. Len(text) \in Nat /\ q \in Int /\ k \in 1 .. Len(text) /\ e \in k + 1 .. Len(text) + 2
  BY SpotIs
<1>2. q = k \/ (Inside(text, q, k) /\ Plain(text, k))
  BY SpotIs
<1>3. Reached(text, a, k)
  BY DEF Spot
<1>4. k <= q /\ q < e
  <2>1. Inside(text, q, k) => k < q /\ q < e
    BY DEF Inside
  <2> HIDE DEF e
  <2> QED
    BY <1>1, <1>2, <2>1
<1> HIDE DEF e
<1>5. CASE q + 1 = e
  <2>1. e <= Len(text) + 1
    BY <1>1, <1>5
  <2>2. Reached(text, a, e)
    BY <1>1, <1>3, <2>1, ChainGrows DEF e
  <2>3. Spot(text, a, q + 1, NoQuote, e)
    BY <1>5, <2>2 DEF Spot
  <2> QED
    BY <2>3
<1>6. CASE q + 1 # e
  <2>1. Plain(text, k)
    <3>1. CASE q = k
      <4>1. text[k] \notin Quotes /\ CommentsFrom(text)[k] \subseteq Comments(text)
        BY <1>3, <3>1 DEF Special, Reached
      <4> QED
        BY <1>1, <4>1, NothingInside DEF Plain
    <3> QED
      BY <1>2, <3>1
  <2>2. k <= Len(text) /\ k < q + 1 /\ q + 1 < e
    BY <1>1, <1>4, <1>6
  <2>3. Inside(text, q + 1, k)
    BY <2>2 DEF Inside, e
  <2>4. Spot(text, a, q + 1, NoQuote, k)
    BY <1>3, <2>1, <2>3 DEF Spot
  <2> QED
    BY <2>4
<1> QED
  BY <1>5, <1>6

-----------------------------------------------------------------------------
(***************************************************************************)
(* The splitter.  What it has cut off and what is left from the start of   *)
(* the current statement are the tokens of the file, and it is at or in an *)
(* element the tokenizer comes to from there.                              *)
(***************************************************************************)
Ended == << <<";">> >>
Pieces(s) == [k \in DOMAIN s |-> Tokens(s[k]) \o Ended]

SplitType ==
    /\ src \in Sources
    /\ p \in 1 .. Len(src) + 2
    /\ start \in 1 .. Len(src) + 1 /\ start <= p
    /\ quote \in {NoQuote} \cup Quotes
    /\ processed \in Seq(Files)

NothingLost ==
    /\ Pieces(processed) \in Seq(Lexemes)
    /\ FlattenSeq(Pieces(processed)) \o TokensFrom(src)[start] = Tokens(src)

AtAnElement == \E k : Spot(src, start, p, quote, k)

SplitInv ==
    /\ SplitType
    /\ HarmlessComments /\ ~AtEnd => NothingLost /\ AtAnElement
    /\ SplitsBetweenTokens

\* One more statement is one more piece.
LEMMA PiecesAppend ==
    ASSUME NEW s \in Seq(Files), NEW x \in Files, Ended \in Lexemes, Pieces(s) \in Seq(Lexemes)
    PROVE  /\ Pieces(Append(s, x)) = Append(Pieces(s), Tokens(x) \o Ended)
           /\ Tokens(x) \o Ended \in Lexemes
<1> DEFINE n == Len(s)
           t == Append(s, x)
<1>1. n \in Nat /\ DOMAIN s = 1 .. n /\ t \in Seq(Files) /\ Len(t) = n + 1 /\ DOMAIN t = 1 .. n + 1
      /\ t[n + 1] = x /\ \A k \in 1 .. n : t[k] = s[k]
  OBVIOUS
<1>2. Tokens(x) \in Lexemes
  <2>1. Len(x) \in Nat /\ 1 \in 1 .. Len(x) + 2
    BY DEF Files
  <2> QED
    BY <2>1, TokensFromIs
<1>3. Tokens(x) \o Ended \in Lexemes
  BY <1>2 DEF Lexemes
<1> HIDE DEF n, t
<1>4. DOMAIN Pieces(s) = 1 .. n /\ \A k \in 1 .. n : Pieces(s)[k] = Tokens(s[k]) \o Ended
  BY <1>1 DEF Pieces
<1>5. Pieces(t) = [k \in 1 .. n + 1 |-> Tokens(t[k]) \o Ended]
  BY <1>1 DEF Pieces
<1> DEFINE y == Tokens(x) \o Ended
           u == Append(Pieces(s), y)
<1>6. Len(Pieces(s)) = n
  BY <1>1, <1>4, LenProperties
<1>7. /\ u \in Seq(Lexemes) /\ Len(u) = n + 1 /\ DOMAIN u = 1 .. n + 1
      /\ u[n + 1] = y /\ \A k \in 1 .. n : u[k] = Pieces(s)[k]
  <2>1. y \in Lexemes
    BY <1>3
  <2> HIDE DEF y
  <2> QED
    BY <1>6, <2>1
<1>8. \A k \in 1 .. n + 1 : u[k] = Tokens(t[k]) \o Ended
  <2> SUFFICES ASSUME NEW k \in 1 .. n + 1 PROVE u[k] = Tokens(t[k]) \o Ended
    OBVIOUS
  <2> HIDE DEF u
  <2>1. CASE k = n + 1
    BY <1>1, <1>7, <2>1
  <2>2. CASE k # n + 1
    <3>1. k \in 1 .. n
      BY <1>1, <2>2
    <3> QED
      BY <1>1, <1>4, <1>7, <3>1
  <2> QED
    BY <2>1, <2>2
<1>9. u = [k \in 1 .. n + 1 |-> u[k]]
  <2> HIDE DEF u
  <2> QED
    BY <1>7
<1>10. Pieces(t) = u
  <2> HIDE DEF u
  <2> QED
    BY <1>5, <1>8, <1>9
<1> QED
  BY <1>3, <1>10 DEF t

\* The statements but the last have their semicolons.
LEMMA LastPiece ==
    ASSUME NEW s \in Seq(Files), NEW x \in Files, Pieces(s) \in Seq(Lexemes)
    PROVE  LET t == Append(s, x)
               n == Len(t) - 1
           IN  [k \in DOMAIN t |-> Tokens(t[k]) \o IF k <= n THEN Ended ELSE <<>>] = Append(Pieces(s), Tokens(x))
<1> DEFINE n == Len(s)
           t == Append(s, x)
           v == [k \in DOMAIN t |-> Tokens(t[k]) \o IF k <= n THEN Ended ELSE <<>>]
<1>1. n \in Nat /\ DOMAIN s = 1 .. n /\ t \in Seq(Files) /\ Len(t) = n + 1 /\ DOMAIN t = 1 .. n + 1
      /\ t[n + 1] = x /\ (\A k \in 1 .. n : t[k] = s[k]) /\ Len(t) - 1 = n
  OBVIOUS
<1>2. Tokens(x) \in Lexemes
  <2>1. Len(x) \in Nat /\ 1 \in 1 .. Len(x) + 2
    BY DEF Files
  <2> QED
    BY <2>1, TokensFromIs
<1> HIDE DEF n, t
<1>3. DOMAIN Pieces(s) = 1 .. n /\ \A k \in 1 .. n : Pieces(s)[k] = Tokens(s[k]) \o Ended
  BY <1>1 DEF Pieces
<1> DEFINE y == Tokens(x)
           u == Append(Pieces(s), y)
<1>4. Len(Pieces(s)) = n
  BY <1>1, <1>3, LenProperties
<1>5. /\ u \in Seq(Lexemes) /\ Len(u) = n + 1 /\ DOMAIN u = 1 .. n + 1
      /\ u[n + 1] = y /\ \A k \in 1 .. n : u[k] = Pieces(s)[k]
  <2>1. y \in Lexemes
    BY <1>2
  <2> HIDE DEF y
  <2> QED
    BY <1>4, <2>1
<1>6. \A k \in 1 .. n + 1 : v[k] = u[k]
  <2> SUFFICES ASSUME NEW k \in 1 .. n + 1 PROVE v[k] = u[k]
    OBVIOUS
  <2>1. v[k] = Tokens(t[k]) \o IF k <= n THEN Ended ELSE <<>>
    BY <1>1
  <2> HIDE DEF u, v
  <2>2. CASE k = n + 1
    <3>1. ~(k <= n) /\ t[k] = x
      BY <1>1, <2>2
    <3>2. v[k] = Tokens(x) \o <<>>
      BY <2>1, <3>1
    <3>3. v[k] = Tokens(x)
      BY <1>2, <3>2, Grouping
    <3> QED
      BY <1>5, <2>2, <3>3
  <2>3. CASE k # n + 1
    <3>1. k \in 1 .. n /\ k <= n
      BY <1>1, <2>3
    <3> QED
      BY <1>1, <1>3, <1>5, <2>1, <3>1
  <2> QED
    BY <2>2, <2>3
<1>7. v = [k \in 1 .. n + 1 |-> v[k]] /\ u = [k \in 1 .. n + 1 |-> u[k]]
  <2>1. v = [k \in 1 .. n + 1 |-> v[k]]
    BY <1>1
  <2>2. u = [k \in 1 .. n + 1 |-> u[k]]
    <3> HIDE DEF u
    <3> QED
      BY <1>5
  <2> QED
    BY <2>1, <2>2
<1>8. v = u
  <2> HIDE DEF u, v
  <2> QED
    BY <1>6, <1>7
<1>9. v = [k \in DOMAIN t |-> Tokens(t[k]) \o IF k <= Len(t) - 1 THEN Ended ELSE <<>>]
  BY <1>1
<1> QED
  BY <1>8, <1>9 DEF t

\* The character looked at, in a state of the loop.
LEMMA SplitTypeIs ==
    ASSUME SplitType
    PROVE  /\ src \in Files /\ Len(src) \in Nat /\ p \in Int /\ start \in Int
           /\ start \in 1 .. Len(src) + 1
           /\ Running => p \in 1 .. Len(src) /\ src[p] \in STRING /\ ~AtEnd
BY SourcesAssumption DEF SplitType, Files, Running, AtEnd

\* Before the first character nothing is cut off.
LEMMA SplitStarts == SplitInit => SplitInv
<1> SUFFICES ASSUME SplitInit PROVE SplitInv
  OBVIOUS
<1>1. src \in Files /\ Len(src) \in Nat /\ 1 \in 1 .. Len(src) + 1 /\ 1 \in 1 .. Len(src) + 2
  BY SourcesAssumption DEF SplitInit, Files
<1>2. SplitType
  BY <1>1 DEF SplitInit, SplitType
<1>3. ~AtEnd
  BY <1>1 DEF SplitInit, AtEnd
<1>4. Pieces(processed) = <<>>
  BY DEF SplitInit, Pieces
<1>5. Pieces(processed) \in Seq(Lexemes) /\ FlattenSeq(Pieces(processed)) = <<>>
  <2>1. FlattenSeq(<<>>) = <<>>
    BY DEF FlattenSeq
  <2> QED
    BY <1>4, <2>1
<1>6. TokensFrom(src)[1] \in Lexemes /\ Tokens(src) = TokensFrom(src)[1]
  BY <1>1, TokensFromIs
<1>7. NothingLost
  BY <1>5, <1>6, Grouping DEF NothingLost, SplitInit
<1>8. CommentsFrom(src)[1] \subseteq Comments(src)
  BY <1>1, CommentsFromIs
<1>9. Spot(src, 1, 1, NoQuote, 1)
  BY <1>1, <1>8, ChainStarts
<1> QED
  BY <1>2, <1>3, <1>7, <1>9 DEF SplitInv, AtAnElement, SplitsBetweenTokens, SplitInit

\* The steps that cut nothing off.
LEMMA SplitMoves ==
    ASSUME SplitInv, InQuote \/ OpenQuote \/ OtherCharacter
    PROVE  SplitInv'
<1>1. SplitType /\ Running /\ p' = p + 1 /\ src' = src /\ start' = start /\ processed' = processed
  BY DEF SplitInv, InQuote, OpenQuote, OtherCharacter, Advance
<1>2. /\ src \in Files /\ Len(src) \in Nat /\ p \in Int /\ start \in Int /\ start \in 1 .. Len(src) + 1
      /\ p \in 1 .. Len(src) /\ src[p] \in STRING /\ ~AtEnd
  BY <1>1, SplitTypeIs
<1>3. SplitType'
  <2>1. quote' \in {NoQuote} \cup Quotes
    BY <1>1 DEF SplitType, InQuote, OpenQuote, OtherCharacter
  <2>2. p + 1 \in 1 .. Len(src) + 2 /\ start <= p + 1
    BY <1>1, <1>2 DEF SplitType
  <2> QED
    BY <1>1, <2>1, <2>2 DEF SplitType
<1>4. ~AtEnd'
  BY <1>1, <1>2 DEF AtEnd
<1>5. ASSUME HarmlessComments PROVE NothingLost' /\ AtAnElement'
  <2>1. NothingLost /\ AtAnElement
    BY <1>2, <1>5 DEF SplitInv
  <2>2. PICK k : Spot(src, start, p, quote, k)
    BY <2>1 DEF AtAnElement
  <2>3. \E l : Spot(src, start, p + 1, quote', l)
    <3>1. CASE InQuote
      <4>1. quote \in Quotes
        BY <1>1, <3>1 DEF SplitType, InQuote
      <4> QED
        BY <1>2, <2>2, <3>1, <4>1, QuoteGoesOn DEF InQuote, Closes
    <3>2. CASE OpenQuote
      BY <1>2, <2>2, <3>2, QuoteOpens DEF OpenQuote
    <3>3. CASE OtherCharacter
      BY <1>2, <1>5, <2>2, <3>3, ElementGoesOn DEF OtherCharacter, Special, Harmless, HarmlessComments
    <3> QED
      BY <3>1, <3>2, <3>3
  <2>4. NothingLost'
    BY <1>1, <2>1 DEF NothingLost
  <2> QED
    BY <1>1, <2>3, <2>4 DEF AtAnElement
<1>6. HarmlessComments' => HarmlessComments
  BY <1>1 DEF HarmlessComments
<1> QED
  BY <1>3, <1>4, <1>5, <1>6 DEF SplitInv, SplitsBetweenTokens

\* A statement is cut off where the tokenizer starts an element: the semicolon.
LEMMA SplitCuts ==
    ASSUME SplitInv, EndStatement
    PROVE  SplitInv'
<1> DEFINE x == SubSeq(src, start, p - 1)
<1>1. /\ SplitType /\ Running /\ quote = NoQuote /\ src[p] = ";" /\ quote' = quote /\ p' = p + 1
      /\ src' = src /\ start' = p + 1 /\ processed' = Append(processed, x)
  BY DEF SplitInv, EndStatement, Advance
<1>2. /\ src \in Files /\ Len(src) \in Nat /\ p \in Int /\ start \in Int /\ start \in 1 .. Len(src) + 1
      /\ p \in 1 .. Len(src) /\ src[p] \in STRING /\ ~AtEnd
  BY <1>1, SplitTypeIs
<1>3. /\ start <= p /\ p \in start .. Len(src) + 1 /\ p - 1 \in start - 1 .. Len(src)
      /\ processed \in Seq(Files)
  <2>1. start <= p /\ processed \in Seq(Files)
    BY <1>1 DEF SplitType
  <2> QED
    BY <1>2, <2>1
<1>4. x \in Files
  BY <1>2, <1>3, PartIs
<1> HIDE DEF x
<1>5. SplitType'
  <2>1. p + 1 \in 1 .. Len(src) + 2 /\ p + 1 \in 1 .. Len(src) + 1 /\ p + 1 <= p + 1
    BY <1>2
  <2>2. Append(processed, x) \in Seq(Files)
    BY <1>3, <1>4
  <2> QED
    BY <1>1, <2>1, <2>2 DEF SplitType
<1>6. ~AtEnd'
  <2>1. p + 1 # Len(src) + 2
    BY <1>2
  <2> QED
    BY <1>1, <2>1 DEF AtEnd
<1>7. ASSUME HarmlessComments PROVE NothingLost' /\ AtAnElement'
  <2> DEFINE f == TokensFrom(src)
             e == p + 1
  <2>1. NothingLost /\ AtAnElement
    BY <1>2, <1>7 DEF SplitInv
  <2>2. Spot(src, start, p, NoQuote, p)
    <3>1. PICK k : Spot(src, start, p, NoQuote, k)
      BY <1>1, <2>1 DEF AtAnElement
    <3>2. p = k
      BY <1>1, <1>2, <3>1, OutsideQuotes DEF Special
    <3> QED
      BY <3>1, <3>2
  <2>3. PICK C : Chain(src, start, p, C)
    BY <2>2 DEF Spot, Reached
  <2>4. Tokens(x) \in Lexemes /\ f[start] = Tokens(x) \o f[p]
    BY <1>2, <1>3, <2>3, CutTokens DEF x
  <2>5. EndOf(src, p) = e /\ Made(src, p) = Ended
    <3>1. /\ ~IsComment(src, p) /\ src[p] \notin Quotes /\ src[p] \notin Compares /\ src[p] \notin Letters
          /\ src[p] \in Singles
      BY <1>1, LettersAreNoMarks DEF IsComment, Quotes, Compares, Singles
    <3>2. EndOf(src, p) = p + 1
      BY <3>1 DEF EndOf
    <3>3. Made(src, p) = <<SubSeq(src, p, EndOf(src, p) - 1)>>
      BY <3>1 DEF Made
    <3>4. EndOf(src, p) - 1 = p
      BY <1>2, <3>2
    <3>5. SubSeq(src, p, p) = <<src[p]>>
      <4> DEFINE c == SubSeq(src, p, p)
      <4>1. p \in 1 .. Len(src) + 1 /\ p \in p - 1 .. Len(src) /\ p \in p .. p /\ p - p + 1 = 1
        BY <1>2
      <4>2. c \in Files /\ Len(c) = p - p + 1 /\ \A k \in p .. p : c[k - p + 1] = src[k]
        BY <1>2, <4>1, PartIs
      <4>3. c \in Files /\ Len(c) = 1 /\ c[1] = src[p]
        BY <4>1, <4>2
      <4> HIDE DEF c
      <4>4. c = <<src[p]>>
        BY <1>2, <4>3 DEF Files
      <4> QED
        BY <4>4 DEF c
    <3> QED
      BY <1>1, <3>2, <3>3, <3>4, <3>5 DEF Ended
  <2>6. /\ f \in [1 .. Len(src) + 2 -> Lexemes] /\ f[p] = Ended \o f[e]
        /\ e \in 1 .. Len(src) + 1 /\ e \in 1 .. Len(src) + 2
    <3>1. /\ f \in [1 .. Len(src) + 2 -> Lexemes]
          /\ \A k \in 1 .. Len(src) : f[k] = Made(src, k) \o f[EndOf(src, k)]
      BY <1>2, TokensFromIs
    <3>2. f[p] = Made(src, p) \o f[EndOf(src, p)]
      BY <1>2, <3>1
    <3>3. e \in 1 .. Len(src) + 1 /\ e \in 1 .. Len(src) + 2
      BY <1>2
    <3> QED
      BY <2>5, <3>1, <3>2, <3>3
  <2>7. Ended \in Lexemes
    BY <1>2, <2>5, ElementType
  <2> HIDE DEF f, e
  <2>8. f[e] \in Lexemes /\ f[start] = (Tokens(x) \o Ended) \o f[e]
    <3>1. f[e] \in Lexemes
      BY <2>6
    <3>2. (Tokens(x) \o Ended) \o f[e] = Tokens(x) \o (Ended \o f[e])
      BY <2>4, <2>7, <3>1, Regrouping
    <3> QED
      BY <2>4, <2>6, <3>1, <3>2
  <2>9. Pieces(processed) \in Seq(Lexemes) /\ FlattenSeq(Pieces(processed)) \o f[start] = Tokens(src)
    BY <2>1 DEF NothingLost, f
  <2> DEFINE more == Pieces(Append(processed, x))
             y == Tokens(x) \o Ended
  <2>10. more = Append(Pieces(processed), y) /\ y \in Lexemes
    BY <1>3, <1>4, <2>7, <2>9, PiecesAppend
  <2> HIDE DEF more, y
  <2>11. more \in Seq(Lexemes) /\ FlattenSeq(more) \o f[e] = Tokens(src)
    <3>1. more \in Seq(Lexemes)
      BY <2>9, <2>10
    <3>2. FlattenSeq(more) = FlattenSeq(Pieces(processed)) \o y
      BY <2>9, <2>10, FlattenAppend DEF Lexemes
    <3>3. FlattenSeq(Pieces(processed)) \in Lexemes
      BY <2>9, FlattenIs DEF Lexemes
    <3>4. f[start] = y \o f[e]
      BY <2>8 DEF y
    <3>5. (FlattenSeq(Pieces(processed)) \o y) \o f[e] = FlattenSeq(Pieces(processed)) \o (y \o f[e])
      BY <2>8, <2>10, <3>3, Regrouping
    <3> QED
      BY <2>9, <3>1, <3>2, <3>4, <3>5
  <2>12. NothingLost'
    BY <1>1, <2>11 DEF NothingLost, more, f, e
  <2>13. CommentsFrom(src)[e] \subseteq Comments(src)
    <3>1. CommentsFrom(src)[p] \subseteq Comments(src)
      BY <2>2 DEF Spot, Reached
    <3>2. CommentsFrom(src)[EndOf(src, p)] \subseteq CommentsFrom(src)[p]
      BY <1>2, CommentsFromIs
    <3> QED
      BY <2>5, <3>1, <3>2
  <2>14. Spot(src, e, e, NoQuote, e)
    BY <1>2, <2>6, <2>13, ChainStarts
  <2> QED
    BY <1>1, <2>12, <2>14 DEF AtAnElement, e
<1>8. HarmlessComments' => HarmlessComments
  BY <1>1 DEF HarmlessComments
<1> QED
  BY <1>5, <1>6, <1>7, <1>8 DEF SplitInv, SplitsBetweenTokens

\* What is left at the end is the last statement, or blank.
LEMMA SplitEnds ==
    ASSUME SplitInv, EndFile
    PROVE  SplitInv'
<1> DEFINE b == FirstInk(start)
           x == SubSeq(src, b, Len(src))
           f == TokensFrom(src)
<1>1. /\ SplitType /\ p = Len(src) + 1 /\ p' = p + 1 /\ src' = src /\ start' = start /\ quote' = quote
      /\ processed' = IF b > Len(src) THEN processed ELSE Append(processed, x)
  BY DEF SplitInv, EndFile
<1>2. src \in Files /\ Len(src) \in Nat /\ start \in Int /\ start \in 1 .. Len(src) + 1
  BY <1>1, SplitTypeIs
<1>3. First(src, start, STRING \ Blanks, b)
  BY <1>2, InkIs DEF FirstInk
<1>4. b \in start .. Len(src) + 1 /\ b \in 1 .. Len(src) + 1 /\ Len(src) \in b - 1 .. Len(src)
  <2>1. b \in start .. Len(src) + 1
    BY <1>3 DEF First
  <2> HIDE DEF b
  <2> QED
    BY <1>2, <2>1
<1> HIDE DEF b
<1>5. x \in Files
  BY <1>2, <1>4, PartIs
<1>6. f[start] = f[b] /\ f[b] = Tokens(x)
  <2>1. f[start] = f[b]
    BY <1>2, <1>3, BlankTokens
  <2>2. f[b] = Tokens(x)
    BY <1>2, <1>4, LastTokens
  <2> QED
    BY <2>1, <2>2
<1>7. f \in [1 .. Len(src) + 2 -> Lexemes] /\ f[Len(src) + 1] = <<>>
  BY <1>2, TokensFromIs
<1> HIDE DEF x, f
<1>8. SplitType'
  <2>1. p + 1 \in 1 .. Len(src) + 2 /\ start <= p + 1
    BY <1>1, <1>2
  <2>2. processed' \in Seq(Files)
    BY <1>1, <1>5 DEF SplitType
  <2> QED
    BY <1>1, <2>1, <2>2 DEF SplitType
<1>9. AtEnd' /\ ~AtEnd
  BY <1>1, <1>2 DEF AtEnd
<1>10. ASSUME HarmlessComments PROVE TokensOfStatements' = Tokens(src)
  <2>1. Pieces(processed) \in Seq(Lexemes) /\ FlattenSeq(Pieces(processed)) \o f[start] = Tokens(src)
    BY <1>9, <1>10 DEF SplitInv, NothingLost, f
  <2>2. FlattenSeq(Pieces(processed)) \in Lexemes
    BY <2>1, FlattenIs DEF Lexemes
  <2>3. processed \in Seq(Files)
    BY <1>1 DEF SplitType
  <2>4. TokensOfStatements' =
          FlattenSeq([k \in DOMAIN processed' |->
            Tokens(processed'[k]) \o IF k <= Len(processed') - (IF b > Len(src) THEN 0 ELSE 1) THEN Ended ELSE <<>>])
    BY <1>1 DEF TokensOfStatements, FirstInk, b, Ended
  <2>5. CASE b > Len(src)
    <3>1. b = Len(src) + 1 /\ processed' = processed
      BY <1>1, <1>2, <1>4, <2>5
    <3>2. TokensOfStatements' = FlattenSeq(Pieces(processed))
      <4>1. \A k \in DOMAIN processed : k <= Len(processed) - 0
        BY <2>3
      <4>2. [k \in DOMAIN processed |-> Tokens(processed[k]) \o IF k <= Len(processed) - 0 THEN Ended ELSE <<>>]
            = Pieces(processed)
        BY <4>1 DEF Pieces
      <4> QED
        BY <2>4, <2>5, <3>1, <4>2
    <3>3. f[start] = <<>>
      BY <1>6, <1>7, <3>1
    <3> QED
      BY <2>1, <2>2, <3>2, <3>3, Grouping
  <2>6. CASE ~(b > Len(src))
    <3>1. processed' = Append(processed, x)
      BY <1>1, <2>6
    <3>2. TokensOfStatements' = FlattenSeq(Append(Pieces(processed), Tokens(x)))
      BY <1>5, <2>1, <2>3, <2>4, <2>6, <3>1, LastPiece
    <3>3. Tokens(x) \in Lexemes
      <4>1. b \in 1 .. Len(src) + 2
        BY <1>2, <1>4
      <4> QED
        BY <1>6, <1>7, <4>1
    <3>4. FlattenSeq(Append(Pieces(processed), Tokens(x))) = FlattenSeq(Pieces(processed)) \o Tokens(x)
      BY <2>1, <3>3, FlattenAppend DEF Lexemes
    <3> QED
      BY <1>6, <2>1, <3>2, <3>4
  <2> QED
    BY <2>5, <2>6
<1>11. HarmlessComments' => HarmlessComments
  BY <1>1 DEF HarmlessComments
<1>12. SplitsBetweenTokens'
  BY <1>1, <1>10, <1>11 DEF SplitsBetweenTokens
<1> QED
  BY <1>8, <1>9, <1>12 DEF SplitInv

(***************************************************************************)
(* For every set of files: run_statements hands process_stmt statements    *)
(* whose tokens are those of the file, if its comments hold neither a      *)
(* quote nor a semicolon.                                                  *)
(***************************************************************************)
THEOREM StreamSplitsBetweenTokens == SplitSpec => []SplitsBetweenTokens
<1>1. SplitInv /\ [SplitNext]_splitVars => SplitInv'
  <2> SUFFICES ASSUME SplitInv, [SplitNext]_splitVars PROVE SplitInv'
    OBVIOUS
  <2>1. CASE InQuote \/ OpenQuote \/ OtherCharacter
    BY <2>1, SplitMoves
  <2>2. CASE EndStatement
    BY <2>2, SplitCuts
  <2>3. CASE EndFile
    BY <2>3, SplitEnds
  <2>4. CASE UNCHANGED splitVars
    <3>1. src' = src /\ p' = p /\ start' = start /\ quote' = quote /\ processed' = processed
      BY <2>4 DEF splitVars
    <3>2. SplitType' /\ (HarmlessComments' => HarmlessComments) /\ (AtEnd' <=> AtEnd)
      BY <3>1 DEF SplitInv, SplitType, HarmlessComments, AtEnd
    <3>3. (NothingLost => NothingLost') /\ (AtAnElement => AtAnElement')
      BY <3>1 DEF NothingLost, AtAnElement
    <3>4. TokensOfStatements' = TokensOfStatements
      BY <3>1 DEF TokensOfStatements, FirstInk
    <3>5. SplitsBetweenTokens'
      BY <3>1, <3>2, <3>4 DEF SplitInv, SplitsBetweenTokens
    <3> QED
      BY <3>2, <3>3, <3>5 DEF SplitInv
  <2> QED
    BY <2>1, <2>2, <2>3, <2>4 DEF SplitNext, Exit
<1>2. SplitInv => SplitsBetweenTokens
  BY DEF SplitInv
<1> QED
  BY <1>1, <1>2, SplitStarts, PTL DEF SplitSpec
=============================================================================
