---------------------------- MODULE RowQueryProof ----------------------------
(***************************************************************************)
(* For every schema, table and statement: the loops of row_matches_delete  *)
(* evaluate the chain as its reading says, sort_selection sorts what is    *)
(* comparable, an answer is made of the rows the WHERE accepts, and LIKE   *)
(* accepts what can be cut as its pattern says.                            *)
(***************************************************************************)
EXTENDS RowQueryProps, PositionLemmas

\* Some group that ends with clause c holds, were the chain to end there.
GroupHolds(c) ==
    \E a \in 1 .. c :
        /\ Starts(query, a) /\ Joined(query, a, c)
        /\ \A k \in a .. c : ClauseHolds(rows[row], query.where[k])

TypeInv ==
    /\ TypeOK
    /\ query \in Queries
    /\ rows \in Seq(Row)
    /\ Len(selection) < row

ChainInv ==
    /\ stage = "check" => clause = 0
    /\ stage = "where" /\ clause # 0 =>
         /\ row <= Len(rows)
         /\ group = GroupHolds(clause)
         /\ matched = \E b \in 1 .. clause - 1 : query.links[b] = "OR" /\ GroupHolds(b)

SelectionFromRows ==
    \A n \in DOMAIN selection : \E m \in DOMAIN rows : selection[n] = rows[m]

SortInv ==
    /\ stage \in {"check", "where"} => i = 1 /\ j = 2
    /\ SelectionFromRows
    /\ PrefixIsFinal
    /\ SortedWhenComparable

IInv == TypeInv /\ ChainInv /\ SortInv

-----------------------------------------------------------------------------
(***************************************************************************)
(* What a statement that satisfies the assumption looks like.              *)
(***************************************************************************)
LEMMA QueryFields ==
    ASSUME NEW q \in Queries
    PROVE  /\ q.where \in Seq(Clause)
           /\ \A k \in 1 .. Len(q.where) - 1 : q.links[k] \in {"AND", "OR"}
           /\ q.asc \in BOOLEAN
  <1>1. q.where \in Seq(Clause) /\ q.links \in Seq({"AND", "OR"}) /\ q.asc \in BOOLEAN
    BY QueriesAssumption
  <1>2. ASSUME NEW k \in 1 .. Len(q.where) - 1 PROVE q.links[k] \in {"AND", "OR"}
    <2>1. Len(q.where) \in Nat
      BY <1>1
    <2>2. q.where # <<>>
      BY <1>2, <2>1
    <2>3. Len(q.links) = Len(q.where) - 1
      BY <2>2, QueriesAssumption
    <2>4. k \in 1 .. Len(q.links)
      BY <2>3
    <2> QED BY <2>4, <1>1
  <1> QED BY <1>1, <1>2

LEMMA InitHolds == Init => IInv
  <1> SUFFICES ASSUME Init PROVE IInv
    OBVIOUS
  <1>1. query \in Queries /\ rows \in Seq(Row)
    BY TablesAssumption DEF Init, Queries
  <1>2. query.where \in Seq(Clause)
    BY <1>1, QueryFields
  <1>3. TypeInv
    <2>1. Len(rows) \in Nat /\ Len(query.where) \in Nat
      BY <1>1, <1>2, LenProperties
    <2>2. selection \in Seq(Row) /\ Len(selection) = 0
      BY DEF Init
    <2>3. /\ stage = "check" /\ row = 1 /\ clause = 0
          /\ group = FALSE /\ matched = FALSE /\ i = 1 /\ j = 2 /\ next = 2 /\ best = 1
      BY DEF Init
    <2>4. group \in BOOLEAN /\ matched \in BOOLEAN
      BY <2>3
    <2>5. /\ row \in 1 .. Len(rows) + 1 /\ clause \in 0 .. Len(query.where)
          /\ Len(selection) <= Len(rows) /\ Len(selection) < row
          /\ i \in 1 .. Len(selection) + 1 /\ j \in i + 1 .. Len(selection) + 2
          /\ next \in 2 .. Len(selection) + 2 /\ best \in 1 .. Len(selection) + 1
      BY <2>1, <2>2, <2>3
    <2> QED BY <1>1, <2>2, <2>3, <2>4, <2>5 DEF TypeInv, TypeOK
  <1>4. ChainInv
    BY DEF Init, ChainInv
  <1>5. SelectionFromRows
    BY DEF Init, SelectionFromRows
  <1>6. SortInv
    BY <1>5 DEF Init, SortInv, PrefixIsFinal, SortedWhenComparable
  <1> QED BY <1>3, <1>4, <1>6 DEF IInv

-----------------------------------------------------------------------------
(***************************************************************************)
(* The chain.  One more clause closes the open group or extends it.        *)
(***************************************************************************)
LEMMA ChainIsBoolean ==
    /\ \A r, c : ClauseHolds(r, c) \in BOOLEAN
    /\ \A c : GroupHolds(c) \in BOOLEAN
  <1>1. ASSUME NEW r, NEW c PROVE ClauseHolds(r, c) \in BOOLEAN
    <2>1. CASE c.op = "LIKE"
      <3>1. Matches(r[c.column], c.value) \in BOOLEAN
        BY DEF Matches
      <3> QED BY <2>1, <3>1 DEF ClauseHolds
    <2>2. CASE c.op # "LIKE"
      BY <2>2 DEF ClauseHolds, Compare
    <2> QED BY <2>1, <2>2
  <1>2. ASSUME NEW c PROVE GroupHolds(c) \in BOOLEAN
    BY DEF GroupHolds
  <1> QED BY <1>1, <1>2

LEMMA GroupBegins ==
    ASSUME IInv, query.where # <<>>
    PROVE  GroupHolds(1) <=> ClauseHolds(rows[row], query.where[1])
  BY DEF GroupHolds, Starts, Joined

LEMMA GroupGrows ==
    ASSUME IInv, NEW c \in 1 .. Len(query.where) - 1, query.links[c] = "AND"
    PROVE  GroupHolds(c + 1) <=>
             GroupHolds(c) /\ ClauseHolds(rows[row], query.where[c + 1])
  <1>0. c \in Nat /\ c >= 1
    OBVIOUS
  <1>1. ASSUME GroupHolds(c), ClauseHolds(rows[row], query.where[c + 1])
        PROVE  GroupHolds(c + 1)
    <2>1. PICK a \in 1 .. c :
            /\ Starts(query, a) /\ Joined(query, a, c)
            /\ \A k \in a .. c : ClauseHolds(rows[row], query.where[k])
      BY <1>1 DEF GroupHolds
    <2>2. Joined(query, a, c + 1)
      <3> SUFFICES ASSUME NEW k \in a .. c + 1 - 1 PROVE query.links[k] = "AND"
        BY DEF Joined
      <3>1. CASE k = c
        BY <3>1
      <3>2. CASE k # c
        <4>1. k \in a .. c - 1
          BY <3>2, <1>0
        <4> QED BY <4>1, <2>1 DEF Joined
      <3> QED BY <3>1, <3>2
    <2>3. \A k \in a .. c + 1 : ClauseHolds(rows[row], query.where[k])
      <3> SUFFICES ASSUME NEW k \in a .. c + 1 PROVE ClauseHolds(rows[row], query.where[k])
        OBVIOUS
      <3>1. k = c + 1 \/ k \in a .. c
        BY <1>0
      <3> QED BY <3>1, <2>1, <1>1
    <2>4. a \in 1 .. c + 1
      BY <1>0
    <2> QED BY <2>1, <2>2, <2>3, <2>4 DEF GroupHolds
  <1>2. ASSUME GroupHolds(c + 1)
        PROVE  GroupHolds(c) /\ ClauseHolds(rows[row], query.where[c + 1])
    <2>1. PICK a \in 1 .. c + 1 :
            /\ Starts(query, a) /\ Joined(query, a, c + 1)
            /\ \A k \in a .. c + 1 : ClauseHolds(rows[row], query.where[k])
      BY <1>2 DEF GroupHolds
    <2>2. a # c + 1
      <3> SUFFICES ASSUME a = c + 1 PROVE FALSE
        OBVIOUS
      <3>1. a # 1 /\ a - 1 = c
        BY <1>0
      <3> QED BY <2>1, <3>1 DEF Starts
    <2>3. a \in 1 .. c
      BY <2>2, <1>0
    <2>4. Joined(query, a, c)
      <3> SUFFICES ASSUME NEW k \in a .. c - 1 PROVE query.links[k] = "AND"
        BY DEF Joined
      <3>1. k \in a .. c + 1 - 1
        BY <1>0
      <3> QED BY <3>1, <2>1 DEF Joined
    <2>5. \A k \in a .. c : ClauseHolds(rows[row], query.where[k])
      <3> SUFFICES ASSUME NEW k \in a .. c PROVE ClauseHolds(rows[row], query.where[k])
        OBVIOUS
      <3>1. k \in a .. c + 1
        BY <1>0
      <3> QED BY <3>1, <2>1
    <2>6. c + 1 \in a .. c + 1
      BY <1>0
    <2> QED BY <2>1, <2>3, <2>4, <2>5, <2>6 DEF GroupHolds
  <1> QED BY <1>1, <1>2

LEMMA GroupRestarts ==
    ASSUME IInv, NEW c \in 1 .. Len(query.where) - 1, query.links[c] = "OR"
    PROVE  GroupHolds(c + 1) <=> ClauseHolds(rows[row], query.where[c + 1])
  <1>0. c \in Nat /\ c >= 1
    OBVIOUS
  <1>1. ASSUME ClauseHolds(rows[row], query.where[c + 1]) PROVE GroupHolds(c + 1)
    <2>1. c + 1 \in 1 .. c + 1 /\ Starts(query, c + 1) /\ Joined(query, c + 1, c + 1)
      BY <1>0 DEF Starts, Joined
    <2>2. \A k \in c + 1 .. c + 1 : k = c + 1
      BY <1>0
    <2>3. \A k \in c + 1 .. c + 1 : ClauseHolds(rows[row], query.where[k])
      BY <2>2, <1>1
    <2> QED BY <2>1, <2>3 DEF GroupHolds
  <1>2. ASSUME GroupHolds(c + 1) PROVE ClauseHolds(rows[row], query.where[c + 1])
    <2>1. PICK a \in 1 .. c + 1 :
            \A k \in a .. c + 1 : ClauseHolds(rows[row], query.where[k])
      BY <1>2 DEF GroupHolds
    <2>2. c + 1 \in a .. c + 1
      BY <1>0
    <2> QED BY <2>1, <2>2
  <1> QED BY <1>1, <1>2

(***************************************************************************)
(* At the end of the chain the loop variables are its reading.             *)
(***************************************************************************)
LEMMA ChainEnds ==
    ASSUME IInv, stage = "where", clause # 0, clause = Len(query.where)
    PROVE  (matched \/ group) <=> Accepts(query, rows[row])
  <1> DEFINE n == Len(query.where)
  <1>0. query.where \in Seq(Clause)
    BY QueryFields DEF IInv, TypeInv
  <1>1. n \in Nat /\ n >= 1 /\ query.where # <<>> /\ DOMAIN query.where = 1 .. n
    BY <1>0 DEF IInv, TypeInv, TypeOK
  <1>2. /\ group = GroupHolds(n)
        /\ matched = \E b \in 1 .. n - 1 : query.links[b] = "OR" /\ GroupHolds(b)
    BY DEF IInv, ChainInv
  <1>3. (matched \/ group) <=> \E b \in 1 .. n : Ends(query, b) /\ GroupHolds(b)
    <2>1. ASSUME NEW b \in 1 .. n PROVE b = n \/ b \in 1 .. n - 1
      BY <1>1
    <2>2. ASSUME NEW b \in 1 .. n - 1 PROVE b \in 1 .. n /\ b # n
      BY <1>1
    <2>3. n \in 1 .. n
      BY <1>1
    <2> QED BY <1>2, <2>1, <2>2, <2>3 DEF Ends
  <1>4. ASSUME NEW b \in 1 .. n, Ends(query, b), GroupHolds(b)
        PROVE  Accepts(query, rows[row])
    <2>1. PICK a \in 1 .. b :
            /\ Starts(query, a) /\ Joined(query, a, b)
            /\ \A k \in a .. b : ClauseHolds(rows[row], query.where[k])
      BY <1>4 DEF GroupHolds
    <2>2. a \in DOMAIN query.where /\ b \in DOMAIN query.where /\ a <= b
      BY <1>1
    <2> QED BY <2>1, <2>2, <1>4 DEF Accepts
  <1>5. ASSUME Accepts(query, rows[row])
        PROVE  \E b \in 1 .. n : Ends(query, b) /\ GroupHolds(b)
    <2>1. PICK a \in DOMAIN query.where, b \in DOMAIN query.where :
            /\ a <= b /\ Starts(query, a) /\ Ends(query, b) /\ Joined(query, a, b)
            /\ \A k \in a .. b : ClauseHolds(rows[row], query.where[k])
      BY <1>5, <1>1 DEF Accepts
    <2>2. b \in 1 .. n /\ a \in 1 .. b
      BY <2>1, <1>1
    <2> QED BY <2>1, <2>2 DEF GroupHolds
  <1> QED BY <1>3, <1>4, <1>5

-----------------------------------------------------------------------------
(***************************************************************************)
(* The order.  Comparable rows are ordered by a number.                    *)
(***************************************************************************)
Key(r) ==
    LET c == query.orderBy
        v == IF Types[c] \in Numeric THEN Numbers[Types[c]][r[c]] ELSE Rank[r[c]]
    IN  IF query.asc THEN v ELSE -v

LEMMA KeyOrders ==
    ASSUME IInv, query.orderBy \in Columns, NEW a \in Row, NEW b \in Row,
           Parses(Types[query.orderBy], a[query.orderBy]),
           Parses(Types[query.orderBy], b[query.orderBy])
    PROVE  /\ Key(a) \in Int /\ Key(b) \in Int
           /\ Misplaced(a, b) <=> Key(a) > Key(b)
           /\ OutOfOrder(a, b) <=> Misplaced(a, b)
  <1> DEFINE c == query.orderBy
             t == Types[c]
  <1>1. a[c] \in Cells /\ b[c] \in Cells
    BY DEF Row
  <1>2. query.asc \in BOOLEAN
    BY QueryFields DEF IInv, TypeInv
  <1>3. CASE t \in Numeric
    <2>1. a[c] \in DOMAIN Numbers[t] /\ b[c] \in DOMAIN Numbers[t]
      BY <1>3 DEF Parses
    <2>2. Numbers[t][a[c]] \in Int /\ Numbers[t][b[c]] \in Int
      BY <1>3, <2>1, NumbersAssumption
    <2> QED BY <1>2, <1>3, <2>2 DEF Key, Misplaced, OutOfOrder, RowDifference, Difference
  <1>4. CASE t \notin Numeric
    <2>1. Rank[a[c]] \in Int /\ Rank[b[c]] \in Int
      BY <1>1, RankAssumption
    <2> QED BY <1>2, <1>4, <2>1 DEF Key, Misplaced, OutOfOrder, RowDifference, Difference
  <1> QED BY <1>3, <1>4

LEMMA SelectedRows ==
    ASSUME IInv, NEW n \in 1 .. Len(selection)
    PROVE  /\ selection[n] \in Row
           /\ Ordered => Parses(Types[query.orderBy], selection[n][query.orderBy])
  <1>1. selection \in Seq(Row)
    BY DEF IInv, TypeInv, TypeOK
  <1>2. PICK m \in DOMAIN rows : selection[n] = rows[m]
    BY <1>1 DEF IInv, SortInv, SelectionFromRows
  <1> QED BY <1>1, <1>2 DEF Ordered, Comparable

(***************************************************************************)
(* One step of the sort.                                                   *)
(***************************************************************************)
LEMMA ComparePairKeepsInv == IInv /\ ComparePair => IInv'
  <1> SUFFICES ASSUME IInv, ComparePair PROVE IInv'
    OBVIOUS
  <1> DEFINE n == Len(selection)
  <1>0. /\ selection \in Seq(Row) /\ n \in Nat
        /\ i \in 1 .. n + 1 /\ j \in i + 1 .. n + 2 /\ j <= n
        /\ stage = "sort" /\ query.orderBy \in Columns
    <2>1. selection \in Seq(Row) /\ i \in 1 .. n + 1 /\ j \in i + 1 .. n + 2
      BY DEF IInv, TypeInv, TypeOK
    <2>2. j <= n /\ stage = "sort" /\ query.orderBy \in Columns
      BY DEF ComparePair, Sorts
    <2> QED BY <2>1, <2>2, LenProperties
  <1>1. i \in 1 .. n /\ j \in 1 .. n /\ i < j /\ DOMAIN selection = 1 .. n
    BY <1>0
  <1>2. /\ UNCHANGED <<stage, rows, query, row, clause, group, matched, i, next, best>>
        /\ j' = j + 1
    BY DEF ComparePair, inputs, chain, scan
  <1>3. /\ selection' \in Seq(Row) /\ Len(selection') = n
        /\ \A m \in 1 .. n : m # i /\ m # j => selection'[m] = selection[m]
        /\ \/ /\ OutOfOrder(selection[i], selection[j])
              /\ selection'[i] = selection[j] /\ selection'[j] = selection[i]
           \/ /\ ~OutOfOrder(selection[i], selection[j])
              /\ selection' = selection
    <2>1. CASE OutOfOrder(selection[i], selection[j])
      <3>1. selection' = [selection EXCEPT ![i] = selection[j], ![j] = selection[i]]
        BY <2>1 DEF ComparePair, Exchange
      <3> QED BY <3>1, <2>1, <1>0, <1>1
    <2>2. CASE ~OutOfOrder(selection[i], selection[j])
      BY <2>2, <1>0 DEF ComparePair
    <2> QED BY <2>1, <2>2
  <1>4. TypeInv'
    <2>1. i \in 1 .. n + 1 /\ j + 1 \in i + 1 .. n + 2
      BY <1>0, <1>1
    <2> QED BY <1>2, <1>3, <2>1 DEF IInv, TypeInv, TypeOK
  <1>5. ChainInv'
    BY <1>0, <1>2 DEF ChainInv
  <1>6. SelectionFromRows'
    <2> SUFFICES ASSUME NEW m \in 1 .. n
                 PROVE  \E k \in DOMAIN rows : selection'[m] = rows[k]
      BY <1>2, <1>3 DEF SelectionFromRows
    <2>1. \E l \in 1 .. n : selection'[m] = selection[l]
      BY <1>1, <1>3
    <2> QED BY <2>1, <1>1 DEF IInv, SortInv, SelectionFromRows
  <1>7. PrefixIsFinal'
    <2> SUFFICES ASSUME Ordered
                 PROVE  /\ \A a \in 1 .. i - 1, b \in 1 .. n :
                             a < b => ~Misplaced(selection'[a], selection'[b])
                        /\ \A b \in i + 1 .. j :
                             ~Misplaced(selection'[i], selection'[b])
      <3>1. Ordered' = Ordered /\ \A a, b : Misplaced(a, b)' = Misplaced(a, b)
        BY <1>2 DEF Ordered, Sorts, Comparable, Misplaced
      <3>2. j' - 1 = j /\ DOMAIN selection' = 1 .. n
        BY <1>0, <1>2, <1>3
      <3> QED BY <1>0, <1>1, <1>2, <1>3, <3>1, <3>2 DEF PrefixIsFinal
    <2>1. \A a \in 1 .. n, b \in 1 .. n :
            /\ Key(selection[a]) \in Int /\ Key(selection[b]) \in Int
            /\ Misplaced(selection[a], selection[b])
                  <=> Key(selection[a]) > Key(selection[b])
            /\ OutOfOrder(selection[a], selection[b])
                  <=> Misplaced(selection[a], selection[b])
      BY <1>0, SelectedRows, KeyOrders
    <2>2. /\ \A a \in 1 .. i - 1, b \in 1 .. n :
               a < b => ~Misplaced(selection[a], selection[b])
          /\ \A b \in i + 1 .. j - 1 : ~Misplaced(selection[i], selection[b])
      BY <1>0, <1>1 DEF IInv, SortInv, PrefixIsFinal
    <2>3. ASSUME NEW a \in 1 .. i - 1, NEW b \in 1 .. n, a < b
          PROVE  ~Misplaced(selection'[a], selection'[b])
      <3>1. selection'[a] = selection[a]
        BY <1>1, <1>3
      <3>2. \E l \in 1 .. n : a < l /\ selection'[b] = selection[l]
        BY <1>1, <1>3, <2>3
      <3> QED BY <3>1, <3>2, <2>2
    <2>4. ASSUME NEW b \in i + 1 .. j
          PROVE  ~Misplaced(selection'[i], selection'[b])
      <3>1. b \in 1 .. n /\ b # i /\ (b = j \/ b \in i + 1 .. j - 1)
        BY <1>0, <1>1
      <3>2. CASE OutOfOrder(selection[i], selection[j])
        <4>1. selection'[i] = selection[j] /\ selection'[j] = selection[i]
          BY <3>2, <1>3
        <4>2. Key(selection[i]) > Key(selection[j])
          BY <3>2, <2>1, <1>1
        <4>3. CASE b = j
          BY <4>1, <4>2, <4>3, <2>1, <1>1
        <4>4. CASE b \in i + 1 .. j - 1
          <5>1. selection'[b] = selection[b]
            BY <4>4, <3>1, <1>3, <1>1
          <5>2. ~(Key(selection[i]) > Key(selection[b]))
            BY <4>4, <2>1, <2>2, <3>1, <1>1
          <5>3. ~(Key(selection[j]) > Key(selection[b]))
            BY <5>2, <4>2, <2>1, <3>1, <1>1
          <5> QED BY <5>1, <5>3, <4>1, <2>1, <3>1, <1>1
        <4> QED BY <4>3, <4>4, <3>1
      <3>3. CASE ~OutOfOrder(selection[i], selection[j])
        <4>1. selection' = selection
          BY <3>3, <1>3
        <4> QED BY <4>1, <3>1, <3>3, <2>1, <2>2, <1>1
      <3> QED BY <3>2, <3>3
    <2> QED BY <2>3, <2>4
  <1>8. SortedWhenComparable' /\ (stage' \in {"check", "where"} => i' = 1 /\ j' = 2)
    BY <1>0, <1>2 DEF SortedWhenComparable
  <1> QED BY <1>4, <1>5, <1>6, <1>7, <1>8 DEF IInv, SortInv

-----------------------------------------------------------------------------
(***************************************************************************)
(* The other steps.                                                        *)
(***************************************************************************)
LEMMA FailKeepsInv == IInv /\ Fail => IInv'
  <1> SUFFICES ASSUME IInv, Fail PROVE IInv'
    OBVIOUS
  <1>1. /\ stage' = "failed"
        /\ UNCHANGED <<rows, query, row, clause, group, matched, selection, i, j, next, best>>
    BY DEF Fail, inputs, chain, loops
  <1>2. TypeInv'
    BY <1>1 DEF IInv, TypeInv, TypeOK
  <1>3. ChainInv' /\ SortInv'
    BY <1>1 DEF IInv, ChainInv, SortInv, SelectionFromRows, PrefixIsFinal,
                SortedWhenComparable
  <1> QED BY <1>2, <1>3 DEF IInv

\* A step that only changes the stage, and does not enter the sort or leave it.
LEMMA StageKeepsInv ==
    ASSUME IInv,
           UNCHANGED <<rows, query, row, clause, group, matched, selection, i, j, next, best>>,
           \/ stage = "check" /\ stage' = "where" /\ clause = 0
           \/ stage = "where" /\ stage' = "done" /\ query.kind = "DELETE"
           \/ stage = "where" /\ stage' = "sort"
           \/ stage = "sort" /\ stage' = "package" /\ (Ordered => i > Len(selection))
           \/ stage = "package" /\ stage' = "done"
    PROVE  IInv'
  <1>0. selection \in Seq(Row) /\ Len(selection) \in Nat /\ i \in 1 .. Len(selection) + 1
        /\ DOMAIN selection = 1 .. Len(selection)
    BY DEF IInv, TypeInv, TypeOK
  <1>1. TypeInv'
    BY DEF IInv, TypeInv, TypeOK
  <1>2. ChainInv'
    BY DEF IInv, ChainInv
  <1>3. SelectionFromRows' /\ (stage' \in {"check", "where"} => i' = 1 /\ j' = 2)
    BY DEF IInv, SortInv, SelectionFromRows
  <1>4. CASE stage = "where" /\ stage' = "sort"
    <2>1. i = 1 /\ j = 2
      BY <1>4 DEF IInv, SortInv
    <2>2. PrefixIsFinal'
      BY <1>4, <2>1, <1>0 DEF PrefixIsFinal
    <2>3. SortedWhenComparable'
      BY <1>4 DEF SortedWhenComparable
    <2> QED BY <1>1, <1>2, <1>3, <2>2, <2>3 DEF IInv, SortInv
  <1>5. CASE stage = "sort" /\ stage' = "package"
    <2>1. PrefixIsFinal'
      BY <1>5 DEF PrefixIsFinal
    <2>2. SortedWhenComparable'
      <3> SUFFICES ASSUME Ordered, NEW a \in DOMAIN selection, NEW b \in DOMAIN selection,
                          a < b
                   PROVE  ~Misplaced(selection[a], selection[b])
        BY DEF SortedWhenComparable, Ordered, Sorts, Comparable, Misplaced
      <3>1. a \in 1 .. i - 1
        BY <1>0, <1>5
      <3> QED BY <3>1, <1>5 DEF IInv, SortInv, PrefixIsFinal
    <2> QED BY <1>1, <1>2, <1>3, <2>1, <2>2 DEF IInv, SortInv
  <1>6. CASE stage = "package" /\ stage' = "done"
    <2>1. PrefixIsFinal' /\ SortedWhenComparable'
      BY <1>6 DEF IInv, SortInv, PrefixIsFinal, SortedWhenComparable, Ordered, Sorts, Comparable,
                  Misplaced
    <2> QED BY <1>1, <1>2, <1>3, <2>1 DEF IInv, SortInv
  <1>7. CASE \/ stage = "check" /\ stage' = "where"
             \/ stage = "where" /\ stage' = "done" /\ query.kind = "DELETE"
    <2>1. PrefixIsFinal' /\ SortedWhenComparable'
      BY <1>7 DEF PrefixIsFinal, SortedWhenComparable
    <2> QED BY <1>1, <1>2, <1>3, <2>1 DEF IInv, SortInv
  <1> QED BY <1>4, <1>5, <1>6, <1>7

\* The scan for MIN or MAX leaves the rows where the sort left them.
LEMMA ScanKeepsInv == IInv /\ (StartScan \/ ScanRow \/ EndScan) => IInv'
  <1> SUFFICES ASSUME IInv, StartScan \/ ScanRow \/ EndScan PROVE IInv'
    OBVIOUS
  <1>1. /\ UNCHANGED <<rows, query, row, clause, group, matched, selection, i, j>>
        /\ stage \in {"package", "scan"} /\ stage' \in {"scan", "done"}
    BY DEF StartScan, ScanRow, EndScan, inputs, chain, pair, loops
  <1>2. next' \in 2 .. Len(selection) + 2 /\ best' \in 1 .. Len(selection) + 1
    <2>1. /\ Len(selection) \in Nat
          /\ next \in 2 .. Len(selection) + 2 /\ best \in 1 .. Len(selection) + 1
      BY DEF IInv, TypeInv, TypeOK
    <2>2. CASE StartScan
      BY <2>1, <2>2 DEF StartScan
    <2>3. CASE ScanRow
      BY <2>1, <2>3 DEF ScanRow
    <2>4. CASE EndScan
      BY <2>1, <2>4 DEF EndScan, loops
    <2> QED BY <2>2, <2>3, <2>4
  <1>3. TypeInv'
    BY <1>1, <1>2 DEF IInv, TypeInv, TypeOK
  <1>4. ChainInv' /\ SelectionFromRows' /\ PrefixIsFinal'
    BY <1>1 DEF IInv, ChainInv, SortInv, SelectionFromRows, PrefixIsFinal
  <1>5. SortedWhenComparable'
    <2>1. Ordered' = Ordered /\ \A a, b : Misplaced(a, b)' = Misplaced(a, b)
      BY <1>1 DEF Ordered, Sorts, Comparable, Misplaced
    <2> QED BY <1>1, <2>1 DEF IInv, SortInv, SortedWhenComparable
  <1> QED BY <1>1, <1>3, <1>4, <1>5 DEF IInv, SortInv

LEMMA RowIsKeepsInv ==
    ASSUME IInv, stage = "where", row <= Len(rows), NEW hit, RowIs(hit)
    PROVE  IInv'
  <1>1. /\ rows \in Seq(Row) /\ selection \in Seq(Row) /\ row \in 1 .. Len(rows)
        /\ Len(selection) < row /\ i = 1 /\ j = 2
        /\ query.where \in Seq(Clause)
    BY QueryFields DEF IInv, TypeInv, TypeOK, SortInv
  <1>2. /\ UNCHANGED <<stage, rows, query, i, j, next, best>>
        /\ row' = row + 1 /\ clause' = 0 /\ group' = FALSE /\ matched' = FALSE
    BY DEF RowIs, inputs, loops
  <1>3. rows[row] \in Row /\ row \in DOMAIN rows
    BY <1>1
  <1>4. selection' = Append(selection, rows[row]) \/ selection' = selection
    BY DEF RowIs
  <1>5. selection' \in Seq(Row) /\ Len(selection') < row' /\ Len(selection') \in Nat
    BY <1>1, <1>2, <1>3, <1>4
  <1>6. TypeInv'
    <2>1. row' \in 1 .. Len(rows) + 1 /\ Len(selection') <= Len(rows)
      BY <1>1, <1>2, <1>5
    <2>2. i' \in 1 .. Len(selection') + 1 /\ j' \in i' + 1 .. Len(selection') + 2
      BY <1>1, <1>2, <1>5
    <2>4. next' \in 2 .. Len(selection') + 2 /\ best' \in 1 .. Len(selection') + 1
      <3>1. Len(selection) \in Nat /\ Len(selection') \in Nat /\ Len(selection') >= Len(selection)
        BY <1>1, <1>3, <1>4
      <3>2. next \in 2 .. Len(selection) + 2 /\ best \in 1 .. Len(selection) + 1
        BY DEF IInv, TypeInv, TypeOK
      <3> QED BY <1>2, <3>1, <3>2
    <2>3. clause' \in 0 .. Len(query.where)
      BY <1>1, <1>2
    <2> QED BY <1>1, <1>2, <1>5, <2>1, <2>2, <2>3, <2>4 DEF IInv, TypeInv, TypeOK
  <1>7. ChainInv'
    BY <1>2 DEF ChainInv
  <1>8. SelectionFromRows'
    <2> SUFFICES ASSUME NEW n \in DOMAIN selection'
                 PROVE  \E m \in DOMAIN rows : selection'[n] = rows[m]
      BY <1>2 DEF SelectionFromRows
    <2>1. \/ n \in DOMAIN selection /\ selection'[n] = selection[n]
          \/ selection'[n] = rows[row]
      BY <1>1, <1>3, <1>4
    <2> QED BY <2>1, <1>3 DEF IInv, SortInv, SelectionFromRows
  <1>9. PrefixIsFinal' /\ SortedWhenComparable'
    BY <1>2 DEF PrefixIsFinal, SortedWhenComparable
  <1> QED BY <1>1, <1>2, <1>6, <1>7, <1>8, <1>9 DEF IInv, SortInv

\* A step that works on the chain only.
LEMMA ChainStepKeepsInv ==
    ASSUME IInv, stage = "where", row <= Len(rows), NEW c \in 1 .. Len(query.where),
           clause' = c, group' = GroupHolds(c),
           matched' = \E b \in 1 .. c - 1 : query.links[b] = "OR" /\ GroupHolds(b),
           UNCHANGED <<stage, rows, query, row, selection, i, j, next, best>>
    PROVE  IInv'
  <1>0. c \in Nat
    OBVIOUS
  <1>1. GroupHolds(c) \in BOOLEAN
    BY DEF GroupHolds
  <1>2. TypeInv'
    BY <1>0, <1>1 DEF IInv, TypeInv, TypeOK
  <1>3. ChainInv'
    <2>1. \A b : GroupHolds(b)' = GroupHolds(b)
      BY DEF GroupHolds, Starts, Joined, ClauseHolds
    <2> QED BY <2>1 DEF ChainInv
  <1>4. SortInv'
    BY DEF IInv, SortInv, SelectionFromRows, PrefixIsFinal, SortedWhenComparable
  <1> QED BY <1>2, <1>3, <1>4 DEF IInv

LEMMA FirstClauseKeepsInv == IInv /\ FirstClause => IInv'
  <1> SUFFICES ASSUME IInv, FirstClause, ~Fail PROVE IInv'
    BY FailKeepsInv
  <1>1. /\ stage = "where" /\ row <= Len(rows) /\ query.where # <<>>
        /\ clause' = 1 /\ group' = ClauseHolds(rows[row], query.where[1])
        /\ matched' = FALSE
        /\ UNCHANGED <<stage, rows, query, row, selection, i, j, next, best>>
    BY DEF FirstClause, inputs, loops
  <1>2. 1 \in 1 .. Len(query.where)
    <2>1. query.where \in Seq(Clause)
      BY QueryFields DEF IInv, TypeInv
    <2> QED BY <2>1, <1>1
  <1>3. group' = GroupHolds(1)
    <2>1. ClauseHolds(rows[row], query.where[1]) \in BOOLEAN /\ GroupHolds(1) \in BOOLEAN
      BY ChainIsBoolean
    <2> QED BY <1>1, <2>1, GroupBegins
  <1>4. ~\E b \in 1 .. 1 - 1 : query.links[b] = "OR" /\ GroupHolds(b)
    OBVIOUS
  <1> QED BY <1>1, <1>2, <1>3, <1>4, ChainStepKeepsInv

LEMMA NextClauseKeepsInv == IInv /\ NextClause => IInv'
  <1> SUFFICES ASSUME IInv, NextClause, ~Fail PROVE IInv'
    BY FailKeepsInv
  <1> DEFINE H == ClauseHolds(rows[row], query.where[clause + 1])
  <1>1. /\ stage = "where" /\ clause # 0 /\ clause < Len(query.where)
        /\ clause' = clause + 1 /\ Link(query.links[clause], H)
        /\ UNCHANGED <<stage, rows, query, row, selection, i, j, next, best>>
    BY DEF NextClause, inputs, loops
  <1>2. query.where \in Seq(Clause)
    BY QueryFields DEF IInv, TypeInv
  <1>3. /\ clause \in 1 .. Len(query.where) - 1
        /\ clause + 1 \in 1 .. Len(query.where)
    BY <1>1, <1>2 DEF IInv, TypeInv, TypeOK
  <1>4. /\ row <= Len(rows) /\ group = GroupHolds(clause)
        /\ matched = \E b \in 1 .. clause - 1 : query.links[b] = "OR" /\ GroupHolds(b)
    BY <1>1 DEF IInv, ChainInv
  <1>5. H \in BOOLEAN /\ GroupHolds(clause + 1) \in BOOLEAN /\ GroupHolds(clause) \in BOOLEAN
    BY ChainIsBoolean
  <1>6. \A b : b \in 1 .. clause + 1 - 1 <=> b \in 1 .. clause - 1 \/ b = clause
    BY <1>3
  <1>7. CASE query.links[clause] = "AND"
    <2>1. group' = (group /\ H) /\ matched' = matched
      BY <1>1, <1>7 DEF Link
    <2>2. group' = GroupHolds(clause + 1)
      BY <2>1, <1>3, <1>4, <1>5, <1>7, GroupGrows
    <2>3. matched' = \E b \in 1 .. clause + 1 - 1 : query.links[b] = "OR" /\ GroupHolds(b)
      BY <2>1, <1>4, <1>6, <1>7
    <2> QED BY <2>2, <2>3, <1>1, <1>3, <1>4, ChainStepKeepsInv
  <1>8. CASE query.links[clause] = "OR"
    <2>1. group' = H /\ matched' = (matched \/ group)
      BY <1>1, <1>8 DEF Link
    <2>2. group' = GroupHolds(clause + 1)
      BY <2>1, <1>3, <1>5, <1>8, GroupRestarts
    <2>3. matched' = \E b \in 1 .. clause + 1 - 1 : query.links[b] = "OR" /\ GroupHolds(b)
      BY <2>1, <1>4, <1>5, <1>6, <1>8
    <2> QED BY <2>2, <2>3, <1>1, <1>3, <1>4, ChainStepKeepsInv
  <1>9. query.links[clause] \in {"AND", "OR"}
    BY <1>3, QueryFields DEF IInv, TypeInv
  <1> QED BY <1>7, <1>8, <1>9

LEMMA NextPlaceKeepsInv == IInv /\ NextPlace => IInv'
  <1> SUFFICES ASSUME IInv, NextPlace PROVE IInv'
    OBVIOUS
  <1> DEFINE n == Len(selection)
  <1>1. /\ selection \in Seq(Row) /\ n \in Nat /\ DOMAIN selection = 1 .. n
        /\ i \in 1 .. n /\ j \in i + 1 .. n + 2 /\ j > n /\ stage = "sort"
        /\ UNCHANGED <<stage, rows, query, row, clause, group, matched, selection, next, best>>
        /\ i' = i + 1 /\ j' = i + 2
    BY DEF IInv, TypeInv, TypeOK, NextPlace, inputs, chain, scan
  <1>2. TypeInv'
    <2>1. i' \in 1 .. n + 1 /\ j' \in i' + 1 .. n + 2
      BY <1>1
    <2> QED BY <1>1, <2>1 DEF IInv, TypeInv, TypeOK
  <1>3. ChainInv' /\ SelectionFromRows' /\ SortedWhenComparable'
    BY <1>1 DEF IInv, ChainInv, SortInv, SelectionFromRows, SortedWhenComparable
  <1>4. PrefixIsFinal'
    <2> SUFFICES ASSUME Ordered
                 PROVE  /\ \A a \in 1 .. i, b \in 1 .. n :
                             a < b => ~Misplaced(selection[a], selection[b])
                        /\ \A b \in i + 2 .. i + 1 :
                             ~Misplaced(selection[i + 1], selection[b])
      <3>1. Ordered' = Ordered /\ \A a, b : Misplaced(a, b)' = Misplaced(a, b)
        BY <1>1 DEF Ordered, Sorts, Comparable, Misplaced
      <3>2. i' - 1 = i /\ i' + 1 = i + 2 /\ j' - 1 = i + 1
        BY <1>1
      <3> QED BY <1>1, <3>1, <3>2 DEF PrefixIsFinal
    <2>1. /\ \A a \in 1 .. i - 1, b \in 1 .. n :
               a < b => ~Misplaced(selection[a], selection[b])
          /\ \A b \in i + 1 .. j - 1 : ~Misplaced(selection[i], selection[b])
      BY <1>1 DEF IInv, SortInv, PrefixIsFinal
    <2>2. ASSUME NEW a \in 1 .. i, NEW b \in 1 .. n, a < b
          PROVE  ~Misplaced(selection[a], selection[b])
      <3>1. a \in 1 .. i - 1 \/ (a = i /\ b \in i + 1 .. j - 1)
        BY <1>1, <2>2
      <3> QED BY <3>1, <2>1, <2>2
    <2>3. ~\E b \in i + 2 .. i + 1 : TRUE
      BY <1>1
    <2> QED BY <2>2, <2>3
  <1> QED BY <1>1, <1>2, <1>3, <1>4 DEF IInv, SortInv

LEMMA StepKeepsInv == IInv /\ [Next]_vars => IInv'
  <1> SUFFICES ASSUME IInv, [Next]_vars PROVE IInv'
    OBVIOUS
  <1> USE DEF inputs, chain, loops
  <1>1. CASE Check
    <2>1. stage = "check" /\ clause = 0
      BY <1>1 DEF Check, IInv, ChainInv
    <2> QED BY <1>1, <2>1, FailKeepsInv, StageKeepsInv DEF Check
  <1>2. CASE AnyRow
    BY <1>2, RowIsKeepsInv DEF AnyRow
  <1>3. CASE FirstClause
    BY <1>3, FirstClauseKeepsInv
  <1>4. CASE NextClause
    BY <1>4, NextClauseKeepsInv
  <1>5. CASE LastClause
    <2>1. row <= Len(rows)
      BY <1>5 DEF LastClause, IInv, ChainInv
    <2> QED BY <1>5, <2>1, RowIsKeepsInv DEF LastClause
  <1>6. CASE EndRows
    BY <1>6, StageKeepsInv DEF EndRows
  <1>7. CASE NoSort
    <2>1. ~Ordered
      BY <1>7 DEF NoSort, Ordered, Sorts
    <2> QED BY <1>7, <2>1, StageKeepsInv DEF NoSort
  <1>8. CASE SortRejected \/ PackageRejected \/ AggregateRejected
    BY <1>8, FailKeepsInv DEF SortRejected, PackageRejected, AggregateRejected
  <1>9. CASE ComparePair
    BY <1>9, ComparePairKeepsInv
  <1>10. CASE NextPlace
    BY <1>10, NextPlaceKeepsInv
  <1>11. CASE EndSort
    BY <1>11, StageKeepsInv DEF EndSort
  <1>12. CASE PackageRows \/ PackageAggregate
    BY <1>12, StageKeepsInv DEF PackageRows, PackageAggregate
  <1>13. CASE StartScan \/ ScanRow \/ EndScan
    BY <1>13, ScanKeepsInv
  <1>14. CASE Returned \/ UNCHANGED vars
    <2>1. UNCHANGED <<stage, rows, query, row, clause, group, matched, selection, i, j, next, best>>
      BY <1>14 DEF Returned, vars
    <2>2. TypeInv'
      BY <2>1 DEF IInv, TypeInv, TypeOK
    <2>3. ChainInv'
      <3>1. \A b : GroupHolds(b)' = GroupHolds(b)
        BY <2>1 DEF GroupHolds, Starts, Joined, ClauseHolds
      <3> QED BY <2>1, <3>1 DEF IInv, ChainInv
    <2>4. SelectionFromRows'
      BY <2>1 DEF IInv, SortInv, SelectionFromRows
    <2>5. Ordered' = Ordered /\ \A a, b : Misplaced(a, b)' = Misplaced(a, b)
      BY <2>1 DEF Ordered, Sorts, Comparable, Misplaced
    <2>6. PrefixIsFinal' /\ SortedWhenComparable'
      BY <2>1, <2>5 DEF IInv, SortInv, PrefixIsFinal, SortedWhenComparable
    <2> QED BY <2>1, <2>2, <2>3, <2>4, <2>6 DEF IInv, SortInv
  <1> QED BY <1>1, <1>2, <1>3, <1>4, <1>5, <1>6, <1>7, <1>8, <1>9, <1>10, <1>11, <1>12,
             <1>13, <1>14 DEF Next, Step

-----------------------------------------------------------------------------
(***************************************************************************)
(* The inductive invariant of the loops, up to the end of the sort.        *)
(***************************************************************************)
THEOREM QueryInvariant == Spec => []IInv
  BY InitHolds, StepKeepsInv, PTL DEF Spec

(***************************************************************************)
(* The loop variables of storage_select_result and its helpers stay in     *)
(* their ranges.                                                           *)
(***************************************************************************)
THEOREM QueryTypeCorrect == Spec => []TypeOK
  <1>1. IInv => TypeOK
    BY DEF IInv, TypeInv
  <1> QED BY <1>1, QueryInvariant, PTL

(***************************************************************************)
(* row_matches_delete evaluates every AND/OR chain, however long, as the   *)
(* disjunction of its AND groups.                                          *)
(***************************************************************************)
THEOREM ChainsMeanTheirReading == Spec => []ChainMeansReading
  <1>1. IInv => ChainMeansReading
    <2> SUFFICES ASSUME IInv, stage = "where", clause # 0 PROVE
                   /\ group = GroupHolds(clause)
                   /\ clause = Len(query.where) =>
                        ((matched \/ group) = Accepts(query, rows[row]))
      BY DEF ChainMeansReading, GroupHolds
    <2>1. group = GroupHolds(clause)
      BY DEF IInv, ChainInv
    <2>2. matched \in BOOLEAN /\ group \in BOOLEAN
      BY DEF IInv, TypeInv, TypeOK
    <2>3. Accepts(query, rows[row]) \in BOOLEAN
      BY DEF Accepts
    <2> QED BY <2>1, <2>2, <2>3, ChainEnds
  <1> QED BY <1>1, QueryInvariant, PTL

(***************************************************************************)
(* sort_selection: what is behind the outer loop is final, if the cells of *)
(* the column are comparable.                                              *)
(***************************************************************************)
THEOREM SortPrefixIsFinal == Spec => []PrefixIsFinal
  <1>1. IInv => PrefixIsFinal
    BY DEF IInv, SortInv
  <1> QED BY <1>1, QueryInvariant, PTL

(***************************************************************************)
(* sort_selection: at its end the rows are sorted, under the same          *)
(* condition.                                                              *)
(***************************************************************************)
THEOREM SortSorts == Spec => []SortedWhenComparable
  <1>1. IInv => SortedWhenComparable
    BY DEF IInv, SortInv
  <1> QED BY <1>1, QueryInvariant, PTL

-----------------------------------------------------------------------------
(***************************************************************************)
(* The rows an answer is made of.  What a statement answers, or removes,   *)
(* are the rows its WHERE accepts, each as often as the table holds it,    *)
(* and LIMIT and the aggregates are about those rows.                      *)
(***************************************************************************)

\* Every clause has been evaluated on the rows behind row_index, and those
\* up to `clause' on the row at row_index.
EvaluatedInv ==
    /\ stage = "where" =>
         /\ \A n \in 1 .. row - 1, k \in DOMAIN query.where :
              ~ClauseFails(rows[n], query.where[k])
         /\ \A k \in 1 .. clause : ~ClauseFails(rows[row], query.where[k])
    /\ AllOrNothing

SelectedInv ==
    /\ stage = "check" => row = 1 /\ selection = <<>>
    /\ stage \in {"sort", "package", "scan"} => query.kind = "SELECT"
    /\ SelectionIsMatching

\* One sequence is the other with its elements moved.
Rearranges(s, t) ==
    /\ Len(s) = Len(t)
    /\ \E place \in Bijection(DOMAIN s, DOMAIN t) : \A n \in DOMAIN s : s[n] = t[place[n]]

Answering ==
    stage \in {"sort", "package", "scan"} \/ (stage = "done" /\ query.kind = "SELECT")

RowsInv == Answering => Rearranges(selection, Matching)

\* SUM and AVG can read every cell of the column.
Readable(column, s) == \A n \in DOMAIN s : Numbers[Types[column]][s[n][column]] \in Int

TotalInv ==
    Answering =>
        \A column : Readable(column, selection) =>
                        Total(column, selection) = Total(column, Matching)

\* What SUM and AVG answer.
Added(fn, column) ==
    Readable(column, selection) /\ result[1] = AggregateValue(fn, column)

\* The row at m is one that none before n beats.
IsBest(fn, column, m, n) ==
    Comparable(column) => \A k \in 1 .. n : ~Beats(fn, column, selection[k], selection[m])

\* MIN and MAX, and only they, scan; best is the best so far.
ScanInv ==
    stage = "scan" =>
        /\ IsAggregate(query)
        /\ query.items[1].fn \in {"MIN", "MAX"} /\ query.items[1].arg \in Columns
        /\ next <= Len(selection) + 1 /\ best \in 1 .. next - 1
        /\ IsBest(query.items[1].fn, query.items[1].arg, best, next - 1)

\* The cell of the answer to MIN or MAX.
BestCell(fn, column) ==
    /\ column \in Columns
    /\ selection = <<>> => result[1] = <<>>
    /\ selection # <<>> =>
         \E m \in DOMAIN selection : /\ result[1] = <<selection[m][column]>>
                                     /\ IsBest(fn, column, m, Len(selection))

ResultInv ==
    stage = "done" /\ query.kind = "SELECT" =>
        /\ ~IsAggregate(query) /\ IsSelectAll(query) =>
             result = [n \in 1 .. Taken(query) |-> selection[n]]
        /\ IsAggregate(query) =>
             /\ query.items[1].fn = "COUNT" => result[1] = <<Len(selection)>>
             /\ query.items[1].fn \in {"MIN", "MAX"} =>
                  BestCell(query.items[1].fn, query.items[1].arg)
             /\ query.items[1].fn \in {"SUM", "AVG"} =>
                  Added(query.items[1].fn, query.items[1].arg)

AInv == EvaluatedInv /\ SelectedInv /\ RowsInv /\ TotalInv /\ ScanInv /\ ResultInv

-----------------------------------------------------------------------------
LEMMA InitAnswers == Init => AInv
  <1> SUFFICES ASSUME Init PROVE AInv
    OBVIOUS
  <1>1. stage = "check" /\ row = 1 /\ selection = <<>>
    BY DEF Init
  <1>2. EvaluatedInv
    BY <1>1 DEF EvaluatedInv, AllOrNothing
  <1>3. SelectedInv
    BY <1>1 DEF SelectedInv, SelectionIsMatching
  <1>4. RowsInv /\ TotalInv /\ ScanInv /\ ResultInv
    BY <1>1 DEF RowsInv, TotalInv, Answering, ScanInv, ResultInv
  <1> QED BY <1>2, <1>3, <1>4 DEF AInv

\* What the type invariant says of the walk over the rows.
LEMMA Walk ==
    ASSUME IInv
    PROVE  /\ rows \in Seq(Row) /\ Len(rows) \in Nat /\ DOMAIN rows = 1 .. Len(rows)
           /\ row \in 1 .. Len(rows) + 1
           /\ query \in Queries /\ query.kind \in {"SELECT", "DELETE"}
           /\ query.where \in Seq(Clause)
           /\ Len(query.where) \in Nat /\ DOMAIN query.where = 1 .. Len(query.where)
           /\ clause \in 0 .. Len(query.where)
           /\ selection \in Seq(Row) /\ Len(selection) \in Nat
           /\ DOMAIN selection = 1 .. Len(selection)
  <1>1. query \in Queries
    BY DEF IInv, TypeInv
  <1>2. query.where \in Seq(Clause) /\ query.kind \in {"SELECT", "DELETE"}
    BY <1>1, QueryFields, QueriesAssumption
  <1>3. /\ rows \in Seq(Row) /\ row \in 1 .. Len(rows) + 1
        /\ clause \in 0 .. Len(query.where) /\ selection \in Seq(Row)
    BY DEF IInv, TypeInv, TypeOK
  <1> QED BY <1>1, <1>2, <1>3, LenProperties

\* The statement and the table are not written.
LEMMA InputsStay == [Next]_vars => rows' = rows /\ query' = query
  BY DEF Next, Step, Check, Fail, AnyRow, FirstClause, NextClause, LastClause, RowIs, EndRows,
         NoSort, SortRejected, ComparePair, NextPlace, EndSort, PackageRows, PackageRejected,
         PackageAggregate, AggregateRejected, StartScan, ScanRow, EndScan, Returned, vars, inputs

LEMMA MatchingStays ==
    ASSUME rows' = rows, query' = query
    PROVE  Matching' = Matching /\ \A n : Accepted(n)' = Accepted(n)
  BY DEF Matching, Accepted, Accepts, Starts, Ends, Joined, ClauseHolds

-----------------------------------------------------------------------------
(***************************************************************************)
(* Every clause is evaluated on every row.                                 *)
(***************************************************************************)
\* The row behind row_index is through all its clauses.
LEMMA RowIsEvaluated ==
    ASSUME IInv, EvaluatedInv, stage = "where", row <= Len(rows), NEW hit, RowIs(hit),
           clause = Len(query.where)
    PROVE  EvaluatedInv'
  <1>1. /\ stage' = "where" /\ rows' = rows /\ query' = query /\ row' = row + 1 /\ clause' = 0
        /\ row \in Nat
    BY Walk DEF RowIs, inputs
  <1>2. ASSUME NEW n \in 1 .. row, NEW k \in DOMAIN query.where
        PROVE  ~ClauseFails(rows[n], query.where[k])
    <2>1. n \in 1 .. row - 1 \/ n = row
      BY <1>1
    <2>2. k \in 1 .. clause
      BY Walk
    <2> QED BY <2>1, <2>2 DEF EvaluatedInv
  <1>3. 1 .. row' - 1 = 1 .. row /\ 1 .. clause' = {}
    BY <1>1
  <1> QED BY <1>1, <1>2, <1>3 DEF EvaluatedInv, AllOrNothing

\* One more clause did not fail.
LEMMA ClauseIsEvaluated ==
    ASSUME IInv, EvaluatedInv, stage = "where", clause' = clause + 1,
           ~ClauseFails(rows[row], query.where[clause + 1]),
           UNCHANGED <<stage, rows, query, row>>
    PROVE  EvaluatedInv'
  <1>1. clause \in Nat
    BY Walk
  <1>2. \A k \in 1 .. clause' : k \in 1 .. clause \/ k = clause + 1
    BY <1>1
  <1> QED BY <1>1, <1>2 DEF EvaluatedInv, AllOrNothing

LEMMA EvaluatedKept == IInv /\ AInv /\ [Next]_vars => EvaluatedInv'
  <1> SUFFICES ASSUME IInv, AInv, [Next]_vars PROVE EvaluatedInv'
    OBVIOUS
  <1>0. rows' = rows /\ query' = query /\ EvaluatedInv
    BY InputsStay DEF AInv
  <1>1. CASE Fail
    BY <1>1 DEF Fail, EvaluatedInv, AllOrNothing
  <1>2. CASE Check /\ ~Fail
    <2>1. stage' = "where" /\ row' = 1 /\ clause' = 0
      BY <1>2 DEF Check, chain, IInv, ChainInv, AInv, SelectedInv
    <2>2. 1 .. row' - 1 = {} /\ 1 .. clause' = {}
      BY <2>1
    <2> QED BY <2>1, <2>2 DEF EvaluatedInv, AllOrNothing
  <1>3. CASE AnyRow
    <2>1. clause = Len(query.where)
      BY <1>3, Walk DEF AnyRow
    <2> QED BY <1>0, <1>3, <2>1, RowIsEvaluated DEF AnyRow
  <1>4. CASE FirstClause /\ ~Fail
    <2>1. /\ stage = "where" /\ clause = 0 /\ clause' = clause + 1
          /\ ~ClauseFails(rows[row], query.where[clause + 1])
          /\ UNCHANGED <<stage, rows, query, row>>
      BY <1>4 DEF FirstClause, inputs
    <2> QED BY <1>0, <2>1, ClauseIsEvaluated
  <1>5. CASE NextClause /\ ~Fail
    <2>1. /\ stage = "where" /\ clause' = clause + 1
          /\ ~ClauseFails(rows[row], query.where[clause + 1])
          /\ UNCHANGED <<stage, rows, query, row>>
      BY <1>5 DEF NextClause, inputs
    <2> QED BY <1>0, <2>1, ClauseIsEvaluated
  <1>6. CASE LastClause
    <2>1. row <= Len(rows)
      BY <1>6 DEF LastClause, IInv, ChainInv
    <2> QED BY <1>0, <1>6, <2>1, RowIsEvaluated DEF LastClause
  <1>7. CASE EndRows
    <2>1. stage = "where" /\ stage' \in {"done", "sort"} /\ DOMAIN rows \subseteq 1 .. row - 1
      BY <1>7, Walk DEF EndRows
    <2> QED BY <1>0, <2>1 DEF EvaluatedInv, AllOrNothing
  <1>8. CASE \/ (NoSort \/ ComparePair \/ NextPlace \/ EndSort)
             \/ (PackageRows \/ PackageAggregate \/ StartScan \/ ScanRow \/ EndScan)
    <2>1. stage \in {"sort", "package", "scan"} /\ stage' # "where"
      BY <1>8 DEF NoSort, ComparePair, NextPlace, EndSort, PackageRows, PackageAggregate,
                  StartScan, ScanRow, EndScan
    <2> QED BY <1>0, <2>1 DEF EvaluatedInv, AllOrNothing
  <1>9. CASE Returned \/ UNCHANGED vars
    BY <1>0, <1>9 DEF Returned, vars, EvaluatedInv, AllOrNothing
  <1>10. CASE SortRejected \/ PackageRejected \/ AggregateRejected
    BY <1>1, <1>10 DEF SortRejected, PackageRejected, AggregateRejected
  <1> QED BY <1>1, <1>2, <1>3, <1>4, <1>5, <1>6, <1>7, <1>8, <1>9, <1>10 DEF Next, Step

-----------------------------------------------------------------------------
(***************************************************************************)
(* The selection is what the WHERE accepts.                                *)
(***************************************************************************)
LEMMA NoneAccepted == Accepted(0) = <<>>
  <1>1. {m \in 1 .. 0 : Accepts(query, rows[m])} = {}
    OBVIOUS
  <1> QED BY <1>1, AtNoPositions DEF Accepted

\* The next row is added if the WHERE accepts it.
LEMMA AcceptedGrows ==
    ASSUME rows \in Seq(Row), NEW n \in DOMAIN rows
    PROVE  Accepted(n) = IF Accepts(query, rows[n]) THEN Append(Accepted(n - 1), rows[n])
                                                    ELSE Accepted(n - 1)
  <1> DEFINE upTo(k) == {m \in 1 .. k : Accepts(query, rows[m])}
  <1>1. Len(rows) \in Nat /\ DOMAIN rows = 1 .. Len(rows) /\ n \in Nat /\ n >= 1
    BY LenProperties
  <1>2. 1 .. n = (1 .. n - 1) \cup {n}
    BY <1>1
  <1>3. upTo(n - 1) \in SUBSET DOMAIN rows /\ \A p \in upTo(n - 1) : p < n
    BY <1>1
  <1>4. CASE Accepts(query, rows[n])
    <2>1. upTo(n) = upTo(n - 1) \cup {n}
      BY <1>2, <1>4
    <2>2. AtPositions(rows, upTo(n - 1) \cup {n}) = Append(AtPositions(rows, upTo(n - 1)), rows[n])
      BY <1>3, AtPositionsAppend
    <2> QED BY <1>4, <2>1, <2>2 DEF Accepted
  <1>5. CASE ~Accepts(query, rows[n])
    <2>1. upTo(n) = upTo(n - 1)
      BY <1>2, <1>5
    <2> QED BY <1>5, <2>1 DEF Accepted
  <1> QED BY <1>4, <1>5

LEMMA RowIsSelected ==
    ASSUME IInv, SelectedInv, stage = "where", row <= Len(rows), NEW hit, RowIs(hit),
           hit <=> Accepts(query, rows[row])
    PROVE  SelectedInv'
  <1>1. /\ stage' = "where" /\ rows' = rows /\ query' = query /\ row' = row + 1
        /\ selection' = IF hit THEN Append(selection, rows[row]) ELSE selection
    BY DEF RowIs, inputs
  <1>2. selection = Accepted(row - 1)
    BY DEF SelectedInv, SelectionIsMatching
  <1>3. selection' = Accepted(row)
    <2>1. row \in DOMAIN rows
      BY Walk
    <2> QED BY <1>1, <1>2, <2>1, Walk, AcceptedGrows
  <1>4. selection' = Accepted(row - 1)'
    <2>1. PICK r : r = row'
      OBVIOUS
    <2>2. Accepted(r - 1) = Accepted(row)
      <3>1. r - 1 = row
        BY <1>1, <2>1, Walk
      <3> QED BY <3>1
    <2>3. Accepted(row - 1)' = Accepted(r - 1)
      BY <1>1, <2>1 DEF Accepted, Accepts, Starts, Ends, Joined, ClauseHolds
    <2> QED BY <1>3, <2>2, <2>3
  <1> QED BY <1>1, <1>4 DEF SelectedInv, SelectionIsMatching

\* A step within the walk that adds no row.
LEMMA SelectedWhileChaining ==
    ASSUME IInv, SelectedInv, stage = "where", UNCHANGED <<stage, rows, query, row, selection>>
    PROVE  SelectedInv'
  <1>1. selection = Accepted(row - 1)
    BY DEF SelectedInv, SelectionIsMatching
  <1>2. Accepted(row - 1)' = Accepted(row - 1)
    BY DEF Accepted, Accepts, Starts, Ends, Joined, ClauseHolds
  <1> QED BY <1>1, <1>2 DEF SelectedInv, SelectionIsMatching

LEMMA SelectedKept == IInv /\ AInv /\ [Next]_vars => SelectedInv'
  <1> SUFFICES ASSUME IInv, AInv, [Next]_vars PROVE SelectedInv'
    OBVIOUS
  <1>0. rows' = rows /\ query' = query /\ SelectedInv
    BY InputsStay DEF AInv
  <1>1. CASE Fail
    BY <1>1 DEF Fail, SelectedInv, SelectionIsMatching
  <1>2. CASE Check /\ ~Fail
    <2>1. stage' = "where" /\ row = 1 /\ UNCHANGED <<rows, query, row>> /\ selection' = <<>>
      BY <1>2 DEF Check, inputs, chain, AInv, SelectedInv
    <2>2. Accepted(row - 1)' = Accepted(row - 1)
      BY <2>1 DEF Accepted, Accepts, Starts, Ends, Joined, ClauseHolds
    <2>3. Accepted(row - 1) = <<>>
      <3>1. row - 1 = 0
        BY <2>1
      <3> QED BY <3>1, NoneAccepted
    <2> QED BY <2>1, <2>2, <2>3 DEF SelectedInv, SelectionIsMatching
  <1>3. CASE AnyRow
    <2>1. Accepts(query, rows[row])
      BY <1>3 DEF AnyRow, Accepts
    <2> QED BY <1>0, <1>3, <2>1, RowIsSelected DEF AnyRow
  <1>4. CASE (FirstClause \/ NextClause) /\ ~Fail
    <2>1. stage = "where" /\ UNCHANGED <<stage, rows, query, row, selection>>
      BY <1>4 DEF FirstClause, NextClause, inputs
    <2> QED BY <1>0, <2>1, SelectedWhileChaining
  <1>5. CASE LastClause
    <2>1. row <= Len(rows)
      BY <1>5 DEF LastClause, IInv, ChainInv
    <2>2. (matched \/ group) <=> Accepts(query, rows[row])
      BY <1>5, ChainEnds DEF LastClause
    <2>3. stage = "where" /\ RowIs(matched \/ group)
      BY <1>5 DEF LastClause
    <2> QED BY <1>0, <2>1, <2>2, <2>3, RowIsSelected
  <1>6. CASE EndRows
    <2>1. /\ stage = "where" /\ selection = Accepted(row - 1) /\ selection' = selection
          /\ stage' = IF query.kind = "DELETE" THEN "done" ELSE "sort"
      BY <1>6 DEF EndRows, AInv, SelectedInv, SelectionIsMatching
    <2>2. Accepted(row - 1) = Matching
      <3>1. row - 1 = Len(rows)
        BY <1>6, Walk DEF EndRows
      <3> QED BY <3>1 DEF Matching
    <2>3. query.kind \in {"SELECT", "DELETE"}
      BY Walk
    <2> QED BY <1>0, <2>1, <2>2, <2>3, MatchingStays DEF SelectedInv, SelectionIsMatching
  <1>7. CASE \/ (NoSort \/ ComparePair \/ NextPlace \/ EndSort)
             \/ (PackageRows \/ PackageAggregate \/ StartScan \/ ScanRow \/ EndScan)
    <2>1. stage \in {"sort", "package", "scan"} /\ stage' \in {"sort", "package", "scan", "done"}
      BY <1>7 DEF NoSort, ComparePair, NextPlace, EndSort, PackageRows, PackageAggregate,
                  StartScan, ScanRow, EndScan
    <2> QED BY <1>0, <2>1 DEF SelectedInv, SelectionIsMatching
  <1>8. CASE Returned \/ UNCHANGED vars
    <2>1. UNCHANGED <<stage, rows, query, row, selection>>
      BY <1>8 DEF Returned, vars
    <2>2. Accepted(row - 1)' = Accepted(row - 1) /\ Matching' = Matching
      BY <2>1, MatchingStays DEF Accepted, Accepts, Starts, Ends, Joined, ClauseHolds
    <2> QED BY <1>0, <2>1, <2>2 DEF SelectedInv, SelectionIsMatching
  <1>9. CASE SortRejected \/ PackageRejected \/ AggregateRejected
    BY <1>1, <1>9 DEF SortRejected, PackageRejected, AggregateRejected
  <1> QED BY <1>1, <1>2, <1>3, <1>4, <1>5, <1>6, <1>7, <1>8, <1>9 DEF Next, Step

-----------------------------------------------------------------------------
(***************************************************************************)
(* Rearrangements.                                                         *)
(***************************************************************************)
LEMMA RearrangesItself == \A s : Rearranges(s, s)
  <1> SUFFICES ASSUME NEW s PROVE Rearranges(s, s)
    OBVIOUS
  <1> DEFINE same == [n \in DOMAIN s |-> n]
  <1>1. same \in Bijection(DOMAIN s, DOMAIN s)
    BY DEF Bijection, Injection, Surjection, IsInjective
  <1> QED BY <1>1 DEF Rearranges

LEMMA ExchangeRearranges ==
    ASSUME NEW s \in Seq(Row), NEW t, Rearranges(s, t), NEW a \in DOMAIN s, NEW b \in DOMAIN s
    PROVE  Rearranges(Exchange(s, a, b), t)
  <1> DEFINE S == DOMAIN s
             T == DOMAIN t
  <1>1. PICK place \in Bijection(S, T) : \A n \in S : s[n] = t[place[n]]
    BY DEF Rearranges
  <1>2. /\ place \in [S -> T]
        /\ \A x, y \in S : place[x] = place[y] => x = y
        /\ \A z \in T : \E x \in S : place[x] = z
    BY DEF Bijection, Injection, Surjection, IsInjective
  <1> DEFINE moved == [place EXCEPT ![a] = place[b], ![b] = place[a]]
             other(x) == IF x = a THEN b ELSE IF x = b THEN a ELSE x
  <1>3. moved = [x \in S |-> place[other(x)]]
    BY <1>2
  <1>4. \A x \in S : other(x) \in S /\ other(other(x)) = x
    OBVIOUS
  <1> HIDE DEF moved, other
  <1>5. moved \in Bijection(S, T)
    <2>1. moved \in [S -> T]
      BY <1>2, <1>3, <1>4
    <2>2. \A x, y \in S : moved[x] = moved[y] => x = y
      <3> SUFFICES ASSUME NEW x \in S, NEW y \in S, moved[x] = moved[y] PROVE x = y
        OBVIOUS
      <3>1. other(x) = other(y)
        BY <1>2, <1>3, <1>4
      <3> QED BY <3>1, <1>4
    <2>3. \A z \in T : \E x \in S : moved[x] = z
      <3> SUFFICES ASSUME NEW z \in T PROVE \E x \in S : moved[x] = z
        OBVIOUS
      <3>1. PICK x \in S : place[x] = z
        BY <1>2
      <3>2. other(x) \in S /\ moved[other(x)] = z
        BY <1>3, <1>4, <3>1
      <3> QED BY <3>2
    <2> QED BY <2>1, <2>2, <2>3 DEF Bijection, Injection, Surjection, IsInjective
  <1>6. DOMAIN Exchange(s, a, b) = S /\ Len(Exchange(s, a, b)) = Len(s)
    BY DEF Exchange
  <1>7. \A n \in S : Exchange(s, a, b)[n] = s[other(n)]
    BY DEF Exchange, other
  <1>8. \A n \in S : Exchange(s, a, b)[n] = t[moved[n]]
    BY <1>1, <1>3, <1>4, <1>7
  <1> QED BY <1>5, <1>6, <1>8 DEF Rearranges

\* A rearrangement holds every row as often.
LEMMA RearrangesSame ==
    ASSUME NEW s \in Seq(Row), NEW t, Rearranges(s, t)
    PROVE  SameRows(s, t)
  <1>1. PICK place \in Bijection(DOMAIN s, DOMAIN t) : \A n \in DOMAIN s : s[n] = t[place[n]]
    BY DEF Rearranges
  <1>2. /\ place \in [DOMAIN s -> DOMAIN t]
        /\ \A x, y \in DOMAIN s : place[x] = place[y] => x = y
        /\ \A z \in DOMAIN t : \E x \in DOMAIN s : place[x] = z
    BY DEF Bijection, Injection, Surjection, IsInjective
  <1>3. ASSUME NEW r
        PROVE  Cardinality({n \in DOMAIN s : s[n] = r}) = Cardinality({n \in DOMAIN t : t[n] = r})
    <2> DEFINE S == {n \in DOMAIN s : s[n] = r}
               T == {n \in DOMAIN t : t[n] = r}
               f == [n \in S |-> place[n]]
    <2>1. IsFiniteSet(S)
      <3>1. S \in SUBSET DOMAIN s
        OBVIOUS
      <3> QED BY <3>1, DomainIsFinite
    <2>2. f \in [S -> T]
      BY <1>1, <1>2
    <2>3. \A x, y \in S : f[x] = f[y] => x = y
      BY <1>2
    <2>4. \A z \in T : \E x \in S : f[x] = z
      BY <1>1, <1>2
    <2> HIDE DEF f, S, T
    <2>5. f \in Bijection(S, T)
      BY <2>2, <2>3, <2>4 DEF Bijection, Injection, Surjection, IsInjective
    <2>6. Cardinality(T) = Cardinality(S)
      BY <2>1, <2>5, FS_Bijection DEF ExistsBijection
    <2> QED BY <2>6 DEF S, T
  <1>4. Len(s) = Len(t)
    BY DEF Rearranges
  <1> QED BY <1>3, <1>4 DEF SameRows

(***************************************************************************)
(* What SUM adds does not depend on the order: an exchange changes the     *)
(* partial sums between the two places, all by the same difference.        *)
(***************************************************************************)
\* The partial sums of the loop.
PartialSums(f, column, s) ==
    /\ f \in [0 .. Len(s) -> Int] /\ f[0] = 0 /\ f[Len(s)] = Total(column, s)
    /\ \A n \in 1 .. Len(s) : f[n] = f[n - 1] + Numbers[Types[column]][s[n][column]]

LEMMA TotalAdds ==
    ASSUME NEW column, NEW s \in Seq(Row), Readable(column, s)
    PROVE  \E f : PartialSums(f, column, s)
  <1> DEFINE N == Len(s)
             amount == [n \in 1 .. N |-> Numbers[Types[column]][s[n][column]]]
             step == [n \in 1 .. N |-> [x \in Int |-> x + amount[n]]]
             Is(g) == g = [n \in 0 .. N |->
                             IF n = 0 THEN 0 ELSE g[n - 1] + Numbers[Types[column]][s[n][column]]]
  <1>1. N \in Nat /\ DOMAIN s = 1 .. N
    BY LenProperties
  <1>2. \A n \in 1 .. N : amount[n] \in Int
    BY <1>1 DEF Readable
  <1> HIDE DEF amount
  <1>3. step \in [1 .. N -> [Int -> Int]]
    BY <1>2
  <1> HIDE DEF step, N
  <1>4. PICK f : Iterate(f, step, Int, 0, N)
    <2>1. N \in Nat /\ 0 \in Int
      BY <1>1
    <2> QED BY <1>3, <2>1, Iterates
  <1>5. /\ f \in [0 .. N -> Int] /\ f[0] = 0
        /\ \A n \in 1 .. N : f[n] = step[n][f[n - 1]]
    BY <1>4 DEF Iterate
  <1>6. \A n \in 1 .. N : f[n - 1] \in Int
    BY <1>1, <1>5
  <1>7. \A n \in 1 .. N : f[n] = f[n - 1] + amount[n]
    BY <1>5, <1>6 DEF step
  <1>8. \A n \in 1 .. N : f[n] = f[n - 1] + Numbers[Types[column]][s[n][column]]
    BY <1>7 DEF amount
  <1>9. Is(f)
    <2>1. \A n \in 0 .. N : f[n] = IF n = 0 THEN 0 ELSE f[n - 1] + Numbers[Types[column]][s[n][column]]
      BY <1>1, <1>5, <1>8
    <2> QED BY <1>5, <2>1
  <1>10. ASSUME NEW g, Is(g) PROVE g = f
    <2> DEFINE Good == {n \in 0 .. N : g[n] = f[n]}
    <2>0. \A n \in 0 .. N :
            g[n] = IF n = 0 THEN 0 ELSE g[n - 1] + Numbers[Types[column]][s[n][column]]
      BY <1>10, Zenon
    <2>1. 0 \in Good
      BY <1>1, <1>5, <2>0
    <2>2. ASSUME NEW n \in 0 .. N - 1, n \in Good PROVE n + 1 \in Good
      <3>1. n + 1 \in 0 .. N /\ n + 1 # 0 /\ n + 1 - 1 = n /\ n + 1 \in 1 .. N
        BY <1>1
      <3>2. g[n + 1] = g[n] + Numbers[Types[column]][s[n + 1][column]]
        BY <2>0, <3>1
      <3>3. f[n + 1] = f[n] + Numbers[Types[column]][s[n + 1][column]]
        BY <1>8, <3>1
      <3> QED BY <2>2, <3>1, <3>2, <3>3
    <2> HIDE DEF Good
    <2>3. \A n \in 0 .. N : n \in Good
      BY <1>1, <2>1, <2>2, UpTo
    <2>4. \A n \in 0 .. N : g[n] = f[n]
      BY <2>3 DEF Good
    <2> QED BY <1>5, <1>10, <2>4
  <1>11. f[N] = Total(column, s)
    <2> DEFINE chosen == CHOOSE g : Is(g)
    <2>1. Is(chosen)
      BY <1>9
    <2>2. Total(column, s) = chosen[N]
      BY DEF Total, N
    <2> HIDE DEF chosen
    <2>3. chosen = f
      BY <1>10, <2>1
    <2> QED BY <2>2, <2>3
  <1> QED BY <1>5, <1>8, <1>11 DEF PartialSums, N

LEMMA ExchangeKeepsTotal ==
    ASSUME NEW column, NEW s \in Seq(Row), NEW a \in DOMAIN s, NEW b \in DOMAIN s, a < b,
           Readable(column, Exchange(s, a, b))
    PROVE  Readable(column, s) /\ Total(column, Exchange(s, a, b)) = Total(column, s)
  <1> DEFINE N == Len(s)
             t == Exchange(s, a, b)
             worth(r) == Numbers[Types[column]][r[column]]
  <1>1. /\ t \in Seq(Row) /\ Len(t) = N /\ N \in Nat /\ DOMAIN s = 1 .. N /\ DOMAIN t = 1 .. N
        /\ t[a] = s[b] /\ t[b] = s[a] /\ \A n \in 1 .. N : n # a /\ n # b => t[n] = s[n]
    BY DEF Exchange
  <1>2. a \in 1 .. N /\ b \in 1 .. N /\ Readable(column, t)
    BY <1>1
  <1> HIDE DEF t, N
  <1>3. Readable(column, s)
    <2> SUFFICES ASSUME NEW n \in 1 .. N PROVE worth(s[n]) \in Int
      BY <1>1 DEF Readable
    <2>1. \E m \in 1 .. N : s[n] = t[m]
      BY <1>1, <1>2
    <2> QED BY <1>1, <1>2, <2>1 DEF Readable
  <1>4. PICK f : PartialSums(f, column, s)
    BY <1>3, TotalAdds
  <1>5. PICK g : PartialSums(g, column, t)
    BY <1>1, <1>2, TotalAdds
  <1>6. /\ f \in [0 .. N -> Int] /\ f[0] = 0 /\ f[N] = Total(column, s)
        /\ \A n \in 1 .. N : f[n] = f[n - 1] + worth(s[n])
    BY <1>4 DEF PartialSums, N
  <1>7. /\ g \in [0 .. N -> Int] /\ g[0] = 0 /\ g[N] = Total(column, t)
        /\ \A n \in 1 .. N : g[n] = g[n - 1] + worth(t[n])
    BY <1>1, <1>5 DEF PartialSums
  <1>8. \A n \in 1 .. N : worth(s[n]) \in Int
    BY <1>1, <1>3 DEF Readable
  <1> HIDE DEF worth
  <1> DEFINE d == worth(s[b]) - worth(s[a])
             shift(n) == IF a <= n /\ n < b THEN d ELSE 0
             Good == {n \in 0 .. N : g[n] = f[n] + shift(n)}
  <1>9. 0 \in Good
    <2>1. shift(0) = 0 /\ 0 \in 0 .. N
      BY <1>1, <1>2
    <2> HIDE DEF shift
    <2>2. g[0] = f[0] + shift(0)
      BY <1>6, <1>7, <2>1
    <2> QED BY <2>1, <2>2
  <1>10. ASSUME NEW n \in 0 .. N - 1, n \in Good PROVE n + 1 \in Good
    <2>1. n \in Int /\ n + 1 \in 1 .. N /\ n + 1 \in 0 .. N /\ n + 1 - 1 = n /\ n \in 0 .. N
      BY <1>1
    <2>2. g[n] = f[n] + shift(n)
      BY <1>10
    <2>3. f[n + 1] = f[n] + worth(s[n + 1]) /\ g[n + 1] = g[n] + worth(t[n + 1])
      BY <1>6, <1>7, <2>1
    <2>4. f[n] \in Int /\ worth(s[n + 1]) \in Int /\ worth(s[a]) \in Int /\ worth(s[b]) \in Int
      BY <1>2, <1>6, <1>8, <2>1
    <2>5. CASE n + 1 = a
      <3>1. worth(t[n + 1]) = worth(s[b]) /\ s[n + 1] = s[a]
        BY <1>1, <2>5
      <3>2. shift(n) = 0 /\ shift(n + 1) = d
        BY <1>2, <2>1, <2>5
      <3>3. g[n + 1] = f[n + 1] + d
        BY <2>2, <2>3, <2>4, <3>1, <3>2
      <3> QED BY <2>1, <3>2, <3>3
    <2>6. CASE n + 1 = b
      <3>1. worth(t[n + 1]) = worth(s[a]) /\ s[n + 1] = s[b]
        BY <1>1, <2>6
      <3>2. shift(n) = d /\ shift(n + 1) = 0
        BY <1>2, <2>1, <2>6
      <3>3. g[n + 1] = f[n + 1] + 0
        BY <2>2, <2>3, <2>4, <3>1, <3>2
      <3> QED BY <2>1, <3>2, <3>3
    <2>7. CASE n + 1 # a /\ n + 1 # b
      <3>1. t[n + 1] = s[n + 1]
        BY <1>1, <2>1, <2>7
      <3>2. shift(n + 1) = shift(n) /\ shift(n) \in Int
        BY <1>2, <2>1, <2>4, <2>7
      <3> HIDE DEF shift
      <3>3. g[n + 1] = f[n + 1] + shift(n)
        BY <2>2, <2>3, <2>4, <3>1, <3>2
      <3> QED BY <2>1, <3>2, <3>3
    <2> QED BY <2>5, <2>6, <2>7
  <1> HIDE DEF Good
  <1>11. N \in Good
    <2>1. \A n \in 0 .. N : n \in Good
      BY <1>1, <1>9, <1>10, UpTo
    <2> QED BY <1>1, <2>1
  <1>12. g[N] = f[N] + 0
    BY <1>2, <1>11 DEF Good
  <1>13. f[N] \in Int
    BY <1>1, <1>6
  <1>14. Total(column, t) = Total(column, s)
    BY <1>6, <1>7, <1>12, <1>13
  <1> QED BY <1>3, <1>14 DEF t

(***************************************************************************)
(* The rows that are sorted and answered are those the WHERE accepts.      *)
(***************************************************************************)
LEMMA RowsKeptWhileWalking ==
    ASSUME IInv, AInv, [Next]_vars, stage \in {"check", "where"}
    PROVE  RowsInv'
  <1>0. rows' = rows /\ query' = query
    BY InputsStay
  <1>1. CASE EndRows /\ stage' = "sort"
    <2>1. selection' = selection /\ selection = Accepted(row - 1)
      BY <1>1 DEF EndRows, AInv, SelectedInv, SelectionIsMatching
    <2>2. row - 1 = Len(rows)
      BY <1>1, Walk DEF EndRows
    <2>3. selection' = Matching'
      BY <1>0, <2>1, <2>2, MatchingStays DEF Matching
    <2>4. Rearranges(selection', Matching')
      BY <2>3, RearrangesItself
    <2> QED BY <2>4 DEF RowsInv
  <1>2. CASE ~(EndRows /\ stage' = "sort")
    <2>1. ~Answering'
      BY <1>0, <1>2 DEF Next, Step, Check, Fail, AnyRow, FirstClause, NextClause, LastClause, RowIs,
         EndRows, NoSort, SortRejected, ComparePair, NextPlace, EndSort, PackageRows,
         PackageRejected, PackageAggregate, AggregateRejected, StartScan, ScanRow, EndScan,
         Returned, vars, Answering
    <2> QED BY <2>1 DEF RowsInv
  <1> QED BY <1>1, <1>2

LEMMA RowsKept == IInv /\ AInv /\ [Next]_vars => RowsInv'
  <1> SUFFICES ASSUME IInv, AInv, [Next]_vars PROVE RowsInv'
    OBVIOUS
  <1>0. rows' = rows /\ query' = query /\ Matching' = Matching /\ RowsInv
    BY InputsStay, MatchingStays DEF AInv
  <1>1. CASE stage \in {"check", "where"}
    BY <1>1, RowsKeptWhileWalking
  <1>2. CASE ComparePair
    <2>1. Answering
      BY <1>2 DEF ComparePair, Answering
    <2>2. Rearranges(selection, Matching)
      BY <1>0, <2>1 DEF RowsInv
    <2>3. selection \in Seq(Row) /\ i \in DOMAIN selection /\ j \in DOMAIN selection
      BY <1>2 DEF IInv, TypeInv, TypeOK, ComparePair
    <2>4. Rearranges(selection', Matching)
      BY <1>2, <2>2, <2>3, ExchangeRearranges DEF ComparePair
    <2>5. Rearranges(selection', Matching')
      BY <1>0, <2>4
    <2> QED BY <2>5 DEF RowsInv
  <1>3. CASE stage \notin {"check", "where"} /\ ~ComparePair
    <2>1. selection' = selection
      BY <1>3 DEF Next, Step, Check, Fail, AnyRow, FirstClause, NextClause, LastClause, EndRows,
         NoSort, SortRejected, NextPlace, EndSort, PackageRows, PackageRejected, PackageAggregate,
         AggregateRejected, StartScan, ScanRow, EndScan, Returned, vars
    <2>2. Answering' => Answering
      BY <1>0, <1>3 DEF Next, Step, Check, Fail, AnyRow, FirstClause, NextClause, LastClause, EndRows,
         NoSort, SortRejected, NextPlace, EndSort, PackageRows, PackageRejected, PackageAggregate,
         AggregateRejected, StartScan, ScanRow, EndScan, Returned, vars, Answering
    <2>3. CASE Answering'
      <3>1. Rearranges(selection', Matching')
        BY <1>0, <2>1, <2>2, <2>3 DEF RowsInv
      <3> QED BY <3>1 DEF RowsInv
    <2>4. CASE ~Answering'
      BY <2>4 DEF RowsInv
    <2> QED BY <2>3, <2>4
  <1> QED BY <1>1, <1>2, <1>3

(***************************************************************************)
(* What SUM and AVG add up, at any point of the sort, is what they would   *)
(* in the order of the table.                                              *)
(***************************************************************************)
LEMMA TotalKept == IInv /\ AInv /\ [Next]_vars => TotalInv'
  <1> SUFFICES ASSUME IInv, AInv, [Next]_vars PROVE TotalInv'
    OBVIOUS
  <1>0. rows' = rows /\ query' = query /\ Matching' = Matching /\ TotalInv
    BY InputsStay, MatchingStays DEF AInv
  <1>1. CASE EndRows
    <2>1. selection' = selection /\ selection = Accepted(row - 1)
      BY <1>1 DEF EndRows, AInv, SelectedInv, SelectionIsMatching
    <2>2. row - 1 = Len(rows)
      BY <1>1, Walk DEF EndRows
    <2>3. selection' = Matching'
      BY <1>0, <2>1, <2>2 DEF Matching
    <2> QED BY <2>3 DEF TotalInv
  <1>2. CASE ComparePair
    <2>1. /\ Answering
          /\ \/ selection' = selection
             \/ selection' = Exchange(selection, i, j)
      BY <1>2 DEF ComparePair, Answering
    <2>2. selection \in Seq(Row) /\ i \in DOMAIN selection /\ j \in DOMAIN selection /\ i < j
      BY <1>2 DEF IInv, TypeInv, TypeOK, ComparePair
    <2>3. ASSUME NEW column, Readable(column, selection')
          PROVE  Total(column, selection') = Total(column, Matching)
      <3>1. Readable(column, selection) /\ Total(column, selection') = Total(column, selection)
        BY <2>1, <2>2, <2>3, ExchangeKeepsTotal
      <3> QED BY <1>0, <2>1, <3>1 DEF TotalInv
    <2>4. \A column : Readable(column, selection)' <=> Readable(column, selection')
      BY DEF Readable
    <2>5. \A column : /\ Total(column, selection)' = Total(column, selection')
                      /\ Total(column, Matching)' = Total(column, Matching)
      BY <1>0 DEF Total
    <2> QED BY <2>3, <2>4, <2>5 DEF TotalInv
  <1>3. CASE ~EndRows /\ ~ComparePair
    <2>1. Answering' => Answering /\ selection' = selection
      BY <1>0, <1>3 DEF Next, Step, Check, Fail, AnyRow, FirstClause, NextClause, LastClause, RowIs,
         NoSort, SortRejected, NextPlace, EndSort, PackageRows, PackageRejected, PackageAggregate,
         AggregateRejected, StartScan, ScanRow, EndScan, Returned, vars, Answering
    <2>2. selection' = selection => \A column : Readable(column, selection)' <=> Readable(column, selection)
      BY DEF Readable
    <2>3. selection' = selection =>
            \A column : /\ Total(column, selection)' = Total(column, selection)
                        /\ Total(column, Matching)' = Total(column, Matching)
      BY <1>0 DEF Total
    <2> QED BY <1>0, <2>1, <2>2, <2>3 DEF TotalInv
  <1> QED BY <1>1, <1>2, <1>3

-----------------------------------------------------------------------------
(***************************************************************************)
(* The scan for MIN and MAX.  Comparable cells are compared as numbers.    *)
(***************************************************************************)
Worth(column, r) ==
    IF Types[column] \in Numeric THEN Numbers[Types[column]][r[column]] ELSE Rank[r[column]]

LEMMA WorthCompares ==
    ASSUME NEW column \in Columns, NEW a \in Row, NEW b \in Row,
           Parses(Types[column], a[column]), Parses(Types[column], b[column])
    PROVE  /\ Worth(column, a) \in Int /\ Worth(column, b) \in Int
           /\ RowDifference(column, a, b) = Worth(column, a) - Worth(column, b)
           /\ Difference(Types[column], a[column], b[column]) = Worth(column, a) - Worth(column, b)
  <1> DEFINE t == Types[column]
  <1>1. a[column] \in Cells /\ b[column] \in Cells
    BY DEF Row
  <1>2. CASE t \in Numeric
    <2>1. a[column] \in DOMAIN Numbers[t] /\ b[column] \in DOMAIN Numbers[t]
      BY <1>2 DEF Parses
    <2>2. Numbers[t][a[column]] \in Int /\ Numbers[t][b[column]] \in Int
      BY <1>2, <2>1, NumbersAssumption
    <2> QED BY <1>2, <2>2 DEF Worth, RowDifference, Difference
  <1>3. CASE t \notin Numeric
    <2>1. Rank[a[column]] \in Int /\ Rank[b[column]] \in Int
      BY <1>1, RankAssumption
    <2> QED BY <1>3, <2>1 DEF Worth, RowDifference, Difference
  <1> QED BY <1>2, <1>3

LEMMA SelectedCells ==
    ASSUME IInv, NEW column \in Columns, Comparable(column), NEW n \in 1 .. Len(selection)
    PROVE  selection[n] \in Row /\ Parses(Types[column], selection[n][column])
  <1>1. PICK m \in DOMAIN rows : selection[n] = rows[m]
    BY Walk DEF IInv, SortInv, SelectionFromRows
  <1> QED BY <1>1, Walk DEF Comparable

\* To beat is to be worth more, or less.
LEMMA BeatsCompares ==
    ASSUME IInv, NEW column \in Columns, Comparable(column), NEW fn,
           NEW m \in 1 .. Len(selection), NEW n \in 1 .. Len(selection)
    PROVE  /\ Worth(column, selection[m]) \in Int /\ Worth(column, selection[n]) \in Int
           /\ Beats(fn, column, selection[m], selection[n]) <=>
                IF fn = "MAX" THEN Worth(column, selection[m]) > Worth(column, selection[n])
                              ELSE Worth(column, selection[m]) < Worth(column, selection[n])
  BY SelectedCells, WorthCompares DEF Beats

LEMMA FirstIsBest ==
    ASSUME IInv, NEW column \in Columns, NEW fn, Len(selection) >= 1
    PROVE  IsBest(fn, column, 1, 1)
  <1> SUFFICES ASSUME Comparable(column) PROVE ~Beats(fn, column, selection[1], selection[1])
    BY DEF IsBest
  <1>1. 1 \in 1 .. Len(selection)
    BY Walk
  <1> DEFINE w == Worth(column, selection[1])
  <1>2. w \in Int /\ (Beats(fn, column, selection[1], selection[1]) <=>
                        IF fn = "MAX" THEN w > w ELSE w < w)
    BY <1>1, BeatsCompares
  <1> HIDE DEF w
  <1> QED BY <1>2

\* What the scan keeps is the better of the best so far and the row to come.
LEMMA BetterIsBest ==
    ASSUME IInv, NEW column \in Columns, NEW fn, NEW n \in 1 .. Len(selection), NEW m \in 1 .. n - 1,
           IsBest(fn, column, m, n - 1)
    PROVE  IsBest(fn, column,
                  IF Beats(fn, column, selection[n], selection[m]) THEN n ELSE m, n)
  <1> DEFINE w == IF Beats(fn, column, selection[n], selection[m]) THEN n ELSE m
  <1> SUFFICES ASSUME Comparable(column), NEW k \in 1 .. n
               PROVE  ~Beats(fn, column, selection[k], selection[w])
    BY DEF IsBest
  <1>1. k \in 1 .. n - 1 \/ k = n
    OBVIOUS
  <1>2. /\ Len(selection) \in Nat /\ k \in 1 .. Len(selection) /\ m \in 1 .. Len(selection)
        /\ n \in 1 .. Len(selection)
    BY Walk
  <1>3. k \in 1 .. n - 1 => ~Beats(fn, column, selection[k], selection[m])
    BY DEF IsBest
  <1>4. /\ Worth(column, selection[m]) \in Int /\ Worth(column, selection[n]) \in Int
        /\ Worth(column, selection[k]) \in Int
    BY <1>2, BeatsCompares
  <1>5. CASE Beats(fn, column, selection[n], selection[m])
    <2>1. w = n
      BY <1>5
    <2> DEFINE v(x) == Worth(column, selection[x])
    <2>2. /\ IF fn = "MAX" THEN v(n) > v(m) ELSE v(n) < v(m)
          /\ Beats(fn, column, selection[k], selection[n]) <=>
               IF fn = "MAX" THEN v(k) > v(n) ELSE v(k) < v(n)
          /\ Beats(fn, column, selection[k], selection[m]) <=>
               IF fn = "MAX" THEN v(k) > v(m) ELSE v(k) < v(m)
      BY <1>2, <1>5, BeatsCompares
    <2>3. v(m) \in Int /\ v(n) \in Int /\ v(k) \in Int /\ (k = n => v(k) = v(n))
      BY <1>4
    <2> HIDE DEF v
    <2>4. ~Beats(fn, column, selection[k], selection[n])
      BY <1>1, <1>3, <2>2, <2>3
    <2> QED BY <2>1, <2>4
  <1>6. CASE ~Beats(fn, column, selection[n], selection[m])
    BY <1>1, <1>3, <1>6
  <1> QED BY <1>5, <1>6

LEMMA StartScanHolds == IInv /\ StartScan => ScanInv'
  <1> SUFFICES ASSUME IInv, StartScan PROVE ScanInv'
    OBVIOUS
  <1> DEFINE fn == query.items[1].fn
             arg == query.items[1].arg
  <1>1. /\ stage' = "scan" /\ best' = 1 /\ next' = 2
        /\ UNCHANGED <<rows, query, selection>>
        /\ IsAggregate(query) /\ fn \in {"MIN", "MAX"} /\ selection # <<>>
    BY DEF StartScan, Scans, inputs
  <1>2. arg \in Columns
    BY <1>1 DEF StartScan, AggregateFails
  <1>3. Len(selection) >= 1
    BY <1>1, Walk
  <1>4. IsBest(fn, arg, 1, 1)
    BY <1>2, <1>3, FirstIsBest
  <1>5. IsBest(query.items[1].fn, query.items[1].arg, best, next - 1)'
    <2>1. next' - 1 = 1
      BY <1>1
    <2> QED BY <1>1, <1>4, <2>1 DEF IsBest, Comparable
  <1>6. next' <= Len(selection') + 1 /\ best' \in 1 .. next' - 1
    BY <1>1, <1>3, Walk
  <1> QED BY <1>1, <1>2, <1>5, <1>6 DEF ScanInv, IsAggregate

LEMMA ScanRowKeepsBest == IInv /\ ScanInv /\ ScanRow => ScanInv'
  <1> SUFFICES ASSUME IInv, ScanInv, ScanRow PROVE ScanInv'
    OBVIOUS
  <1> DEFINE fn == query.items[1].fn
             arg == query.items[1].arg
             w == IF Beats(fn, arg, selection[next], selection[best]) THEN next ELSE best
  <1>1. /\ stage = "scan" /\ stage' = "scan" /\ next <= Len(selection)
        /\ UNCHANGED <<rows, query, selection>>
        /\ best' = w /\ next' = next + 1
    BY DEF ScanRow, inputs
  <1>2. /\ IsAggregate(query) /\ fn \in {"MIN", "MAX"} /\ arg \in Columns
        /\ best \in 1 .. next - 1 /\ IsBest(fn, arg, best, next - 1)
    BY <1>1 DEF ScanInv
  <1>3. next \in 2 .. Len(selection)
    BY <1>1 DEF IInv, TypeInv, TypeOK
  <1>4. IsBest(fn, arg, w, next)
    BY <1>2, <1>3, BetterIsBest
  <1>5. w \in 1 .. next
    BY <1>2, <1>3
  <1> HIDE DEF w
  <1>6. next' - 1 = next
    BY <1>1, <1>3
  <1>7. IsBest(query.items[1].fn, query.items[1].arg, best, next - 1)'
    BY <1>1, <1>4, <1>6 DEF IsBest, Comparable
  <1>8. next' <= Len(selection') + 1 /\ best' \in 1 .. next' - 1
    BY <1>1, <1>3, <1>5, <1>6
  <1> QED BY <1>1, <1>2, <1>7, <1>8 DEF ScanInv, IsAggregate

LEMMA ScanKept == IInv /\ AInv /\ [Next]_vars => ScanInv'
  <1> SUFFICES ASSUME IInv, AInv, [Next]_vars PROVE ScanInv'
    OBVIOUS
  <1>1. CASE StartScan
    BY <1>1, StartScanHolds
  <1>2. CASE ScanRow
    BY <1>2, ScanRowKeepsBest DEF AInv
  <1>3. CASE ~StartScan /\ ~ScanRow
    <2>1. \/ stage' # "scan"
          \/ UNCHANGED <<stage, rows, query, selection, next, best>>
      BY <1>3 DEF Next, Step, Check, Fail, AnyRow, FirstClause, NextClause, LastClause, RowIs,
         EndRows, NoSort, SortRejected, ComparePair, NextPlace, EndSort, PackageRows,
         PackageRejected, PackageAggregate, AggregateRejected, EndScan, Returned, vars
    <2>2. CASE stage' # "scan"
      BY <2>2 DEF ScanInv
    <2>3. CASE UNCHANGED <<stage, rows, query, selection, next, best>>
      <3>1. IsBest(query.items[1].fn, query.items[1].arg, best, next - 1)'
              <=> IsBest(query.items[1].fn, query.items[1].arg, best, next - 1)
        BY <2>3 DEF IsBest, Comparable
      <3> QED BY <2>3, <3>1 DEF AInv, ScanInv, IsAggregate
    <2> QED BY <2>1, <2>2, <2>3
  <1> QED BY <1>1, <1>2, <1>3

-----------------------------------------------------------------------------
(***************************************************************************)
(* The answer.                                                             *)
(***************************************************************************)
LEMMA PackageRowsAnswers == PackageRows => ResultInv'
  <1> SUFFICES ASSUME PackageRows PROVE ResultInv'
    OBVIOUS
  <1>1. UNCHANGED <<rows, query, selection>> /\ ~IsAggregate(query)
    BY DEF PackageRows, inputs
  <1>2. Taken(query)' = Taken(query)
    BY <1>1 DEF Taken
  <1>3. IsSelectAll(query) => result' = [n \in 1 .. Taken(query) |-> selection[n]]
    BY DEF PackageRows
  <1> QED BY <1>1, <1>2, <1>3 DEF ResultInv, IsAggregate, IsSelectAll

LEMMA PackageAggregateAnswers == IInv /\ PackageAggregate => ResultInv'
  <1> SUFFICES ASSUME IInv, PackageAggregate PROVE ResultInv'
    OBVIOUS
  <1> DEFINE fn == query.items[1].fn
             arg == query.items[1].arg
  <1>1. /\ UNCHANGED <<rows, query, selection>> /\ IsAggregate(query)
        /\ ~AggregateFails(fn, arg) /\ ~Scans(fn)
        /\ result'[1] = AggregateValue(fn, arg)
    BY DEF PackageAggregate, inputs
  <1>2. fn = "COUNT" => result'[1] = <<Len(selection)>>
    BY <1>1 DEF AggregateValue
  <1>3. fn \in {"MIN", "MAX"} => selection = <<>> /\ arg \in Columns /\ result'[1] = <<>>
    BY <1>1 DEF AggregateValue, Scans, AggregateFails
  <1> HIDE DEF fn, arg
  <1>4. fn \in {"MIN", "MAX"} => BestCell(fn, arg)'
    BY <1>1, <1>3 DEF BestCell, fn, arg
  <1>5. AggregateValue(fn, arg)' = AggregateValue(fn, arg)
    <2>1. query' = query /\ selection' = selection
      BY <1>1
    <2>2. Total(arg, selection)' = Total(arg, selection)
      BY <2>1 DEF Total, arg
    <2> QED BY <2>1, <2>2 DEF AggregateValue, fn, arg
  <1>6. ASSUME fn \in {"SUM", "AVG"} PROVE Readable(arg, selection)
    <2>1. /\ arg \in Columns /\ Types[arg] \in Numeric
          /\ \A n \in DOMAIN selection : Parses(Types[arg], selection[n][arg])
      BY <1>1, <1>6 DEF AggregateFails, Numeric
    <2> QED BY <2>1, NumbersAssumption DEF Readable, Parses
  <1>7. fn \in {"SUM", "AVG"} => Added(fn, arg)'
    BY <1>1, <1>5, <1>6 DEF Added, Readable, fn, arg
  <1> QED BY <1>1, <1>2, <1>4, <1>7 DEF ResultInv, IsAggregate, IsSelectAll, fn, arg

LEMMA EndScanAnswers == IInv /\ ScanInv /\ EndScan => ResultInv'
  <1> SUFFICES ASSUME IInv, ScanInv, EndScan PROVE ResultInv'
    OBVIOUS
  <1> DEFINE fn == query.items[1].fn
             arg == query.items[1].arg
  <1>1. /\ stage = "scan" /\ next > Len(selection)
        /\ UNCHANGED <<rows, query, selection>>
        /\ result'[1] = <<selection[best][arg]>>
    BY DEF EndScan, inputs
  <1>2. /\ IsAggregate(query) /\ fn \in {"MIN", "MAX"} /\ arg \in Columns
        /\ best \in 1 .. next - 1 /\ next <= Len(selection) + 1
        /\ IsBest(fn, arg, best, next - 1)
    BY <1>1 DEF ScanInv
  <1>3. next - 1 = Len(selection) /\ best \in DOMAIN selection /\ selection # <<>>
    BY <1>1, <1>2, Walk DEF IInv, TypeInv, TypeOK
  <1>4. IsBest(fn, arg, best, Len(selection))
    BY <1>2, <1>3
  <1>5. BestCell(fn, arg)'
    <2>1. PICK m \in DOMAIN selection : m = best
      BY <1>3
    <2>2. /\ result'[1] = <<selection[m][arg]>>
          /\ IsBest(fn, arg, m, Len(selection))
      BY <1>1, <1>4, <2>1
    <2> QED BY <1>1, <1>2, <1>3, <2>2 DEF BestCell, IsBest, Comparable
  <1> QED BY <1>1, <1>2, <1>5 DEF ResultInv, IsAggregate, IsSelectAll

LEMMA ResultKept == IInv /\ AInv /\ [Next]_vars => ResultInv'
  <1> SUFFICES ASSUME IInv, AInv, [Next]_vars PROVE ResultInv'
    OBVIOUS
  <1>0. rows' = rows /\ query' = query /\ ResultInv
    BY InputsStay DEF AInv
  <1>1. CASE PackageRows
    BY <1>1, PackageRowsAnswers
  <1>2. CASE PackageAggregate
    BY <1>2, PackageAggregateAnswers
  <1>3. CASE EndScan
    BY <1>3, EndScanAnswers DEF AInv
  <1>4. CASE ~PackageRows /\ ~PackageAggregate /\ ~EndScan
    <2>1. \/ stage' # "done"
          \/ query'.kind = "DELETE"
          \/ UNCHANGED <<stage, rows, query, selection, result>>
      BY <1>0, <1>4 DEF Next, Step, Check, Fail, AnyRow, FirstClause, NextClause, LastClause, RowIs,
         EndRows, NoSort, SortRejected, ComparePair, NextPlace, EndSort, PackageRejected,
         AggregateRejected, StartScan, ScanRow, Returned, vars
    <2>2. CASE stage' # "done" \/ query'.kind = "DELETE"
      BY <2>2 DEF ResultInv
    <2>3. CASE UNCHANGED <<stage, rows, query, selection, result>>
      <3>1. Taken(query)' = Taken(query)
        BY <2>3 DEF Taken
      <3>2. BestCell(query.items[1].fn, query.items[1].arg)'
              <=> BestCell(query.items[1].fn, query.items[1].arg)
        BY <2>3 DEF BestCell, IsBest, Comparable
      <3>3. Added(query.items[1].fn, query.items[1].arg)'
              <=> Added(query.items[1].fn, query.items[1].arg)
        BY <2>3 DEF Added, Readable, AggregateValue, Total
      <3> QED BY <1>0, <2>3, <3>1, <3>2, <3>3 DEF ResultInv, IsAggregate, IsSelectAll
    <2> QED BY <2>1, <2>2, <2>3
  <1> QED BY <1>1, <1>2, <1>3, <1>4

-----------------------------------------------------------------------------
(***************************************************************************)
(* The inductive invariant of the answers.                                 *)
(***************************************************************************)
THEOREM AnswerInvariant == Spec => [](IInv /\ AInv)
  <1>1. Init => IInv /\ AInv
    BY InitHolds, InitAnswers
  <1>2. (IInv /\ AInv) /\ [Next]_vars => (IInv /\ AInv)'
    <2>1. IInv /\ AInv /\ [Next]_vars => AInv'
      BY EvaluatedKept, SelectedKept, RowsKept, TotalKept, ScanKept, ResultKept DEF AInv
    <2> QED BY <2>1, StepKeepsInv
  <1> QED BY <1>1, <1>2, PTL DEF Spec

(***************************************************************************)
(* collect_matching_rows: for every table and statement, a statement that  *)
(* gets past the rows has evaluated every clause on every row.             *)
(***************************************************************************)
THEOREM WalkIsAllOrNothing == Spec => []AllOrNothing
  <1>1. IInv /\ AInv => AllOrNothing
    BY DEF AInv, EvaluatedInv
  <1> QED BY <1>1, AnswerInvariant, PTL

(***************************************************************************)
(* collect_matching_rows and delete_by_rewrite select exactly the rows the *)
(* WHERE accepts, in the order of the table.                               *)
(***************************************************************************)
THEOREM SelectsTheMatching == Spec => []SelectionIsMatching
  <1>1. IInv /\ AInv => SelectionIsMatching
    BY DEF AInv, SelectedInv
  <1> QED BY <1>1, AnswerInvariant, PTL

(***************************************************************************)
(* sort_selection neither loses nor doubles a row, whatever the cells it   *)
(* compares: it leaves a rearrangement of the rows the WHERE accepts.      *)
(***************************************************************************)
THEOREM SortRearranges == Spec => []SortKeepsRows
  <1>1. IInv /\ AInv => SortKeepsRows
    <2> SUFFICES ASSUME IInv, AInv, Answering PROVE SameRows(selection, Matching)
      BY DEF SortKeepsRows, Answering
    <2>1. Rearranges(selection, Matching)
      BY DEF AInv, RowsInv
    <2> QED BY <2>1, Walk, RearrangesSame
  <1> QED BY <1>1, AnswerInvariant, PTL

\* Without aggregates the answer is a prefix of the selection.
LEMMA AnswerIsPrefix ==
    ASSUME IInv, AInv, stage = "done", query.kind = "SELECT", IsSelectAll(query)
    PROVE  /\ Len(Matching) = Len(selection)
           /\ Taken(query) \in 0 .. Len(selection)
           /\ DOMAIN result = 1 .. Taken(query) /\ Len(result) = Taken(query)
           /\ \A n \in 1 .. Taken(query) : result[n] = selection[n]
  <1>1. ~IsAggregate(query)
    <2>1. CASE query.items = <<>>
      BY <2>1 DEF IsAggregate
    <2>2. CASE query.items = << [fn |-> "", arg |-> "*"] >>
      <3>1. PICK star : star = [fn |-> "", arg |-> "*"]
        OBVIOUS
      <3>2. query.items = <<star>>
        BY <2>2, <3>1
      <3>3. query.items[1] = star
        BY <3>2
      <3>4. star.fn = ""
        BY <3>1
      <3> QED BY <3>3, <3>4 DEF IsAggregate
    <2> QED BY <2>1, <2>2 DEF IsSelectAll
  <1>2. result = [n \in 1 .. Taken(query) |-> selection[n]]
    BY <1>1 DEF AInv, ResultInv
  <1>3. Len(Matching) = Len(selection)
    BY DEF AInv, RowsInv, Answering, Rearranges
  <1>4. query.limit \in Int
    BY Walk, QueriesAssumption
  <1>5. Taken(query) \in 0 .. Len(selection)
    BY <1>4, Walk DEF Taken
  <1>6. Taken(query) \in Nat
    BY <1>5
  <1> QED BY <1>2, <1>3, <1>5, <1>6

(***************************************************************************)
(* LIMIT keeps as many rows as it says, or all, for every limit, and       *)
(* leaves out none that ORDER BY puts before one it keeps.                 *)
(***************************************************************************)
THEOREM LimitIsPrefix == Spec => []LimitKeepsFirst
  <1>1. IInv /\ AInv => LimitKeepsFirst
    <2> SUFFICES ASSUME IInv, AInv, stage = "done", query.kind = "SELECT", IsSelectAll(query)
                 PROVE  LimitKeepsFirst
      BY DEF LimitKeepsFirst
    <2> DEFINE n == Len(Matching)
               taken == Taken(query)
    <2>1. /\ n = Len(selection) /\ n \in Nat /\ taken \in 0 .. n
          /\ DOMAIN result = 1 .. taken /\ Len(result) = taken
          /\ \A m \in 1 .. taken : result[m] = selection[m]
          /\ DOMAIN selection = 1 .. n
      BY AnswerIsPrefix, Walk
    <2>2. taken = IF query.limit \in 0 .. n THEN query.limit ELSE n
      <3>1. query.limit \in Int
        BY Walk, QueriesAssumption
      <3> QED BY <2>1, <3>1 DEF Taken
    <2>3. ASSUME Ordered, NEW a \in DOMAIN result, NEW b \in Len(result) + 1 .. n
          PROVE  ~Misplaced(result[a], selection[b])
      <3>1. a \in DOMAIN selection /\ b \in DOMAIN selection /\ a < b /\ result[a] = selection[a]
        BY <2>1
      <3>2. ~Misplaced(selection[a], selection[b])
        BY <2>3, <3>1 DEF IInv, SortInv, SortedWhenComparable
      <3> QED BY <3>1, <3>2
    <2> QED BY <2>1, <2>2, <2>3 DEF LimitKeepsFirst
  <1> QED BY <1>1, AnswerInvariant, PTL

\* The cell that MIN or MAX answers, seen from the rows the WHERE accepts.
LEMMA BestOfMatching ==
    ASSUME IInv, Rearranges(selection, Matching), NEW fn \in {"MIN", "MAX"}, NEW arg,
           BestCell(fn, arg), Comparable(arg), NEW n \in DOMAIN Matching
    PROVE  \E m \in DOMAIN Matching :
             /\ Matching[m][arg] = result[1][1]
             /\ LET d == Difference(Types[arg], Matching[n][arg], Matching[m][arg])
                IN  IF fn = "MAX" THEN d <= 0 ELSE d >= 0
  <1>1. PICK place \in Bijection(DOMAIN selection, DOMAIN Matching) :
               \A k \in DOMAIN selection : selection[k] = Matching[place[k]]
    BY DEF Rearranges
  <1>2. /\ place \in [DOMAIN selection -> DOMAIN Matching]
        /\ \A z \in DOMAIN Matching : \E k \in DOMAIN selection : place[k] = z
    BY DEF Bijection, Injection, Surjection
  <1>3. PICK k \in DOMAIN selection : place[k] = n
    BY <1>2
  <1>4. selection # <<>>
    BY <1>3
  <1>5. PICK best0 \in DOMAIN selection :
               /\ result[1] = <<selection[best0][arg]>>
               /\ IsBest(fn, arg, best0, Len(selection))
    BY <1>4 DEF BestCell
  <1>6. arg \in Columns /\ k \in 1 .. Len(selection) /\ best0 \in 1 .. Len(selection)
    BY <1>5, Walk DEF BestCell
  <1>7. ~Beats(fn, arg, selection[k], selection[best0])
    BY <1>5, <1>6 DEF IsBest
  <1> DEFINE v(x) == Worth(arg, selection[x])
  <1>8. /\ v(k) \in Int /\ v(best0) \in Int
        /\ Beats(fn, arg, selection[k], selection[best0]) <=>
             IF fn = "MAX" THEN v(k) > v(best0) ELSE v(k) < v(best0)
    BY <1>6, BeatsCompares
  <1>9. Difference(Types[arg], selection[k][arg], selection[best0][arg]) = v(k) - v(best0)
    BY <1>6, SelectedCells, WorthCompares
  <1> HIDE DEF v
  <1>10. LET d == Difference(Types[arg], selection[k][arg], selection[best0][arg])
         IN  IF fn = "MAX" THEN d <= 0 ELSE d >= 0
    BY <1>7, <1>8, <1>9
  <1>11. selection[k] = Matching[n] /\ selection[best0] = Matching[place[best0]]
    BY <1>1, <1>3
  <1>12. place[best0] \in DOMAIN Matching
    BY <1>2
  <1> WITNESS place[best0] \in DOMAIN Matching
  <1> QED BY <1>5, <1>10, <1>11, <1>12

(***************************************************************************)
(* evaluate_aggregate: COUNT, SUM, AVG, MIN and MAX are over all rows the  *)
(* WHERE accepts, for every schema and table.                              *)
(***************************************************************************)
THEOREM AggregatesTheMatching == Spec => []AggregatesOverMatching
  <1>1. IInv /\ AInv => AggregatesOverMatching
    <2> SUFFICES ASSUME IInv, AInv, stage = "done", query.kind = "SELECT", IsAggregate(query)
                 PROVE  AggregatesOverMatching
      BY DEF AggregatesOverMatching
    <2> DEFINE fn == query.items[1].fn
               arg == query.items[1].arg
    <2>1. Rearranges(selection, Matching)
      BY DEF AInv, RowsInv, Answering
    <2>2. Len(selection) = Len(Matching)
      BY <2>1 DEF Rearranges
    <2>3. fn = "COUNT" => result[1] = <<Len(Matching)>>
      BY <2>2 DEF AInv, ResultInv
    <2>4. fn \in {"MIN", "MAX"} => BestCell(fn, arg)
      BY DEF AInv, ResultInv
    <2>5. Matching = <<>> <=> selection = <<>>
      BY <2>1, Walk DEF Rearranges
    <2>6. fn \in {"MIN", "MAX"} => (Matching = <<>> <=> result[1] = <<>>)
      <3>1. CASE selection = <<>>
        BY <2>4, <2>5, <3>1 DEF BestCell
      <3>2. ASSUME selection # <<>>, fn \in {"MIN", "MAX"} PROVE result[1] # <<>>
        <4>1. PICK m \in DOMAIN selection : result[1] = <<selection[m][arg]>>
          BY <2>4, <3>2 DEF BestCell
        <4>2. Len(<<selection[m][arg]>>) = 1 /\ Len(<<>>) = 0
          OBVIOUS
        <4> QED BY <4>1, <4>2
      <3> QED BY <2>5, <3>1, <3>2
    <2> HIDE DEF fn, arg
    <2>8. ASSUME fn \in {"SUM", "AVG"}
          PROVE  /\ result[1] = AggregateValue(fn, arg)
                 /\ Total(arg, selection) = Total(arg, Matching)
      <3>1. Added(fn, arg)
        BY <2>8 DEF AInv, ResultInv, fn, arg
      <3>2. Readable(arg, selection)
        BY <3>1 DEF Added
      <3> QED BY <3>1, <3>2 DEF Added, AInv, TotalInv, Answering
    <2>9. /\ fn = "SUM" => result[1] = <<Total(arg, Matching)>>
          /\ fn = "AVG" => result[1] = IF Matching = <<>> THEN <<0>>
                                       ELSE <<Total(arg, Matching), Len(Matching)>>
      BY <2>2, <2>5, <2>8 DEF AggregateValue
    <2>7. fn \in {"MIN", "MAX"} /\ Comparable(arg) =>
            \A n \in DOMAIN Matching :
              \E m \in DOMAIN Matching :
                /\ Matching[m][arg] = result[1][1]
                /\ LET d == Difference(Types[arg], Matching[n][arg], Matching[m][arg])
                   IN  IF fn = "MAX" THEN d <= 0 ELSE d >= 0
      BY <2>1, <2>4, BestOfMatching
    <2> QED BY <2>3, <2>6, <2>7, <2>9 DEF AggregatesOverMatching, fn, arg
  <1> QED BY <1>1, AnswerInvariant, PTL

-----------------------------------------------------------------------------
(***************************************************************************)
(* LIKE.  The places that like_match goes on from are the places from      *)
(* which the text can be cut as the rest of the pattern says: cutting      *)
(* solves the equation that like_match follows, which has one solution.    *)
(***************************************************************************)
\* The text from u on can be cut as the pattern from v on says.
Cuttable(t, p, u, v) ==
    \E cut \in [v - 1 .. Len(p) -> 0 .. Len(t)] :
        /\ cut[v - 1] = u - 1 /\ cut[Len(p)] = Len(t)
        /\ \A n \in v .. Len(p) : cut[n - 1] <= cut[n] /\ Fits(p[n], t, cut[n - 1], cut[n])

LEMMA CuttableAtTheEnd ==
    ASSUME NEW t, NEW p, Len(t) \in Nat, Len(p) \in Nat, NEW u \in 1 .. Len(t) + 1
    PROVE  Cuttable(t, p, u, Len(p) + 1) <=> u = Len(t) + 1
<1> DEFINE lt == Len(t)
           lp == Len(p)
<1>1. lt \in Nat /\ lp \in Nat /\ lp + 1 - 1 = lp /\ lp + 1 .. lp = {} /\ u \in Int
  OBVIOUS
<1>2. Cuttable(t, p, u, lp + 1) <=>
        \E cut \in [lp .. lp -> 0 .. lt] : cut[lp] = u - 1 /\ cut[lp] = lt
  <2> DEFINE from == lp + 1
  <2>1. from - 1 = lp /\ \A n \in from .. lp : FALSE
    BY <1>1
  <2>2. Cuttable(t, p, u, from) <=>
          \E cut \in [from - 1 .. lp -> 0 .. lt] :
             /\ cut[from - 1] = u - 1 /\ cut[lp] = lt
             /\ \A n \in from .. lp : cut[n - 1] <= cut[n] /\ Fits(p[n], t, cut[n - 1], cut[n])
    BY DEF Cuttable
  <2> HIDE DEF from, lt, lp
  <2> QED
    BY <2>1, <2>2 DEF from
<1> HIDE DEF lt, lp
<1>3. ASSUME u = lt + 1 PROVE \E cut \in [lp .. lp -> 0 .. lt] : cut[lp] = u - 1 /\ cut[lp] = lt
  <2> DEFINE c == [n \in lp .. lp |-> lt]
  <2>1. c \in [lp .. lp -> 0 .. lt] /\ c[lp] = lt /\ lt = u - 1
    BY <1>1, <1>3
  <2> QED
    BY <2>1
<1>4. ASSUME NEW cut \in [lp .. lp -> 0 .. lt], cut[lp] = u - 1, cut[lp] = lt PROVE u = lt + 1
  BY <1>1, <1>4
<1> QED
  BY <1>2, <1>3, <1>4 DEF lt, lp

\* The first character of the pattern takes a piece, the others the rest.
LEMMA CuttableSteps ==
    ASSUME NEW t, NEW p, Len(t) \in Nat, Len(p) \in Nat,
           NEW u \in 1 .. Len(t) + 1, NEW v \in 1 .. Len(p)
    PROVE  Cuttable(t, p, u, v) <=>
             \E x \in u .. Len(t) + 1 : Fits(p[v], t, u - 1, x - 1) /\ Cuttable(t, p, x, v + 1)
<1> DEFINE lt == Len(t)
           lp == Len(p)
           Pieces(cut, from) ==
             \A n \in from .. lp : cut[n - 1] <= cut[n] /\ Fits(p[n], t, cut[n - 1], cut[n])
<1>1. /\ lt \in Nat /\ lp \in Nat /\ v + 1 - 1 = v /\ u \in Int /\ v \in Int
      /\ v \in v - 1 .. lp /\ v - 1 \in v - 1 .. lp /\ lp \in v .. lp /\ v \in v .. lp
  OBVIOUS
<1>2. /\ Cuttable(t, p, u, v) <=>
           \E cut \in [v - 1 .. lp -> 0 .. lt] : cut[v - 1] = u - 1 /\ cut[lp] = lt /\ Pieces(cut, v)
      /\ \A x : Cuttable(t, p, x, v + 1) <=>
           \E cut \in [v .. lp -> 0 .. lt] : cut[v] = x - 1 /\ cut[lp] = lt /\ Pieces(cut, v + 1)
  BY <1>1 DEF Cuttable
<1> HIDE DEF lt, lp
<1>3. /\ \A n \in v .. lp : n \in v - 1 .. lp
      /\ \A n \in v + 1 .. lp : n \in v .. lp /\ n - 1 \in v .. lp /\ n \in Int
      /\ \A n \in v - 1 .. lp : n = v - 1 \/ n \in v .. lp
      /\ \A n \in v .. lp : n = v \/ n \in v + 1 .. lp
      /\ \A n \in v .. lp : n # v - 1
  BY <1>1
<1>4. ASSUME NEW cut \in [v - 1 .. lp -> 0 .. lt], cut[v - 1] = u - 1, cut[lp] = lt, Pieces(cut, v)
      PROVE  \E x \in u .. lt + 1 : Fits(p[v], t, u - 1, x - 1) /\ Cuttable(t, p, x, v + 1)
  <2> DEFINE rest == [n \in v .. lp |-> cut[n]]
             x == cut[v] + 1
  <2>1. \A n \in v .. lp : rest[n] = cut[n]
    OBVIOUS
  <2>2. rest \in [v .. lp -> 0 .. lt]
    BY <1>3
  <2>3. cut[v] \in 0 .. lt /\ u - 1 <= cut[v] /\ Fits(p[v], t, u - 1, cut[v])
    BY <1>1, <1>4
  <2>4. x \in u .. lt + 1 /\ x - 1 = cut[v]
    <3>1. \A y \in 0 .. lt : u - 1 <= y => y + 1 \in u .. lt + 1 /\ y + 1 - 1 = y
      BY <1>1
    <3>2. PICK y \in 0 .. lt : y = cut[v] /\ u - 1 <= y
      BY <2>3
    <3>3. y + 1 \in u .. lt + 1 /\ y + 1 - 1 = y
      BY <3>1, <3>2
    <3> QED BY <3>2, <3>3
  <2> HIDE DEF rest
  <2>5. Pieces(rest, v + 1)
    <3> SUFFICES ASSUME NEW n \in v + 1 .. lp
                 PROVE  rest[n - 1] <= rest[n] /\ Fits(p[n], t, rest[n - 1], rest[n])
      OBVIOUS
    <3>1. n \in v .. lp /\ n - 1 \in v .. lp
      BY <1>3
    <3>2. cut[n - 1] <= cut[n] /\ Fits(p[n], t, cut[n - 1], cut[n])
      BY <1>4, <3>1
    <3> QED
      BY <2>1, <3>1, <3>2
  <2>6. rest[v] = x - 1 /\ rest[lp] = lt
    BY <1>1, <1>4, <2>1, <2>4
  <2> HIDE DEF Pieces, x
  <2>7. Cuttable(t, p, x, v + 1)
    BY <1>2, <2>2, <2>5, <2>6
  <2> QED
    BY <2>3, <2>4, <2>7
<1>5. ASSUME NEW x \in u .. lt + 1, Fits(p[v], t, u - 1, x - 1), Cuttable(t, p, x, v + 1)
      PROVE  \E cut \in [v - 1 .. lp -> 0 .. lt] : cut[v - 1] = u - 1 /\ cut[lp] = lt /\ Pieces(cut, v)
  <2>1. PICK rest \in [v .. lp -> 0 .. lt] : rest[v] = x - 1 /\ rest[lp] = lt /\ Pieces(rest, v + 1)
    BY <1>2, <1>5
  <2> DEFINE cut == [n \in v - 1 .. lp |-> IF n = v - 1 THEN u - 1 ELSE rest[n]]
  <2>2. cut[v - 1] = u - 1 /\ \A n \in v .. lp : cut[n] = rest[n]
    BY <1>1, <1>3
  <2>3. cut \in [v - 1 .. lp -> 0 .. lt]
    <3>1. u - 1 \in 0 .. lt
      BY <1>1, <1>5 DEF lt
    <3> QED
      BY <1>3, <3>1
  <2> HIDE DEF cut
  <2>4. Pieces(cut, v)
    <3> SUFFICES ASSUME NEW n \in v .. lp
                 PROVE  cut[n - 1] <= cut[n] /\ Fits(p[n], t, cut[n - 1], cut[n])
      OBVIOUS
    <3>1. CASE n = v
      <4>1. cut[n - 1] = u - 1 /\ cut[n] = x - 1
        BY <1>1, <2>1, <2>2, <3>1
      <4>2. u - 1 <= x - 1
        BY <1>1, <1>5
      <4> QED
        BY <1>5, <3>1, <4>1, <4>2
    <3>2. CASE n # v
      <4>1. n \in v + 1 .. lp /\ n \in v .. lp /\ n - 1 \in v .. lp
        BY <1>3, <3>2
      <4>2. rest[n - 1] <= rest[n] /\ Fits(p[n], t, rest[n - 1], rest[n])
        BY <2>1, <4>1
      <4> QED
        BY <2>2, <4>1, <4>2
    <3> QED
      BY <3>1, <3>2
  <2>5. cut[lp] = lt
    BY <1>1, <2>1, <2>2
  <2> HIDE DEF Pieces
  <2> QED
    BY <2>2, <2>3, <2>4, <2>5
<1> HIDE DEF Pieces
<1>6. Cuttable(t, p, u, v) => \E x \in u .. lt + 1 : Fits(p[v], t, u - 1, x - 1) /\ Cuttable(t, p, x, v + 1)
  BY <1>2, <1>4
<1>7. (\E x \in u .. lt + 1 : Fits(p[v], t, u - 1, x - 1) /\ Cuttable(t, p, x, v + 1)) => Cuttable(t, p, u, v)
  BY <1>2, <1>5
<1> QED
  BY <1>6, <1>7 DEF lt

LEMMA SkipPercentsIs ==
    ASSUME NEW p, Len(p) \in Nat, NEW v \in 1 .. Len(p), p[v] = "%"
    PROVE  LET k == SkipPercents(p, v)
           IN  /\ k \in v + 1 .. Len(p) + 1
               /\ \A l \in v .. k - 1 : p[l] = "%"
               /\ k <= Len(p) => p[k] # "%"
<1> DEFINE lp == Len(p)
           Run == {l \in v .. lp : \A m \in v .. l : p[m] = "%"}
           Behind(k) == /\ \A l \in v .. k - 1 : p[l] = "%"
                        /\ k <= lp => p[k] # "%"
<1>1. lp \in Nat /\ v \in Nat /\ v \in v .. lp /\ \A m \in v .. v : m = v
  OBVIOUS
<1> HIDE DEF lp
<1>2. v \in Run
  BY <1>1
<1>3. Run \in SUBSET Int /\ IsFiniteSet(Run)
  <2>1. IsFiniteSet(v .. lp)
    BY <1>1, FS_Interval
  <2>2. Run \subseteq v .. lp /\ v .. lp \in SUBSET Int
    BY <1>1
  <2> QED
    BY <2>1, <2>2, FS_Subset
<1> DEFINE l == Max(Run)
           k == l + 1
<1>4. l \in Run /\ \A m \in Run : m <= l
  BY <1>2, <1>3, MaxIsGreatest
<1> HIDE DEF l
<1>5. l \in v .. lp /\ l \in Int /\ \A m \in v .. l : p[m] = "%"
  BY <1>1, <1>4
<1>6. k \in v + 1 .. lp + 1 /\ k - 1 = l
  BY <1>1, <1>5
<1>7. ASSUME k <= lp, p[k] = "%" PROVE FALSE
  <2>1. k \in v .. lp /\ ~(k <= l) /\ \A m \in v .. k : m = k \/ m \in v .. l
    BY <1>1, <1>5, <1>7
  <2>2. \A m \in v .. k : p[m] = "%"
    BY <1>5, <1>7, <2>1
  <2>3. k \in Run
    BY <2>1, <2>2
  <2> QED
    BY <1>4, <2>1, <2>3
<1>8. Behind(k)
  BY <1>5, <1>6, <1>7
<1>9. SkipPercents(p, v) = CHOOSE q \in v + 1 .. lp + 1 : Behind(q)
  BY DEF SkipPercents, lp
<1> HIDE DEF Behind, k
<1>10. SkipPercents(p, v) \in v + 1 .. lp + 1 /\ Behind(SkipPercents(p, v))
  BY <1>6, <1>8, <1>9
<1> QED
  BY <1>10 DEF Behind, lp

\* A run of % is as good as one, however the text is shared out among them.
LEMMA PercentsSkip ==
    ASSUME NEW t, NEW p, Len(t) \in Nat, Len(p) \in Nat,
           NEW u \in 1 .. Len(t) + 1, NEW v \in 1 .. Len(p), NEW k \in v + 1 .. Len(p) + 1,
           \A l \in v .. k - 1 : p[l] = "%"
    PROVE  Cuttable(t, p, u, v) <=> \E x \in u .. Len(t) + 1 : Cuttable(t, p, x, k)
<1> DEFINE lt == Len(t)
           lp == Len(p)
           Whole == Cuttable(t, p, u, v)
           From(l) == \E x \in u .. lt + 1 : Cuttable(t, p, x, l)
           Good == {l \in v + 1 .. k : Whole <=> From(l)}
<1>1. lt \in Nat /\ lp \in Nat /\ u \in Nat /\ 1 <= u /\ v \in Nat /\ 1 <= v /\ k \in Nat /\ v < k /\ k <= lp + 1
  OBVIOUS
<1>2. ASSUME NEW x \in u .. lt + 1, NEW l \in v .. k - 1
      PROVE  Cuttable(t, p, x, l) <=> \E y \in x .. lt + 1 : Cuttable(t, p, y, l + 1)
  <2>1. x \in 1 .. lt + 1 /\ l \in 1 .. lp
    BY <1>1
  <2>2. \A y \in x .. lt + 1 : Fits(p[l], t, x - 1, y - 1)
    BY <1>2 DEF Fits
  <2> QED
    BY <2>1, <2>2, CuttableSteps
<1> HIDE DEF lt, lp
<1>3. u \in u .. lt + 1 /\ v \in v .. k - 1 /\ v + 1 \in v + 1 .. k
  <2>1. u <= lt + 1
    BY DEF lt
  <2> QED
    BY <1>1, <2>1
<1>4. v + 1 \in Good
  BY <1>2, <1>3
<1>5. Good \in SUBSET Int /\ IsFiniteSet(Good)
  <2>1. IsFiniteSet(v + 1 .. k) /\ Good \subseteq v + 1 .. k /\ v + 1 .. k \in SUBSET Int
    BY <1>1, FS_Interval
  <2> QED
    BY <2>1, FS_Subset
<1> DEFINE l == Max(Good)
<1>6. l \in Good /\ \A m \in Good : m <= l
  BY <1>4, <1>5, MaxIsGreatest
<1> HIDE DEF l
<1>7. l \in v + 1 .. k /\ l \in Int
  BY <1>1, <1>6
<1>8. ASSUME l # k PROVE FALSE
  <2>1. l \in v .. k - 1 /\ l + 1 \in v + 1 .. k /\ ~(l + 1 <= l)
    BY <1>1, <1>7, <1>8
  <2>2. \A x \in u .. lt + 1 : Cuttable(t, p, x, l) <=> \E y \in x .. lt + 1 : Cuttable(t, p, y, l + 1)
    BY <1>2, <2>1
  <2>3. \A x \in u .. lt + 1 : x \in x .. lt + 1 /\ \A y \in x .. lt + 1 : y \in u .. lt + 1
    BY <1>1
  <2>4. From(l) <=> From(l + 1)
    BY <2>2, <2>3
  <2>5. l + 1 \in Good
    BY <1>6, <2>1, <2>4
  <2> QED
    BY <1>6, <2>1, <2>5
<1> QED
  BY <1>6, <1>8 DEF lt

(***************************************************************************)
(* The equation that like_match follows, and that cutting satisfies.       *)
(***************************************************************************)
MatchesFrom(f, t, p, v) ==
    IF v > Len(p) THEN {Len(t) + 1}
    ELSE IF p[v] = "%"
    THEN LET k == SkipPercents(p, v)
         IN  {u \in 1 .. Len(t) + 1 : k > Len(p) \/ Tries(t, u) \cap f[k] # {}}
    ELSE {u \in 1 .. Len(t) : p[v] \in {"_", t[u]} /\ u + 1 \in f[v + 1]}

IsMatch(f, t, p) == f = [v \in 1 .. Len(p) + 1 |-> MatchesFrom(f, t, p, v)]

LEMMA MatchesIs == \A t, p : Matches(t, p) = (1 \in (CHOOSE f : IsMatch(f, t, p))[1])
BY DEF Matches, IsMatch, MatchesFrom

CuttableFrom(t, p, v) == {u \in 1 .. Len(t) + 1 : Cuttable(t, p, u, v)}

LEMMA CuttingMatches ==
    ASSUME NEW t, NEW p, Len(t) \in Nat, Len(p) \in Nat, NEW f,
           \A y \in 1 .. Len(p) + 1 : f[y] = CuttableFrom(t, p, y),
           NEW v \in 1 .. Len(p) + 1
    PROVE  MatchesFrom(f, t, p, v) = CuttableFrom(t, p, v)
<1> DEFINE I == 1 .. Len(t) + 1
<1>1. CASE v > Len(p)
  <2>1. v = Len(p) + 1
    BY <1>1
  <2>2. \A u \in I : Cuttable(t, p, u, v) <=> u = Len(t) + 1
    BY <2>1, CuttableAtTheEnd
  <2>3. Len(t) + 1 \in I
    OBVIOUS
  <2> QED
    BY <1>1, <2>2, <2>3 DEF MatchesFrom, CuttableFrom
<1>2. CASE ~(v > Len(p)) /\ p[v] = "%"
  <2> DEFINE k == SkipPercents(p, v)
  <2>1. v \in 1 .. Len(p)
    BY <1>2
  <2>2. k \in v + 1 .. Len(p) + 1 /\ \A l \in v .. k - 1 : p[l] = "%"
    BY <1>2, <2>1, SkipPercentsIs
  <2> HIDE DEF k
  <2>3. ASSUME NEW u \in I
        PROVE  Cuttable(t, p, u, v) <=> k > Len(p) \/ Tries(t, u) \cap f[k] # {}
    <3>1. Cuttable(t, p, u, v) <=> \E x \in u .. Len(t) + 1 : Cuttable(t, p, x, k)
      BY <2>1, <2>2, PercentsSkip
    <3>2. k \in 1 .. Len(p) + 1 /\ \A x \in u .. Len(t) + 1 : x \in I
      BY <2>1, <2>2
    <3>3. f[k] = CuttableFrom(t, p, k)
      BY <3>2
    <3>4. Cuttable(t, p, u, v) <=> Tries(t, u) \cap f[k] # {}
      BY <3>1, <3>2, <3>3 DEF Tries, CuttableFrom
    <3>5. ASSUME k > Len(p) PROVE Cuttable(t, p, u, v)
      <4>1. k = Len(p) + 1
        BY <3>2, <3>5
      <4>2. Len(t) + 1 \in u .. Len(t) + 1 /\ Len(t) + 1 \in I
        OBVIOUS
      <4>3. Cuttable(t, p, Len(t) + 1, k)
        BY <4>1, <4>2, CuttableAtTheEnd
      <4> QED
        BY <3>1, <4>2, <4>3
    <3> QED
      BY <3>4, <3>5
  <2>4. MatchesFrom(f, t, p, v) = {u \in I : k > Len(p) \/ Tries(t, u) \cap f[k] # {}}
    BY <1>2 DEF MatchesFrom, k
  <2> QED
    BY <2>3, <2>4 DEF CuttableFrom
<1>3. CASE ~(v > Len(p)) /\ p[v] # "%"
  <2>1. v \in 1 .. Len(p) /\ v + 1 \in 1 .. Len(p) + 1
    BY <1>3
  <2>2. MatchesFrom(f, t, p, v) = {u \in 1 .. Len(t) : p[v] \in {"_", t[u]} /\ u + 1 \in f[v + 1]}
    BY <1>3 DEF MatchesFrom
  <2>3. ASSUME NEW u \in I
        PROVE  Cuttable(t, p, u, v) <=> u \in 1 .. Len(t) /\ p[v] \in {"_", t[u]} /\ u + 1 \in f[v + 1]
    <3>1. Cuttable(t, p, u, v) <=>
            \E x \in u .. Len(t) + 1 : Fits(p[v], t, u - 1, x - 1) /\ Cuttable(t, p, x, v + 1)
      BY <2>1, CuttableSteps
    <3>2. \A x \in u .. Len(t) + 1 : Fits(p[v], t, u - 1, x - 1) <=> x = u + 1 /\ p[v] \in {"_", t[u]}
      <4> SUFFICES ASSUME NEW x \in u .. Len(t) + 1
                   PROVE  Fits(p[v], t, u - 1, x - 1) <=> x = u + 1 /\ p[v] \in {"_", t[u]}
        OBVIOUS
      <4>1. x - 1 = u - 1 + 1 <=> x = u + 1
        OBVIOUS
      <4>2. x = u + 1 => x - 1 = u
        OBVIOUS
      <4> QED
        BY <1>3, <4>1, <4>2 DEF Fits
    <3>3. /\ u + 1 \in u .. Len(t) + 1 <=> u \in 1 .. Len(t)
          /\ u \in 1 .. Len(t) => u + 1 \in I
      OBVIOUS
    <3>4. f[v + 1] = CuttableFrom(t, p, v + 1)
      BY <2>1
    <3>5. u \in 1 .. Len(t) => (u + 1 \in f[v + 1] <=> Cuttable(t, p, u + 1, v + 1))
      BY <3>3, <3>4 DEF CuttableFrom
    <3> QED
      BY <3>1, <3>2, <3>3, <3>5
  <2>4. \A u \in 1 .. Len(t) : u \in I
    OBVIOUS
  <2> QED
    BY <2>2, <2>3, <2>4 DEF CuttableFrom
<1> QED
  BY <1>1, <1>2, <1>3

\* Of two solutions that differ, neither does so at the last place of the pattern where they do.
LEMMA OneMatch ==
    ASSUME NEW t, NEW p, Len(t) \in Nat, Len(p) \in Nat,
           NEW f, IsMatch(f, t, p), NEW g, IsMatch(g, t, p)
    PROVE  f = g
<1> DEFINE J == 1 .. Len(p) + 1
           Differ == {v \in J : f[v] # g[v]}
<1>1. /\ f = [v \in J |-> f[v]] /\ g = [v \in J |-> g[v]]
      /\ \A v \in J : f[v] = MatchesFrom(f, t, p, v) /\ g[v] = MatchesFrom(g, t, p, v)
  BY DEF IsMatch
<1>2. CASE Differ = {}
  <2>1. \A v \in J : f[v] = g[v]
    BY <1>2
  <2> HIDE DEF J
  <2> QED
    BY <1>1, <2>1
<1>3. ASSUME Differ # {} PROVE FALSE
  <2>1. IsFiniteSet(J)
    BY FS_Interval
  <2>2. Differ \in SUBSET Int /\ IsFiniteSet(Differ)
    <3>1. J \in SUBSET Int /\ Differ \subseteq J
      OBVIOUS
    <3> QED
      BY <2>1, <3>1, FS_Subset
  <2> DEFINE v == Max(Differ)
  <2>3. v \in Differ /\ \A y \in Differ : y <= v
    BY <1>3, <2>2, MaxIsGreatest
  <2> HIDE DEF v
  <2>4. v \in J /\ f[v] # g[v]
    BY <2>3
  <2>5. \A y \in J : y > v => f[y] = g[y]
    <3>1. \A y \in J : y > v => ~(y <= v)
      BY <2>4
    <3> QED
      BY <2>3, <3>1
  <2>6. MatchesFrom(f, t, p, v) = MatchesFrom(g, t, p, v)
    <3>1. CASE v > Len(p)
      BY <3>1 DEF MatchesFrom
    <3>2. CASE ~(v > Len(p)) /\ p[v] = "%"
      <4> DEFINE k == SkipPercents(p, v)
      <4>1. v \in 1 .. Len(p)
        BY <2>4, <3>2
      <4>2. k \in v + 1 .. Len(p) + 1
        BY <3>2, <4>1, SkipPercentsIs
      <4> HIDE DEF k
      <4>3. k \in J /\ k > v
        BY <4>1, <4>2
      <4>4. f[k] = g[k]
        BY <2>5, <4>3
      <4> QED
        BY <3>2, <4>4 DEF MatchesFrom, k
    <3>3. CASE ~(v > Len(p)) /\ p[v] # "%"
      <4>1. v + 1 \in J /\ v + 1 > v
        BY <2>4, <3>3
      <4>2. f[v + 1] = g[v + 1]
        BY <2>5, <4>1
      <4> QED
        BY <3>3, <4>2 DEF MatchesFrom
    <3> QED
      BY <3>1, <3>2, <3>3
  <2> QED
    BY <1>1, <2>4, <2>6
<1> QED
  BY <1>2, <1>3

LEMMA MatchesIsReads ==
    ASSUME NEW D, NEW t \in Seq(D), NEW p \in Seq(D)
    PROVE  Matches(t, p) <=> Reads(t, p)
<1> DEFINE g == [v \in 1 .. Len(p) + 1 |-> CuttableFrom(t, p, v)]
<1>1. Len(t) \in Nat /\ Len(p) \in Nat
  BY LenProperties
<1>2. \A v \in 1 .. Len(p) + 1 : g[v] = CuttableFrom(t, p, v)
  OBVIOUS
<1>3. \A v \in 1 .. Len(p) + 1 : MatchesFrom(g, t, p, v) = CuttableFrom(t, p, v)
  <2> HIDE DEF g
  <2> QED
    BY <1>1, <1>2, CuttingMatches
<1>4. IsMatch(g, t, p)
  BY <1>3 DEF IsMatch
<1> HIDE DEF g
<1>5. (CHOOSE f : IsMatch(f, t, p)) = g
  <2>1. IsMatch((CHOOSE f : IsMatch(f, t, p)), t, p)
    BY <1>4
  <2> QED
    BY <1>1, <1>4, <2>1, OneMatch
<1>6. Matches(t, p) <=> 1 \in g[1]
  BY <1>5, MatchesIs
<1>7. 1 \in 1 .. Len(t) + 1 /\ 1 \in 1 .. Len(p) + 1
  BY <1>1
<1>8. Cuttable(t, p, 1, 1) <=> Reads(t, p)
  BY <1>1 DEF Cuttable, Reads
<1> QED
  BY <1>2, <1>6, <1>7, <1>8 DEF CuttableFrom

\* The walk only starts once Check has found the columns of the WHERE.
ColumnsKnown ==
    stage \notin {"check", "failed"} =>
        \A k \in DOMAIN query.where : query.where[k].column \in Columns

LEMMA ColumnsStayKnown == ColumnsKnown /\ [Next]_vars => ColumnsKnown'
<1> SUFFICES ASSUME ColumnsKnown, [Next]_vars, stage' \notin {"check", "failed"}
             PROVE  \A k \in DOMAIN query.where : query.where[k].column \in Columns
  BY InputsStay DEF ColumnsKnown
<1>1. CASE Check
  <2>1. ~Rejected(query)
    BY <1>1 DEF Check, Fail
  <2> QED
    BY <2>1 DEF Rejected, Refused
<1>2. CASE ~Check
  <2>1. stage \notin {"check", "failed"}
    BY <1>2 DEF Next, Step, Fail, AnyRow, FirstClause, NextClause, LastClause, RowIs, EndRows,
         NoSort, SortRejected, ComparePair, NextPlace, EndSort, PackageRows, PackageRejected,
         PackageAggregate, AggregateRejected, StartScan, ScanRow, EndScan, Returned, vars
  <2> QED
    BY <2>1 DEF ColumnsKnown
<1> QED
  BY <1>1, <1>2

LEMMA ColumnsAreKnown == Spec => []ColumnsKnown
<1>1. Init => ColumnsKnown
  BY DEF Init, ColumnsKnown
<1> QED
  BY <1>1, ColumnsStayKnown, PTL DEF Spec

(***************************************************************************)
(* like_match, for every text and every pattern: a LIKE accepts a cell if  *)
(* and only if the cell can be cut as the pattern says.                    *)
(***************************************************************************)
THEOREM LikesAreCuttings == Spec => []LikeIsCutting
<1>1. IInv /\ ColumnsKnown => LikeIsCutting
  <2> SUFFICES ASSUME IInv, ColumnsKnown, stage = "where", row \in DOMAIN rows,
                      NEW k \in DOMAIN query.where, query.where[k].op = "LIKE"
               PROVE  ClauseHolds(rows[row], query.where[k])
                        <=> Reads(rows[row][query.where[k].column], query.where[k].value)
    BY DEF LikeIsCutting
  <2> DEFINE c == query.where[k]
  <2>1. rows[row] \in Row /\ c \in Clause
    <3>1. rows \in Seq(Row) /\ query.where \in Seq(Clause)
      BY QueryFields DEF IInv, TypeInv
    <3> QED
      BY <3>1
  <2>2. c.column \in Columns
    BY DEF ColumnsKnown
  <2>3. rows[row][c.column] \in Cells /\ c.value \in Cells
    BY <2>1, <2>2 DEF Row, Clause
  <2>4. rows[row][c.column] \in Seq(STRING) /\ c.value \in Seq(STRING)
    BY <2>3, CellsAssumption
  <2> QED
    BY <2>4, MatchesIsReads DEF ClauseHolds
<1> QED
  BY <1>1, QueryInvariant, ColumnsAreKnown, PTL
=============================================================================
