-------------------------- MODULE QueryBridgeProof --------------------------
(***************************************************************************)
(* For files of any length and results of any length: the cards of an      *)
(* answer are the statements that parsed, each with its own result.        *)
(***************************************************************************)
EXTENDS QueryBridgeProps, PositionLemmas

Line == [of : Nat, at : Nat, as : Readings]
Heading(n) == [of |-> n, at |-> 0, as |-> "statement"]

(***************************************************************************)
(* What the process has printed, as long as every line reads as what it    *)
(* is.  The output of statement n stands behind start[n] lines.            *)
(***************************************************************************)
Size(n) == Len(file[n].result) + 1
Lines(n) == IF file[n].parses THEN Size(n) ELSE 0

Layout(start) ==
    /\ start[1] = 0 /\ start[ran + 1] = Len(stdout)
    /\ \A n \in 1 .. ran + 1 : \A m \in 1 .. n : start[m] <= start[n]
    /\ \A n \in 1 .. ran :
         /\ start[n + 1] = start[n] + Lines(n)
         /\ file[n].parses =>
              /\ stdout[start[n] + 1] = Heading(n)
              /\ \A k \in DOMAIN file[n].result : stdout[start[n] + 1 + k] = ResultLines(n)[k]

(***************************************************************************)
(* What the bridge has made of the lines it has read: a card for each      *)
(* statement whose first line is among them, the last one without its      *)
(* result, which is pending.                                               *)
(***************************************************************************)
Begun(start, r) == {n \in Parsed : start[n] < r}

Cards == [n \in DOMAIN file |-> Card(n)]
BareCard(n) == [of |-> n, result |-> <<>>]
CardsBut(last) == [n \in DOMAIN file |-> IF n = last THEN BareCard(n) ELSE Card(n)]

ReadOf(start, n, r) == {k \in Shown(n) : start[n] + 1 + k <= r}

Latest(start, n, r) == n \in Begun(start, r) /\ \A m \in Begun(start, r) : m <= n

Collected(start, r, cards, lines) ==
    /\ Begun(start, r) = {} => cards = <<>> /\ lines = <<>>
    /\ \A n \in Parsed : Latest(start, n, r) =>
         /\ lines = AtPositions(ResultLines(n), ReadOf(start, n, r))
         /\ cards = AtPositions(CardsBut(n), Begun(start, r))

BridgeInv ==
    /\ file \in Seq(Statements) /\ ran \in 0 .. Len(file)
    /\ stdout \in Seq(Line) /\ read \in 0 .. Len(stdout)
    /\ process = "running" => read = 0
    /\ process = "exited" => ran = Len(file)
    /\ answer = "cards" => process = "exited" /\ read = Len(stdout)
    /\ AllReadable =>
         \E start \in [Nat -> Nat] :
             /\ Layout(start)
             /\ answer = "none" => Collected(start, read, statements, pending)
             /\ answer = "cards" => statements = AtPositions(Cards, Parsed)

-----------------------------------------------------------------------------
LEMMA FileIs ==
    ASSUME file \in Seq(Statements)
    PROVE  /\ Len(file) \in Nat /\ DOMAIN file = 1 .. Len(file)
           /\ \A n \in DOMAIN file :
                /\ n \in Nat /\ Size(n) \in Nat /\ 0 < Size(n)
                /\ file[n].parses \in BOOLEAN /\ file[n].result \in Seq(Readings)
                /\ Len(file[n].result) \in Nat /\ DOMAIN file[n].result = 1 .. Len(file[n].result)
<1>1. Len(file) \in Nat /\ DOMAIN file = 1 .. Len(file)
  BY LenProperties
<1>2. ASSUME NEW n \in DOMAIN file
      PROVE  file[n].parses \in BOOLEAN /\ file[n].result \in Seq(Readings)
  <2>1. file[n] \in Statements
    BY <1>1, <1>2, ElementOfSeq
  <2> QED
    BY <2>1 DEF Statements
<1>3. ASSUME NEW n \in DOMAIN file
      PROVE  /\ Len(file[n].result) \in Nat /\ DOMAIN file[n].result = 1 .. Len(file[n].result)
             /\ n \in Nat
  BY <1>1, <1>2, LenProperties
<1>4. ASSUME NEW n \in DOMAIN file PROVE Size(n) \in Nat /\ 0 < Size(n)
  BY <1>3 DEF Size
<1> QED
  BY <1>1, <1>2, <1>3, <1>4

LEMMA ResultLinesAre ==
    ASSUME file \in Seq(Statements), NEW n \in DOMAIN file
    PROVE  /\ ResultLines(n) \in Seq(Line) /\ Len(ResultLines(n)) = Len(file[n].result)
           /\ DOMAIN ResultLines(n) = DOMAIN file[n].result
           /\ \A k \in DOMAIN file[n].result :
                ResultLines(n)[k] = [of |-> n, at |-> k, as |-> file[n].result[k]]
<1> DEFINE s == file[n].result
           t == ResultLines(n)
<1>1. n \in Nat /\ s \in Seq(Readings) /\ Len(s) \in Nat /\ DOMAIN s = 1 .. Len(s)
  BY FileIs
<1>2. t = [k \in 1 .. Len(s) |-> [of |-> n, at |-> k, as |-> s[k]]]
  BY <1>1 DEF ResultLines
<1>3. \A k \in 1 .. Len(s) : s[k] \in Readings
  BY <1>1, ElementOfSeq
<1> HIDE DEF s, t
<1>4. t \in [1 .. Len(s) -> Line]
  BY <1>1, <1>2, <1>3 DEF Line
<1>5. t \in Seq(Line) /\ Len(t) = Len(s)
  BY <1>1, <1>4, SeqDef, LenProperties
<1> QED
  BY <1>1, <1>2, <1>5 DEF s, t

\* A statement that parses and reads well prints its card and then its result.
LEMMA OutputIs ==
    ASSUME file \in Seq(Statements), NEW n \in DOMAIN file
    PROVE  /\ Output(n) \in Seq(Line) /\ Len(Output(n)) \in Nat
           /\ ~file[n].parses => Output(n) = <<>>
           /\ file[n].parses /\ Readable(n) =>
                /\ Len(Output(n)) = Len(file[n].result) + 1 /\ Output(n)[1] = Heading(n)
                /\ \A k \in DOMAIN file[n].result : Output(n)[1 + k] = ResultLines(n)[k]
<1> DEFINE head == JsonLines(n)
           t == ResultLines(n)
<1>1. /\ t \in Seq(Line) /\ Len(t) = Len(file[n].result) /\ Len(t) \in Nat /\ n \in Nat
      /\ DOMAIN file[n].result = 1 .. Len(t)
  BY FileIs, ResultLinesAre
<1>2. head \in Seq(Line) /\ Len(head) \in Nat
  <2>1. \A as \in Readings : [of |-> n, at |-> 0, as |-> as] \in Line
    BY <1>1 DEF Line
  <2> QED
    BY <2>1, LenProperties DEF JsonLines, Readings
<1>3. Readable(n) => head = <<Heading(n)>>
  BY DEF Readable, JsonLines, Heading
<1>4. <<>> \in Seq(Line)
  OBVIOUS
<1>5. Output(n) = IF file[n].parses THEN head \o t ELSE <<>>
  BY DEF Output
<1> HIDE DEF head, t
<1>6. /\ head \o t \in Seq(Line) /\ Len(head \o t) = Len(head) + Len(t)
      /\ \A i \in 1 .. Len(head) + Len(t) :
           (head \o t)[i] = IF i <= Len(head) THEN head[i] ELSE t[i - Len(head)]
  BY <1>1, <1>2, ConcatProperties
<1>7. ASSUME file[n].parses, Readable(n)
      PROVE  /\ Len(Output(n)) = Len(t) + 1 /\ Output(n)[1] = Heading(n)
             /\ \A k \in 1 .. Len(t) : Output(n)[1 + k] = t[k]
  <2>1. Len(head) = 1 /\ head[1] = Heading(n)
    BY <1>3, <1>7
  <2> HIDE DEF Heading
  <2>2. Output(n) = head \o t
    BY <1>5, <1>7
  <2>3. 1 \in 1 .. 1 + Len(t) /\ 1 <= 1
    BY <1>1
  <2>4. ASSUME NEW k \in 1 .. Len(t) PROVE Output(n)[1 + k] = t[k]
    <3>1. 1 + k \in 1 .. 1 + Len(t) /\ ~(1 + k <= 1) /\ 1 + k - 1 = k
      BY <1>1
    <3> QED
      BY <1>6, <2>1, <2>2, <3>1
  <2>5. Len(Output(n)) = Len(t) + 1
    BY <1>1, <1>6, <2>1, <2>2
  <2>6. Output(n)[1] = Heading(n)
    BY <1>6, <2>1, <2>2, <2>3
  <2> QED
    BY <2>4, <2>5, <2>6
<1>8. Output(n) \in Seq(Line)
  BY <1>4, <1>5, <1>6
<1> QED
  BY <1>1, <1>4, <1>5, <1>6, <1>7, <1>8, LenProperties DEF t

\* Which statement has printed a line.
LEMMA LineIsOf ==
    ASSUME ran \in Nat, NEW start \in [Nat -> Nat], Layout(start),
           NEW p \in 1 .. Len(stdout)
    PROVE  \E n \in 1 .. ran : start[n] < p /\ p <= start[n + 1]
<1> DEFINE S == {n \in 1 .. ran + 1 : start[n] < p}
<1>1. start[1] = 0 /\ start[ran + 1] = Len(stdout) /\ p \in Int /\ 1 <= p /\ p <= Len(stdout)
  BY DEF Layout
<1>2. 1 \in S /\ S \in SUBSET Int /\ S \subseteq 1 .. ran + 1
  <2>1. 1 \in 1 .. ran + 1 /\ start[1] < p
    BY <1>1
  <2>2. 1 .. ran + 1 \in SUBSET Int
    OBVIOUS
  <2> QED
    BY <2>1, <2>2
<1>3. IsFiniteSet(S)
  <2>1. IsFiniteSet(1 .. ran + 1)
    BY FS_Interval
  <2> QED
    BY <1>2, <2>1, FS_Subset
<1> DEFINE n == Max(S)
<1>4. n \in S /\ \A m \in S : m <= n
  BY <1>2, <1>3, MaxIsGreatest
<1> HIDE DEF n
<1>5. n \in 1 .. ran + 1 /\ start[n] < p /\ start[n] \in Nat
  BY <1>4
<1>6. n # ran + 1
  <2>1. ~(Len(stdout) < p)
    BY <1>1
  <2> QED
    BY <1>1, <1>5, <2>1
<1>7. n \in 1 .. ran /\ n + 1 \in 1 .. ran + 1 /\ ~(n + 1 <= n)
  BY <1>5, <1>6
<1>8. ~(start[n + 1] < p)
  BY <1>4, <1>7
<1>9. start[n + 1] \in Nat
  <2>1. n + 1 \in Nat
    BY <1>7
  <2> QED
    BY <2>1
<1> QED
  BY <1>1, <1>5, <1>7, <1>8, <1>9

-----------------------------------------------------------------------------
\* Positions that show the same are copied the same.
LEMMA AtPositionsAgree ==
    ASSUME NEW D, NEW s \in Seq(D), NEW t, NEW ps \in SUBSET DOMAIN s,
           \A p \in ps : t[p] = s[p]
    PROVE  AtPositions(t, ps) = AtPositions(s, ps)
<1> DEFINE n == Cardinality(ps)
           nth(i) == CHOOSE p \in ps : Cardinality({q \in ps : q <= p}) = i
<1>1. ps \in SUBSET Int /\ IsFiniteSet(ps) /\ n \in Nat
  BY DomainIsFinite
<1>2. \A i \in 1 .. n : nth(i) \in ps
  BY <1>1, RankIsOnto
<1>3. /\ AtPositions(t, ps) = [i \in 1 .. n |-> t[nth(i)]]
      /\ AtPositions(s, ps) = [i \in 1 .. n |-> s[nth(i)]]
  BY DEF AtPositions
<1> HIDE DEF n, nth
<1> QED
  BY <1>2, <1>3

CardType == [of : Nat, result : Seq(Line)]

LEMMA CardsAre ==
    ASSUME file \in Seq(Statements)
    PROVE  /\ Cards \in Seq(CardType) /\ DOMAIN Cards = DOMAIN file
           /\ \A n \in DOMAIN file : Cards[n] = Card(n)
           /\ \A last : /\ CardsBut(last) \in Seq(CardType) /\ DOMAIN CardsBut(last) = DOMAIN file
                        /\ \A n \in DOMAIN file :
                             CardsBut(last)[n] = IF n = last THEN BareCard(n) ELSE Card(n)
<1>1. Len(file) \in Nat /\ DOMAIN file = 1 .. Len(file)
  BY FileIs
<1>2. ASSUME NEW n \in DOMAIN file PROVE Card(n) \in CardType /\ BareCard(n) \in CardType
  <2>1. ResultLines(n) \in Seq(Line) /\ Shown(n) \in SUBSET DOMAIN ResultLines(n) /\ n \in Nat
    BY <1>1, ResultLinesAre DEF Shown
  <2>2. AtPositions(ResultLines(n), Shown(n)) \in Seq(Line) /\ <<>> \in Seq(Line)
    BY <2>1, AtPositionsType
  <2> QED
    BY <2>1, <2>2 DEF Card, BareCard, CardType
<1>3. Cards \in [1 .. Len(file) -> CardType]
  BY <1>1, <1>2 DEF Cards
<1>4. \A last : CardsBut(last) \in [1 .. Len(file) -> CardType]
  BY <1>1, <1>2 DEF CardsBut
<1>5. Cards \in Seq(CardType) /\ \A last : CardsBut(last) \in Seq(CardType)
  BY <1>1, <1>3, <1>4, SeqDef
<1> QED
  BY <1>5 DEF Cards, CardsBut

LEMMA ChangeLast ==
    ASSUME NEW D, NEW s \in Seq(D), NEW x \in D, NEW y \in D
    PROVE  [Append(s, x) EXCEPT ![Len(Append(s, x))] = y] = Append(s, y)
<1> DEFINE u == Append(s, x)
           v == Append(s, y)
           n == Len(s) + 1
           t == [u EXCEPT ![n] = y]
<1>1. Len(s) \in Nat
  BY LenProperties
<1>2. /\ u \in Seq(D) /\ Len(u) = n
      /\ \A i \in 1 .. Len(s) : u[i] = s[i]
  BY AppendProperties
<1>3. /\ v \in Seq(D) /\ Len(v) = n /\ v[n] = y
      /\ \A i \in 1 .. Len(s) : v[i] = s[i]
  BY AppendProperties
<1>4. n \in 1 .. n /\ \A i \in 1 .. n : i = n \/ i \in 1 .. Len(s)
  BY <1>1
<1> HIDE DEF u, v, n
<1>5. /\ t \in Seq(D) /\ Len(t) = n
      /\ \A j \in 1 .. n : t[j] = IF j = n THEN y ELSE u[j]
  <2>1. n \in 1 .. Len(u)
    BY <1>2, <1>4
  <2> QED
    BY <1>2, <2>1, ExceptSeq
<1> HIDE DEF t
<1>6. \A i \in 1 .. Len(t) : t[i] = v[i]
  BY <1>2, <1>3, <1>4, <1>5
<1>7. t = v
  BY <1>3, <1>5, <1>6, SeqEqual
<1> QED
  BY <1>2, <1>7 DEF t, u, v

\* flush_result gives the last card its result.
LEMMA FlushIs ==
    ASSUME file \in Seq(Statements), NEW B \in SUBSET DOMAIN file, NEW n \in B, \A m \in B : m <= n,
           statements = AtPositions(CardsBut(n), B),
           pending = AtPositions(ResultLines(n), Shown(n))
    PROVE  Flushed = AtPositions(Cards, B)
<1> DEFINE rest == B \ {n}
           s == AtPositions(Cards, rest)
<1>1. /\ Cards \in Seq(CardType) /\ DOMAIN Cards = DOMAIN file /\ Cards[n] = Card(n)
      /\ CardsBut(n) \in Seq(CardType) /\ DOMAIN CardsBut(n) = DOMAIN file
      /\ CardsBut(n)[n] = BareCard(n) /\ \A m \in rest : CardsBut(n)[m] = Cards[m]
  BY CardsAre
<1>2. /\ rest \in SUBSET DOMAIN file /\ B = rest \cup {n} /\ n \in DOMAIN file
      /\ \A m \in rest : m < n
  <2>1. DOMAIN file \in SUBSET Nat
    BY FileIs
  <2> QED
    BY <2>1
<1>3. AtPositions(Cards, B) = Append(s, Card(n))
  <2>1. /\ Cards \in Seq(CardType) /\ rest \in SUBSET DOMAIN Cards /\ n \in DOMAIN Cards
        /\ \A m \in rest : m < n
    BY <1>1, <1>2
  <2> HIDE DEF rest
  <2>2. AtPositions(Cards, rest \cup {n}) = Append(AtPositions(Cards, rest), Cards[n])
    BY <2>1, AtPositionsAppend
  <2> QED
    BY <1>1, <1>2, <2>2
<1>4. AtPositions(CardsBut(n), B) = Append(AtPositions(CardsBut(n), rest), BareCard(n))
  <2>1. /\ CardsBut(n) \in Seq(CardType) /\ rest \in SUBSET DOMAIN CardsBut(n)
        /\ n \in DOMAIN CardsBut(n) /\ \A m \in rest : m < n
    BY <1>1, <1>2
  <2> HIDE DEF rest
  <2>2. AtPositions(CardsBut(n), rest \cup {n}) = Append(AtPositions(CardsBut(n), rest), CardsBut(n)[n])
    BY <2>1, AtPositionsAppend
  <2> QED
    BY <1>1, <1>2, <2>2
<1>5. AtPositions(CardsBut(n), rest) = s
  BY <1>1, <1>2, AtPositionsAgree
<1>6. s \in Seq(CardType)
  BY <1>1, <1>2, AtPositionsType
<1> HIDE DEF rest, s
<1>7. Card(n) \in CardType /\ BareCard(n) \in CardType
  <2>1. n \in 1 .. Len(Cards) /\ n \in 1 .. Len(CardsBut(n))
    BY <1>1, <1>2, LenProperties
  <2> QED
    BY <1>1, <2>1, ElementOfSeq
<1>8. statements = Append(s, BareCard(n))
  BY <1>4, <1>5
<1>9. /\ Len(statements) = Len(s) + 1 /\ statements[Len(s) + 1] = BareCard(n) /\ Len(s) \in Nat
      /\ statements # <<>>
  BY <1>6, <1>7, <1>8, AppendProperties, LenProperties
<1>10. CASE pending = <<>>
  <2>1. Card(n) = BareCard(n)
    BY <1>10 DEF Card, BareCard
  <2> QED
    BY <1>3, <1>8, <1>10, <2>1 DEF Flushed
<1>11. CASE pending # <<>>
  <2>1. Flushed = [statements EXCEPT ![Len(statements)] = [@ EXCEPT !.result = pending]]
    BY <1>9, <1>11 DEF Flushed
  <2>2. [BareCard(n) EXCEPT !.result = pending] = Card(n)
    BY DEF BareCard, Card
  <2>3. Flushed = [statements EXCEPT ![Len(statements)] = Card(n)]
    BY <1>9, <2>1, <2>2
  <2>4. Flushed = [Append(s, BareCard(n)) EXCEPT ![Len(Append(s, BareCard(n)))] = Card(n)]
    BY <1>8, <2>3
  <2> QED
    BY <1>3, <1>6, <1>7, <2>4, ChangeLast
<1> QED
  BY <1>10, <1>11

-----------------------------------------------------------------------------
\* Reading stands r lines into the output, within that of statement n.
Within(start, n, r) ==
    /\ file \in Seq(Statements) /\ ran = Len(file) /\ start \in [Nat -> Nat] /\ Layout(start)
    /\ n \in DOMAIN file /\ r \in Nat /\ start[n] <= r /\ r < start[n + 1]

\* Where the output of a statement lies, and which statements have begun there.
LEMMA StartsAre ==
    ASSUME NEW start, NEW n, NEW r, Within(start, n, r)
    PROVE  /\ n \in Parsed /\ start[n + 1] = start[n] + Size(n)
           /\ \A m \in Parsed : start[m] < r + 1 <=> m <= n
           /\ \A m \in Parsed : start[m] < r <=> m < n \/ (m = n /\ start[n] < r)
           /\ \A m \in Parsed : m < n => start[m] + Size(m) <= start[n]
<1> DEFINE at == [m \in DOMAIN file |-> start[m]]
           after == [m \in DOMAIN file |-> start[m + 1]]
<1>1. /\ DOMAIN file = 1 .. ran /\ ran \in Nat /\ n \in 1 .. ran /\ n \in Nat /\ r \in Nat
      /\ \A m \in DOMAIN file : m \in Nat /\ Size(m) \in Nat /\ 0 < Size(m)
  BY FileIs DEF Within
<1>2. \A m \in 1 .. ran : at[m] = start[m] /\ after[m] = start[m + 1]
  BY <1>1
<1>3. \A m \in 1 .. ran : at[m] \in Nat /\ after[m] \in Nat
  <2>1. \A m \in 1 .. ran : m \in Nat /\ m + 1 \in Nat
    BY <1>1
  <2>2. start \in [Nat -> Nat]
    BY DEF Within
  <2> QED
    BY <1>1, <2>1, <2>2
<1>4. /\ \A m \in 1 .. ran : start[m + 1] = start[m] + Lines(m)
      /\ \A x \in 1 .. ran + 1 : \A y \in 1 .. x : start[y] <= start[x]
      /\ start[n] <= r /\ r < start[n + 1]
  BY DEF Within, Layout
<1> HIDE DEF at, after
<1>5. \A m \in 1 .. ran : after[m] = at[m] + Lines(m)
  BY <1>2, <1>4
<1>6. at[n] <= r /\ r < after[n]
  BY <1>1, <1>2, <1>4
<1>7. \A m \in 1 .. ran : Lines(m) = IF file[m].parses THEN Size(m) ELSE 0
  BY DEF Lines
<1>8. \A m, l \in 1 .. ran : m < l => after[m] <= at[l]
  <2> SUFFICES ASSUME NEW m \in 1 .. ran, NEW l \in 1 .. ran, m < l PROVE after[m] <= at[l]
    OBVIOUS
  <2>1. l \in 1 .. ran + 1 /\ m + 1 \in 1 .. l
    BY <1>1
  <2> QED
    BY <1>2, <1>4, <2>1
<1>9. Parsed = {m \in 1 .. ran : file[m].parses}
  BY <1>1 DEF Parsed
<1>10. \A m \in Parsed : m \in 1 .. ran /\ after[m] = at[m] + Size(m) /\ m \in Nat /\ Size(m) \in Nat /\ 0 < Size(m)
  BY <1>1, <1>5, <1>7, <1>9
<1>11. file[n].parses
  <2>1. at[n] \in Nat /\ after[n] \in Nat
    BY <1>1, <1>3
  <2>2. after[n] # at[n] + 0
    BY <1>1, <1>6, <2>1
  <2> QED
    BY <1>1, <1>5, <1>7, <2>2
<1>12. n \in Parsed
  BY <1>1, <1>9, <1>11
<1>13. ASSUME NEW m \in Parsed
       PROVE  /\ at[m] < r + 1 <=> m <= n
              /\ at[m] < r <=> m < n \/ (m = n /\ at[n] < r)
              /\ m < n => at[m] + Size(m) <= at[n]
  <2>1. /\ m \in 1 .. ran /\ m \in Nat /\ Size(m) \in Nat /\ 0 < Size(m) /\ after[m] = at[m] + Size(m)
        /\ at[m] \in Nat /\ at[n] \in Nat /\ after[n] \in Nat /\ (m < n \/ m = n \/ n < m)
    BY <1>1, <1>3, <1>10
  <2>2. (m < n => after[m] <= at[n]) /\ (n < m => after[n] <= at[m])
    BY <1>1, <1>8, <2>1
  <2> QED
    BY <1>1, <1>6, <2>1, <2>2
<1>14. start[n + 1] = start[n] + Size(n)
  BY <1>1, <1>2, <1>10, <1>12
<1>15. \A m \in Parsed : start[m] = at[m]
  BY <1>2, <1>10
<1> QED
  BY <1>12, <1>13, <1>14, <1>15

\* The result of a statement ends where the output of the statement does.
LEMMA LinesAreWithin ==
    ASSUME NEW a \in Nat, NEW size \in Nat, NEW b \in Nat, a + (size + 1) <= b
    PROVE  a + 1 \in 1 .. b /\ \A k \in 1 .. size : a + 1 + k \in 1 .. b
OBVIOUS

\* If all the result of every begun statement is read, flushing completes the cards.
LEMMA FlushedAre ==
    ASSUME file \in Seq(Statements), NEW start \in [Nat -> Nat], NEW r \in Nat,
           Collected(start, r, statements, pending),
           \A m \in Begun(start, r) : start[m] + Size(m) <= r
    PROVE  Flushed = AtPositions(Cards, Begun(start, r))
<1> DEFINE B == Begun(start, r)
<1>1. B \in SUBSET DOMAIN file /\ B \subseteq Parsed
  BY DEF Begun, Parsed
<1>2. B \in SUBSET Int /\ IsFiniteSet(B)
  BY <1>1, DomainIsFinite
<1>3. CASE B = {}
  <2>1. statements = <<>>
    BY <1>3 DEF Collected
  <2>2. Flushed = <<>>
    BY <2>1 DEF Flushed
  <2>3. AtPositions(Cards, {}) = <<>>
    BY AtNoPositions
  <2> QED
    BY <1>3, <2>2, <2>3
<1>4. CASE B # {}
  <2> DEFINE n == Max(B)
  <2>1. n \in B /\ \A m \in B : m <= n
    BY <1>2, <1>4, MaxIsGreatest
  <2> HIDE DEF n
  <2>2. Latest(start, n, r) /\ n \in Parsed
    BY <1>1, <2>1 DEF Latest
  <2>3. /\ pending = AtPositions(ResultLines(n), ReadOf(start, n, r))
        /\ statements = AtPositions(CardsBut(n), B)
    BY <2>2 DEF Collected
  <2>4. ReadOf(start, n, r) = Shown(n)
    <3>1. start[n] + Size(n) <= r
      BY <2>1
    <3>2. n \in DOMAIN file
      BY <1>1, <2>1
    <3> DEFINE size == Len(file[n].result)
    <3>3. /\ size \in Nat /\ n \in Nat
          /\ DOMAIN file[n].result = 1 .. size
      BY <3>2, FileIs
    <3>4. start[n] \in Nat
      BY <3>3
    <3>5. Size(n) = size + 1
      BY DEF Size
    <3> HIDE DEF size
    <3>6. \A k \in 1 .. size : start[n] + 1 + k <= r
      <4>1. start[n] + (size + 1) <= r
        BY <3>1, <3>5
      <4> HIDE DEF B
      <4>2. \A k \in 1 .. size : start[n] + 1 + k \in 1 .. r
        BY <3>3, <3>4, <4>1, LinesAreWithin
      <4>3. \A i \in 1 .. r : i <= r
        OBVIOUS
      <4> QED
        BY <4>2, <4>3
    <3>7. \A k \in DOMAIN file[n].result : start[n] + 1 + k <= r
      BY <3>3, <3>6
    <3> QED
      BY <3>7 DEF ReadOf, Shown
  <2> HIDE DEF B
  <2> QED
    BY <1>1, <2>1, <2>3, <2>4, FlushIs DEF B
<1> QED
  BY <1>3, <1>4

-----------------------------------------------------------------------------
LEMMA LessOrTheSame == \A a, b \in Nat : a <= b <=> a < b \/ a = b
OBVIOUS

LEMMA PlaceWithin ==
    \A a, b, size \in Nat : a < b /\ b < a + (size + 1) => b - a \in 1 .. size
OBVIOUS

LEMMA LineBefore ==
    \A a, b, j \in Nat : /\ a + 1 + j <= b <=> j < b - a
                       /\ a + 1 + j <= b + 1 <=> j < b - a \/ j = b - a
OBVIOUS

\* The line of a statement begins its card, behind those of the statements before it.
LEMMA HeadingIsRead ==
    ASSUME NEW start, NEW n, Within(start, n, read), read = start[n], n \in Parsed, Readable(n),
           Begun(start, read) = {m \in Parsed : m < n},
           \A m \in Parsed : m < n => start[m] + Size(m) <= start[n],
           Collected(start, read, statements, pending),
           stdout[read + 1] = Heading(n), ReadLine
    PROVE  /\ statements' = AtPositions(CardsBut(n), {m \in Parsed : m <= n})
           /\ pending' = AtPositions(ResultLines(n), ReadOf(start, n, read + 1))
<1> DEFINE B == {m \in Parsed : m < n}
<1>1. /\ file \in Seq(Statements) /\ start \in [Nat -> Nat] /\ read \in Nat /\ n \in DOMAIN file
      /\ n \in Nat /\ DOMAIN file[n].result \in SUBSET Nat /\ \A m \in DOMAIN file : m \in Nat
      /\ \A k \in DOMAIN file[n].result : 1 <= k
  <2>1. file \in Seq(Statements) /\ start \in [Nat -> Nat] /\ read \in Nat /\ n \in DOMAIN file
    BY DEF Within
  <2> DEFINE size == Len(file[n].result)
  <2>2. /\ n \in Nat /\ size \in Nat /\ DOMAIN file[n].result = 1 .. size /\ \A m \in DOMAIN file : m \in Nat
    BY <2>1, FileIs
  <2> HIDE DEF size
  <2>3. \A k \in 1 .. size : k \in Nat /\ 1 <= k
    BY <2>2
  <2> QED
    BY <2>1, <2>2, <2>3
<1>2. Flushed = AtPositions(Cards, B)
  <2>1. \A m \in Begun(start, read) : start[m] + Size(m) <= read
    OBVIOUS
  <2> QED
    BY <1>1, <2>1, FlushedAre
<1>3. statements' = Append(Flushed, BareCard(n)) /\ pending' = <<>>
  BY DEF ReadLine, Heading, BareCard
<1>4. /\ Cards \in Seq(CardType) /\ DOMAIN Cards = DOMAIN file
      /\ CardsBut(n) \in Seq(CardType) /\ DOMAIN CardsBut(n) = DOMAIN file
      /\ CardsBut(n)[n] = BareCard(n) /\ \A m \in B : CardsBut(n)[m] = Cards[m]
  <2>1. \A m \in B : m # n /\ m \in DOMAIN file
    BY <1>1 DEF Parsed
  <2> QED
    BY <1>1, <2>1, CardsAre
<1>5. B \in SUBSET DOMAIN file /\ \A m \in B : m < n
  BY DEF Parsed
<1>6. {m \in Parsed : m <= n} = B \cup {n}
  <2>1. \A m \in Parsed : m \in Nat
    BY <1>1 DEF Parsed
  <2>2. \A m \in Parsed : m <= n <=> m < n \/ m = n
    BY <1>1, <2>1, LessOrTheSame
  <2> QED
    BY <2>2
<1> HIDE DEF B
<1>7. AtPositions(CardsBut(n), B) = AtPositions(Cards, B)
  BY <1>4, <1>5, AtPositionsAgree
<1>8. AtPositions(CardsBut(n), B \cup {n}) = Append(AtPositions(CardsBut(n), B), BareCard(n))
  <2>1. AtPositions(CardsBut(n), B \cup {n}) = Append(AtPositions(CardsBut(n), B), CardsBut(n)[n])
    BY <1>1, <1>4, <1>5, AtPositionsAppend
  <2> QED
    BY <1>4, <2>1
<1>9. ReadOf(start, n, read + 1) = {}
  <2>1. ASSUME NEW k \in DOMAIN file[n].result PROVE ~(start[n] + 1 + k <= read + 1)
    <3>1. k \in Nat /\ 1 <= k /\ start[n] \in Nat
      BY <1>1
    <3> QED
      BY <1>1, <3>1
  <2> QED
    BY <2>1 DEF ReadOf, Shown
<1> QED
  BY <1>2, <1>3, <1>6, <1>7, <1>8, <1>9, AtNoPositions

\* Any other line is one of the result, and kept unless it is blank.
LEMMA ResultLineIsRead ==
    ASSUME NEW start, NEW n, Within(start, n, read), start[n] < read, n \in Parsed, Readable(n),
           start[n + 1] = start[n] + Size(n),
           \A k \in DOMAIN file[n].result : stdout[start[n] + 1 + k] = ResultLines(n)[k],
           pending = AtPositions(ResultLines(n), ReadOf(start, n, read)), ReadLine
    PROVE  /\ statements' = statements
           /\ pending' = AtPositions(ResultLines(n), ReadOf(start, n, read + 1))
<1> DEFINE first == start[n]
           size == Len(file[n].result)
           k == read - first
           R == ReadOf(start, n, read)
           More == ReadOf(start, n, read + 1)
<1>1. /\ file \in Seq(Statements) /\ start \in [Nat -> Nat] /\ read \in Nat /\ n \in DOMAIN file
      /\ read < start[n + 1]
  BY DEF Within
<1>2. /\ n \in Nat /\ size \in Nat /\ DOMAIN file[n].result = 1 .. size
      /\ ResultLines(n) \in Seq(Line) /\ DOMAIN ResultLines(n) = 1 .. size
      /\ \A j \in 1 .. size : ResultLines(n)[j] = [of |-> n, at |-> j, as |-> file[n].result[j]]
  <2>1. n \in Nat /\ size \in Nat /\ DOMAIN file[n].result = 1 .. size
    BY <1>1, FileIs
  <2> QED
    BY <1>1, <2>1, ResultLinesAre
<1>3. first \in Nat /\ first < read /\ read < first + (size + 1)
  BY <1>1, <1>2 DEF Size
<1>4. /\ R = {j \in Shown(n) : first + 1 + j <= read}
      /\ More = {j \in Shown(n) : first + 1 + j <= read + 1}
      /\ Shown(n) = {j \in 1 .. size : file[n].result[j] # "blank"}
  BY <1>2 DEF ReadOf, Shown
<1>5. file[n].result[k] # "statement" /\ stdout[first + 1 + k] = ResultLines(n)[k] /\ k \in 1 .. size
  <2>1. k \in 1 .. size
    <3> HIDE DEF first, size
    <3> QED
      BY <1>1, <1>2, <1>3, PlaceWithin
  <2> QED
    BY <1>2, <2>1 DEF Readable
<1> HIDE DEF first, size, R, More
<1>6. first + 1 + k = read + 1
  BY <1>1, <1>3
<1>7. stdout[read + 1].as = file[n].result[k] /\ stdout[read + 1] = ResultLines(n)[k]
  BY <1>2, <1>5, <1>6
<1>8. \A j \in 1 .. size : (first + 1 + j <= read <=> j < k) /\ (first + 1 + j <= read + 1 <=> j < k \/ j = k)
  <2> SUFFICES ASSUME NEW j \in 1 .. size
               PROVE  (first + 1 + j <= read <=> j < k) /\ (first + 1 + j <= read + 1 <=> j < k \/ j = k)
    OBVIOUS
  <2>1. j \in Nat /\ first \in Nat /\ read \in Nat
    BY <1>1, <1>2, <1>3
  <2>2. /\ first + 1 + j <= read <=> j < read - first
        /\ first + 1 + j <= read + 1 <=> j < read - first \/ j = read - first
    BY <2>1, LineBefore
  <2> QED
    BY <2>2
<1> HIDE DEF k
<1>9. CASE file[n].result[k] = "blank"
  <2>1. statements' = statements /\ pending' = pending
    BY <1>7, <1>9 DEF ReadLine
  <2>2. More = R
    BY <1>4, <1>8, <1>9
  <2> QED
    BY <2>1, <2>2 DEF R, More
<1>10. CASE file[n].result[k] # "blank"
  <2>1. statements' = statements /\ pending' = Append(pending, ResultLines(n)[k])
    BY <1>5, <1>7, <1>10 DEF ReadLine
  <2>2. More = R \cup {k}
    BY <1>4, <1>5, <1>8, <1>10
  <2>3. R \in SUBSET DOMAIN ResultLines(n) /\ k \in DOMAIN ResultLines(n) /\ \A j \in R : j < k
    BY <1>2, <1>4, <1>5, <1>8
  <2>4. AtPositions(ResultLines(n), R \cup {k}) = Append(AtPositions(ResultLines(n), R), ResultLines(n)[k])
    BY <1>2, <2>3, AtPositionsAppend
  <2> QED
    BY <2>1, <2>2, <2>4 DEF R, More
<1> QED
  BY <1>9, <1>10

\* A line that is read leaves the cards of the lines read.
LEMMA LineIsRead ==
    ASSUME NEW start, NEW n, Within(start, n, read), AllReadable,
           Collected(start, read, statements, pending), ReadLine
    PROVE  Collected(start, read + 1, statements', pending')
<1>1. /\ n \in Parsed /\ start[n + 1] = start[n] + Size(n)
      /\ \A m \in Parsed : start[m] < read + 1 <=> m <= n
      /\ \A m \in Parsed : start[m] < read <=> m < n \/ (m = n /\ start[n] < read)
      /\ \A m \in Parsed : m < n => start[m] + Size(m) <= start[n]
  BY StartsAre
<1>2. Readable(n)
  BY <1>1 DEF AllReadable
<1>3. /\ start[n] \in Nat /\ read \in Nat /\ start[n] <= read /\ \A m \in Parsed : m \in Nat
      /\ n \in Nat
  <2>1. /\ file \in Seq(Statements) /\ start \in [Nat -> Nat] /\ read \in Nat /\ n \in DOMAIN file
        /\ start[n] <= read
    BY DEF Within
  <2> QED
    BY <2>1, FileIs DEF Parsed
<1>4. /\ stdout[start[n] + 1] = Heading(n)
      /\ \A k \in DOMAIN file[n].result : stdout[start[n] + 1 + k] = ResultLines(n)[k]
  <2>1. n \in 1 .. ran /\ Layout(start) /\ file[n].parses
    BY <1>1, FileIs DEF Within, Parsed
  <2> QED
    BY <2>1 DEF Layout
<1>5. Begun(start, read + 1) = {m \in Parsed : m <= n}
  BY <1>1 DEF Begun
<1>6. /\ statements' = AtPositions(CardsBut(n), {m \in Parsed : m <= n})
      /\ pending' = AtPositions(ResultLines(n), ReadOf(start, n, read + 1))
  <2>1. CASE start[n] = read
    <3>1. Begun(start, read) = {m \in Parsed : m < n}
      <4>1. ~(start[n] < read)
        BY <1>3, <2>1
      <4> QED
        BY <1>1, <4>1 DEF Begun
    <3>2. stdout[read + 1] = Heading(n)
      BY <1>4, <2>1
    <3> QED
      BY <1>1, <1>2, <2>1, <3>1, <3>2, HeadingIsRead
  <2>2. CASE start[n] # read
    <3>1. start[n] < read
      BY <1>3, <2>2
    <3>2. Begun(start, read) = {m \in Parsed : m <= n}
      <4>1. \A m \in Parsed : m <= n <=> m < n \/ m = n
        BY <1>3, LessOrTheSame
      <4> QED
        BY <1>1, <3>1, <4>1 DEF Begun
    <3>3. Latest(start, n, read)
      BY <1>1, <1>3, <3>2 DEF Latest
    <3>4. /\ pending = AtPositions(ResultLines(n), ReadOf(start, n, read))
          /\ statements = AtPositions(CardsBut(n), {m \in Parsed : m <= n})
      BY <1>1, <3>2, <3>3 DEF Collected
    <3>5. /\ statements' = statements
          /\ pending' = AtPositions(ResultLines(n), ReadOf(start, n, read + 1))
      BY <1>1, <1>2, <1>4, <3>1, <3>4, ResultLineIsRead
    <3> QED
      BY <3>4, <3>5
  <2> QED
    BY <2>1, <2>2
<1>7. n \in Begun(start, read + 1)
  BY <1>1, <1>3, <1>5
<1>8. \A m \in Parsed : Latest(start, m, read + 1) => m = n
  <2> SUFFICES ASSUME NEW m \in Parsed, Latest(start, m, read + 1) PROVE m = n
    OBVIOUS
  <2>1. n <= m /\ m <= n
    BY <1>5, <1>7 DEF Latest
  <2> QED
    BY <1>3, <2>1
<1> QED
  BY <1>5, <1>6, <1>7, <1>8 DEF Collected

-----------------------------------------------------------------------------
LEMMA PlaceBehind ==
    ASSUME NEW a \in Nat, NEW b \in Nat, NEW i \in 1 .. b
    PROVE  \E j : j = a + i /\ j \in 1 .. a + b /\ ~(j <= a) /\ j - a = i
OBVIOUS

\* What a statement prints stands behind what is printed already.
LEMMA StatementIsLaidOut ==
    ASSUME file \in Seq(Statements), stdout \in Seq(Line), ran \in Nat, AllReadable,
           NEW start \in [Nat -> Nat], Layout(start), ProcessStmt,
           NEW here, here = ran + 1, NEW len, len = Len(stdout')
    PROVE  /\ [start EXCEPT ![here + 1] = len] \in [Nat -> Nat]
           /\ Layout([start EXCEPT ![here + 1] = len])'
<1> DEFINE L == Len(stdout)
           next == [start EXCEPT ![here + 1] = len]
           out == Output(here)
<1>1. /\ file' = file /\ ran' = here /\ here \in DOMAIN file /\ here \in Nat /\ 1 <= here
      /\ stdout' = stdout \o out /\ 1 .. ran + 1 = 1 .. here
  BY FileIs DEF ProcessStmt
<1>2. /\ out \in Seq(Line) /\ Len(out) \in Nat /\ L \in Nat
      /\ ~file[here].parses => out = <<>>
      /\ file[here].parses =>
           /\ Len(out) = Size(here) /\ out[1] = Heading(here)
           /\ \A k \in DOMAIN file[here].result : out[1 + k] = ResultLines(here)[k]
  <2>1. file[here].parses => Readable(here)
    BY <1>1 DEF AllReadable, Parsed
  <2> QED
    BY <1>1, <2>1, OutputIs, LenProperties DEF Size
<1>3. /\ start[1] = 0 /\ start[here] = L
      /\ \A x \in 1 .. here : \A y \in 1 .. x : start[y] <= start[x]
      /\ \A m \in 1 .. ran :
           /\ start[m + 1] = start[m] + Lines(m)
           /\ file[m].parses =>
                /\ stdout[start[m] + 1] = Heading(m)
                /\ \A k \in DOMAIN file[m].result : stdout[start[m] + 1 + k] = ResultLines(m)[k]
  BY <1>1 DEF Layout
<1>4. \A m \in Nat : start[m] \in Nat
  OBVIOUS
<1> HIDE DEF out, L
<1>5. /\ len = L + Len(out) /\ len \in Nat
      /\ \A i \in 1 .. L + Len(out) : stdout'[i] = IF i <= L THEN stdout[i] ELSE out[i - L]
  <2>1. /\ Len(stdout \o out) = Len(stdout) + Len(out)
        /\ \A i \in 1 .. Len(stdout) + Len(out) :
             (stdout \o out)[i] = IF i <= Len(stdout) THEN stdout[i] ELSE out[i - Len(stdout)]
    BY <1>2, ConcatProperties
  <2>2. /\ len = L + Len(out)
        /\ \A i \in 1 .. L + Len(out) : stdout'[i] = IF i <= L THEN stdout[i] ELSE out[i - L]
    BY <1>1, <2>1 DEF L
  <2>3. len \in Nat
    BY <1>2, <2>2
  <2> QED
    BY <2>2, <2>3
<1>6. /\ \A i \in 1 .. L : stdout'[i] = stdout[i]
      /\ \A i \in 1 .. Len(out) : stdout'[L + i] = out[i]
  <2>1. \A i \in 1 .. L : i \in 1 .. L + Len(out) /\ i <= L
    BY <1>2
  <2>2. \A i \in 1 .. L : stdout'[i] = stdout[i]
    BY <1>5, <2>1
  <2>3. ASSUME NEW i \in 1 .. Len(out) PROVE stdout'[L + i] = out[i]
    <3>1. PICK j : j = L + i /\ j \in 1 .. L + Len(out) /\ ~(j <= L) /\ j - L = i
      BY <1>2, PlaceBehind
    <3>2. stdout'[j] = out[j - L]
      BY <1>5, <3>1
    <3> QED
      BY <3>1, <3>2
  <2> QED
    BY <2>2, <2>3
<1>7. /\ next \in [Nat -> Nat] /\ next[here + 1] = len
      /\ \A m \in 1 .. here : next[m] = start[m]
  <2>1. here + 1 \in Nat /\ \A m \in 1 .. here : m \in Nat /\ m # here + 1
    BY <1>1
  <2> QED
    BY <1>5, <2>1
<1> HIDE DEF next
<1>8. 1 \in 1 .. here /\ here \in 1 .. here
  BY <1>1
<1>9. next[1] = 0 /\ next[here] = L
  BY <1>3, <1>7, <1>8
<1>10. \A x \in 1 .. here + 1 : \A y \in 1 .. x : next[y] <= next[x]
  <2> SUFFICES ASSUME NEW x \in 1 .. here + 1, NEW y \in 1 .. x PROVE next[y] <= next[x]
    OBVIOUS
  <2>1. CASE x = here + 1
    <3>1. CASE y = here + 1
      BY <1>5, <1>7, <2>1, <3>1
    <3>2. CASE y # here + 1
      <4>1. y \in 1 .. here /\ y \in Nat
        BY <1>1, <2>1, <3>2
      <4>2. start[y] <= L /\ start[y] \in Nat
        BY <1>3, <1>4, <1>8, <4>1
      <4> QED
        BY <1>2, <1>5, <1>7, <2>1, <4>1, <4>2
    <3> QED
      BY <3>1, <3>2
  <2>2. CASE x # here + 1
    <3>1. x \in 1 .. here /\ y \in 1 .. here
      BY <1>1, <2>2
    <3> QED
      BY <1>3, <1>7, <3>1
  <2> QED
    BY <2>1, <2>2
<1>11. ASSUME NEW m \in 1 .. here
       PROVE  /\ next[m + 1] = next[m] + Lines(m)
              /\ file[m].parses =>
                   /\ stdout'[next[m] + 1] = Heading(m)
                   /\ \A k \in DOMAIN file[m].result : stdout'[next[m] + 1 + k] = ResultLines(m)[k]
  <2> DEFINE size == Len(file[m].result)
  <2>1. m \in DOMAIN file /\ m \in Nat /\ size \in Nat /\ DOMAIN file[m].result = 1 .. size /\ Size(m) = size + 1
    <3>1. DOMAIN file = 1 .. Len(file) /\ Len(file) \in Nat
      BY FileIs
    <3>2. m \in DOMAIN file
      BY <1>1, <3>1
    <3> QED
      BY <3>2, FileIs DEF Size
  <2> HIDE DEF size
  <2>2. Lines(m) = IF file[m].parses THEN size + 1 ELSE 0
    BY <2>1 DEF Lines
  <2>3. CASE m = here
    <3>1. CASE file[m].parses
      <4>1. \A k \in 1 .. size : 1 + k \in 1 .. size + 1 /\ L + (1 + k) = L + 1 + k
        BY <1>2, <2>1
      <4>2. 1 \in 1 .. size + 1
        BY <2>1
      <4>3. Len(out) = size + 1
        BY <1>2, <2>1, <2>3, <3>1
      <4>4. next[m + 1] = next[m] + Lines(m)
        BY <1>5, <1>7, <1>9, <2>2, <2>3, <3>1, <4>3
      <4>5. stdout'[L + 1] = Heading(m)
        BY <1>2, <1>6, <2>3, <3>1, <4>2, <4>3
      <4>6. ASSUME NEW k \in 1 .. size PROVE stdout'[L + 1 + k] = ResultLines(m)[k]
        <5>1. 1 + k \in 1 .. Len(out) /\ L + (1 + k) = L + 1 + k
          BY <4>1, <4>3
        <5>2. stdout'[L + 1 + k] = out[1 + k]
          BY <1>6, <5>1
        <5> QED
          BY <1>2, <2>1, <2>3, <3>1, <5>2
      <4> QED
        BY <1>9, <2>1, <2>3, <4>4, <4>5, <4>6
    <3>2. CASE ~file[m].parses
      <4>1. Len(out) = 0
        BY <1>2, <2>3, <3>2
      <4> QED
        BY <1>2, <1>5, <1>7, <1>9, <2>2, <2>3, <3>2, <4>1
    <3> QED
      BY <3>1, <3>2
  <2>4. CASE m # here
    <3>1. m \in 1 .. ran /\ m + 1 \in 1 .. here
      BY <1>1, <2>4
    <3>2. next[m] = start[m] /\ next[m + 1] = start[m + 1] /\ start[m + 1] <= L
      BY <1>3, <1>7, <1>8, <3>1
    <3>3. start[m + 1] = start[m] + Lines(m)
      BY <1>3, <3>1
    <3>4. ASSUME file[m].parses
          PROVE  start[m] + 1 \in 1 .. L /\ \A k \in 1 .. size : start[m] + 1 + k \in 1 .. L
      <4>1. start[m] + (size + 1) <= L /\ start[m] \in Nat
        BY <1>4, <2>1, <2>2, <3>2, <3>3, <3>4
      <4> QED
        BY <1>2, <2>1, <4>1, LinesAreWithin
    <3>5. file[m].parses =>
            /\ stdout[start[m] + 1] = Heading(m)
            /\ \A k \in 1 .. size : stdout[start[m] + 1 + k] = ResultLines(m)[k]
      BY <1>3, <2>1, <3>1
    <3>6. file[m].parses =>
            /\ stdout'[start[m] + 1] = Heading(m)
            /\ \A k \in 1 .. size : stdout'[start[m] + 1 + k] = ResultLines(m)[k]
      BY <1>6, <3>4, <3>5
    <3> QED
      BY <2>1, <3>2, <3>3, <3>6
  <2> QED
    BY <2>3, <2>4
<1>12. /\ next[1] = 0 /\ next[ran' + 1] = Len(stdout')
       /\ \A x \in 1 .. ran' + 1 : \A y \in 1 .. x : next[y] <= next[x]
       /\ \A m \in 1 .. ran' :
            /\ next[m + 1] = next[m] + (IF file'[m].parses THEN Len(file'[m].result) + 1 ELSE 0)
            /\ file'[m].parses =>
                 /\ stdout'[next[m] + 1] = [of |-> m, at |-> 0, as |-> "statement"]
                 /\ \A k \in DOMAIN file'[m].result :
                      stdout'[next[m] + 1 + k] = [i \in DOMAIN file'[m].result |->
                                                   [of |-> m, at |-> i, as |-> file'[m].result[i]]][k]
  <2>1. next[1] = 0 /\ next[ran' + 1] = Len(stdout')
    BY <1>1, <1>7, <1>9
  <2>2. \A x \in 1 .. ran' + 1 : \A y \in 1 .. x : next[y] <= next[x]
    BY <1>1, <1>10
  <2>3. ASSUME NEW m \in 1 .. ran'
        PROVE  /\ next[m + 1] = next[m] + (IF file'[m].parses THEN Len(file'[m].result) + 1 ELSE 0)
               /\ file'[m].parses =>
                    /\ stdout'[next[m] + 1] = [of |-> m, at |-> 0, as |-> "statement"]
                    /\ \A k \in DOMAIN file'[m].result :
                         stdout'[next[m] + 1 + k] = [i \in DOMAIN file'[m].result |->
                                                      [of |-> m, at |-> i, as |-> file'[m].result[i]]][k]
    <3>1. m \in 1 .. here /\ file' = file
      BY <1>1
    <3> QED
      BY <1>11, <3>1 DEF Lines, Size, Heading, ResultLines
  <2> QED
    BY <2>1, <2>2, <2>3
<1>13. Layout(next)'
  BY <1>12 DEF Layout, Lines, Size, Heading, ResultLines
<1> QED
  BY <1>7, <1>13 DEF next

-----------------------------------------------------------------------------
\* A request starts with nothing printed and nothing read.
LEMMA BridgeStarts == FilesAssumption /\ Init => BridgeInv
<1> SUFFICES ASSUME FilesAssumption, Init PROVE BridgeInv
  OBVIOUS
<1>1. /\ file \in Seq(Statements) /\ ran = 0 /\ stdout = <<>> /\ read = 0 /\ process = "running"
      /\ statements = <<>> /\ pending = <<>> /\ answer = "none"
  BY DEF Init, FilesAssumption
<1>2. Len(file) \in Nat /\ Len(stdout) = 0 /\ stdout \in Seq(Line)
  BY <1>1, LenProperties
<1> DEFINE start == [m \in Nat |-> 0]
<1>3. start \in [Nat -> Nat] /\ \A m \in Nat : start[m] = 0
  OBVIOUS
<1> HIDE DEF start
<1>4. 1 .. 0 = {} /\ 1 .. 0 + 1 = {1} /\ 1 .. 1 = {1}
  OBVIOUS
<1>5. Layout(start)
  <2>1. start[1] = 0 /\ 0 + 1 = 1
    BY <1>3
  <2>2. \A x \in 1 .. ran + 1 : \A y \in 1 .. x : start[y] <= start[x]
    <3> SUFFICES ASSUME NEW x \in 1 .. ran + 1, NEW y \in 1 .. x PROVE start[y] <= start[x]
      OBVIOUS
    <3>1. x \in Nat /\ y \in Nat
      BY <1>1
    <3>2. start[x] = 0 /\ start[y] = 0
      BY <1>3, <3>1
    <3> QED
      BY <3>2
  <2> QED
    BY <1>1, <1>2, <1>4, <2>1, <2>2 DEF Layout
<1>6. Collected(start, read, statements, pending)
  <2>1. \A n \in Parsed : start[n] = 0
    BY <1>1, <1>3, FileIs DEF Parsed
  <2>2. Begun(start, read) = {}
    BY <1>1, <2>1 DEF Begun
  <2> QED
    BY <1>1, <2>2 DEF Collected, Latest
<1> QED
  BY <1>1, <1>2, <1>3, <1>5, <1>6 DEF BridgeInv

\* Every step of the process and of the bridge keeps the invariant.
LEMMA BridgeStep == BridgeInv /\ [Next]_vars => BridgeInv'
<1> SUFFICES ASSUME BridgeInv, [Next]_vars PROVE BridgeInv'
  OBVIOUS
<1> DEFINE Printed(start) ==
             /\ Layout(start)
             /\ answer = "none" => Collected(start, read, statements, pending)
             /\ answer = "cards" => statements = AtPositions(Cards, Parsed)
           Sound ==
             /\ file \in Seq(Statements) /\ ran \in 0 .. Len(file)
             /\ stdout \in Seq(Line) /\ read \in 0 .. Len(stdout)
             /\ process = "running" => read = 0
             /\ process = "exited" => ran = Len(file)
             /\ answer = "cards" => process = "exited" /\ read = Len(stdout)
<1>1. BridgeInv <=> Sound /\ (AllReadable => \E start \in [Nat -> Nat] : Printed(start))
  BY DEF BridgeInv
<1>2. /\ Len(file) \in Nat /\ DOMAIN file = 1 .. Len(file) /\ ran \in Nat /\ read \in Nat
      /\ Len(stdout) \in Nat /\ file \in Seq(Statements) /\ stdout \in Seq(Line)
  <2>1. /\ file \in Seq(Statements) /\ stdout \in Seq(Line)
        /\ ran \in 0 .. Len(file) /\ read \in 0 .. Len(stdout)
    BY DEF BridgeInv
  <2>2. Len(stdout) \in Nat /\ Len(file) \in Nat /\ DOMAIN file = 1 .. Len(file)
    BY <2>1, LenProperties
  <2> QED
    BY <2>1, <2>2
<1>3. file' = file
  BY DEF Next, vars, ProcessStmt, ProcessExits, Timeout, ReadLine, Answer, Sent
<1>4. AllReadable' = AllReadable
  BY <1>3 DEF AllReadable, Parsed, Readable
<1>5. ASSUME NEW start, Layout(start), UNCHANGED <<ran, stdout>> PROVE Layout(start)'
  <2>1. file' = file /\ ran' = ran /\ stdout' = stdout
    BY <1>3, <1>5
  <2>2. /\ (start[1] = 0 /\ start[ran + 1] = Len(stdout))'
        /\ (\A x \in 1 .. ran + 1 : \A y \in 1 .. x : start[y] <= start[x])'
    BY <1>5, <2>1 DEF Layout
  <2>3. ASSUME NEW n \in 1 .. ran'
        PROVE  /\ (start[n + 1] = start[n] + Lines(n))'
               /\ (file[n].parses =>
                    /\ stdout[start[n] + 1] = Heading(n)
                    /\ \A k \in DOMAIN file[n].result : stdout[start[n] + 1 + k] = ResultLines(n)[k])'
    <3>1. /\ start[n + 1] = start[n] + Lines(n)
          /\ file[n].parses =>
               /\ stdout[start[n] + 1] = Heading(n)
               /\ \A k \in DOMAIN file[n].result : stdout[start[n] + 1 + k] = ResultLines(n)[k]
      BY <1>5, <2>1 DEF Layout
    <3>2. Lines(n)' = Lines(n) /\ Heading(n)' = Heading(n) /\ ResultLines(n)' = ResultLines(n)
      BY <2>1 DEF Lines, Size, Heading, ResultLines
    <3> QED
      BY <2>1, <3>1, <3>2
  <2> QED
    BY <2>2, <2>3 DEF Layout
<1>6. ASSUME NEW start, Collected(start, read', statements', pending')
      PROVE  Collected(start, read, statements, pending)'
  <2>1. Parsed' = Parsed
    BY <1>3 DEF Parsed
  <2>2. (Begun(start, read) = {} => statements = <<>> /\ pending = <<>>)'
    BY <1>6, <2>1 DEF Collected, Begun
  <2>3. ASSUME NEW n \in Parsed, Latest(start, n, read)'
        PROVE  /\ (pending = AtPositions(ResultLines(n), ReadOf(start, n, read)))'
               /\ (statements = AtPositions(CardsBut(n), Begun(start, read)))'
    <3>1. Latest(start, n, read')
      BY <2>1, <2>3 DEF Latest, Begun
    <3>2. /\ pending' = AtPositions(ResultLines(n), ReadOf(start, n, read'))
          /\ statements' = AtPositions(CardsBut(n), Begun(start, read'))
      BY <1>6, <3>1 DEF Collected
    <3>3. ResultLines(n)' = ResultLines(n)
      BY <1>3 DEF ResultLines
    <3>4. ReadOf(start, n, read)' = ReadOf(start, n, read')
      BY <1>3 DEF ReadOf, Shown
    <3>5. CardsBut(n)' = CardsBut(n)
      BY <1>3 DEF CardsBut, BareCard, Card, Shown, ResultLines
    <3>6. Begun(start, read)' = Begun(start, read')
      BY <2>1 DEF Begun
    <3> QED
      BY <3>2, <3>3, <3>4, <3>5, <3>6
  <2> QED
    BY <2>1, <2>2, <2>3 DEF Collected
<1>7. ASSUME statements' = AtPositions(Cards, Parsed) PROVE (statements = AtPositions(Cards, Parsed))'
  BY <1>3, <1>7 DEF Cards, Card, Parsed, Shown, ResultLines
<1>8. CASE ProcessStmt
  <2>1. /\ process = "running" /\ read = 0 /\ answer # "cards" /\ ran' = ran + 1 /\ ran + 1 \in DOMAIN file
        /\ process' = process /\ read' = read /\ answer' = answer
        /\ statements' = statements /\ pending' = pending /\ stdout' = stdout \o Output(ran + 1)
    BY <1>2, <1>8 DEF BridgeInv, ProcessStmt
  <2>2. stdout' \in Seq(Line) /\ Len(stdout') \in Nat
    <3>1. Output(ran + 1) \in Seq(Line)
      BY <1>2, <2>1, OutputIs
    <3>2. stdout' \in Seq(Line)
      BY <1>2, <2>1, <3>1, ConcatProperties
    <3> QED
      BY <3>2, LenProperties
  <2>3. Sound'
    BY <1>2, <1>3, <2>1, <2>2
  <2>4. ASSUME AllReadable PROVE \E start \in [Nat -> Nat] : Printed(start)'
    <3>1. PICK start \in [Nat -> Nat] : Printed(start)
      BY <1>1, <2>4
    <3>2. PICK here : here = ran + 1
      OBVIOUS
    <3>3. PICK len : len = Len(stdout')
      OBVIOUS
    <3> DEFINE next == [start EXCEPT ![here + 1] = len]
    <3>4. next \in [Nat -> Nat] /\ Layout(next)'
      BY <1>2, <1>8, <2>4, <3>1, <3>2, <3>3, StatementIsLaidOut
    <3> HIDE DEF next
    <3>5. answer = "none" => Collected(next, read', statements', pending')
      <4> SUFFICES ASSUME answer = "none" PROVE Collected(next, read', statements', pending')
        OBVIOUS
      <4>1. \A m \in Parsed : m \in Nat /\ start[m] \in Nat /\ next[m] \in Nat
        BY <1>2, <3>4, FileIs DEF Parsed
      <4>2. Begun(start, read) = {} /\ Begun(next, read') = {}
        <5>1. \A m \in Parsed : ~(start[m] < 0) /\ ~(next[m] < 0)
          BY <4>1
        <5> QED
          BY <2>1, <5>1 DEF Begun
      <4>3. statements = <<>> /\ pending = <<>>
        BY <3>1, <4>2 DEF Collected
      <4> QED
        BY <2>1, <4>2, <4>3 DEF Collected, Latest
    <3>6. answer' = "none" => Collected(next, read, statements, pending)'
      BY <1>6, <2>1, <3>5
    <3>7. answer' # "cards"
      BY <2>1
    <3> QED
      BY <3>4, <3>6, <3>7
  <2> QED
    BY <1>4, <2>3, <2>4 DEF BridgeInv
<1>9. CASE ProcessExits
  <2>1. /\ process' = "exited" /\ ran = Len(file) /\ process = "running"
        /\ UNCHANGED <<ran, stdout, read, statements, pending, answer>>
    BY <1>9 DEF ProcessExits
  <2>2. Sound'
    BY <1>1, <1>3, <2>1
  <2>3. ASSUME AllReadable PROVE \E start \in [Nat -> Nat] : Printed(start)'
    <3>1. PICK start \in [Nat -> Nat] : Printed(start)
      BY <1>1, <2>3
    <3>2. Layout(start)'
      BY <1>5, <2>1, <3>1
    <3>3. answer' = "none" => Collected(start, read, statements, pending)'
      BY <1>6, <2>1, <3>1
    <3>4. answer' # "cards"
      BY <1>1, <2>1
    <3> QED
      BY <3>2, <3>3, <3>4
  <2> QED
    BY <1>4, <2>2, <2>3 DEF BridgeInv
<1>10. CASE Timeout
  <2>1. /\ process' = "killed" /\ answer' = "timeout"
        /\ UNCHANGED <<ran, stdout, read, statements, pending>>
    BY <1>10 DEF Timeout
  <2>2. Sound'
    BY <1>1, <1>3, <2>1
  <2>3. ASSUME AllReadable PROVE \E start \in [Nat -> Nat] : Printed(start)'
    <3>1. PICK start \in [Nat -> Nat] : Printed(start)
      BY <1>1, <2>3
    <3>2. Layout(start)'
      BY <1>5, <2>1, <3>1
    <3> QED
      BY <2>1, <3>2
  <2> QED
    BY <1>4, <2>2, <2>3 DEF BridgeInv
<1>11. CASE ReadLine
  <2>1. /\ process = "exited" /\ read < Len(stdout) /\ read' = read + 1 /\ ran = Len(file)
        /\ UNCHANGED <<ran, stdout, process, answer>>
    BY <1>1, <1>11 DEF ReadLine
  <2>2. answer # "cards"
    BY <1>1, <1>2, <2>1
  <2>3. Sound'
    BY <1>1, <1>2, <1>3, <2>1, <2>2
  <2>4. ASSUME AllReadable PROVE \E start \in [Nat -> Nat] : Printed(start)'
    <3>1. PICK start \in [Nat -> Nat] : Printed(start)
      BY <1>1, <2>4
    <3>2. Layout(start)'
      BY <1>5, <2>1, <3>1
    <3>3. PICK n \in 1 .. ran : start[n] < read + 1 /\ read + 1 <= start[n + 1]
      <4>1. read + 1 \in 1 .. Len(stdout)
        BY <1>2, <2>1
      <4> QED
        BY <1>2, <3>1, <4>1, LineIsOf
    <3>4. Within(start, n, read)
      <4>1. n \in DOMAIN file /\ start[n] \in Nat /\ start[n + 1] \in Nat
        <5>1. n \in DOMAIN file /\ n \in Nat /\ n + 1 \in Nat
          BY <1>2, <2>1
        <5> QED
          BY <5>1
      <4>2. start[n] <= read /\ read < start[n + 1]
        <5> DEFINE a == start[n]
                   b == start[n + 1]
        <5>1. a \in Nat /\ b \in Nat /\ a < read + 1 /\ read + 1 <= b
          BY <3>3, <4>1
        <5> HIDE DEF a, b
        <5>2. a <= read /\ read < b
          BY <1>2, <5>1
        <5> QED
          BY <5>2 DEF a, b
      <4> QED
        BY <1>2, <2>1, <3>1, <4>1, <4>2 DEF Within
    <3>5. answer = "none" => Collected(start, read + 1, statements', pending')
      BY <1>11, <2>4, <3>1, <3>4, LineIsRead
    <3>6. answer' = "none" => Collected(start, read, statements, pending)'
      BY <1>6, <2>1, <3>5
    <3> QED
      BY <2>1, <2>2, <3>2, <3>6
  <2> QED
    BY <1>4, <2>3, <2>4 DEF BridgeInv
<1>12. CASE Answer
  <2>1. /\ process = "exited" /\ read = Len(stdout) /\ answer = "none" /\ ran = Len(file)
        /\ statements' = Flushed /\ answer' = "cards"
        /\ UNCHANGED <<ran, stdout, process, read, pending>>
    BY <1>1, <1>12 DEF Answer
  <2>2. Sound'
    BY <1>1, <1>3, <2>1
  <2>3. ASSUME AllReadable PROVE \E start \in [Nat -> Nat] : Printed(start)'
    <3>1. PICK start \in [Nat -> Nat] : Printed(start)
      BY <1>1, <2>3
    <3>2. Layout(start)'
      BY <1>5, <2>1, <3>1
    <3>3. ASSUME NEW m \in Parsed PROVE start[m] < read /\ start[m] + Size(m) <= read
      <4>1. /\ m \in DOMAIN file /\ m \in Nat /\ Size(m) \in Nat /\ 0 < Size(m) /\ file[m].parses
        BY <1>2, FileIs DEF Parsed
      <4>2. m \in 1 .. ran /\ m + 1 \in 1 .. ran + 1 /\ ran + 1 \in 1 .. ran + 1
        <5>1. m \in 1 .. ran
          BY <1>2, <2>1, <4>1
        <5> QED
          BY <1>2, <5>1
      <4>3. /\ start[m + 1] = start[m] + Size(m) /\ start[m + 1] <= start[ran + 1]
            /\ start[ran + 1] = read
        BY <2>1, <3>1, <4>1, <4>2 DEF Layout, Lines
      <4>4. start[m] \in Nat
        BY <4>1
      <4> QED
        BY <1>2, <4>1, <4>3, <4>4
    <3>4. Begun(start, read) = Parsed
      BY <3>3 DEF Begun
    <3>5. Flushed = AtPositions(Cards, Parsed)
      BY <1>2, <2>1, <3>1, <3>3, <3>4, FlushedAre
    <3>6. (statements = AtPositions(Cards, Parsed))'
      BY <1>7, <2>1, <3>5
    <3> QED
      BY <2>1, <3>2, <3>6
  <2> QED
    BY <1>4, <2>2, <2>3 DEF BridgeInv
<1>13. CASE UNCHANGED vars
  <2>1. UNCHANGED <<file, ran, stdout, process, read, statements, pending, answer>>
    BY <1>13 DEF vars
  <2>2. Sound'
    BY <1>1, <2>1
  <2>3. ASSUME AllReadable PROVE \E start \in [Nat -> Nat] : Printed(start)'
    <3>1. PICK start \in [Nat -> Nat] : Printed(start)
      BY <1>1, <2>3
    <3>2. Layout(start)'
      BY <1>5, <2>1, <3>1
    <3>3. answer' = "none" => Collected(start, read, statements, pending)'
      BY <1>6, <2>1, <3>1
    <3>4. answer' = "cards" => (statements = AtPositions(Cards, Parsed))'
      BY <1>7, <2>1, <3>1
    <3> QED
      BY <3>2, <3>3, <3>4
  <2> QED
    BY <1>4, <2>2, <2>3 DEF BridgeInv
<1> QED
  BY <1>8, <1>9, <1>10, <1>11, <1>12, <1>13 DEF Next, Sent

(***************************************************************************)
(* json_out.c, storage.c and server.py: after every step, what is printed  *)
(* and what is put together of it is that of the statements so far.        *)
(***************************************************************************)
THEOREM BridgeInvariant == Spec => []BridgeInv
<1> QED
  BY FilesAssumption, BridgeStarts, BridgeStep, PTL DEF Spec

(***************************************************************************)
(* server.py: if every line reads as what it is, the cards of an answer    *)
(* are the statements that parsed, in their order, each with the lines of  *)
(* its own result that are not blank.                                      *)
(***************************************************************************)
THEOREM CardsAreTheStatements == Spec => []CardsAreStatements
<1>1. BridgeInv => CardsAreStatements
  BY DEF BridgeInv, CardsAreStatements, Cards
<1> QED
  BY <1>1, BridgeInvariant, PTL
=============================================================================
