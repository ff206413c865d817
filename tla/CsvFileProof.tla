---------------------------- MODULE CsvFileProof ----------------------------
(***************************************************************************)
(* For cells of any characters, any width and any number of rows: what     *)
(* write_csv_row writes is what load_table_rows reads, and a cut is        *)
(* confined to the line it cut.                                            *)
(***************************************************************************)
EXTENDS CsvFile, PositionLemmas

-----------------------------------------------------------------------------
(***************************************************************************)
(* The three loops that read, as the sequence of their states.             *)
(***************************************************************************)
\* The three are strings too, but the provers do not know it of a literal.
Chars == STRING \cup {Quote, Comma, "\n"}
Texts == Seq(Chars)

RecordStates == [at : Nat, quoted : BOOLEAN]

LEMMA RecordTurnType ==
    ASSUME NEW text, Len(text) \in Nat, NEW s \in RecordStates PROVE RecordTurn(text, s) \in RecordStates
BY DEF RecordTurn, RecordStates

\* read_csv_record
LEMMA RecordLoop ==
    ASSUME NEW text \in Texts, NEW start \in Nat
    PROVE  \E f \in [0 .. Len(text) -> RecordStates] :
             /\ f[0] = [at |-> start, quoted |-> FALSE]
             /\ \A n \in 1 .. Len(text) : f[n] = RecordTurn(text, f[n - 1])
             /\ RecordEnd(text, start) = LET s == f[Len(text)] IN IF s.at > Len(text) /\ s.quoted THEN 0 ELSE s.at
<1> DEFINE N == Len(text)
           S == RecordStates
           a == [at |-> start, quoted |-> FALSE]
           Is(g) == g = [n \in 0 .. N |-> IF n = 0 THEN a ELSE RecordTurn(text, g[n - 1])]
           step == [n \in 1 .. N |-> [s \in S |-> RecordTurn(text, s)]]
<1>1. N \in Nat /\ a \in S
  BY LenProperties DEF Texts, RecordStates
<1>2. \A s \in S : RecordTurn(text, s) \in S
  BY <1>1, RecordTurnType
<1>3. step \in [1 .. N -> [S -> S]]
  BY <1>2
<1>4. RecordEnd(text, start) = LET f == CHOOSE h : Is(h) IN IF f[N].at > Len(text) /\ f[N].quoted THEN 0 ELSE f[N].at
  BY DEF RecordEnd
<1> HIDE DEF N, S, a
<1>5. PICK g \in [0 .. N -> S] : g[0] = a /\ \A n \in 1 .. N : g[n] = step[n][g[n - 1]]
  <2> HIDE DEF step
  <2>1. \E g : Iterate(g, step, S, a, N)
    BY <1>1, <1>3, Iterates
  <2> QED
    BY <2>1 DEF Iterate
<1>6. \A n \in 0 .. N : n = 0 \/ (n \in 1 .. N /\ n - 1 \in 0 .. N)
  BY <1>1
<1>7. Is(g)
  <2>1. g = [n \in 0 .. N |-> g[n]]
    BY <1>5
  <2>2. \A n \in 0 .. N : g[n] = IF n = 0 THEN a ELSE RecordTurn(text, g[n - 1])
    BY <1>5, <1>6
  <2> QED
    BY <2>1, <2>2
<1> DEFINE f == CHOOSE h : Is(h)
<1>8. Is(f)
  BY <1>7
<1> HIDE DEF f
<1>9. 0 \in 0 .. N /\ \A n \in 1 .. N : n \in 0 .. N /\ n # 0
  BY <1>1
<1>10. f[0] = a /\ \A n \in 1 .. N : f[n] = RecordTurn(text, f[n - 1])
  BY <1>8, <1>9
<1>11. \A n \in 0 .. N : f[n] \in S
  <2> DEFINE Good == {n \in 0 .. N : f[n] \in S}
  <2>1. 0 \in Good
    BY <1>1, <1>9, <1>10
  <2>2. ASSUME NEW n \in 0 .. N - 1, n \in Good PROVE n + 1 \in Good
    <3>1. n + 1 \in 1 .. N /\ n + 1 - 1 = n
      BY <1>1
    <3> QED
      BY <1>2, <1>9, <1>10, <2>2, <3>1
  <2> HIDE DEF Good
  <2>3. \A n \in 0 .. N : n \in Good
    BY <1>1, <2>1, <2>2, UpTo
  <2> QED
    BY <2>3 DEF Good
<1>12. f \in [0 .. N -> S]
  BY <1>8, <1>11
<1> QED
  BY <1>4, <1>10, <1>12 DEF f, N, S, a

ParseStates ==
    [at : Nat \ {0}, mode : {"open", "quoted", "closed", "done", "malformed"},
     field : Texts, fields : Seq(Texts)]

LEMMA ParseTurnType ==
    ASSUME NEW record \in Texts, NEW s \in ParseStates PROVE ParseTurn(record, s) \in ParseStates
<1>1. Len(record) \in Nat /\ \A i \in 1 .. Len(record) : record[i] \in Chars
  BY DEF Texts
<1>2. s.field \in Texts /\ s.fields \in Seq(Texts) /\ s.at \in Nat /\ s.at # 0
  BY DEF ParseStates
<1>3. s.at \in 1 .. Len(record) \/ s.at > Len(record)
  BY <1>1, <1>2
<1>4. s.mode \in {"open", "quoted", "closed", "done", "malformed"}
  BY DEF ParseStates
<1>5. s.at > Len(record) \/ Append(s.field, record[s.at]) \in Texts
  BY <1>1, <1>2, <1>3 DEF Texts
<1>6. Append(s.fields, s.field) \in Seq(Texts) /\ <<>> \in Texts
  BY <1>2 DEF Texts
<1>7. CASE s.mode \in {"done", "malformed"}
  BY <1>7 DEF ParseTurn
<1>8. CASE s.mode = "quoted"
  BY <1>1, <1>2, <1>5, <1>8 DEF ParseTurn, ParseStates
<1>9. CASE s.mode \in {"open", "closed"}
  BY <1>1, <1>2, <1>5, <1>6, <1>9 DEF ParseTurn, ParseStates
<1> QED
  BY <1>4, <1>7, <1>8, <1>9

\* parse_csv_record
LEMMA ParseLoop ==
    ASSUME NEW record \in Texts
    PROVE  \E f \in [0 .. Len(record) + 1 -> ParseStates] :
             /\ f[0] = ParseStart
             /\ \A n \in 1 .. Len(record) + 1 : f[n] = ParseTurn(record, f[n - 1])
             /\ Parsed(record) = f[Len(record) + 1]
<1> DEFINE N == Len(record) + 1
           S == ParseStates
           a == ParseStart
           Is(g) == g = [n \in 0 .. N |-> IF n = 0 THEN a ELSE ParseTurn(record, g[n - 1])]
           step == [n \in 1 .. N |-> [s \in S |-> ParseTurn(record, s)]]
<1>1. N \in Nat /\ a \in S
  BY LenProperties DEF Texts, ParseStates, ParseStart
<1>2. \A s \in S : ParseTurn(record, s) \in S
  BY ParseTurnType
<1>3. step \in [1 .. N -> [S -> S]]
  BY <1>2
<1>4. Parsed(record) = LET f == CHOOSE h : Is(h) IN f[N]
  BY DEF Parsed
<1> HIDE DEF N, S, a
<1>5. PICK g \in [0 .. N -> S] : g[0] = a /\ \A n \in 1 .. N : g[n] = step[n][g[n - 1]]
  <2> HIDE DEF step
  <2>1. \E g : Iterate(g, step, S, a, N)
    BY <1>1, <1>3, Iterates
  <2> QED
    BY <2>1 DEF Iterate
<1>6. \A n \in 0 .. N : n = 0 \/ (n \in 1 .. N /\ n - 1 \in 0 .. N)
  BY <1>1
<1>7. Is(g)
  <2>1. g = [n \in 0 .. N |-> g[n]]
    BY <1>5
  <2>2. \A n \in 0 .. N : g[n] = IF n = 0 THEN a ELSE ParseTurn(record, g[n - 1])
    BY <1>5, <1>6
  <2> QED
    BY <2>1, <2>2
<1> DEFINE f == CHOOSE h : Is(h)
<1>8. Is(f)
  BY <1>7
<1> HIDE DEF f
<1>9. 0 \in 0 .. N /\ \A n \in 1 .. N : n \in 0 .. N /\ n # 0
  BY <1>1
<1>10. f[0] = a /\ \A n \in 1 .. N : f[n] = ParseTurn(record, f[n - 1])
  BY <1>8, <1>9
<1>11. \A n \in 0 .. N : f[n] \in S
  <2> DEFINE Good == {n \in 0 .. N : f[n] \in S}
  <2>1. 0 \in Good
    BY <1>1, <1>9, <1>10
  <2>2. ASSUME NEW n \in 0 .. N - 1, n \in Good PROVE n + 1 \in Good
    <3>1. n + 1 \in 1 .. N /\ n + 1 - 1 = n
      BY <1>1
    <3> QED
      BY <1>2, <1>9, <1>10, <2>2, <3>1
  <2> HIDE DEF Good
  <2>3. \A n \in 0 .. N : n \in Good
    BY <1>1, <2>1, <2>2, UpTo
  <2> QED
    BY <2>3 DEF Good
<1>12. f \in [0 .. N -> S]
  BY <1>8, <1>11
<1> QED
  BY <1>4, <1>10, <1>12 DEF f, N, S, a

-----------------------------------------------------------------------------
(***************************************************************************)
(* Quotes.  Inside says of each place of a text whether the quotes up to   *)
(* it leave the reader inside a quoted field.                              *)
(***************************************************************************)
Inside(text, q) ==
    /\ q \in [0 .. Len(text) -> BOOLEAN]
    /\ \A n \in 1 .. Len(text) : q[n] = IF text[n] = Quote THEN ~q[n - 1] ELSE q[n - 1]

\* No line end of the text between two places is outside quotes.
Sealed(text, q, from, to) ==
    \A n \in from .. to : text[n] \in LineEnds => q[n - 1]

\* Every turn of read_csv_record but one that stops moves on, and never past the end.
LEMMA RecordTurnMoves ==
    ASSUME NEW text, Len(text) \in Nat, NEW s \in RecordStates, s.at \in 1 .. Len(text) + 1
    PROVE  LET t == RecordTurn(text, s)
           IN  /\ t.at \in s.at .. Len(text) + 1
               /\ s.at <= Len(text) /\ (s.quoted \/ text[s.at] \notin LineEnds) => t.at > s.at
               /\ s.at > Len(text) \/ (~s.quoted /\ text[s.at] \in LineEnds) => t = s
BY DEF RecordTurn, RecordStates

\* A turn follows the quotes and leaves no line end outside of them behind.
LEMMA RecordTurnFollows ==
    ASSUME NEW text \in Texts, NEW q, Inside(text, q), NEW s \in RecordStates,
           s.at \in 1 .. Len(text) + 1, s.quoted = q[s.at - 1]
    PROVE  LET t == RecordTurn(text, s)
           IN  t.quoted = q[t.at - 1] /\ Sealed(text, q, s.at, t.at - 1)
<1> DEFINE t == RecordTurn(text, s)
           at == s.at
<1>1. Len(text) \in Nat /\ at \in Nat /\ s.quoted \in BOOLEAN /\ at \in 1 .. Len(text) + 1
  BY DEF Texts, RecordStates
<1>2. /\ q \in [0 .. Len(text) -> BOOLEAN]
      /\ \A n \in 1 .. Len(text) : q[n] = IF text[n] = Quote THEN ~q[n - 1] ELSE q[n - 1]
  BY DEF Inside
<1>3. Quote \notin LineEnds
  BY DEF Quote, LineEnds
<1>4. CASE at > Len(text) \/ (~s.quoted /\ text[at] \in LineEnds)
  <2>1. t = s
    BY <1>4 DEF RecordTurn
  <2>2. at .. at - 1 = {}
    BY <1>1
  <2> QED
    BY <2>1, <2>2 DEF Sealed
<1>5. CASE ~(at > Len(text) \/ (~s.quoted /\ text[at] \in LineEnds)) /\ text[at] # Quote
  <2>1. t.at = at + 1 /\ t.quoted = s.quoted
    BY <1>5 DEF RecordTurn, RecordStates
  <2>2. at + 1 - 1 = at /\ \A n \in at .. at : n = at
    BY <1>1
  <2>3. q[at] = q[at - 1]
    BY <1>1, <1>2, <1>5
  <2>4. text[at] \in LineEnds => q[at - 1]
    BY <1>5
  <2> QED
    BY <2>1, <2>2, <2>3, <2>4 DEF Sealed
<1>6. CASE at <= Len(text) /\ text[at] = Quote /\ s.quoted /\ at < Len(text) /\ text[at + 1] = Quote
  <2>1. t.at = at + 2 /\ t.quoted = s.quoted
    <3>1. ~(s.at > Len(text)) /\ text[s.at] \notin LineEnds
      BY <1>1, <1>3, <1>6
    <3>2. t = [s EXCEPT !.at = s.at + 2]
      BY <1>6, <3>1 DEF RecordTurn
    <3> QED
      BY <3>2 DEF RecordStates
  <2>2. /\ at + 2 - 1 = at + 1 /\ at + 1 - 1 = at
        /\ at + 1 \in 1 .. Len(text) /\ at \in 1 .. Len(text)
        /\ \A n \in at .. at + 1 : n = at \/ n = at + 1
    BY <1>1, <1>6
  <2>3. q[at] = ~q[at - 1]
    BY <1>2, <1>6, <2>2
  <2>4. q[at + 1] = ~q[at + 1 - 1]
    BY <1>2, <1>6, <2>2
  <2>5. q[at + 1] = s.quoted
    BY <1>1, <2>2, <2>3, <2>4
  <2>6. \A n \in at .. at + 1 : text[n] \notin LineEnds
    BY <1>3, <1>6, <2>2
  <2>7. t.at - 1 = at + 1
    BY <2>1, <2>2
  <2> QED
    BY <2>1, <2>5, <2>6, <2>7 DEF Sealed
<1>7. CASE at <= Len(text) /\ text[at] = Quote /\ ~(s.quoted /\ at < Len(text) /\ text[at + 1] = Quote)
  <2>1. t.at = at + 1 /\ t.quoted = ~s.quoted
    BY <1>1, <1>3, <1>7 DEF RecordTurn
  <2>2. at + 1 - 1 = at /\ at \in 1 .. Len(text) /\ \A n \in at .. at : n = at
    BY <1>1, <1>7
  <2>3. q[at] = ~q[at - 1]
    BY <1>2, <1>7, <2>2
  <2> QED
    BY <1>3, <1>7, <2>1, <2>2, <2>3 DEF Sealed
<1>8. at > Len(text) \/ at <= Len(text)
  BY <1>1
<1> QED
  BY <1>4, <1>5, <1>6, <1>7, <1>8

\* read_csv_record takes the characters up to the first line end outside of
\* quotes, or all of them, and reports no record if the text ends inside quotes.
LEMMA RecordStops ==
    ASSUME NEW text \in Texts, NEW start \in 1 .. Len(text) + 1
    PROVE  LET e == RecordEnd(text, start)
           IN  /\ e = 0 \/ e \in start .. Len(text) + 1
               /\ \A q : Inside(text, q) /\ ~q[start - 1] =>
                    IF e = 0 THEN q[Len(text)] /\ Sealed(text, q, start, Len(text))
                    ELSE /\ ~q[e - 1] /\ Sealed(text, q, start, e - 1)
                         /\ e <= Len(text) => text[e] \in LineEnds
<1> DEFINE N == Len(text)
           e == RecordEnd(text, start)
<1>1. N \in Nat /\ start \in Nat /\ start > 0
  BY DEF Texts
<1>2. PICK f \in [0 .. N -> RecordStates] :
        /\ f[0] = [at |-> start, quoted |-> FALSE]
        /\ \A n \in 1 .. N : f[n] = RecordTurn(text, f[n - 1])
        /\ e = LET s == f[N] IN IF s.at > N /\ s.quoted THEN 0 ELSE s.at
  BY <1>1, RecordLoop
<1> HIDE DEF N, e
<1> DEFINE Stopped(s) == s.at > N \/ (~s.quoted /\ text[s.at] \in LineEnds)
<1>3. \A n \in 0 .. N : f[n].at \in start .. N + 1 /\ (Stopped(f[n]) \/ f[n].at >= start + n)
  <2> DEFINE Good == {n \in 0 .. N : f[n].at \in start .. N + 1 /\ (Stopped(f[n]) \/ f[n].at >= start + n)}
  <2>1. 0 \in Good
    <3>1. f[0].at = start /\ start \in start .. N + 1 /\ start >= start + 0 /\ 0 \in 0 .. N
      BY <1>1, <1>2 DEF N
    <3> QED
      BY <3>1
  <2>2. ASSUME NEW n \in 0 .. N - 1, n \in Good PROVE n + 1 \in Good
    <3>1. n + 1 \in 1 .. N /\ n + 1 - 1 = n /\ n \in 0 .. N /\ n + 1 \in 0 .. N /\ n \in Nat
      BY <1>1
    <3> DEFINE s == f[n]
               t == f[n + 1]
    <3>2. t = RecordTurn(text, s) /\ s \in RecordStates
      BY <1>2, <3>1
    <3>3. s.at \in start .. N + 1 /\ (Stopped(s) \/ s.at >= start + n) /\ s.at \in 1 .. N + 1
      BY <1>1, <2>2
    <3> HIDE DEF s, t
    <3>4. /\ t.at \in s.at .. N + 1
          /\ s.at <= N /\ (s.quoted \/ text[s.at] \notin LineEnds) => t.at > s.at
          /\ Stopped(s) => t = s
      BY <1>1, <3>2, <3>3, RecordTurnMoves DEF N
    <3>5. t.at \in start .. N + 1
      BY <1>1, <3>3, <3>4
    <3>6. CASE Stopped(s)
      BY <3>1, <3>4, <3>5, <3>6 DEF t, s
    <3>7. CASE ~Stopped(s)
      <4>1. s.at >= start + n /\ s.at <= N /\ t.at > s.at
        BY <1>1, <3>3, <3>4, <3>7
      <4>2. t.at >= start + (n + 1)
        BY <1>1, <3>1, <3>3, <3>5, <4>1
      <4> QED
        BY <3>1, <3>5, <4>2 DEF t
    <3> QED
      BY <3>6, <3>7
  <2> HIDE DEF Good
  <2>3. \A n \in 0 .. N : n \in Good
    BY <1>1, <2>1, <2>2, UpTo
  <2> QED
    BY <2>3 DEF Good
<1> DEFINE s == f[N]
<1>4. /\ s.at \in start .. N + 1 /\ Stopped(s) /\ s.quoted \in BOOLEAN
      /\ e = IF s.at > N /\ s.quoted THEN 0 ELSE s.at
  <2>1. N \in 0 .. N /\ s \in RecordStates
    BY <1>1, <1>2
  <2>2. s.at \in start .. N + 1 /\ (Stopped(s) \/ s.at >= start + N)
    BY <1>3, <2>1
  <2>3. s.at >= start + N => s.at > N
    BY <1>1, <2>2
  <2> QED
    BY <1>2, <2>1, <2>2, <2>3 DEF RecordStates
<1>5. ASSUME NEW q, Inside(text, q), ~q[start - 1]
      PROVE  s.quoted = q[s.at - 1] /\ Sealed(text, q, start, s.at - 1)
  <2> DEFINE Good == {n \in 0 .. N : f[n].quoted = q[f[n].at - 1] /\ Sealed(text, q, start, f[n].at - 1)}
  <2>0. q[start - 1] = FALSE
    <3>1. start - 1 \in 0 .. N
      BY <1>1 DEF N
    <3> QED
      BY <1>5, <3>1 DEF Inside, N
  <2>1. 0 \in Good
    <3>1. f[0].at = start /\ f[0].quoted = FALSE
      BY <1>2
    <3>2. start .. start - 1 = {} /\ 0 \in 0 .. N
      BY <1>1
    <3>3. Sealed(text, q, start, start - 1)
      BY <3>2 DEF Sealed
    <3> QED
      BY <2>0, <3>1, <3>2, <3>3
  <2>2. ASSUME NEW n \in 0 .. N - 1, n \in Good PROVE n + 1 \in Good
    <3>1. n + 1 \in 1 .. N /\ n + 1 - 1 = n /\ n \in 0 .. N /\ n + 1 \in 0 .. N
      BY <1>1
    <3> DEFINE u == f[n]
               t == f[n + 1]
    <3>2. t = RecordTurn(text, u) /\ u \in RecordStates /\ u.at \in start .. N + 1 /\ t.at \in start .. N + 1
      <4>1. t = RecordTurn(text, u) /\ u \in RecordStates
        BY <1>2, <3>1
      <4> QED
        BY <1>3, <3>1, <4>1
    <3>3. u.quoted = q[u.at - 1] /\ Sealed(text, q, start, u.at - 1) /\ u.at \in 1 .. N + 1
      <4>1. u.quoted = q[u.at - 1] /\ Sealed(text, q, start, u.at - 1)
        BY <2>2
      <4>2. ASSUME NEW x \in start .. N + 1 PROVE x \in 1 .. N + 1
        BY <1>1
      <4> QED
        BY <3>2, <4>1, <4>2
    <3> HIDE DEF u, t
    <3>4. t.quoted = q[t.at - 1] /\ Sealed(text, q, u.at, t.at - 1)
      BY <1>5, <3>2, <3>3, RecordTurnFollows DEF N
    <3>5. \A k \in start .. t.at - 1 : k \in start .. u.at - 1 \/ k \in u.at .. t.at - 1
      BY <1>1, <3>2
    <3>6. Sealed(text, q, start, t.at - 1)
      BY <3>3, <3>4, <3>5 DEF Sealed
    <3> QED
      BY <3>1, <3>4, <3>6 DEF t
  <2> HIDE DEF Good
  <2>3. \A n \in 0 .. N : n \in Good
    BY <1>1, <2>1, <2>2, UpTo
  <2>4. N \in 0 .. N
    BY <1>1
  <2> QED
    BY <2>3, <2>4 DEF Good
<1> HIDE DEF s
<1>6. e = 0 \/ e \in start .. N + 1
  BY <1>4
<1>7. ASSUME NEW q, Inside(text, q), ~q[start - 1]
      PROVE  IF e = 0 THEN q[N] /\ Sealed(text, q, start, N)
             ELSE ~q[e - 1] /\ Sealed(text, q, start, e - 1) /\ (e <= N => text[e] \in LineEnds)
  <2>1. s.quoted = q[s.at - 1] /\ Sealed(text, q, start, s.at - 1)
    BY <1>5, <1>7
  <2>2. CASE s.at > N /\ s.quoted
    <3>1. e = 0 /\ s.at - 1 = N
      BY <1>1, <1>4, <2>2
    <3> QED
      BY <2>1, <2>2, <3>1
  <2>3. CASE ~(s.at > N /\ s.quoted)
    <3>1. e = s.at /\ e # 0 /\ ~s.quoted
      BY <1>1, <1>4, <2>3
    <3>2. e <= N => text[e] \in LineEnds
      BY <1>1, <1>4, <3>1
    <3> QED
      BY <2>1, <3>1, <3>2
  <2> QED
    BY <2>2, <2>3
<1> QED
  BY <1>6, <1>7 DEF N, e

-----------------------------------------------------------------------------
(***************************************************************************)
(* What FlattenSeq returns: the n-th piece stands behind place at[n - 1].  *)
(***************************************************************************)
Pieces(text, pieces, at) ==
    /\ at \in [0 .. Len(pieces) -> Nat]
    /\ at[0] = 0 /\ at[Len(pieces)] = Len(text)
    /\ \A n \in 1 .. Len(pieces) :
         /\ at[n] = at[n - 1] + Len(pieces[n])
         /\ \A m \in 1 .. Len(pieces[n]) : text[at[n - 1] + m] = pieces[n][m]

\* Where each piece stands in what FlattenSeq makes of them.
LEMMA FlattenPlaces ==
    ASSUME NEW D, NEW pieces \in Seq(Seq(D))
    PROVE  /\ FlattenSeq(pieces) \in Seq(D)
           /\ \E at : Pieces(FlattenSeq(pieces), pieces, at)
<1> DEFINE N == Len(pieces)
           S == Seq(D)
<1>1. N \in Nat /\ \A n \in 1 .. N : pieces[n] \in S
  OBVIOUS
<1>2. PICK f : Flattens(f, D, pieces)
  BY FlattenRuns
<1>5. f \in [0 .. N -> S] /\ f[0] = <<>> /\ \A n \in 1 .. N : f[n] = f[n - 1] \o pieces[n]
  BY <1>2 DEF Flattens
<1>8. FlattenSeq(pieces) = f[N]
  BY <1>2 DEF Flattens
<1> HIDE DEF N, S
<1> DEFINE at == [n \in 0 .. N |-> Len(f[n])]
<1>9. \A n \in 0 .. N : f[n] \in Seq(D) /\ at[n] = Len(f[n]) /\ at[n] \in Nat
  BY <1>1, <1>5 DEF S
<1>10. at \in [0 .. N -> Nat]
  BY <1>9
<1> HIDE DEF at
<1>11. at[0] = 0
  BY <1>1, <1>5, <1>9
<1>12. \A n \in 1 .. N :
         /\ n - 1 \in 0 .. N /\ n \in 0 .. N
         /\ at[n] = at[n - 1] + Len(pieces[n])
         /\ \A m \in 1 .. at[n - 1] : f[n][m] = f[n - 1][m]
         /\ \A m \in 1 .. Len(pieces[n]) : f[n][at[n - 1] + m] = pieces[n][m]
  <2> SUFFICES ASSUME NEW n \in 1 .. N
               PROVE  /\ n - 1 \in 0 .. N /\ n \in 0 .. N
                      /\ at[n] = at[n - 1] + Len(pieces[n])
                      /\ \A m \in 1 .. at[n - 1] : f[n][m] = f[n - 1][m]
                      /\ \A m \in 1 .. Len(pieces[n]) : f[n][at[n - 1] + m] = pieces[n][m]
    OBVIOUS
  <2>1. n - 1 \in 0 .. N /\ n \in 0 .. N
    BY <1>1
  <2>2. f[n - 1] \in Seq(D) /\ pieces[n] \in Seq(D) /\ at[n - 1] = Len(f[n - 1]) /\ at[n] = Len(f[n])
    BY <1>1, <1>9, <2>1 DEF S
  <2>3. f[n] = f[n - 1] \o pieces[n]
    BY <1>5
  <2> DEFINE s == f[n - 1]
             t == pieces[n]
  <2>4. s \in Seq(D) /\ t \in Seq(D) /\ f[n] = s \o t /\ at[n - 1] = Len(s) /\ at[n] = Len(f[n])
    BY <2>2, <2>3
  <2> HIDE DEF s, t
  <2>5. /\ at[n] = at[n - 1] + Len(t)
        /\ \A m \in 1 .. at[n - 1] : f[n][m] = s[m]
        /\ \A m \in 1 .. Len(t) : f[n][at[n - 1] + m] = t[m]
    BY <2>4, ConcatPlaces
  <2> QED
    BY <2>1, <2>5 DEF s, t
<1>13. \A n \in 0 .. N : \A k \in 1 .. n : \A m \in 1 .. Len(pieces[k]) :
         at[k - 1] + m \in 1 .. at[n] /\ f[n][at[k - 1] + m] = pieces[k][m]
  <2> DEFINE Good == {n \in 0 .. N : \A k \in 1 .. n : \A m \in 1 .. Len(pieces[k]) :
                        at[k - 1] + m \in 1 .. at[n] /\ f[n][at[k - 1] + m] = pieces[k][m]}
  <2>1. 0 \in Good
    BY <1>1
  <2>2. ASSUME NEW n \in 0 .. N - 1, n \in Good PROVE n + 1 \in Good
    <3>1. n + 1 \in 1 .. N /\ n + 1 - 1 = n /\ n + 1 \in 0 .. N /\ n \in 0 .. N
      BY <1>1
    <3>2. /\ at[n + 1] = at[n] + Len(pieces[n + 1])
          /\ \A m \in 1 .. at[n] : f[n + 1][m] = f[n][m]
          /\ \A m \in 1 .. Len(pieces[n + 1]) : f[n + 1][at[n] + m] = pieces[n + 1][m]
      BY <1>12, <3>1
    <3>3. Len(pieces[n + 1]) \in Nat /\ at[n] \in Nat
      BY <1>1, <1>9, <3>1 DEF S
    <3> SUFFICES ASSUME NEW k \in 1 .. n + 1, NEW m \in 1 .. Len(pieces[k])
                 PROVE  at[k - 1] + m \in 1 .. at[n + 1] /\ f[n + 1][at[k - 1] + m] = pieces[k][m]
      BY <3>1
    <3>4. CASE k = n + 1
      <4>0. k - 1 = n /\ m \in 1 .. Len(pieces[n + 1])
        BY <3>1, <3>4
      <4>1. at[k - 1] + m \in 1 .. at[n + 1]
        BY <3>2, <3>3, <4>0
      <4> QED
        BY <3>1, <3>2, <3>4, <4>1
    <3>5. CASE k # n + 1
      <4>1. k \in 1 .. n
        BY <3>1, <3>5
      <4>2. at[k - 1] + m \in 1 .. at[n] /\ f[n][at[k - 1] + m] = pieces[k][m]
        BY <2>2, <4>1
      <4> HIDE DEF Good
      <4>3. \A x \in 1 .. at[n] : x \in 1 .. at[n + 1]
        BY <3>2, <3>3
      <4> QED
        BY <3>2, <4>2, <4>3
    <3> QED
      BY <3>4, <3>5
  <2> HIDE DEF Good
  <2>3. \A n \in 0 .. N : n \in Good
    BY <1>1, <2>1, <2>2, UpTo
  <2> QED
    BY <2>3 DEF Good
<1>14. N \in 0 .. N
  BY <1>1
<1>15. Pieces(f[N], pieces, at)
  BY <1>9, <1>10, <1>11, <1>12, <1>13, <1>14 DEF Pieces, N
<1> QED
  BY <1>5, <1>8, <1>14, <1>15 DEF S

-----------------------------------------------------------------------------
(***************************************************************************)
(* What a text does to the quotes: a reader that enters it inside quotes   *)
(* or not leaves it inside or not, and takes no line end of it for one.    *)
(***************************************************************************)
PassesBy(text, q, enter, leave) ==
    /\ Inside(text, q)
    /\ q[0] = enter /\ q[Len(text)] = leave
    /\ Sealed(text, q, 1, Len(text))

Passes(text, enter, leave) == \E q : PassesBy(text, q, enter, leave)

Join(p, q, m, n) == [k \in 0 .. m + n |-> IF k <= m THEN p[k] ELSE q[k - m]]

\* The quotes of two texts, one behind the other.
LEMMA InsideOn ==
    ASSUME NEW s \in Texts, NEW t \in Texts, NEW p, NEW q, Inside(s, p), Inside(t, q),
           p[Len(s)] = q[0]
    PROVE  LET r == Join(p, q, Len(s), Len(t))
           IN  /\ Inside(s \o t, r)
               /\ \A n \in 0 .. Len(s) : r[n] = p[n]
               /\ \A n \in 0 .. Len(t) : r[Len(s) + n] = q[n]
<1> DEFINE m == Len(s)
           l == Len(t)
           r == Join(p, q, m, l)
<1>1. /\ m \in Nat /\ l \in Nat /\ Len(s \o t) = m + l
      /\ \A n \in 1 .. m : (s \o t)[n] = s[n]
      /\ \A n \in 1 .. l : (s \o t)[m + n] = t[n]
  BY ConcatPlaces DEF Texts
<1>2. /\ p \in [0 .. m -> BOOLEAN] /\ \A n \in 1 .. m : p[n] = IF s[n] = Quote THEN ~p[n - 1] ELSE p[n - 1]
      /\ q \in [0 .. l -> BOOLEAN] /\ \A n \in 1 .. l : q[n] = IF t[n] = Quote THEN ~q[n - 1] ELSE q[n - 1]
  BY DEF Inside
<1> DEFINE st == s \o t
<1> HIDE DEF m, l, st
<1>3. \A k \in 0 .. m + l : r[k] = IF k <= m THEN p[k] ELSE q[k - m]
  BY DEF Join
<1>4. \A k \in 0 .. m + l : (k \in 0 .. m) \/ (~(k <= m) /\ k - m \in 1 .. l /\ k - m \in 0 .. l)
  BY <1>1
<1>5. r \in [0 .. m + l -> BOOLEAN]
  <2>1. \A k \in 0 .. m + l : (IF k <= m THEN p[k] ELSE q[k - m]) \in BOOLEAN
    BY <1>1, <1>2, <1>4
  <2> QED
    BY <2>1 DEF Join
<1> HIDE DEF r
<1>6. \A n \in 0 .. m : r[n] = p[n]
  BY <1>1, <1>3
<1>7. \A n \in 0 .. l : r[m + n] = q[n]
  <2> SUFFICES ASSUME NEW n \in 0 .. l PROVE r[m + n] = q[n]
    OBVIOUS
  <2>1. m + n \in 0 .. m + l /\ m + n - m = n /\ (m + n <= m <=> n = 0)
    BY <1>1
  <2>2. CASE n = 0
    <3>1. m + n = m /\ m \in 0 .. m
      BY <1>1, <2>2
    <3>2. p[m] = q[0]
      BY DEF m
    <3> QED
      BY <1>6, <2>2, <3>1, <3>2
  <2>3. CASE n # 0
    <3> DEFINE k == m + n
    <3>1. k \in 0 .. m + l /\ k - m = n /\ ~(k <= m)
      BY <1>1, <2>1, <2>3
    <3> HIDE DEF k
    <3>2. r[k] = q[n]
      BY <1>3, <3>1
    <3> QED
      BY <3>2 DEF k
  <2> QED
    BY <2>2, <2>3
<1>8. \A k \in 1 .. m + l : r[k] = IF st[k] = Quote THEN ~r[k - 1] ELSE r[k - 1]
  <2> SUFFICES ASSUME NEW k \in 1 .. m + l PROVE r[k] = IF st[k] = Quote THEN ~r[k - 1] ELSE r[k - 1]
    OBVIOUS
  <2>1. CASE k \in 1 .. m
    <3>1. k \in 0 .. m /\ k - 1 \in 0 .. m
      BY <1>1, <2>1
    <3>2. st[k] = s[k]
      BY <1>1, <2>1 DEF st
    <3> QED
      BY <1>2, <1>6, <2>1, <3>1, <3>2
  <2>2. CASE k \notin 1 .. m
    <3> DEFINE n == k - m
    <3>1. n \in 1 .. l /\ k = m + n /\ n \in 0 .. l /\ n - 1 \in 0 .. l /\ k - 1 = m + (n - 1)
      BY <1>1, <2>2
    <3> HIDE DEF n
    <3>2. st[k] = t[n] /\ r[k] = q[n] /\ r[k - 1] = q[n - 1]
      BY <1>1, <1>7, <3>1 DEF st
    <3> QED
      BY <1>2, <3>1, <3>2
  <2> QED
    BY <2>1, <2>2
<1>9. Inside(st, r)
  <2>1. Len(st) = m + l
    BY <1>1 DEF st
  <2> QED
    BY <1>5, <1>8, <2>1 DEF Inside
<1> QED
  BY <1>6, <1>7, <1>9 DEF r, m, l, st

\* Two texts that follow each other pass a reader on.
LEMMA PassesOn ==
    ASSUME NEW s \in Texts, NEW t \in Texts, NEW a, NEW b, NEW c, Passes(s, a, b), Passes(t, b, c)
    PROVE  Passes(s \o t, a, c)
<1>1. PICK p : PassesBy(s, p, a, b)
  BY DEF Passes
<1>2. PICK q : PassesBy(t, q, b, c)
  BY DEF Passes
<1> DEFINE m == Len(s)
           l == Len(t)
           r == Join(p, q, m, l)
           st == s \o t
<1>3. /\ m \in Nat /\ l \in Nat /\ Len(st) = m + l
      /\ \A n \in 1 .. m : st[n] = s[n]
      /\ \A n \in 1 .. l : st[m + n] = t[n]
  BY ConcatPlaces DEF Texts
<1>4. /\ Inside(st, r)
      /\ \A n \in 0 .. m : r[n] = p[n]
      /\ \A n \in 0 .. l : r[m + n] = q[n]
  BY <1>1, <1>2, InsideOn DEF PassesBy
<1>5. /\ p[0] = a /\ q[l] = c
      /\ \A n \in 1 .. m : s[n] \in LineEnds => p[n - 1]
      /\ \A n \in 1 .. l : t[n] \in LineEnds => q[n - 1]
  BY <1>1, <1>2 DEF PassesBy, Sealed
<1> HIDE DEF m, l, r, st
<1>6. r[0] = a /\ r[Len(st)] = c
  <2>1. 0 \in 0 .. m /\ l \in 0 .. l
    BY <1>3
  <2> QED
    BY <1>3, <1>4, <1>5, <2>1
<1>7. ASSUME NEW k \in 1 .. m + l, st[k] \in LineEnds PROVE r[k - 1]
  <2>1. CASE k \in 1 .. m
    <3>1. k - 1 \in 0 .. m
      BY <1>3, <2>1
    <3> QED
      BY <1>3, <1>4, <1>5, <1>7, <2>1, <3>1
  <2>2. CASE k \notin 1 .. m
    <3> DEFINE n == k - m
    <3>1. n \in 1 .. l /\ k = m + n /\ n - 1 \in 0 .. l /\ k - 1 = m + (n - 1)
      BY <1>3, <2>2
    <3> HIDE DEF n
    <3> QED
      BY <1>3, <1>4, <1>5, <1>7, <3>1
  <2> QED
    BY <2>1, <2>2
<1>8. PassesBy(st, r, a, c)
  BY <1>3, <1>4, <1>6, <1>7 DEF PassesBy, Sealed
<1> QED
  BY <1>8 DEF Passes, st

\* A text of no quotes changes nothing.
LEMMA PlainPasses ==
    ASSUME NEW s \in Texts, NEW a \in BOOLEAN, \A n \in 1 .. Len(s) : s[n] # Quote,
           a \/ \A n \in 1 .. Len(s) : s[n] \notin LineEnds
    PROVE  Passes(s, a, a)
<1> DEFINE q == [n \in 0 .. Len(s) |-> a]
<1>1. Len(s) \in Nat
  BY DEF Texts
<1>2. /\ \A n \in 1 .. Len(s) : n \in 0 .. Len(s) /\ n - 1 \in 0 .. Len(s)
      /\ 0 \in 0 .. Len(s) /\ Len(s) \in 0 .. Len(s)
  BY <1>1
<1>3. q \in [0 .. Len(s) -> BOOLEAN] /\ \A n \in 0 .. Len(s) : q[n] = a
  OBVIOUS
<1> HIDE DEF q
<1>4. PassesBy(s, q, a, a)
  BY <1>2, <1>3 DEF PassesBy, Inside, Sealed
<1> QED
  BY <1>4 DEF Passes

LEMMA QuotePasses == \A a \in BOOLEAN : Passes(<<Quote>>, a, ~a)
<1> SUFFICES ASSUME NEW a \in BOOLEAN PROVE Passes(<<Quote>>, a, ~a)
  OBVIOUS
<1> DEFINE q == [n \in 0 .. 1 |-> IF n = 0 THEN a ELSE ~a]
           s == <<Quote>>
<1>1. Len(s) = 1 /\ s[1] = Quote
  OBVIOUS
<1>2. \A n \in 1 .. 1 : n = 1
  OBVIOUS
<1>3. q \in [0 .. 1 -> BOOLEAN] /\ q[0] = a /\ q[1] = ~a
  OBVIOUS
<1>4. Quote \notin LineEnds
  BY DEF Quote, LineEnds
<1> HIDE DEF q, s
<1>5. PassesBy(s, q, a, ~a)
  BY <1>1, <1>2, <1>3, <1>4 DEF PassesBy, Inside, Sealed
<1> QED
  BY <1>5 DEF Passes, s

LEMMA DoubledPasses == Passes(<<Quote, Quote>>, TRUE, TRUE)
<1> DEFINE q == [n \in 0 .. 2 |-> IF n = 1 THEN FALSE ELSE TRUE]
           s == <<Quote, Quote>>
<1>1. Len(s) = 2 /\ s[1] = Quote /\ s[2] = Quote
  OBVIOUS
<1>2. \A n \in 1 .. 2 : n = 1 \/ n = 2
  OBVIOUS
<1>3. q \in [0 .. 2 -> BOOLEAN] /\ q[0] = TRUE /\ q[1] = FALSE /\ q[2] = TRUE
  OBVIOUS
<1>4. Quote \notin LineEnds
  BY DEF Quote, LineEnds
<1> HIDE DEF q, s
<1>5. PassesBy(s, q, TRUE, TRUE)
  BY <1>1, <1>2, <1>3, <1>4 DEF PassesBy, Inside, Sealed
<1> QED
  BY <1>5 DEF Passes, s

LEMMA FlattenPasses ==
    ASSUME NEW pieces \in Seq(Texts), NEW a \in BOOLEAN,
           \A n \in 1 .. Len(pieces) : Passes(pieces[n], a, a)
    PROVE  Passes(FlattenSeq(pieces), a, a)
<1> DEFINE N == Len(pieces)
<1>1. N \in Nat /\ \A n \in 1 .. N : pieces[n] \in Texts
  OBVIOUS
<1>2. PICK f : Flattens(f, Chars, pieces)
  BY FlattenRuns DEF Texts
<1>3. /\ f \in [0 .. N -> Texts] /\ f[0] = <<>> /\ f[N] = FlattenSeq(pieces)
      /\ \A n \in 1 .. N : f[n] = f[n - 1] \o pieces[n]
  BY <1>2 DEF Flattens, Texts
<1> DEFINE Good == {n \in 0 .. N : Passes(f[n], a, a)}
<1>4. 0 \in Good
  <2>1. <<>> \in Texts /\ \A n \in 1 .. Len(<<>>) : FALSE
    BY DEF Texts
  <2>2. Passes(<<>>, a, a)
    BY <2>1, PlainPasses
  <2> QED
    BY <1>1, <1>3, <2>2
<1> HIDE DEF N
<1>5. ASSUME NEW n \in 0 .. N - 1, n \in Good PROVE n + 1 \in Good
  <2>1. n + 1 \in 1 .. N /\ n + 1 - 1 = n /\ n + 1 \in 0 .. N /\ n \in 0 .. N
    BY <1>1
  <2>2. f[n + 1] = f[n] \o pieces[n + 1]
    <3> DEFINE k == n + 1
    <3>1. k \in 1 .. N /\ k - 1 = n
      BY <2>1
    <3> HIDE DEF k
    <3>2. f[k] = f[n] \o pieces[k]
      BY <1>3, <3>1
    <3> QED
      BY <3>2 DEF k
  <2>3. f[n] \in Texts /\ pieces[n + 1] \in Texts
    BY <1>1, <1>3, <2>1
  <2>4. Passes(f[n], a, a) /\ Passes(pieces[n + 1], a, a)
    BY <1>5, <2>1 DEF N
  <2>5. Passes(f[n] \o pieces[n + 1], a, a)
    BY <2>3, <2>4, PassesOn
  <2> QED
    BY <2>1, <2>2, <2>5
<1> HIDE DEF Good
<1>6. \A n \in 0 .. N : n \in Good
  BY <1>1, <1>4, <1>5, UpTo
<1>7. N \in 0 .. N
  BY <1>1
<1> QED
  BY <1>3, <1>6, <1>7 DEF Good

-----------------------------------------------------------------------------
(***************************************************************************)
(* What write_csv_row writes, piece by piece.                              *)
(***************************************************************************)
Escapes(value) ==
    [n \in DOMAIN value |-> IF value[n] = Quote THEN <<Quote, Quote>> ELSE <<value[n]>>]

FieldPieces(row) ==
    [n \in DOMAIN row |-> (IF n = 1 THEN <<>> ELSE <<Comma>>) \o Field(row[n])]

\* A line without its line end.
Body(row) == FlattenSeq(FieldPieces(row))

LEMMA Singles ==
    ASSUME NEW c \in Chars
    PROVE  /\ <<c>> \in Texts /\ Len(<<c>>) = 1 /\ <<c>>[1] = c
           /\ <<c, c>> \in Texts /\ Len(<<c, c>>) = 2 /\ <<c, c>>[1] = c /\ <<c, c>>[2] = c
BY DEF Texts

LEMMA FixedChars == Quote \in Chars /\ Comma \in Chars /\ "\n" \in Chars
BY DEF Chars

LEMMA EscapesType ==
    ASSUME NEW v \in Texts
    PROVE  /\ Escapes(v) \in Seq(Texts) /\ Len(Escapes(v)) = Len(v)
           /\ \A n \in 1 .. Len(v) : Escapes(v)[n] = IF v[n] = Quote THEN <<Quote, Quote>> ELSE <<v[n]>>
<1>1. DOMAIN v = 1 .. Len(v) /\ Len(v) \in Nat /\ \A n \in 1 .. Len(v) : v[n] \in Chars
  BY DEF Texts
<1>2. \A n \in 1 .. Len(v) : (IF v[n] = Quote THEN <<Quote, Quote>> ELSE <<v[n]>>) \in Texts
  BY <1>1, Singles, FixedChars
<1> DEFINE e == [n \in 1 .. Len(v) |-> IF v[n] = Quote THEN <<Quote, Quote>> ELSE <<v[n]>>]
<1>3. Escapes(v) = e
  BY <1>1 DEF Escapes
<1>4. e \in [1 .. Len(v) -> Texts]
  BY <1>2
<1>5. e \in Seq(Texts) /\ Len(e) = Len(v)
  BY <1>1, <1>4
<1> QED
  BY <1>3, <1>5

LEMMA EscapedType ==
    ASSUME NEW v \in Texts
    PROVE  Escaped(v) = FlattenSeq(Escapes(v)) /\ Escaped(v) \in Texts
<1>1. Escaped(v) = FlattenSeq(Escapes(v))
  BY DEF Escaped, Escapes
<1>2. Escapes(v) \in Seq(Seq(Chars))
  BY EscapesType DEF Texts
<1>3. FlattenSeq(Escapes(v)) \in Seq(Chars)
  BY <1>2, FlattenPlaces
<1> QED
  BY <1>1, <1>3 DEF Texts

IsPlain(v) == \A n \in 1 .. Len(v) : v[n] \notin NeedQuotes

LEMMA FieldIs ==
    ASSUME NEW v \in Texts
    PROVE  /\ Field(v) = IF IsPlain(v) THEN v ELSE <<Quote>> \o Escaped(v) \o <<Quote>>
           /\ Field(v) \in Texts
<1>1. ToSet(v) \cap NeedQuotes = {} <=> IsPlain(v)
  <2>1. DOMAIN v = 1 .. Len(v)
    BY DEF Texts
  <2> QED
    BY <2>1 DEF ToSet, IsPlain
<1>2. Field(v) = IF IsPlain(v) THEN v ELSE <<Quote>> \o Escaped(v) \o <<Quote>>
  BY <1>1 DEF Field
<1>3. <<Quote>> \in Texts /\ Escaped(v) \in Texts
  BY Singles, FixedChars, EscapedType
<1>4. <<Quote>> \o Escaped(v) \o <<Quote>> \in Texts
  BY <1>3 DEF Texts
<1> QED
  BY <1>2, <1>4

\* A cell with its quotes doubled leaves the reader inside quotes, where it found him.
LEMMA EscapedPasses ==
    ASSUME NEW v \in Texts PROVE Passes(Escaped(v), TRUE, TRUE)
<1> DEFINE e == Escapes(v)
<1>1. e \in Seq(Texts) /\ Len(e) = Len(v)
  BY EscapesType
<1>2. ASSUME NEW n \in 1 .. Len(e) PROVE Passes(e[n], TRUE, TRUE)
  <2>1. e[n] = (IF v[n] = Quote THEN <<Quote, Quote>> ELSE <<v[n]>>) /\ v[n] \in Chars
    <3>1. n \in 1 .. Len(v)
      BY <1>1
    <3>2. v[n] \in Chars
      BY <3>1 DEF Texts
    <3> QED
      BY <3>1, <3>2, EscapesType
  <2>2. CASE v[n] = Quote
    BY <2>1, <2>2, DoubledPasses
  <2>3. CASE v[n] # Quote
    <3> DEFINE s == <<v[n]>>
    <3>1. s \in Texts /\ Len(s) = 1 /\ s[1] = v[n]
      BY <2>1, Singles
    <3>2. \A k \in 1 .. Len(s) : s[k] # Quote
      BY <2>3, <3>1
    <3>3. e[n] = s
      BY <2>1, <2>3
    <3> HIDE DEF s
    <3>4. Passes(s, TRUE, TRUE)
      BY <3>1, <3>2, PlainPasses
    <3> QED
      BY <3>3, <3>4
  <2> QED
    BY <2>2, <2>3
<1> HIDE DEF e
<1>3. Passes(FlattenSeq(e), TRUE, TRUE)
  BY <1>1, <1>2, FlattenPasses
<1> QED
  BY <1>3, EscapedType DEF e

\* A field as write_csv_field writes it leaves the reader outside of quotes.
LEMMA FieldPasses ==
    ASSUME NEW v \in Texts PROVE Passes(Field(v), FALSE, FALSE)
<1>1. CASE IsPlain(v)
  <2>1. Field(v) = v
    BY <1>1, FieldIs
  <2>2. /\ \A n \in 1 .. Len(v) : v[n] # Quote
        /\ \A n \in 1 .. Len(v) : v[n] \notin LineEnds
    BY <1>1 DEF IsPlain, NeedQuotes
  <2>3. Passes(v, FALSE, FALSE)
    BY <2>2, PlainPasses
  <2> QED
    BY <2>1, <2>3
<1>2. CASE ~IsPlain(v)
  <2> DEFINE o == <<Quote>>
             e == Escaped(v)
  <2>1. Field(v) = o \o e \o o /\ o \in Texts /\ e \in Texts
    BY <1>2, FieldIs, Singles, FixedChars, EscapedType
  <2>2. Passes(o, FALSE, TRUE) /\ Passes(o, TRUE, FALSE) /\ Passes(e, TRUE, TRUE)
    BY QuotePasses, EscapedPasses
  <2> HIDE DEF o, e
  <2>3. o \o e \in Texts
    BY <2>1 DEF Texts
  <2>4. Passes(o \o e, FALSE, TRUE)
    BY <2>1, <2>2, PassesOn
  <2> DEFINE oe == o \o e
  <2>5. oe \in Texts /\ Passes(oe, FALSE, TRUE)
    BY <2>3, <2>4
  <2> HIDE DEF oe
  <2>6. Passes(oe \o o, FALSE, FALSE)
    BY <2>1, <2>2, <2>5, PassesOn
  <2> QED
    BY <2>1, <2>6 DEF oe
<1> QED
  BY <1>1, <1>2

LEMMA RowType ==
    ASSUME NEW row \in Row
    PROVE  /\ row \in Seq(Texts) /\ DOMAIN row = 1 .. Width /\ Len(row) = Width
           /\ \A k \in 1 .. Width : row[k] \in Texts
<1>1. Width \in Nat /\ Values \subseteq Texts
  BY ValuesAssumption, WidthAssumption DEF Texts, Chars
<1>2. row \in [1 .. Width -> Texts]
  BY <1>1 DEF Row
<1> QED
  BY <1>1, <1>2

LEMMA FieldPiecesType ==
    ASSUME NEW row \in Row
    PROVE  /\ FieldPieces(row) \in Seq(Texts) /\ Len(FieldPieces(row)) = Width
           /\ \A n \in 1 .. Width :
                FieldPieces(row)[n] = IF n = 1 THEN Field(row[n]) ELSE <<Comma>> \o Field(row[n])
<1> DEFINE p == [n \in 1 .. Width |-> IF n = 1 THEN Field(row[n]) ELSE <<Comma>> \o Field(row[n])]
<1>1. DOMAIN row = 1 .. Width /\ Width \in Nat
  BY RowType, WidthAssumption
<1>2. \A n \in 1 .. Width : Field(row[n]) \in Texts
  BY RowType, FieldIs
<1>3. <<Comma>> \in Texts
  BY Singles, FixedChars
<1>4. \A n \in 1 .. Width : <<>> \o Field(row[n]) = Field(row[n]) /\ <<Comma>> \o Field(row[n]) \in Texts
  BY <1>2, <1>3 DEF Texts
<1>5. \A n \in 1 .. Width :
        /\ ((IF n = 1 THEN <<>> ELSE <<Comma>>) \o Field(row[n]))
             = IF n = 1 THEN Field(row[n]) ELSE <<Comma>> \o Field(row[n])
        /\ (IF n = 1 THEN Field(row[n]) ELSE <<Comma>> \o Field(row[n])) \in Texts
  BY <1>2, <1>4
<1>6. FieldPieces(row) = p
  BY <1>1, <1>5 DEF FieldPieces
<1>7. p \in [1 .. Width -> Texts]
  BY <1>5
<1>8. p \in Seq(Texts) /\ Len(p) = Width
  BY <1>1, <1>7
<1> QED
  BY <1>6, <1>8

\* A line is its fields with commas between them, and the line end.
LEMMA LineIs ==
    ASSUME NEW row \in Row
    PROVE  Line(row) = Body(row) \o <<"\n">> /\ Body(row) \in Texts /\ Line(row) \in Texts
<1>1. Line(row) = Body(row) \o <<"\n">>
  BY DEF Line, Body, FieldPieces
<1>2. FieldPieces(row) \in Seq(Seq(Chars))
  BY FieldPiecesType DEF Texts
<1>3. FlattenSeq(FieldPieces(row)) \in Seq(Chars)
  BY <1>2, FlattenPlaces
<1>4. Body(row) \in Texts
  BY <1>3 DEF Body, Texts
<1> QED
  BY <1>1, <1>4, Singles, FixedChars DEF Texts

\* The fields of a line have no line end outside of quotes.
LEMMA BodyPasses ==
    ASSUME NEW row \in Row PROVE Passes(Body(row), FALSE, FALSE)
<1> DEFINE p == FieldPieces(row)
<1>1. p \in Seq(Texts) /\ Len(p) = Width
  BY FieldPiecesType
<1>2. ASSUME NEW n \in 1 .. Len(p) PROVE Passes(p[n], FALSE, FALSE)
  <2> DEFINE c == <<Comma>>
             f == Field(row[n])
  <2>1. row[n] \in Texts /\ p[n] = IF n = 1 THEN f ELSE c \o f
    BY <1>1, RowType, FieldPiecesType
  <2>2. c \in Texts /\ f \in Texts /\ Len(c) = 1 /\ c[1] = Comma
    BY <2>1, Singles, FixedChars, FieldIs
  <2>3. Passes(f, FALSE, FALSE)
    BY <2>1, FieldPasses
  <2>4. Comma # Quote /\ Comma \notin LineEnds
    BY DEF Comma, Quote, LineEnds
  <2> HIDE DEF c, f
  <2>5. \A k \in 1 .. Len(c) : c[k] # Quote /\ c[k] \notin LineEnds
    BY <2>2, <2>4
  <2>6. Passes(c, FALSE, FALSE)
    BY <2>2, <2>5, PlainPasses
  <2>7. Passes(c \o f, FALSE, FALSE)
    BY <2>2, <2>3, <2>6, PassesOn
  <2> QED
    BY <2>1, <2>3, <2>7
<1> HIDE DEF p
<1>3. Passes(FlattenSeq(p), FALSE, FALSE)
  BY <1>1, <1>2, FlattenPasses
<1> QED
  BY <1>3 DEF p, Body

-----------------------------------------------------------------------------
(***************************************************************************)
(* Where the characters of the cells stand in a line.                      *)
(***************************************************************************)
LEMMA Climbs ==
    ASSUME NEW N \in Nat, NEW f \in [0 .. N -> Nat], \A n \in 1 .. N : f[n - 1] <= f[n]
    PROVE  \A n \in 0 .. N : f[0] <= f[n] /\ f[n] <= f[N]
<1>1. \A n \in 0 .. N : f[n] \in Nat
  OBVIOUS
<1>2. \A n \in 0 .. N - 1 : n + 1 \in 1 .. N /\ n + 1 - 1 = n /\ n \in 0 .. N /\ n + 1 \in 0 .. N /\ f[n] <= f[n + 1]
  <2> SUFFICES ASSUME NEW n \in 0 .. N - 1
               PROVE  n + 1 \in 1 .. N /\ n + 1 - 1 = n /\ n \in 0 .. N /\ n + 1 \in 0 .. N /\ f[n] <= f[n + 1]
    OBVIOUS
  <2> DEFINE k == n + 1
  <2>1. k \in 1 .. N /\ k - 1 = n /\ n \in 0 .. N /\ k \in 0 .. N
    OBVIOUS
  <2> HIDE DEF k
  <2>2. f[n] <= f[k]
    BY <2>1
  <2> QED
    BY <2>1, <2>2 DEF k
<1>3. \A n \in 0 .. N : \A m \in 0 .. n : f[m] <= f[n]
  <2> DEFINE Good == {n \in 0 .. N : \A m \in 0 .. n : f[m] <= f[n]}
  <2>1. 0 \in Good
    <3>1. 0 \in 0 .. N /\ \A m \in 0 .. 0 : m = 0
      OBVIOUS
    <3> QED
      BY <1>1, <3>1
  <2>2. ASSUME NEW n \in 0 .. N - 1, n \in Good PROVE n + 1 \in Good
    <3>1. n \in 0 .. N /\ n + 1 \in 0 .. N /\ f[n] <= f[n + 1]
      BY <1>2
    <3>2. \A m \in 0 .. n + 1 : m \in 0 .. N /\ (m = n + 1 \/ m \in 0 .. n)
      OBVIOUS
    <3> DEFINE x == f[n + 1]
    <3>3. x \in Nat /\ f[n] <= x /\ f[n] \in Nat
      BY <1>1, <3>1
    <3>4. \A m \in 0 .. n : f[m] <= f[n] /\ f[m] \in Nat
      BY <1>1, <2>2, <3>2
    <3>5. \A m \in 0 .. n : f[m] <= x
      <4> HIDE DEF x
      <4> QED
        BY <3>3, <3>4
    <3>6. \A m \in 0 .. n + 1 : f[m] <= f[n + 1]
      BY <3>2, <3>3, <3>5
    <3> QED
      BY <3>1, <3>6
  <2> HIDE DEF Good
  <2>3. \A n \in 0 .. N : n \in Good
    BY <2>1, <2>2, UpTo
  <2> QED
    BY <2>3 DEF Good
<1>4. N \in 0 .. N /\ \A n \in 0 .. N : 0 \in 0 .. n /\ n \in 0 .. N
  OBVIOUS
<1> QED
  BY <1>3, <1>4

\* g[m] is where a reader of the cell v, written from `from' to before `to',
\* stands with m characters of it taken.
FieldPlaces(text, v, from, to, g) ==
    /\ g \in [0 .. Len(v) -> from .. to]
    /\ IF IsPlain(v) THEN g[0] = from /\ g[Len(v)] = to
       ELSE g[0] = from + 1 /\ g[Len(v)] = to - 1 /\ text[from] = Quote /\ text[to - 1] = Quote
    /\ \A m \in 1 .. Len(v) :
         /\ text[g[m - 1]] = v[m] /\ g[m - 1] < g[m]
         /\ v[m] # Quote => g[m] = g[m - 1] + 1
         /\ v[m] = Quote => g[m] = g[m - 1] + 2 /\ text[g[m - 1] + 1] = Quote

\* The places of a cell that is written as it is, ...
LEMMA PlainPlaces ==
    ASSUME NEW v \in Texts, IsPlain(v)
    PROVE  \E g : FieldPlaces(Field(v), v, 1, Len(Field(v)) + 1, g)
<1> DEFINE g == [m \in 0 .. Len(v) |-> m + 1]
<1>1. Field(v) = v /\ Len(v) \in Nat
  BY FieldIs DEF Texts
<1>2. g \in [0 .. Len(v) -> 1 .. Len(v) + 1] /\ \A m \in 0 .. Len(v) : g[m] = m + 1
  BY <1>1
<1> HIDE DEF g
<1>3. ASSUME NEW m \in 1 .. Len(v)
      PROVE  v[g[m - 1]] = v[m] /\ g[m - 1] < g[m] /\ g[m] = g[m - 1] + 1 /\ v[m] # Quote
  <2>1. m - 1 \in 0 .. Len(v) /\ m \in 0 .. Len(v) /\ m - 1 + 1 = m /\ m < m + 1
    BY <1>1
  <2>2. g[m - 1] = m /\ g[m] = m + 1
    BY <1>2, <2>1
  <2> QED
    BY <2>1, <2>2 DEF IsPlain, NeedQuotes
<1>4. g[0] = 1 /\ g[Len(v)] = Len(v) + 1
  BY <1>1, <1>2
<1>5. FieldPlaces(v, v, 1, Len(v) + 1, g)
  BY <1>2, <1>3, <1>4 DEF FieldPlaces
<1> QED
  BY <1>1, <1>5

\* ... and of one that is quoted.
LEMMA QuotedPlaces ==
    ASSUME NEW v \in Texts, ~IsPlain(v)
    PROVE  \E g : FieldPlaces(Field(v), v, 1, Len(Field(v)) + 1, g)
<1> DEFINE inner == Escaped(v)
           p == Escapes(v)
           mark == <<Quote>>
           t == Field(v)
           N == Len(v)
<1>1. /\ t = mark \o inner \o mark /\ mark \in Texts /\ inner \in Texts /\ Len(mark) = 1 /\ mark[1] = Quote /\ N \in Nat
      /\ inner = FlattenSeq(p)
  BY FieldIs, Singles, FixedChars, EscapedType DEF Texts
<1>2. /\ p \in Seq(Seq(Chars)) /\ Len(p) = N
      /\ \A n \in 1 .. N : p[n] = IF v[n] = Quote THEN <<Quote, Quote>> ELSE <<v[n]>>
  BY EscapesType DEF Texts
<1>3. PICK at : Pieces(inner, p, at)
  <2> HIDE DEF p, inner
  <2>1. \E at : Pieces(FlattenSeq(p), p, at)
    BY <1>2, FlattenPlaces
  <2> QED
    BY <1>1, <2>1
<1>4. \A n \in 1 .. N : v[n] \in Chars
  BY DEF Texts
<1> HIDE DEF inner, p, mark, t, N
<1>5. /\ at \in [0 .. N -> Nat] /\ at[0] = 0 /\ at[N] = Len(inner)
      /\ \A n \in 1 .. N : /\ at[n] = at[n - 1] + Len(p[n])
                           /\ \A m \in 1 .. Len(p[n]) : inner[at[n - 1] + m] = p[n][m]
  BY <1>2, <1>3 DEF Pieces
<1>6. /\ Len(t) = Len(inner) + 2 /\ Len(inner) \in Nat
      /\ t[1] = Quote /\ t[Len(inner) + 2] = Quote
      /\ \A n \in 1 .. Len(inner) : t[n + 1] = inner[n]
  <2>1. /\ mark \o inner \in Seq(Chars) /\ Len(mark \o inner) = 1 + Len(inner)
        /\ \A n \in 1 .. 1 : (mark \o inner)[n] = mark[n]
        /\ \A n \in 1 .. Len(inner) : (mark \o inner)[1 + n] = inner[n]
    <3>0. Len(mark) = 1
      BY <1>1
    <3>1. mark \in Seq(Chars) /\ inner \in Seq(Chars)
      BY <1>1 DEF Texts
    <3>2. /\ mark \o inner \in Seq(Chars) /\ Len(mark \o inner) = Len(mark) + Len(inner)
          /\ \A n \in 1 .. Len(mark) : (mark \o inner)[n] = mark[n]
          /\ \A n \in 1 .. Len(inner) : (mark \o inner)[Len(mark) + n] = inner[n]
      BY <3>1, ConcatPlaces
    <3> QED
      BY <3>0, <3>1, <3>2
  <2> DEFINE head == mark \o inner
  <2> HIDE DEF head
  <2>2. /\ Len(head \o mark) = Len(head) + 1
        /\ \A n \in 1 .. Len(head) : (head \o mark)[n] = head[n]
        /\ \A n \in 1 .. 1 : (head \o mark)[Len(head) + n] = mark[n]
    BY <1>1, <2>1, ConcatPlaces DEF Texts, head
  <2>3. t = head \o mark /\ Len(head) = 1 + Len(inner) /\ Len(inner) \in Nat
    BY <1>1, <2>1 DEF head, Texts
  <2>4. Len(t) = Len(inner) + 2 /\ 1 \in 1 .. Len(head) /\ 1 \in 1 .. 1 /\ Len(head) + 1 = Len(inner) + 2
    BY <2>2, <2>3
  <2>5. t[1] = Quote
    BY <1>1, <2>1, <2>2, <2>3, <2>4 DEF head
  <2>6. t[Len(inner) + 2] = Quote
    BY <1>1, <2>2, <2>3, <2>4
  <2>7. ASSUME NEW n \in 1 .. Len(inner) PROVE t[n + 1] = inner[n]
    <3>1. n + 1 \in 1 .. Len(head) /\ 1 + n = n + 1
      BY <2>3
    <3> QED
      BY <2>1, <2>2, <2>3, <3>1 DEF head
  <2> QED
    BY <2>3, <2>4, <2>5, <2>6, <2>7
<1>7. \A n \in 1 .. N : /\ n - 1 \in 0 .. N /\ n \in 0 .. N /\ at[n - 1] \in Nat /\ at[n] \in Nat
                        /\ at[n] = at[n - 1] + (IF v[n] = Quote THEN 2 ELSE 1)
                        /\ inner[at[n - 1] + 1] = v[n]
                        /\ v[n] = Quote => inner[at[n - 1] + 2] = Quote
  <2> SUFFICES ASSUME NEW n \in 1 .. N
               PROVE  /\ n - 1 \in 0 .. N /\ n \in 0 .. N /\ at[n - 1] \in Nat /\ at[n] \in Nat
                      /\ at[n] = at[n - 1] + (IF v[n] = Quote THEN 2 ELSE 1)
                      /\ inner[at[n - 1] + 1] = v[n]
                      /\ v[n] = Quote => inner[at[n - 1] + 2] = Quote
    OBVIOUS
  <2>1. n - 1 \in 0 .. N /\ n \in 0 .. N
    BY <1>1
  <2>2. at[n - 1] \in Nat /\ at[n] \in Nat
    BY <1>5, <2>1
  <2>3. v[n] \in Chars /\ p[n] = IF v[n] = Quote THEN <<Quote, Quote>> ELSE <<v[n]>>
    BY <1>2, <1>4
  <2>4. /\ Len(p[n]) = (IF v[n] = Quote THEN 2 ELSE 1) /\ p[n][1] = v[n]
        /\ v[n] = Quote => p[n][2] = Quote
    BY <2>3, Singles
  <2>5. at[n] = at[n - 1] + Len(p[n]) /\ \A m \in 1 .. Len(p[n]) : inner[at[n - 1] + m] = p[n][m]
    BY <1>5
  <2> QED
    BY <2>1, <2>2, <2>4, <2>5
<1>8. \A n \in 0 .. N : at[n] \in 0 .. Len(inner)
  <2>1. \A n \in 1 .. N : at[n - 1] <= at[n]
    BY <1>7
  <2>2. \A n \in 0 .. N : at[0] <= at[n] /\ at[n] <= at[N]
    BY <1>1, <1>5, <2>1, Climbs
  <2>3. \A n \in 0 .. N : at[n] \in Nat
    BY <1>5
  <2> QED
    BY <1>5, <1>6, <2>2, <2>3
<1> DEFINE g == [m \in 0 .. N |-> at[m] + 2]
<1>9. g \in [0 .. N -> 1 .. Len(t) + 1] /\ \A m \in 0 .. N : g[m] = at[m] + 2
  BY <1>6, <1>8
<1> HIDE DEF g
<1>10. ASSUME NEW m \in 1 .. N
       PROVE  /\ t[g[m - 1]] = v[m] /\ g[m - 1] < g[m]
              /\ v[m] # Quote => g[m] = g[m - 1] + 1
              /\ v[m] = Quote => g[m] = g[m - 1] + 2 /\ t[g[m - 1] + 1] = Quote
  <2> DEFINE a == at[m - 1]
             b == at[m]
  <2>1. /\ a \in Nat /\ b \in 0 .. Len(inner) /\ b = a + (IF v[m] = Quote THEN 2 ELSE 1)
        /\ inner[a + 1] = v[m]
        /\ v[m] = Quote => inner[a + 2] = Quote
        /\ g[m - 1] = a + 2 /\ g[m] = b + 2
    BY <1>7, <1>8, <1>9
  <2> HIDE DEF a, b
  <2>2. a + 1 \in 1 .. Len(inner) /\ a + 1 + 1 = a + 2
    BY <1>6, <2>1
  <2>3. t[a + 2] = v[m]
    BY <1>6, <2>1, <2>2
  <2>4. ASSUME v[m] = Quote PROVE t[a + 2 + 1] = Quote
    <3>1. a + 2 \in 1 .. Len(inner)
      BY <1>6, <2>1, <2>4
    <3> QED
      BY <1>6, <2>1, <2>4, <3>1
  <2> QED
    BY <2>1, <2>3, <2>4
<1>11. g[0] = 2 /\ g[N] = Len(inner) + 2
  <2>1. 0 \in 0 .. N /\ N \in 0 .. N
    BY <1>1
  <2> QED
    BY <1>5, <1>9, <2>1
<1>12. Len(t) + 1 - 1 = Len(inner) + 2
  BY <1>6
<1>13. FieldPlaces(t, v, 1, Len(t) + 1, g)
  BY <1>6, <1>9, <1>10, <1>11, <1>12 DEF FieldPlaces, N
<1> QED
  BY <1>13 DEF t

\* The places of a field that stands anywhere in a text.
LEMMA MovedPlaces ==
    ASSUME NEW v \in Texts, NEW text, NEW b \in Nat, NEW l \in Nat, l = Len(Field(v)),
           \A i \in 1 .. l : text[b + i] = Field(v)[i]
    PROVE  \E g : FieldPlaces(text, v, b + 1, b + l + 1, g)
<1> DEFINE t == Field(v)
           N == Len(v)
<1>1. PICK h : FieldPlaces(t, v, 1, Len(t) + 1, h)
  BY PlainPlaces, QuotedPlaces
<1>2. N \in Nat
  BY DEF Texts
<1> HIDE DEF t, N
<1>3. l = Len(t) /\ \A i \in 1 .. l : text[b + i] = t[i]
  BY DEF t
<1>4. /\ h \in [0 .. N -> 1 .. l + 1]
      /\ IF IsPlain(v) THEN h[0] = 1 /\ h[N] = l + 1
         ELSE h[0] = 1 + 1 /\ h[N] = l + 1 - 1 /\ t[1] = Quote /\ t[l + 1 - 1] = Quote
      /\ \A m \in 1 .. N :
         /\ t[h[m - 1]] = v[m] /\ h[m - 1] < h[m]
         /\ v[m] # Quote => h[m] = h[m - 1] + 1
         /\ v[m] = Quote => h[m] = h[m - 1] + 2 /\ t[h[m - 1] + 1] = Quote
  BY <1>1, <1>3 DEF FieldPlaces, N
<1> DEFINE g == [m \in 0 .. N |-> b + h[m]]
<1>5. \A m \in 0 .. N : g[m] = b + h[m] /\ h[m] \in 1 .. l + 1
  BY <1>4
<1>6. g \in [0 .. N -> b + 1 .. b + l + 1]
  <2>1. \A m \in 0 .. N : b + h[m] \in b + 1 .. b + l + 1
    BY <1>5
  <2> QED
    BY <2>1
<1> HIDE DEF g
<1>7. ASSUME NEW m \in 1 .. N
      PROVE  /\ text[g[m - 1]] = v[m] /\ g[m - 1] < g[m]
             /\ v[m] # Quote => g[m] = g[m - 1] + 1
             /\ v[m] = Quote => g[m] = g[m - 1] + 2 /\ text[g[m - 1] + 1] = Quote
  <2> DEFINE x == h[m - 1]
             y == h[m]
  <2>1. m - 1 \in 0 .. N /\ m \in 0 .. N
    BY <1>2
  <2>2. /\ x \in 1 .. l + 1 /\ y \in 1 .. l + 1 /\ g[m - 1] = b + x /\ g[m] = b + y
        /\ t[x] = v[m] /\ x < y
        /\ v[m] # Quote => y = x + 1
        /\ v[m] = Quote => y = x + 2 /\ t[x + 1] = Quote
    BY <1>4, <1>5, <2>1
  <2> HIDE DEF x, y
  <2>3. x \in 1 .. l
    BY <2>2
  <2>4. ASSUME v[m] = Quote PROVE text[b + x + 1] = Quote
    <3>1. x + 1 \in 1 .. l /\ b + (x + 1) = b + x + 1
      BY <2>2, <2>4
    <3> QED
      BY <1>3, <2>2, <2>4, <3>1
  <2> QED
    BY <1>3, <2>2, <2>3, <2>4
<1>8. IF IsPlain(v) THEN g[0] = b + 1 /\ g[N] = b + l + 1
      ELSE g[0] = b + 1 + 1 /\ g[N] = b + l + 1 - 1 /\ text[b + 1] = Quote /\ text[b + l + 1 - 1] = Quote
  <2>1. 0 \in 0 .. N /\ N \in 0 .. N
    BY <1>2
  <2>2. CASE IsPlain(v)
    BY <1>4, <1>5, <2>1, <2>2
  <2>3. CASE ~IsPlain(v)
    <3>1. /\ h[0] = 2 /\ h[N] = l /\ t[1] = Quote /\ t[l] = Quote
      <4>1. l + 1 - 1 = l
        OBVIOUS
      <4> QED
        BY <1>4, <2>3, <4>1
    <3>2. h[N] \in 1 .. l + 1
      BY <1>5, <2>1
    <3>3. 1 \in 1 .. l /\ l \in 1 .. l /\ b + l + 1 - 1 = b + l
      BY <3>1, <3>2
    <3>4. text[b + 1] = Quote /\ text[b + l] = Quote
      BY <1>3, <3>1, <3>3
    <3>5. g[0] = b + 2 /\ g[N] = b + l
      BY <1>5, <2>1, <3>1
    <3> QED
      BY <2>3, <3>3, <3>4, <3>5
  <2> QED
    BY <2>2, <2>3
<1>9. FieldPlaces(text, v, b + 1, b + l + 1, g)
  BY <1>6, <1>7, <1>8 DEF FieldPlaces, N
<1> QED
  BY <1>9

\* The fields of a line: field k stands from place from[k] to before place
\* from[k + 1] - 1, where a comma stands or the line ends.
FieldStands(text, row, from, k) ==
    \E g : FieldPlaces(text, row[k], from[k], from[k + 1] - 1, g)

RowPlaces(text, row, from) ==
    /\ from \in [1 .. Width + 1 -> Nat \ {0}]
    /\ from[1] = 1 /\ from[Width + 1] = Len(text) + 2
    /\ \A k \in 1 .. Width :
         /\ from[k] < from[k + 1] /\ from[k + 1] <= Len(text) + 2
         /\ k # Width => text[from[k + 1] - 1] = Comma /\ from[k + 1] <= Len(text) + 1
         /\ FieldStands(text, row, from, k)

\* The places of all fields of a line.
LEMMA BodyPlaces ==
    ASSUME NEW row \in Row PROVE \E from : RowPlaces(Body(row), row, from)
<1> DEFINE p == FieldPieces(row)
           t == Body(row)
<1>1. /\ p \in Seq(Seq(Chars)) /\ Len(p) = Width /\ Width \in Nat \ {0}
      /\ \A n \in 1 .. Width : p[n] = IF n = 1 THEN Field(row[n]) ELSE <<Comma>> \o Field(row[n])
  BY FieldPiecesType, WidthAssumption DEF Texts
<1>2. \A n \in 1 .. Width : row[n] \in Texts /\ Field(row[n]) \in Texts
  BY RowType, FieldIs
<1>3. PICK at : Pieces(t, p, at)
  <2> HIDE DEF p
  <2>1. \E at : Pieces(FlattenSeq(p), p, at)
    BY <1>1, FlattenPlaces
  <2> QED
    BY <2>1 DEF Body, p
<1>4. t \in Texts /\ Len(t) \in Nat
  BY LineIs DEF Texts
<1> HIDE DEF p, t
<1>5. /\ at \in [0 .. Width -> Nat] /\ at[0] = 0 /\ at[Width] = Len(t)
      /\ \A n \in 1 .. Width : /\ at[n] = at[n - 1] + Len(p[n])
                               /\ \A m \in 1 .. Len(p[n]) : t[at[n - 1] + m] = p[n][m]
  BY <1>1, <1>3 DEF Pieces
<1>6. \A n \in 0 .. Width : at[n] \in 0 .. Len(t)
  <2>1. \A n \in 1 .. Width : at[n - 1] <= at[n]
    <3> SUFFICES ASSUME NEW n \in 1 .. Width PROVE at[n - 1] <= at[n]
      OBVIOUS
    <3>1. n - 1 \in 0 .. Width /\ n \in 0 .. Width
      BY <1>1
    <3>2. at[n - 1] \in Nat /\ at[n] \in Nat /\ Len(p[n]) \in Nat
      BY <1>1, <1>5, <3>1
    <3>3. at[n] = at[n - 1] + Len(p[n])
      BY <1>5
    <3> QED
      BY <3>2, <3>3
  <2>2. \A n \in 0 .. Width : at[0] <= at[n] /\ at[n] <= at[Width]
    BY <1>1, <1>5, <2>1, Climbs
  <2>3. \A n \in 0 .. Width : at[n] \in Nat
    BY <1>5
  <2> QED
    BY <1>4, <1>5, <2>2, <2>3
<1> DEFINE from == [k \in 1 .. Width + 1 |-> IF k = 1 THEN 1 ELSE at[k - 1] + 2]
<1>7. \A k \in 1 .. Width + 1 : k - 1 \in 0 .. Width /\ from[k] = IF k = 1 THEN 1 ELSE at[k - 1] + 2
  BY <1>1
<1>8. from \in [1 .. Width + 1 -> Nat \ {0}]
  <2>1. \A k \in 1 .. Width + 1 : (IF k = 1 THEN 1 ELSE at[k - 1] + 2) \in Nat \ {0}
    BY <1>6, <1>7
  <2> QED
    BY <2>1
<1> HIDE DEF from
<1>9. from[1] = 1 /\ from[Width + 1] = Len(t) + 2
  <2> DEFINE w == Width + 1
  <2>1. w \in 1 .. Width + 1 /\ w # 1 /\ w - 1 = Width /\ 1 \in 1 .. Width + 1
    BY <1>1
  <2> HIDE DEF w
  <2>2. from[w] = at[Width] + 2 /\ from[1] = 1
    BY <1>7, <2>1
  <2> QED
    BY <1>5, <2>2 DEF w
<1>10. ASSUME NEW k \in 1 .. Width
       PROVE  /\ from[k] < from[k + 1] /\ from[k + 1] <= Len(t) + 2
              /\ k # Width => t[from[k + 1] - 1] = Comma /\ from[k + 1] <= Len(t) + 1
              /\ FieldStands(t, row, from, k)
  <2> DEFINE a == at[k - 1]
             l == Len(Field(row[k]))
             f == Field(row[k])
             v == row[k]
             j == k + 1
  <2>1. /\ k - 1 \in 0 .. Width /\ k \in 0 .. Width /\ j - 1 = k /\ j \in 1 .. Width + 1 /\ j # 1
        /\ k \in 1 .. Width + 1 /\ (k # Width => j \in 1 .. Width)
    BY <1>1
  <2>2. v \in Texts /\ f \in Texts /\ l \in Nat /\ l = Len(f)
    BY <1>2 DEF Texts
  <2>3. /\ at[k] = a + Len(p[k]) /\ (\A m \in 1 .. Len(p[k]) : t[a + m] = p[k][m])
        /\ a \in 0 .. Len(t) /\ at[k] \in 0 .. Len(t)
    BY <1>5, <1>6, <2>1
  <2>4. p[k] = IF k = 1 THEN f ELSE <<Comma>> \o f
    BY <1>1
  <2>5. <<Comma>> \in Texts /\ Len(<<Comma>>) = 1 /\ <<Comma>>[1] = Comma
    BY Singles, FixedChars
  <2> DEFINE c == <<Comma>>
  <2> HIDE DEF a, l, f, v, j, c
  <2>6. from[j] = at[k] + 2 /\ from[k] = IF k = 1 THEN 1 ELSE a + 2
    BY <1>7, <2>1 DEF a
  <2>7. PICK b \in Nat : /\ b = IF k = 1 THEN a ELSE a + 1
                         /\ at[k] = b + l
                         /\ \A i \in 1 .. l : t[b + i] = f[i]
                         /\ k # 1 => t[b] = Comma
    <3>1. CASE k = 1
      BY <2>2, <2>3, <2>4, <3>1
    <3>2. CASE k # 1
      <4>1. c \in Seq(Chars) /\ f \in Seq(Chars)
        BY <2>2, <2>5 DEF Texts, c
      <4>2. /\ Len(c \o f) = Len(c) + Len(f)
            /\ \A n \in 1 .. Len(c) : (c \o f)[n] = c[n]
            /\ \A n \in 1 .. Len(f) : (c \o f)[Len(c) + n] = f[n]
        BY <4>1, ConcatPlaces
      <4>3. p[k] = c \o f /\ Len(c) = 1 /\ c[1] = Comma
        BY <2>4, <2>5, <3>2 DEF c
      <4>4. Len(p[k]) = 1 + l /\ a \in Nat
        BY <2>2, <2>3, <4>2, <4>3
      <4>5. t[a + 1] = Comma
        BY <2>2, <2>3, <4>2, <4>3, <4>4
      <4>6. ASSUME NEW i \in 1 .. l PROVE t[a + 1 + i] = f[i]
        <5>1. 1 + i \in 1 .. Len(p[k]) /\ a + (1 + i) = a + 1 + i
          BY <2>2, <4>4
        <5>2. p[k][1 + i] = f[i]
          BY <2>2, <4>2, <4>3
        <5> QED
          BY <2>3, <5>1, <5>2
      <4>7. a + 1 \in Nat /\ at[k] = a + 1 + l
        BY <2>2, <2>3, <4>4
      <4> QED
        BY <3>2, <4>5, <4>6, <4>7
    <3> QED
      BY <3>1, <3>2
  <2>8. from[k] = b + 1 /\ from[j] = b + l + 2 /\ from[j] - 1 = b + l + 1 /\ b + l \in 0 .. Len(t)
    <3>1. k = 1 => a = 0
      BY <1>5 DEF a
    <3>2. a \in 0 .. Len(t) /\ at[k] \in 0 .. Len(t) /\ at[k] = b + l /\ b = IF k = 1 THEN a ELSE a + 1
      BY <2>3, <2>7
    <3>3. from[k] = b + 1
      <4>1. CASE k = 1
        BY <2>6, <3>1, <3>2, <4>1
      <4>2. CASE k # 1
        BY <1>4, <2>6, <3>2, <4>2
      <4> QED
        BY <4>1, <4>2
    <3>4. from[j] = b + l + 2
      BY <2>6, <3>2
    <3> QED
      BY <2>2, <3>2, <3>3, <3>4
  <2>9. from[k] < from[j] /\ from[j] <= Len(t) + 2
    BY <1>4, <2>2, <2>7, <2>8
  <2>10. \E g : FieldPlaces(t, v, b + 1, b + l + 1, g)
    <3>1. l = Len(Field(v)) /\ \A i \in 1 .. l : t[b + i] = Field(v)[i]
      BY <2>2, <2>7 DEF f, v
    <3> QED
      BY <2>2, <3>1, MovedPlaces
  <2>11. FieldStands(t, row, from, k)
    BY <2>8, <2>10 DEF FieldStands, v, j
  <2>12. ASSUME k # Width PROVE t[from[j] - 1] = Comma /\ from[j] <= Len(t) + 1
    <3>1. j \in 1 .. Width /\ j # 1 /\ j - 1 = k
      BY <2>1, <2>12
    <3> DEFINE h == Field(row[j])
    <3>2. h \in Seq(Chars) /\ c \in Seq(Chars) /\ Len(c) = 1 /\ c[1] = Comma
      BY <1>2, <2>5, <3>1 DEF Texts, c
    <3>3. p[j] = c \o h
      BY <1>1, <3>1 DEF c
    <3> HIDE DEF h
    <3>4. Len(c \o h) = Len(c) + Len(h) /\ \A n \in 1 .. Len(c) : (c \o h)[n] = c[n]
      BY <3>2, ConcatPlaces
    <3>5. Len(p[j]) = 1 + Len(h) /\ p[j][1] = Comma /\ Len(h) \in Nat
      BY <3>2, <3>3, <3>4
    <3>6. at[j] = at[k] + Len(p[j]) /\ (\A m \in 1 .. Len(p[j]) : t[at[k] + m] = p[j][m])
      BY <1>5, <3>1
    <3>7. j \in 0 .. Width
      BY <1>1, <3>1
    <3>8. at[j] \in 0 .. Len(t)
      BY <1>6, <3>7
    <3>9. t[at[k] + 1] = Comma
      BY <3>5, <3>6
    <3>10. at[k] + 1 <= Len(t)
      <4>1. at[j] = at[k] + (1 + Len(h)) /\ at[k] \in 0 .. Len(t) /\ Len(h) \in Nat
        BY <2>3, <3>5, <3>6
      <4> QED
        BY <1>4, <3>8, <4>1
    <3>11. from[j] - 1 = at[k] + 1 /\ from[j] = at[k] + 2
      BY <2>3, <2>6
    <3>12. from[j] <= Len(t) + 1
      BY <1>4, <2>3, <3>10, <3>11
    <3> QED
      BY <3>9, <3>11, <3>12
  <2> QED
    BY <2>9, <2>11, <2>12 DEF j
<1>11. RowPlaces(t, row, from)
  BY <1>8, <1>9, <1>10 DEF RowPlaces
<1> QED
  BY <1>11 DEF t

-----------------------------------------------------------------------------
(***************************************************************************)
(* What parse_csv_record makes of a line, whole or cut.                    *)
(***************************************************************************)
ParseState(at, mode, field, fields) ==
    [at |-> at, mode |-> mode, field |-> field, fields |-> fields]

\* One turn of parse_csv_record, by its mode.
LEMMA TurnOpen ==
    ASSUME NEW record \in Texts, NEW s \in ParseStates, s.mode = "open"
    PROVE  LET t == ParseTurn(record, s)
               n == Len(record)
           IN  /\ s.at > n => t = ParseState(s.at + 1, "done", <<>>, Append(s.fields, s.field))
               /\ s.at <= n /\ record[s.at] = Comma =>
                    t = ParseState(s.at + 1, "open", <<>>, Append(s.fields, s.field))
               /\ s.at <= n /\ record[s.at] \notin {Comma, Quote} =>
                    t = ParseState(s.at + 1, "open", Append(s.field, record[s.at]), s.fields)
               /\ s.at <= n /\ record[s.at] = Quote /\ s.field = <<>> =>
                    t = ParseState(s.at + 1, "quoted", s.field, s.fields)
               /\ s.at <= n /\ record[s.at] = Quote /\ s.field # <<>> => t.mode = "malformed"
<1>1. Len(record) \in Nat /\ s.at \in Nat /\ Comma # Quote
  BY DEF Texts, ParseStates, Comma, Quote
<1>2. s.at > Len(record) <=> ~(s.at <= Len(record))
  BY <1>1
<1> QED
  BY <1>1, <1>2 DEF ParseTurn, ParseState, ParseStates

LEMMA TurnQuoted ==
    ASSUME NEW record \in Texts, NEW s \in ParseStates, s.mode = "quoted"
    PROVE  LET t == ParseTurn(record, s)
               n == Len(record)
           IN  /\ s.at > n => t.mode = "malformed"
               /\ s.at <= n /\ record[s.at] # Quote =>
                    t = ParseState(s.at + 1, "quoted", Append(s.field, record[s.at]), s.fields)
               /\ s.at < n /\ record[s.at] = Quote /\ record[s.at + 1] = Quote =>
                    t = ParseState(s.at + 2, "quoted", Append(s.field, record[s.at]), s.fields)
               /\ s.at <= n /\ record[s.at] = Quote /\ (s.at = n \/ record[s.at + 1] # Quote) =>
                    t = ParseState(s.at + 1, "closed", s.field, s.fields)
<1>1. Len(record) \in Nat /\ s.at \in Nat
  BY DEF Texts, ParseStates
<1>2. /\ s.at > Len(record) <=> ~(s.at <= Len(record))
      /\ s.at < Len(record) <=> s.at <= Len(record) /\ s.at # Len(record)
  BY <1>1
<1> QED
  BY <1>1, <1>2 DEF ParseTurn, ParseState, ParseStates

LEMMA TurnClosed ==
    ASSUME NEW record \in Texts, NEW s \in ParseStates, s.mode = "closed"
    PROVE  LET t == ParseTurn(record, s)
               n == Len(record)
           IN  /\ s.at > n => t = ParseState(s.at + 1, "done", <<>>, Append(s.fields, s.field))
               /\ s.at <= n /\ record[s.at] = Comma =>
                    t = ParseState(s.at + 1, "open", <<>>, Append(s.fields, s.field))
               /\ s.at <= n /\ record[s.at] # Comma => t.mode = "malformed"
<1>1. Len(record) \in Nat /\ s.at \in Nat
  BY DEF Texts, ParseStates
<1>2. s.at > Len(record) <=> ~(s.at <= Len(record))
  BY <1>1
<1> QED
  BY <1>1, <1>2 DEF ParseTurn, ParseState, ParseStates

\* A turn ends the loop or moves on, at most one place past the record.
LEMMA ParseTurnMoves ==
    ASSUME NEW record \in Texts, NEW s \in ParseStates, s.at <= Len(record) + 1
    PROVE  LET t == ParseTurn(record, s)
           IN  t.mode \in {"done", "malformed"} \/ (s.at < t.at /\ t.at <= Len(record) + 1)
<1> DEFINE t == ParseTurn(record, s)
           n == Len(record)
<1>1. n \in Nat /\ s.at \in Nat /\ s.mode \in {"open", "quoted", "closed", "done", "malformed"}
  BY DEF Texts, ParseStates
<1>2. CASE s.mode \in {"done", "malformed"}
  BY <1>2 DEF ParseTurn
<1>3. CASE s.mode = "open"
  BY <1>1, <1>3, TurnOpen DEF ParseState
<1>4. CASE s.mode = "quoted"
  BY <1>1, <1>4, TurnQuoted DEF ParseState
<1>5. CASE s.mode = "closed"
  BY <1>1, <1>5, TurnClosed DEF ParseState
<1> QED
  BY <1>1, <1>2, <1>3, <1>4, <1>5

\* What every turn keeps holds of the state the loop ends in.
LEMMA ParseKeeps ==
    ASSUME NEW record \in Texts, NEW G, ParseStart \in G,
           \A s \in ParseStates : s \in G => ParseTurn(record, s) \in G
    PROVE  Parsed(record) \in G /\ Parsed(record) \in ParseStates /\ Parsed(record).mode \in {"done", "malformed"}
<1> DEFINE N == Len(record) + 1
<1>1. N \in Nat /\ Len(record) \in Nat /\ N = Len(record) + 1
  BY DEF Texts
<1>2. PICK f \in [0 .. N -> ParseStates] :
        /\ f[0] = ParseStart
        /\ \A n \in 1 .. N : f[n] = ParseTurn(record, f[n - 1])
        /\ Parsed(record) = f[N]
  BY ParseLoop
<1> HIDE DEF N
<1> DEFINE Over(s) == s.mode \in {"done", "malformed"}
           Fine(s, n) == s \in G /\ (Over(s) \/ (n + 1 <= s.at /\ s.at <= N))
           Good == {n \in 0 .. N : Fine(f[n], n)}
<1>3. 0 \in Good
  <2>1. ParseStart.at = 1
    BY DEF ParseStart
  <2>2. 0 + 1 <= 1 /\ 1 <= N /\ 0 \in 0 .. N
    BY <1>1
  <2> QED
    BY <1>2, <2>1, <2>2
<1>4. ASSUME NEW n \in 0 .. N - 1, n \in Good PROVE n + 1 \in Good
  <2> DEFINE k == n + 1
             s == f[n]
             t == f[k]
  <2>1. k \in 1 .. N /\ k - 1 = n /\ n \in 0 .. N /\ k \in 0 .. N /\ k = n + 1 /\ n \in Nat /\ k \in Nat
    BY <1>1
  <2>2. Fine(s, n)
    BY <1>4
  <2> HIDE DEF k, Fine, Good
  <2>3. t = ParseTurn(record, s) /\ s \in ParseStates /\ t \in ParseStates
    BY <1>2, <2>1
  <2> HIDE DEF s, t
  <2>4. t \in G
    BY <2>2, <2>3 DEF Fine
  <2>5. s.at \in Nat /\ t.at \in Nat
    BY <2>3 DEF ParseStates
  <2>8. Over(t) \/ (k + 1 <= t.at /\ t.at <= N)
    <3>1. CASE Over(s)
      BY <2>3, <3>1 DEF ParseTurn
    <3>2. CASE ~Over(s)
      <4>1. k <= s.at /\ s.at <= Len(record) + 1
        BY <1>1, <2>1, <2>2, <3>2 DEF Fine
      <4>2. Over(t) \/ (s.at < t.at /\ t.at <= Len(record) + 1)
        BY <2>3, <4>1, ParseTurnMoves
      <4> QED
        BY <1>1, <2>1, <2>5, <4>1, <4>2
    <3> QED
      BY <3>1, <3>2
  <2>9. Fine(t, k)
    BY <2>4, <2>8 DEF Fine
  <2> QED
    BY <2>1, <2>9 DEF Good, t, k
<1> HIDE DEF Good
<1>5. \A n \in 0 .. N : n \in Good
  BY <1>1, <1>3, <1>4, UpTo
<1> DEFINE s == f[N]
<1>6. N \in 0 .. N /\ s \in ParseStates /\ Parsed(record) = s
  BY <1>1, <1>2
<1>7. Fine(s, N)
  BY <1>5, <1>6 DEF Good
<1> HIDE DEF s
<1>8. s.at \in Nat
  BY <1>6 DEF ParseStates
<1>9. Over(s)
  BY <1>1, <1>7, <1>8
<1> QED
  BY <1>6, <1>7, <1>9

\* The first m elements of t are those of s, which has no others.
Starts(s, t, m) == Len(s) = m /\ \A i \in 1 .. m : s[i] = t[i]

LEMMA AppendStarts ==
    ASSUME NEW D, NEW s \in Seq(D), NEW c \in D, NEW t, NEW m \in Nat, Starts(s, t, m), c = t[m + 1]
    PROVE  Starts(Append(s, c), t, m + 1)
<1> DEFINE u == Append(s, c)
<1>1. Len(s) = m /\ \A i \in 1 .. m : s[i] = t[i]
  BY DEF Starts
<1>2. Len(u) = Len(s) + 1 /\ u[Len(s) + 1] = c /\ \A i \in 1 .. Len(s) : u[i] = s[i]
  OBVIOUS
<1>3. \A i \in 1 .. m + 1 : i = m + 1 \/ i \in 1 .. m
  OBVIOUS
<1> HIDE DEF u
<1>4. Len(u) = m + 1 /\ \A i \in 1 .. m + 1 : u[i] = t[i]
  BY <1>1, <1>2, <1>3
<1> QED
  BY <1>4 DEF u, Starts

LEMMA StartsAll ==
    ASSUME NEW D, NEW s \in Seq(D), NEW t \in Seq(D), Starts(s, t, Len(t)) PROVE s = t
BY DEF Starts

\* Where the parser stands in the field of the cell v, m characters of it taken.
Reads(text, record, v, from, to, g, m, s) ==
    \/ ~IsPlain(v) /\ m = 0 /\ s.mode = "open" /\ s.at = from
    \/ s.mode = (IF IsPlain(v) THEN "open" ELSE "quoted") /\ s.at = g[m]
    \/ /\ ~IsPlain(v) /\ s.mode = "closed"
       /\ (m = Len(v) /\ s.at = to) \/ (s.at = Len(record) + 1 /\ Len(record) < Len(text))

InField(text, record, v, from, to, g, s) ==
    \E m \in 0 .. Len(v) : Starts(s.field, v, m) /\ Reads(text, record, v, from, to, g, m, s)

\* A turn inside a field goes on in it, finds that the record was cut, or
\* ends the field: at its end, or where the record was cut.
Turned(text, record, v, from, to, g, s, t) ==
    \/ t.mode = "malformed" /\ Len(record) < Len(text)
    \/ t.mode \in {"open", "quoted", "closed"} /\ t.fields = s.fields /\ InField(text, record, v, from, to, g, t)
    \/ /\ t.mode = "done" /\ t.fields = Append(s.fields, s.field)
       /\ \/ Len(record) < Len(text)
          \/ to > Len(record) /\ Starts(s.field, v, Len(v))
    \/ /\ t = ParseState(to + 1, "open", <<>>, Append(s.fields, s.field))
       /\ to <= Len(record) /\ Starts(s.field, v, Len(v))

\* A turn inside a field takes the next character of the cell, or ends the
\* field, or meets the end of a record that was cut.
LEMMA FieldTurns ==
    ASSUME NEW text \in Texts, NEW record \in Texts, Len(record) <= Len(text),
           \A i \in 1 .. Len(record) : record[i] = text[i],
           NEW v \in Texts, NEW from \in Nat \ {0}, NEW to \in Nat,
           to <= Len(text) + 1, to <= Len(text) => text[to] = Comma,
           NEW g, FieldPlaces(text, v, from, to, g),
           NEW s \in ParseStates, InField(text, record, v, from, to, g, s)
    PROVE  Turned(text, record, v, from, to, g, s, ParseTurn(record, s))
<1> DEFINE n == Len(record)
           N == Len(text)
           l == Len(v)
           t == ParseTurn(record, s)
<1>1. n \in Nat /\ N \in Nat /\ n <= N /\ l \in Nat
  BY DEF Texts
<1>2. PICK m \in 0 .. l : Starts(s.field, v, m) /\ Reads(text, record, v, from, to, g, m, s)
  BY DEF InField
<1>3. s.field \in Seq(Chars) /\ s.at \in Nat \ {0} /\ \A i \in 1 .. l : v[i] \in Chars
  BY DEF ParseStates, Texts
<1>4. /\ g \in [0 .. l -> from .. to]
      /\ IF IsPlain(v) THEN g[0] = from /\ g[l] = to
         ELSE g[0] = from + 1 /\ g[l] = to - 1 /\ text[from] = Quote /\ text[to - 1] = Quote
      /\ \A i \in 1 .. l :
           /\ text[g[i - 1]] = v[i] /\ g[i - 1] < g[i]
           /\ v[i] # Quote => g[i] = g[i - 1] + 1
           /\ v[i] = Quote => g[i] = g[i - 1] + 2 /\ text[g[i - 1] + 1] = Quote
  BY DEF FieldPlaces
<1>5. Comma # Quote /\ \A i \in 1 .. l : IsPlain(v) => v[i] \notin {Comma, Quote}
  BY DEF Comma, Quote, IsPlain, NeedQuotes
<1>6. \A i \in 1 .. n : record[i] = text[i]
  OBVIOUS
<1>7. to <= N + 1 /\ (to <= N => text[to] = Comma)
  OBVIOUS
<1> HIDE DEF n, N, l, t
<1>8. Starts(s.field, v, l) => s.field = v
  BY <1>3, StartsAll DEF l, Texts
\* Characters of the cell are left.
<1>9. ASSUME s.mode = (IF IsPlain(v) THEN "open" ELSE "quoted"), s.at = g[m], m # l
      PROVE  Turned(text, record, v, from, to, g, s, t)
  <2> DEFINE k == m + 1
             c == v[k]
             a == g[m]
             b == g[k]
  <2>1. k \in 1 .. l /\ k - 1 = m /\ m \in 0 .. l /\ k \in 0 .. l /\ m \in Nat
    BY <1>1, <1>9
  <2>2. a \in from .. to /\ b \in from .. to /\ a \in 1 .. N /\ a \in Nat /\ b \in Nat /\ a < b
    <3>1. a \in from .. to /\ b \in from .. to
      BY <1>4, <2>1
    <3>2. a < b
      BY <1>4, <2>1
    <3> QED
      BY <1>1, <1>7, <3>1, <3>2
  <2>3. c \in Chars /\ text[a] = c /\ (c # Quote => b = a + 1) /\ (c = Quote => b = a + 2 /\ text[a + 1] = Quote)
    BY <1>3, <1>4, <2>1
  <2>4. IsPlain(v) => c \notin {Comma, Quote}
    BY <1>5, <2>1
  <2>5. Starts(Append(s.field, c), v, k)
    BY <1>2, <1>3, <2>1, <2>3, AppendStarts
  <2>6. s.at = a
    BY <1>9
  <2> HIDE DEF k, c, a, b
  <2>7. CASE a > n
    <3>1. n < N
      BY <1>1, <2>2, <2>7
    <3>2. CASE IsPlain(v)
      <4>1. t.mode = "done" /\ t.fields = Append(s.fields, s.field)
        BY <1>9, <2>6, <2>7, <3>2, TurnOpen DEF n, t, ParseState
      <4> QED
        BY <3>1, <4>1 DEF Turned, n, N
    <3>3. CASE ~IsPlain(v)
      <4>1. t.mode = "malformed"
        BY <1>9, <2>6, <2>7, <3>3, TurnQuoted DEF n, t
      <4> QED
        BY <3>1, <4>1 DEF Turned, n, N
    <3> QED
      BY <3>2, <3>3
  <2>8. CASE a <= n
    <3>1. record[a] = c
      BY <1>1, <1>6, <2>2, <2>3, <2>8
    <3>2. CASE c # Quote
      <4>1. t = ParseState(a + 1, s.mode, Append(s.field, c), s.fields)
        <5>1. CASE IsPlain(v)
          BY <1>9, <2>4, <2>6, <2>8, <3>1, <5>1, TurnOpen DEF n, t
        <5>2. CASE ~IsPlain(v)
          BY <1>9, <2>6, <2>8, <3>1, <3>2, <5>2, TurnQuoted DEF n, t
        <5> QED
          BY <5>1, <5>2
      <4>2. t.at = g[k] /\ t.mode = s.mode /\ t.field = Append(s.field, c) /\ t.fields = s.fields
        BY <2>3, <3>2, <4>1 DEF ParseState, b
      <4>3. InField(text, record, v, from, to, g, t)
        BY <1>9, <2>1, <2>5, <4>2 DEF InField, Reads, l
      <4>4. t.mode \in {"open", "quoted", "closed"}
        BY <1>9, <4>2
      <4> QED
        BY <4>2, <4>3, <4>4 DEF Turned
    <3>3. CASE c = Quote
      <4>1. ~IsPlain(v) /\ s.mode = "quoted" /\ record[a] = Quote
        BY <1>9, <2>4, <3>1, <3>3
      <4>2. CASE a = n
        <5>1. t = ParseState(a + 1, "closed", s.field, s.fields)
          BY <2>6, <2>8, <4>1, <4>2, TurnQuoted DEF n, t
        <5>2. n < N
          BY <1>1, <1>7, <2>2, <2>3, <3>3, <4>2
        <5>3. t.at = n + 1 /\ t.mode = "closed" /\ t.field = s.field /\ t.fields = s.fields
          BY <4>2, <5>1 DEF ParseState
        <5>4. InField(text, record, v, from, to, g, t)
          BY <1>2, <4>1, <5>2, <5>3 DEF InField, Reads, l, n, N
        <5> QED
          BY <5>3, <5>4 DEF Turned
      <4>3. CASE a # n
        <5>1. a + 1 \in 1 .. n /\ a < n
          BY <1>1, <2>2, <2>8, <4>3
        <5>2. record[a + 1] = Quote
          BY <1>6, <2>3, <3>3, <5>1
        <5>3. t = ParseState(a + 2, "quoted", Append(s.field, c), s.fields)
          BY <2>6, <3>1, <4>1, <5>1, <5>2, TurnQuoted DEF n, t
        <5>4. t.at = g[k] /\ t.mode = "quoted" /\ t.field = Append(s.field, c) /\ t.fields = s.fields
          BY <2>3, <3>3, <5>3 DEF ParseState, b
        <5>5. InField(text, record, v, from, to, g, t)
          BY <2>1, <2>5, <4>1, <5>4 DEF InField, Reads, l
        <5> QED
          BY <5>4, <5>5 DEF Turned
      <4> QED
        BY <4>2, <4>3
    <3> QED
      BY <3>2, <3>3
  <2> QED
    BY <1>1, <2>2, <2>7, <2>8
\* The end of the field.
<1>10. ASSUME s.mode \in {"open", "closed"}, s.at = to, Starts(s.field, v, l)
       PROVE  Turned(text, record, v, from, to, g, s, t)
  <2>1. CASE to > n
    <3>1. t.mode = "done" /\ t.fields = Append(s.fields, s.field)
      BY <1>10, <2>1, TurnOpen, TurnClosed DEF n, t, ParseState
    <3> QED
      BY <1>10, <2>1, <3>1 DEF Turned, n, l
  <2>2. CASE to <= n
    <3>1. to \in 1 .. n /\ to <= N
      BY <1>1, <1>3, <1>10, <2>2
    <3>2. record[to] = Comma
      BY <1>6, <1>7, <3>1
    <3>3. t = ParseState(to + 1, "open", <<>>, Append(s.fields, s.field))
      BY <1>10, <2>2, <3>2, TurnOpen, TurnClosed DEF n, t
    <3> QED
      BY <1>10, <2>2, <3>3 DEF Turned, n, l
  <2> QED
    BY <1>1, <2>1, <2>2
\* The quote that closes it.
<1>11. ASSUME ~IsPlain(v), s.mode = "quoted", s.at = g[l], m = l
       PROVE  Turned(text, record, v, from, to, g, s, t)
  <2> DEFINE a == to - 1
  <2>0. s.at = a /\ text[a] = Quote
    BY <1>4, <1>11
  <2>1. a \in Nat \ {0} /\ a + 1 = to /\ a \in Nat
    BY <1>3, <2>0
  <2> HIDE DEF a
  <2>2. CASE a > n
    <3>1. t.mode = "malformed"
      BY <1>11, <2>0, <2>2, TurnQuoted DEF n, t
    <3>2. n < N
      BY <1>1, <1>7, <2>1, <2>2
    <3> QED
      BY <3>1, <3>2 DEF Turned, n, N
  <2>3. CASE a <= n
    <3>1. record[a] = Quote
      BY <1>1, <1>6, <2>0, <2>1, <2>3
    <3>2. a = n \/ record[a + 1] # Quote
      <4>1. ASSUME a # n PROVE record[a + 1] # Quote
        <5>1. to \in 1 .. n /\ to <= N
          BY <1>1, <2>1, <2>3, <4>1
        <5> QED
          BY <1>5, <1>6, <1>7, <2>1, <5>1
      <4> QED
        BY <4>1
    <3>3. t = ParseState(a + 1, "closed", s.field, s.fields)
      BY <1>11, <2>0, <2>3, <3>1, <3>2, TurnQuoted DEF n, t
    <3>4. t.at = to /\ t.mode = "closed" /\ t.field = s.field /\ t.fields = s.fields
      BY <2>1, <3>3 DEF ParseState
    <3>5. InField(text, record, v, from, to, g, t)
      BY <1>1, <1>2, <1>11, <3>4 DEF InField, Reads, l
    <3> QED
      BY <3>4, <3>5 DEF Turned
  <2> QED
    BY <1>1, <2>1, <2>2, <2>3
\* The quote that opens it.
<1>12. ASSUME ~IsPlain(v), m = 0, s.mode = "open", s.at = from
       PROVE  Turned(text, record, v, from, to, g, s, t)
  <2>1. g[0] = from + 1 /\ text[from] = Quote /\ from + 1 <= to /\ 0 \in 0 .. l
    <3>1. 0 \in 0 .. l
      BY <1>1
    <3>2. g[0] \in from .. to
      BY <1>4, <3>1
    <3> QED
      BY <1>4, <1>12, <3>1, <3>2
  <2>2. CASE from > n
    <3>1. t.mode = "done" /\ t.fields = Append(s.fields, s.field)
      BY <1>12, <2>2, TurnOpen DEF n, t, ParseState
    <3>2. n < N
      BY <1>1, <1>7, <2>1, <2>2
    <3> QED
      BY <3>1, <3>2 DEF Turned, n, N
  <2>3. CASE from <= n
    <3>1. from \in 1 .. n
      BY <1>1, <2>3
    <3>2. record[from] = Quote
      BY <1>6, <2>1, <3>1
    <3>3. s.field = <<>>
      BY <1>2, <1>3, <1>12 DEF Starts
    <3>4. t = ParseState(from + 1, "quoted", s.field, s.fields)
      BY <1>12, <2>3, <3>2, <3>3, TurnOpen DEF n, t
    <3>5. t.at = g[0] /\ t.mode = "quoted" /\ t.field = s.field /\ t.fields = s.fields
      BY <2>1, <3>4 DEF ParseState
    <3>6. InField(text, record, v, from, to, g, t)
      BY <1>2, <1>12, <2>1, <3>5 DEF InField, Reads, l
    <3> QED
      BY <3>5, <3>6 DEF Turned
  <2> QED
    BY <1>1, <2>2, <2>3
\* Cut between the two quotes that stand for one.
<1>13. ASSUME s.mode = "closed", s.at = n + 1, n < N
       PROVE  Turned(text, record, v, from, to, g, s, t)
  <2>1. s.at > n
    BY <1>1, <1>13
  <2>2. t.mode = "done" /\ t.fields = Append(s.fields, s.field)
    BY <1>13, <2>1, TurnClosed DEF n, t, ParseState
  <2> QED
    BY <1>13, <2>2 DEF Turned, n, N
<1>14. CASE ~IsPlain(v) /\ m = 0 /\ s.mode = "open" /\ s.at = from
  BY <1>12, <1>14 DEF t
<1>15. CASE s.mode = (IF IsPlain(v) THEN "open" ELSE "quoted") /\ s.at = g[m]
  <2>1. CASE m # l
    BY <1>9, <1>15, <2>1 DEF t
  <2>2. CASE m = l /\ IsPlain(v)
    <3>1. s.mode = "open" /\ s.at = to
      BY <1>4, <1>15, <2>2
    <3> QED
      BY <1>2, <1>10, <2>2, <3>1 DEF t
  <2>3. CASE m = l /\ ~IsPlain(v)
    BY <1>11, <1>15, <2>3 DEF t
  <2> QED
    BY <2>1, <2>2, <2>3
<1>16. CASE s.mode = "closed" /\ ((m = l /\ s.at = to) \/ (s.at = n + 1 /\ n < N))
  BY <1>2, <1>10, <1>13, <1>16 DEF t
<1> QED
  BY <1>2, <1>14, <1>15, <1>16 DEF Reads, l, n, N

LEMMA FieldBegins ==
    ASSUME NEW text, NEW record, NEW v \in Texts, NEW from, NEW to, NEW g, FieldPlaces(text, v, from, to, g),
           NEW s, s.mode = "open", s.at = from, s.field = <<>>
    PROVE  InField(text, record, v, from, to, g, s)
<1>1. 0 \in 0 .. Len(v) /\ Starts(<<>>, v, 0)
  BY DEF Texts, Starts
<1>2. IsPlain(v) => g[0] = from
  BY DEF FieldPlaces
<1> QED
  BY <1>1, <1>2 DEF InField, Reads

\* The parser stands in a field of the line, the cells before it taken.
InLine(text, record, row, from, s) ==
    \E k \in 1 .. Width :
        /\ Starts(s.fields, row, k - 1)
        /\ \E g : /\ FieldPlaces(text, row[k], from[k], from[k + 1] - 1, g)
                  /\ InField(text, record, row[k], from[k], from[k + 1] - 1, g, s)

\* What it ends with: some of the cells, the last of them shortened if the record was cut.
Outcome(row, cut, fields) ==
    \E k \in 1 .. Width :
        /\ Len(fields) = k /\ \A j \in 1 .. k - 1 : fields[j] = row[j]
        /\ \E m \in 0 .. Len(row[k]) : Starts(fields[k], row[k], m)
        /\ cut \/ (k = Width /\ fields[k] = row[k])

ParsesLine(text, record, row, from, s) ==
    /\ s.mode = "malformed" => Len(record) < Len(text)
    /\ s.mode = "done" => Outcome(row, Len(record) < Len(text), s.fields)
    /\ s.mode \in {"open", "quoted", "closed"} => InLine(text, record, row, from, s)

\* A turn anywhere in a line, or in the first part of one.
LEMMA LineTurns ==
    ASSUME NEW row \in Row, NEW text \in Texts, NEW from, RowPlaces(text, row, from),
           NEW record \in Texts, Len(record) <= Len(text),
           \A i \in 1 .. Len(record) : record[i] = text[i],
           NEW s \in ParseStates, ParsesLine(text, record, row, from, s)
    PROVE  ParsesLine(text, record, row, from, ParseTurn(record, s))
<1> DEFINE t == ParseTurn(record, s)
<1>1. s.mode \in {"open", "quoted", "closed", "done", "malformed"}
  BY DEF ParseStates
<1>2. CASE s.mode \in {"done", "malformed"}
  BY <1>2 DEF ParseTurn
<1>3. CASE s.mode \in {"open", "quoted", "closed"}
  <2>1. PICK k \in 1 .. Width :
          /\ Starts(s.fields, row, k - 1)
          /\ \E g : /\ FieldPlaces(text, row[k], from[k], from[k + 1] - 1, g)
                    /\ InField(text, record, row[k], from[k], from[k + 1] - 1, g, s)
    BY <1>3 DEF ParsesLine, InLine
  <2> DEFINE v == row[k]
             a == from[k]
             j == k + 1
             to == from[j] - 1
             n == Len(record)
             N == Len(text)
  <2>2. PICK g : FieldPlaces(text, v, a, to, g) /\ InField(text, record, v, a, to, g, s)
    BY <2>1
  <2>3. /\ Width \in Nat /\ k \in Nat /\ k \in 1 .. Width + 1 /\ j \in 1 .. Width + 1
        /\ j - 1 = k /\ j = k + 1 /\ (k # Width => j \in 1 .. Width)
    BY WidthAssumption
  <2>4. v \in Texts /\ n \in Nat /\ N \in Nat /\ n <= N
    BY RowType DEF Texts
  <2>5. /\ from \in [1 .. Width + 1 -> Nat \ {0}] /\ from[Width + 1] = N + 2
        /\ a < from[j] /\ from[j] <= N + 2
        /\ k # Width => text[from[j] - 1] = Comma /\ from[j] <= N + 1
    BY DEF RowPlaces
  <2>6. a \in Nat \ {0} /\ from[j] \in Nat \ {0}
    BY <2>3, <2>5
  <2> HIDE DEF j
  <2>7. to \in Nat /\ to <= N + 1 /\ to + 1 = from[j] /\ (k # Width => to <= N)
    BY <2>4, <2>5, <2>6
  <2>8. ASSUME to <= N PROVE k # Width /\ text[to] = Comma
    <3>1. CASE k = Width
      <4>1. from[j] = N + 2
        BY <2>3, <2>5, <3>1
      <4> QED
        BY <2>4, <2>7, <2>8, <4>1
    <3> QED
      BY <2>5, <3>1
  <2> HIDE DEF v, a, to, n, N
  <2>9. Turned(text, record, v, a, to, g, s, t)
    BY <2>2, <2>4, <2>6, <2>7, <2>8, FieldTurns DEF n, N
  <2>10. PICK m \in 0 .. Len(v) : Starts(s.field, v, m)
    BY <2>2 DEF InField
  <2>11. s.fields \in Seq(Texts) /\ s.field \in Texts
    BY DEF ParseStates
  <2> DEFINE more == Append(s.fields, s.field)
  <2>12. /\ Len(more) = k /\ more[k] = s.field
         /\ \A i \in 1 .. k - 1 : more[i] = row[i]
    <3>1. Len(s.fields) = k - 1 /\ \A i \in 1 .. k - 1 : s.fields[i] = row[i]
      BY <2>1 DEF Starts
    <3>2. /\ Len(more) = Len(s.fields) + 1 /\ more[Len(s.fields) + 1] = s.field
          /\ \A i \in 1 .. Len(s.fields) : more[i] = s.fields[i]
      BY <2>11
    <3>3. k - 1 + 1 = k
      BY <2>3
    <3> HIDE DEF more
    <3> QED
      BY <3>1, <3>2, <3>3
  <2>13. Starts(s.field, v, Len(v)) => s.field = v
    BY <2>4, <2>11, StartsAll DEF Texts
  <2> HIDE DEF t, more
  <2>14. CASE t.mode = "malformed" /\ Len(record) < Len(text)
    BY <2>14 DEF ParsesLine, t
  <2>15. CASE t.mode \in {"open", "quoted", "closed"} /\ t.fields = s.fields /\ InField(text, record, v, a, to, g, t)
    <3>1. InLine(text, record, row, from, t)
      BY <2>1, <2>2, <2>15 DEF InLine, v, a, to, j
    <3> QED
      BY <2>15, <3>1 DEF ParsesLine, t
  <2>16. CASE t.mode = "done" /\ t.fields = more /\ (n < N \/ (to > n /\ Starts(s.field, v, Len(v))))
    <3>1. ASSUME ~(n < N) PROVE k = Width /\ s.field = v
      <4>1. n = N /\ to > N /\ Starts(s.field, v, Len(v))
        BY <2>4, <2>16, <3>1
      <4>2. k = Width
        BY <2>4, <2>7, <4>1
      <4> QED
        BY <2>13, <4>1, <4>2
    <3>2. Outcome(row, n < N, more)
      BY <2>10, <2>12, <3>1 DEF Outcome, v
    <3> QED
      BY <2>16, <3>2 DEF ParsesLine, t, n, N
  <2>17. CASE t = ParseState(to + 1, "open", <<>>, more) /\ to <= n /\ Starts(s.field, v, Len(v))
    <3>1. j \in 1 .. Width /\ to + 1 = from[j]
      BY <2>3, <2>4, <2>7, <2>8, <2>17
    <3>2. t.at = from[j] /\ t.mode = "open" /\ t.field = <<>> /\ t.fields = more
      BY <2>17, <3>1 DEF ParseState
    <3>3. PICK h : FieldPlaces(text, row[j], from[j], from[j + 1] - 1, h)
      BY <3>1 DEF RowPlaces, FieldStands
    <3>4. row[j] \in Texts
      BY <3>1, RowType
    <3>5. InField(text, record, row[j], from[j], from[j + 1] - 1, h, t)
      BY <3>2, <3>3, <3>4, FieldBegins
    <3>6. Starts(more, row, j - 1)
      <4>1. more[k] = row[k]
        BY <2>12, <2>13, <2>17 DEF v
      <4>2. \A i \in 1 .. k : i = k \/ i \in 1 .. k - 1
        BY <2>3
      <4>3. Len(more) = j - 1 /\ j - 1 = k
        BY <2>3, <2>12
      <4> QED
        BY <2>12, <4>1, <4>2, <4>3 DEF Starts
    <3>7. InLine(text, record, row, from, t)
      BY <3>1, <3>2, <3>3, <3>5, <3>6 DEF InLine
    <3> QED
      BY <3>2, <3>7 DEF ParsesLine, t
  <2> QED
    BY <2>9, <2>14, <2>15, <2>16, <2>17 DEF Turned, more, n, N
<1> QED
  BY <1>1, <1>2, <1>3

\* A line parses to its cells, a cut one to some of them or not at all.
LEMMA LineParses ==
    ASSUME NEW row \in Row, NEW record \in Texts, Len(record) <= Len(Body(row)),
           \A i \in 1 .. Len(record) : record[i] = Body(row)[i]
    PROVE  LET s == Parsed(record)
               cut == Len(record) < Len(Body(row))
           IN  /\ s \in ParseStates
               /\ \/ s.mode = "malformed" /\ cut
                  \/ s.mode = "done" /\ Outcome(row, cut, s.fields)
<1> DEFINE text == Body(row)
<1>1. PICK from : RowPlaces(text, row, from)
  BY BodyPlaces
<1>2. text \in Texts
  BY LineIs
<1> DEFINE G == {s \in ParseStates : ParsesLine(text, record, row, from, s)}
<1>3. Len(record) <= Len(text) /\ \A i \in 1 .. Len(record) : record[i] = text[i]
  OBVIOUS
<1> HIDE DEF text
<1>4. ParseStart \in G
  <2>1. ParseStart \in ParseStates
    BY DEF ParseStart, ParseStates, Texts
  <2>2. 1 \in 1 .. Width /\ 1 - 1 = 0
    BY WidthAssumption
  <2>3. PICK g : FieldPlaces(text, row[1], from[1], from[1 + 1] - 1, g)
    BY <1>1, <2>2 DEF RowPlaces, FieldStands
  <2>4. ParseStart.at = from[1] /\ ParseStart.mode = "open" /\ ParseStart.field = <<>> /\ ParseStart.fields = <<>>
    BY <1>1 DEF RowPlaces, ParseStart
  <2>5. row[1] \in Texts
    BY <2>2, RowType
  <2>6. InField(text, record, row[1], from[1], from[1 + 1] - 1, g, ParseStart)
    BY <2>3, <2>4, <2>5, FieldBegins
  <2>7. Starts(ParseStart.fields, row, 1 - 1)
    BY <2>2, <2>4 DEF Starts
  <2>8. InLine(text, record, row, from, ParseStart)
    BY <2>2, <2>3, <2>6, <2>7 DEF InLine
  <2> QED
    BY <2>1, <2>4, <2>8 DEF ParsesLine
<1>5. \A s \in ParseStates : s \in G => ParseTurn(record, s) \in G
  <2> SUFFICES ASSUME NEW s \in ParseStates, s \in G PROVE ParseTurn(record, s) \in G
    OBVIOUS
  <2>1. ParsesLine(text, record, row, from, s)
    OBVIOUS
  <2>2. ParsesLine(text, record, row, from, ParseTurn(record, s))
    BY <1>1, <1>2, <1>3, <2>1, LineTurns
  <2>3. ParseTurn(record, s) \in ParseStates
    BY ParseTurnType
  <2> QED
    BY <2>2, <2>3
<1> HIDE DEF G
<1>6. Parsed(record) \in G /\ Parsed(record) \in ParseStates /\ Parsed(record).mode \in {"done", "malformed"}
  BY <1>4, <1>5, ParseKeeps
<1>7. ParsesLine(text, record, row, from, Parsed(record))
  BY <1>6 DEF G
<1> QED
  BY <1>6, <1>7 DEF ParsesLine, text

-----------------------------------------------------------------------------
(***************************************************************************)
(* load_table_rows: record after record.                                   *)
(***************************************************************************)
LEMMA SubText ==
    ASSUME NEW text \in Texts, NEW a \in Nat \ {0}, NEW b \in Nat, a <= b + 1, b <= Len(text)
    PROVE  LET t == SubSeq(text, a, b)
           IN  t \in Texts /\ Len(t) = b - a + 1 /\ \A i \in 1 .. b - a + 1 : t[i] = text[a - 1 + i]
<1> DEFINE t == SubSeq(text, a, b)
<1>1. text \in Seq(Chars) /\ Len(text) \in Nat
  BY DEF Texts
<1>2. t \in Seq(Chars) /\ Len(t) = b - a + 1
  BY <1>1
<1>3. \A i \in 1 .. b - a + 1 : t[i] = text[a - 1 + i]
  BY <1>1
<1> QED
  BY <1>2, <1>3 DEF Texts

LEMMA ParsedType == ASSUME NEW record \in Texts PROVE Parsed(record) \in ParseStates
<1>1. ParseStart \in ParseStates
  BY DEF ParseStart, ParseStates, Texts
<1>2. \A s \in ParseStates : s \in ParseStates => ParseTurn(record, s) \in ParseStates
  BY ParseTurnType
<1> QED
  BY <1>1, <1>2, ParseKeeps

LoadStates == [at : Nat \ {0}, rows : Seq(Seq(Texts)), failed : BOOLEAN]

\* Where a record ends, and what is made of it.
LEMMA LoadTurnIs ==
    ASSUME NEW text \in Texts, NEW s \in LoadStates, ~s.failed, s.at <= Len(text)
    PROVE  LET end    == RecordEnd(text, s.at)
               parsed == Parsed(SubSeq(text, s.at, end - 1))
               t      == LoadTurn(text, s)
           IN  /\ t \in LoadStates
               /\ end = 0 => t.failed
               /\ end # 0 =>
                    /\ end \in s.at .. Len(text) + 1 /\ AfterRecord(text, end) \in {end + 1, end + 2}
                    /\ parsed \in ParseStates
                    /\ IF parsed.mode = "done" /\ Len(parsed.fields) = Width
                       THEN t = [at |-> AfterRecord(text, end), rows |-> Append(s.rows, parsed.fields),
                                 failed |-> FALSE]
                       ELSE t.failed
<1> DEFINE end == RecordEnd(text, s.at)
           parsed == Parsed(SubSeq(text, s.at, end - 1))
           t == LoadTurn(text, s)
<1>1. Len(text) \in Nat /\ s.at \in Nat \ {0} /\ s.at \in 1 .. Len(text) + 1 /\ s.rows \in Seq(Seq(Texts))
  BY DEF Texts, LoadStates
<1>2. end = 0 \/ end \in s.at .. Len(text) + 1
  BY <1>1, RecordStops
<1>3. ~(s.at > Len(text))
  BY <1>1
<1>4. t = IF end = 0 \/ parsed.mode # "done" \/ Len(parsed.fields) # Width
          THEN [s EXCEPT !.failed = TRUE]
          ELSE [at |-> AfterRecord(text, end), rows |-> Append(s.rows, parsed.fields), failed |-> FALSE]
  BY <1>3 DEF LoadTurn
<1>5. [s EXCEPT !.failed = TRUE] \in LoadStates /\ [s EXCEPT !.failed = TRUE].failed = TRUE
  BY DEF LoadStates
<1>6. CASE end = 0
  BY <1>4, <1>5, <1>6
<1>7. CASE end # 0
  <2>1. end \in s.at .. Len(text) + 1 /\ end - 1 \in Nat /\ s.at <= end - 1 + 1 /\ end - 1 <= Len(text)
    BY <1>1, <1>2, <1>7
  <2>2. SubSeq(text, s.at, end - 1) \in Texts
    BY <1>1, <2>1, SubText
  <2>3. parsed \in ParseStates
    BY <2>2, ParsedType
  <2>4. AfterRecord(text, end) \in {end + 1, end + 2} /\ AfterRecord(text, end) \in Nat \ {0}
    BY <2>1 DEF AfterRecord
  <2>5. Append(s.rows, parsed.fields) \in Seq(Seq(Texts))
    BY <1>1, <2>3 DEF ParseStates
  <2> HIDE DEF end, parsed, t
  <2>6. t \in LoadStates
    BY <1>4, <1>5, <2>4, <2>5 DEF LoadStates
  <2> QED
    BY <1>4, <1>5, <1>7, <2>1, <2>3, <2>4, <2>6 DEF end, parsed, t
<1> QED
  BY <1>6, <1>7

LEMMA LoadTurnType ==
    ASSUME NEW text \in Texts, NEW s \in LoadStates PROVE LoadTurn(text, s) \in LoadStates
<1>1. CASE s.failed \/ s.at > Len(text)
  BY <1>1 DEF LoadTurn
<1>2. CASE ~(s.failed \/ s.at > Len(text))
  <2>1. s.at <= Len(text) /\ ~s.failed
    BY <1>2 DEF LoadStates, Texts
  <2> QED
    BY <2>1, LoadTurnIs
<1> QED
  BY <1>1, <1>2

\* The loop of load_table_rows.
LEMMA LoadLoop ==
    ASSUME NEW text \in Texts
    PROVE  \E f \in [0 .. Len(text) -> LoadStates] :
             /\ f[0] = LoadStart
             /\ \A n \in 1 .. Len(text) : f[n] = LoadTurn(text, f[n - 1])
             /\ Load(text) = f[Len(text)]
<1> DEFINE N == Len(text)
           S == LoadStates
           a == LoadStart
           Is(g) == g = [n \in 0 .. N |-> IF n = 0 THEN a ELSE LoadTurn(text, g[n - 1])]
           step == [n \in 1 .. N |-> [s \in S |-> LoadTurn(text, s)]]
<1>1. N \in Nat /\ a \in S
  BY LenProperties DEF Texts, LoadStates, LoadStart
<1>2. \A s \in S : LoadTurn(text, s) \in S
  BY LoadTurnType
<1>3. step \in [1 .. N -> [S -> S]]
  BY <1>2
<1>4. Load(text) = LET f == CHOOSE h : Is(h) IN f[N]
  BY DEF Load
<1> HIDE DEF N, S, a
<1>5. PICK g \in [0 .. N -> S] : g[0] = a /\ \A n \in 1 .. N : g[n] = step[n][g[n - 1]]
  <2> HIDE DEF step
  <2>1. \E g : Iterate(g, step, S, a, N)
    BY <1>1, <1>3, Iterates
  <2> QED
    BY <2>1 DEF Iterate
<1>6. \A n \in 0 .. N : n = 0 \/ (n \in 1 .. N /\ n - 1 \in 0 .. N)
  BY <1>1
<1>7. Is(g)
  <2>1. g = [n \in 0 .. N |-> g[n]]
    BY <1>5
  <2>2. \A n \in 0 .. N : g[n] = IF n = 0 THEN a ELSE LoadTurn(text, g[n - 1])
    BY <1>5, <1>6
  <2> QED
    BY <2>1, <2>2
<1> DEFINE f == CHOOSE h : Is(h)
<1>8. Is(f)
  BY <1>7
<1> HIDE DEF f
<1>9. 0 \in 0 .. N /\ \A n \in 1 .. N : n \in 0 .. N /\ n # 0
  BY <1>1
<1>10. f[0] = a /\ \A n \in 1 .. N : f[n] = LoadTurn(text, f[n - 1])
  BY <1>8, <1>9
<1>11. \A n \in 0 .. N : f[n] \in S
  <2> DEFINE Good == {n \in 0 .. N : f[n] \in S}
  <2>1. 0 \in Good
    BY <1>1, <1>9, <1>10
  <2>2. ASSUME NEW n \in 0 .. N - 1, n \in Good PROVE n + 1 \in Good
    <3>1. n + 1 \in 1 .. N /\ n + 1 - 1 = n
      BY <1>1
    <3> QED
      BY <1>2, <1>9, <1>10, <2>2, <3>1
  <2> HIDE DEF Good
  <2>3. \A n \in 0 .. N : n \in Good
    BY <1>1, <2>1, <2>2, UpTo
  <2> QED
    BY <2>3 DEF Good
<1>12. f \in [0 .. N -> S]
  BY <1>8, <1>11
<1> QED
  BY <1>4, <1>10, <1>12 DEF f, N, S, a

\* A text that ends inside quotes is refused.
LEMMA BrokenLoads ==
    ASSUME NEW text \in Texts, NEW q, Inside(text, q), ~q[0], q[Len(text)]
    PROVE  Load(text).failed
<1> DEFINE N == Len(text)
<1>1. N \in Nat
  BY DEF Texts
<1>2. PICK f \in [0 .. N -> LoadStates] :
        /\ f[0] = LoadStart
        /\ \A n \in 1 .. N : f[n] = LoadTurn(text, f[n - 1])
        /\ Load(text) = f[N]
  BY LoadLoop
<1>3. q \in [0 .. N -> BOOLEAN] /\ \A n \in 1 .. N : q[n] = IF text[n] = Quote THEN ~q[n - 1] ELSE q[n - 1]
  BY DEF Inside
<1>4. q[N] /\ ~q[0]
  OBVIOUS
<1> HIDE DEF N
<1> DEFINE Fine(s, n) == s.failed \/ (s.at \in n + 1 .. N + 1 /\ ~q[s.at - 1])
           Good == {n \in 0 .. N : Fine(f[n], n)}
<1>5. 0 \in Good
  <2>1. f[0].at = 1
    BY <1>2 DEF LoadStart
  <2>2. 1 - 1 = 0 /\ 1 \in 0 + 1 .. N + 1 /\ 0 \in 0 .. N
    BY <1>1
  <2> QED
    BY <1>4, <2>1, <2>2
<1>6. ASSUME NEW n \in 0 .. N - 1, n \in Good PROVE n + 1 \in Good
  <2> DEFINE k == n + 1
             s == f[n]
             t == f[k]
  <2>1. k \in 1 .. N /\ k - 1 = n /\ n \in 0 .. N /\ k \in 0 .. N /\ k = n + 1 /\ n \in Nat /\ k \in Nat
    BY <1>1
  <2>2. Fine(s, n)
    BY <1>6
  <2> HIDE DEF k, Good
  <2>3. t = LoadTurn(text, s) /\ s \in LoadStates
    BY <1>2, <2>1
  <2> HIDE DEF s, t
  <2>4. ASSUME ~s.failed PROVE Fine(t, k)
    <3>1. s.at \in k .. N + 1 /\ ~q[s.at - 1]
      BY <2>1, <2>2, <2>4
    <3>2. s.at # N + 1
      <4>1. ASSUME s.at = N + 1 PROVE FALSE
        <5>1. s.at - 1 = N
          BY <1>1, <4>1
        <5> QED
          BY <1>4, <3>1, <5>1
      <4> QED
        BY <4>1
    <3>3. s.at \in 1 .. N + 1 /\ s.at <= N /\ s.at \in Nat /\ k <= s.at
      BY <1>1, <2>1, <3>1, <3>2
    <3> DEFINE e == RecordEnd(text, s.at)
               a == AfterRecord(text, e)
    <3>4. e # 0 => ~q[e - 1] /\ (e <= N => text[e] \in LineEnds)
      BY <3>1, <3>3, RecordStops DEF N
    <3>5. /\ e = 0 => t.failed
          /\ e # 0 => e \in s.at .. N + 1 /\ a \in {e + 1, e + 2} /\ (t.failed \/ t.at = a)
      BY <2>3, <2>4, <3>3, LoadTurnIs DEF N
    <3>6. (e < N /\ text[e] = "\r" /\ text[e + 1] = "\n") \/ a = e + 1
      BY DEF AfterRecord, N
    <3> HIDE DEF e, a
    <3>7. ASSUME e # 0, ~t.failed PROVE a \in k + 1 .. N + 1 /\ ~q[a - 1]
      <4>1. e \in s.at .. N + 1 /\ ~q[e - 1]
        BY <3>4, <3>5, <3>7
      <4>2. e # N + 1
        <5>1. ASSUME e = N + 1 PROVE FALSE
          <6>1. e - 1 = N
            BY <1>1, <5>1
          <6> QED
            BY <1>4, <4>1, <6>1
        <5> QED
          BY <5>1
      <4>3. e \in 1 .. N /\ e >= k /\ e \in Nat
        BY <1>1, <2>1, <3>3, <4>1, <4>2
      <4>4. text[e] # Quote
        <5>1. e <= N /\ Quote \notin LineEnds
          BY <1>1, <4>3 DEF LineEnds, Quote
        <5> QED
          BY <3>4, <3>7, <5>1
      <4>5. ~q[e]
        BY <1>3, <4>1, <4>3, <4>4
      <4>6. CASE a = e + 1
        <5>1. a - 1 = e /\ a \in k + 1 .. N + 1
          BY <1>1, <2>1, <4>3, <4>6
        <5> QED
          BY <4>5, <5>1
      <4>7. CASE a # e + 1
        <5>1. e < N /\ text[e + 1] = "\n" /\ a = e + 2
          BY <3>5, <3>6, <3>7, <4>7
        <5> DEFINE d == e + 1
        <5>2. d \in 1 .. N /\ d - 1 = e /\ a - 1 = d /\ a \in k + 1 .. N + 1 /\ text[d] # Quote
          BY <1>1, <2>1, <4>3, <5>1 DEF Quote
        <5> HIDE DEF d
        <5>3. ~q[d]
          BY <1>3, <4>5, <5>2
        <5> QED
          BY <5>2, <5>3
      <4> QED
        BY <4>6, <4>7
    <3> QED
      BY <3>5, <3>7 DEF Fine
  <2>5. Fine(t, k)
    <3>1. CASE s.failed
      BY <2>3, <3>1 DEF LoadTurn
    <3> QED
      BY <2>4, <3>1
  <2> QED
    BY <2>1, <2>5 DEF Good, t, k
<1> HIDE DEF Good
<1>7. \A n \in 0 .. N : n \in Good
  BY <1>1, <1>5, <1>6, UpTo
<1> DEFINE s == f[N]
<1>8. Fine(s, N)
  <2>1. N \in 0 .. N
    BY <1>1
  <2> QED
    BY <1>7, <2>1 DEF Good
<1> HIDE DEF s
<1>9. s.failed
  <2>1. ASSUME ~s.failed PROVE FALSE
    <3>1. s.at = N + 1
      BY <1>1, <1>8, <2>1
    <3>2. s.at - 1 = N
      BY <1>1, <3>1
    <3> QED
      BY <1>4, <1>8, <2>1, <3>2
  <2> QED
    BY <2>1
<1> QED
  BY <1>2, <1>9 DEF s

\* A record ends at the first line end outside of quotes.
LEMMA RecordBetween ==
    ASSUME NEW text \in Texts, NEW q, Inside(text, q), NEW start \in 1 .. Len(text) + 1, ~q[start - 1],
           NEW stop \in start .. Len(text), text[stop] = "\n", ~q[stop - 1],
           Sealed(text, q, start, stop - 1)
    PROVE  RecordEnd(text, start) = stop /\ AfterRecord(text, stop) = stop + 1
<1> DEFINE e == RecordEnd(text, start)
           N == Len(text)
<1>1. /\ e = 0 \/ e \in start .. N + 1
      /\ IF e = 0 THEN q[N] /\ Sealed(text, q, start, N)
         ELSE ~q[e - 1] /\ Sealed(text, q, start, e - 1) /\ (e <= N => text[e] \in LineEnds)
  BY RecordStops
<1>2. N \in Nat /\ stop \in start .. N /\ start \in Nat /\ start > 0
  BY DEF Texts
<1>3. text[stop] \in LineEnds /\ text[stop] # "\r"
  BY DEF LineEnds
<1> HIDE DEF e, N
<1>4. e # 0
  BY <1>1, <1>2, <1>3 DEF Sealed
<1>5. ~(e > stop)
  <2>1. e > stop => stop \in start .. e - 1
    BY <1>1, <1>2, <1>4
  <2> QED
    BY <1>1, <1>3, <1>4, <2>1 DEF Sealed
<1>6. ~(e < stop)
  <2>1. e < stop => e \in start .. stop - 1 /\ e <= N
    BY <1>1, <1>2, <1>4
  <2> QED
    BY <1>1, <1>4, <2>1 DEF Sealed
<1>7. e = stop
  BY <1>1, <1>2, <1>4, <1>5, <1>6
<1> QED
  BY <1>3, <1>7 DEF e, AfterRecord

\* The last record ends with the text.
LEMMA RecordToEnd ==
    ASSUME NEW text \in Texts, NEW q, Inside(text, q), NEW start \in 1 .. Len(text), ~q[start - 1],
           ~q[Len(text)], Sealed(text, q, start, Len(text))
    PROVE  RecordEnd(text, start) = Len(text) + 1 /\ AfterRecord(text, Len(text) + 1) = Len(text) + 2
<1> DEFINE e == RecordEnd(text, start)
           N == Len(text)
<1>1. N \in Nat /\ start \in Nat /\ start > 0 /\ start \in 1 .. N + 1
  BY DEF Texts
<1>2. /\ e = 0 \/ e \in start .. N + 1
      /\ IF e = 0 THEN q[N]
         ELSE ~q[e - 1] /\ (e <= N => text[e] \in LineEnds)
  BY <1>1, RecordStops
<1>3. ~q[N] /\ Sealed(text, q, start, N)
  OBVIOUS
<1>4. AfterRecord(text, N + 1) = N + 1 + 1
  BY <1>1 DEF AfterRecord
<1> HIDE DEF e, N
<1>5. e = N + 1
  <2>1. CASE e <= N
    <3>1. e \in start .. N /\ text[e] \in LineEnds /\ ~q[e - 1]
      BY <1>1, <1>2, <1>3, <2>1
    <3> QED
      BY <1>3, <3>1 DEF Sealed
  <2> QED
    BY <1>1, <1>2, <1>3, <2>1
<1> QED
  BY <1>1, <1>4, <1>5 DEF e, N

-----------------------------------------------------------------------------
(***************************************************************************)
(* The records of a file: st[k] is where the record of written row k       *)
(* starts.  Each ends with a line end outside of quotes and has no other;  *)
(* the one a cut was joined to (row cut + 1) may hold anything else.       *)
(***************************************************************************)
Stands(text, a, body, l) == \A i \in 1 .. l : text[a - 1 + i] = body[i]

Segment(text, q, a, b) ==
    a < b /\ text[b - 1] = "\n" /\ Sealed(text, q, a, b - 2)

Exact(text, a, b, row) ==
    Len(Body(row)) = b - 1 - a /\ Stands(text, a, Body(row), Len(Body(row)))

\* What a cut leaves with nothing behind it: the first characters of a line.
CutTail(text, q, a, row) ==
    /\ a <= Len(text) /\ Sealed(text, q, a, Len(text))
    /\ Len(text) - a + 1 <= Len(Body(row))
    /\ Stands(text, a, Body(row), Len(text) - a + 1)

Segments(text, written, cut, q, st) ==
    LET last == st[Len(written) + 1]
    IN  /\ Inside(text, q) /\ ~q[Len(text)]
        /\ st \in [1 .. Len(written) + 1 -> 1 .. Len(text) + 1] /\ st[1] = 1
        /\ \A k \in 1 .. Len(written) + 1 : ~q[st[k] - 1]
        /\ \A k \in 1 .. Len(written) :
             /\ Segment(text, q, st[k], st[k + 1])
             /\ k # cut + 1 => Exact(text, st[k], st[k + 1], written[k])
        /\ cut = Len(written) => \E row \in Row : CutTail(text, q, last, row)
        /\ cut # Len(written) => last = Len(text) + 1

\* What is read back of a record of a row that was written whole, and of a tail.
LEMMA WholeParses ==
    ASSUME NEW row \in Row, NEW record \in Texts, Len(record) = Len(Body(row)),
           \A i \in 1 .. Len(record) : record[i] = Body(row)[i]
    PROVE  LET s == Parsed(record)
           IN  s.mode = "done" /\ Len(s.fields) = Width /\ s.fields = row
<1> DEFINE s == Parsed(record)
           cut == Len(record) < Len(Body(row))
<1>1. Len(record) \in Nat
  BY DEF Texts
<1>2. ~cut /\ Len(record) <= Len(Body(row))
  BY <1>1
<1>3. s \in ParseStates /\ ((s.mode = "malformed" /\ cut) \/ (s.mode = "done" /\ Outcome(row, cut, s.fields)))
  BY <1>2, LineParses
<1> HIDE DEF s, cut
<1>4. PICK k \in 1 .. Width :
        /\ Len(s.fields) = k /\ \A j \in 1 .. k - 1 : s.fields[j] = row[j]
        /\ cut \/ (k = Width /\ s.fields[k] = row[k])
  BY <1>2, <1>3 DEF Outcome
<1>5. Len(s.fields) = Width /\ \A j \in 1 .. Width : s.fields[j] = row[j]
  <2>1. k = Width /\ s.fields[Width] = row[Width]
    BY <1>2, <1>4
  <2>2. \A j \in 1 .. Width : j = Width \/ j \in 1 .. Width - 1
    BY WidthAssumption
  <2> QED
    BY <1>4, <2>1, <2>2
<1>6. s.fields \in Seq(Texts) /\ row \in Seq(Texts) /\ Len(row) = Width
  BY <1>3, RowType DEF ParseStates
<1>7. Starts(s.fields, row, Len(row))
  BY <1>5, <1>6 DEF Starts
<1>8. s.fields = row
  BY <1>6, <1>7, StartsAll
<1> QED
  BY <1>2, <1>3, <1>5, <1>8 DEF s

\* What is read of the first part of a line, if it is read, is a shortened row.
LEMMA CutParses ==
    ASSUME NEW row \in Row, NEW record \in Texts, Len(record) <= Len(Body(row)),
           \A i \in 1 .. Len(record) : record[i] = Body(row)[i],
           Parsed(record).mode = "done", Len(Parsed(record).fields) = Width
    PROVE  ShortenedRow(Parsed(record).fields)
<1> DEFINE f == Parsed(record).fields
           cut == Len(record) < Len(Body(row))
<1>1. Outcome(row, cut, f) /\ f \in Seq(Texts) /\ Len(f) = Width
  <2>1. Parsed(record) \in ParseStates /\ (Parsed(record).mode = "malformed" \/ Outcome(row, cut, f))
    BY LineParses
  <2> QED
    BY <2>1 DEF ParseStates
<1> HIDE DEF f, cut
<1>2. PICK k \in 1 .. Width :
        /\ Len(f) = k /\ \A j \in 1 .. k - 1 : f[j] = row[j]
        /\ \E m \in 0 .. Len(row[k]) : Starts(f[k], row[k], m)
  BY <1>1 DEF Outcome
<1>3. k = Width
  BY <1>1, <1>2
<1>4. PICK m \in 0 .. Len(row[Width]) : Starts(f[Width], row[Width], m)
  BY <1>2, <1>3
<1> DEFINE x == f[Width]
           y == row[Width]
<1>5. x \in Texts /\ y \in Texts
  <2>1. Width \in 1 .. Width
    BY WidthAssumption
  <2> QED
    BY <1>1, <2>1, RowType
<1> HIDE DEF x, y
<1>6. Len(x) = m /\ (\A i \in 1 .. m : x[i] = y[i]) /\ m \in 0 .. Len(y) /\ Len(y) \in Nat
  BY <1>4, <1>5 DEF Starts, x, y, Texts
<1>7. IsPrefix(x, y)
  <2> DEFINE xs == SubSeq(x, 1, m)
             ys == SubSeq(y, 1, m)
  <2>1. 1 <= m + 1 /\ m <= Len(x) /\ m <= Len(y) /\ m \in Nat /\ m - 1 + 1 = m /\ \A i \in 1 .. m : 1 - 1 + i = i
    BY <1>6
  <2>2. /\ xs \in Texts /\ Len(xs) = m - 1 + 1 /\ \A i \in 1 .. m - 1 + 1 : xs[i] = x[1 - 1 + i]
        /\ ys \in Texts /\ Len(ys) = m - 1 + 1 /\ \A i \in 1 .. m - 1 + 1 : ys[i] = y[1 - 1 + i]
    BY <1>5, <2>1, SubText
  <2> HIDE DEF xs, ys
  <2>3. Len(xs) = m /\ Len(ys) = m /\ \A i \in 1 .. m : xs[i] = ys[i]
    BY <1>6, <2>1, <2>2
  <2>4. Starts(xs, ys, Len(ys))
    BY <2>3 DEF Starts
  <2>5. xs = ys
    BY <2>2, <2>4, StartsAll DEF Texts
  <2> QED
    BY <1>6, <2>5 DEF IsPrefix, xs, ys
<1>8. \A n \in 1 .. Width - 1 : f[n] = row[n]
  BY <1>2, <1>3
<1> QED
  BY <1>7, <1>8 DEF ShortenedRow, f, x, y

\* A turn of load_table_rows at the start of a record that a row was written to.
LEMMA SegmentLoads ==
    ASSUME NEW text \in Texts, NEW written \in Seq(Row), NEW cut, NEW q, NEW st,
           Segments(text, written, cut, q, st), NEW k \in 1 .. Len(written),
           NEW s \in LoadStates, ~s.failed, s.at = st[k]
    PROVE  LET t == LoadTurn(text, s)
           IN  /\ t.failed => k = cut + 1
               /\ ~t.failed =>
                    \E x \in Seq(Texts) :
                        /\ t = [at |-> st[k + 1], rows |-> Append(s.rows, x), failed |-> FALSE]
                        /\ k # cut + 1 => x = written[k]
<1> DEFINE t == LoadTurn(text, s)
           a == st[k]
           j == k + 1
           b == st[j]
           N == Len(text)
           stop == b - 1
           end == RecordEnd(text, s.at)
           record == SubSeq(text, s.at, end - 1)
           parsed == Parsed(record)
<1>1. k \in 1 .. Len(written) + 1 /\ j \in 1 .. Len(written) + 1 /\ j = k + 1 /\ N \in Nat
  BY DEF Texts
<1>2. /\ Inside(text, q) /\ st \in [1 .. Len(written) + 1 -> 1 .. N + 1]
      /\ \A i \in 1 .. Len(written) + 1 : ~q[st[i] - 1]
      /\ Segment(text, q, a, b)
      /\ k # cut + 1 => Exact(text, a, b, written[k])
  BY DEF Segments
<1> HIDE DEF j
<1>3. a \in 1 .. N + 1 /\ b \in 1 .. N + 1 /\ ~q[a - 1] /\ ~q[b - 1]
  BY <1>1, <1>2
<1>4. a < b /\ text[b - 1] = "\n" /\ Sealed(text, q, a, b - 2)
  BY <1>2 DEF Segment
<1> HIDE DEF a, b, N
<1>5. /\ stop \in a .. N /\ stop - 1 = b - 2 /\ stop + 1 = b /\ stop \in 1 .. N
      /\ a \in Nat \ {0} /\ stop \in Nat /\ stop \in Nat \ {0}
  BY <1>1, <1>3, <1>4
<1>6. text[stop] = "\n" /\ ~q[stop] /\ Sealed(text, q, a, stop - 1)
  BY <1>3, <1>4, <1>5
<1> HIDE DEF stop
<1>7. ~q[stop - 1]
  <2>1. text[stop] # Quote
    BY <1>6 DEF Quote
  <2>2. q[stop] = IF text[stop] = Quote THEN ~q[stop - 1] ELSE q[stop - 1]
    BY <1>2, <1>5 DEF Inside, N
  <2> QED
    BY <1>6, <2>1, <2>2
<1>8. end = stop /\ AfterRecord(text, end) = b
  <2>1. RecordEnd(text, a) = stop /\ AfterRecord(text, stop) = stop + 1
    BY <1>2, <1>3, <1>5, <1>6, <1>7, RecordBetween DEF N
  <2> QED
    BY <1>5, <2>1 DEF a
<1>9. s.at <= Len(text) /\ end # 0 /\ s.at = a
  BY <1>1, <1>5, <1>8 DEF a, N
<1>10. /\ parsed \in ParseStates
       /\ IF parsed.mode = "done" /\ Len(parsed.fields) = Width
          THEN t = [at |-> AfterRecord(text, end), rows |-> Append(s.rows, parsed.fields), failed |-> FALSE]
          ELSE t.failed
  BY <1>9, LoadTurnIs
<1>11. parsed.fields \in Seq(Texts)
  BY <1>10 DEF ParseStates
<1>12. ASSUME k # cut + 1
       PROVE  parsed.mode = "done" /\ Len(parsed.fields) = Width /\ parsed.fields = written[k]
  <2> DEFINE row == written[k]
             l == stop - 1
  <2>1. row \in Row
    OBVIOUS
  <2>2. Len(Body(row)) = b - 1 - a /\ Stands(text, a, Body(row), Len(Body(row)))
    BY <1>2, <1>12 DEF Exact
  <2>3. record = SubSeq(text, a, l) /\ l \in Nat /\ a <= l + 1 /\ l <= Len(text) /\ l - a + 1 = b - 1 - a
    BY <1>1, <1>3, <1>5, <1>8, <1>9 DEF N
  <2> HIDE DEF row, l, record
  <2>4. record \in Texts /\ Len(record) = l - a + 1 /\ \A i \in 1 .. l - a + 1 : record[i] = text[a - 1 + i]
    BY <1>5, <2>3, SubText
  <2>5. Len(record) = Len(Body(row)) /\ \A i \in 1 .. Len(record) : record[i] = Body(row)[i]
    BY <2>2, <2>3, <2>4 DEF Stands
  <2> QED
    BY <2>1, <2>4, <2>5, WholeParses DEF row
<1> HIDE DEF t, parsed, end
<1>13. t.failed => k = cut + 1
  BY <1>10, <1>12
<1>14. ASSUME ~t.failed
       PROVE  t = [at |-> b, rows |-> Append(s.rows, parsed.fields), failed |-> FALSE]
  BY <1>8, <1>10, <1>14
<1> QED
  BY <1>11, <1>12, <1>13, <1>14 DEF t, b, j

\* Its turn at the part of a line that ends the file.
LEMMA TailLoads ==
    ASSUME NEW text \in Texts, NEW written \in Seq(Row), NEW cut, NEW q, NEW st,
           Segments(text, written, cut, q, st), cut = Len(written),
           NEW s \in LoadStates, ~s.failed, s.at = st[Len(written) + 1]
    PROVE  LET t == LoadTurn(text, s)
           IN  ~t.failed =>
                 \E x \in Seq(Texts) :
                     /\ t = [at |-> Len(text) + 2, rows |-> Append(s.rows, x), failed |-> FALSE]
                     /\ ShortenedRow(x)
<1> DEFINE t == LoadTurn(text, s)
           j == Len(written) + 1
           a == st[j]
           N == Len(text)
           end == RecordEnd(text, s.at)
           record == SubSeq(text, s.at, end - 1)
           parsed == Parsed(record)
<1>1. j \in 1 .. Len(written) + 1 /\ N \in Nat
  BY DEF Texts
<1>2. /\ Inside(text, q) /\ ~q[N] /\ st \in [1 .. Len(written) + 1 -> 1 .. N + 1]
      /\ \A i \in 1 .. Len(written) + 1 : ~q[st[i] - 1]
      /\ \E row \in Row : CutTail(text, q, a, row)
  BY DEF Segments
<1> HIDE DEF j
<1>3. a \in 1 .. N + 1 /\ ~q[a - 1]
  BY <1>1, <1>2
<1>4. PICK row \in Row : CutTail(text, q, a, row)
  BY <1>2
<1> HIDE DEF a, N
<1>5. /\ a <= N /\ Sealed(text, q, a, N) /\ N - a + 1 <= Len(Body(row))
      /\ Stands(text, a, Body(row), N - a + 1)
  BY <1>4 DEF CutTail, N
<1>6. a \in 1 .. N /\ a \in Nat \ {0} /\ a <= N + 1
  BY <1>1, <1>3, <1>5
<1>7. end = N + 1 /\ AfterRecord(text, end) = N + 2 /\ s.at = a
  <2>1. RecordEnd(text, a) = N + 1 /\ AfterRecord(text, N + 1) = N + 2
    BY <1>2, <1>3, <1>5, <1>6, RecordToEnd DEF N
  <2> QED
    BY <2>1 DEF a, j
<1>8. s.at <= Len(text) /\ end # 0 /\ end - 1 = N
  BY <1>1, <1>5, <1>7 DEF N
<1>9. /\ parsed \in ParseStates
      /\ IF parsed.mode = "done" /\ Len(parsed.fields) = Width
         THEN t = [at |-> AfterRecord(text, end), rows |-> Append(s.rows, parsed.fields), failed |-> FALSE]
         ELSE t.failed
  BY <1>8, LoadTurnIs
<1>10. parsed.fields \in Seq(Texts)
  BY <1>9 DEF ParseStates
<1>11. record = SubSeq(text, a, N)
  BY <1>7, <1>8
<1> HIDE DEF t, record
<1>12. record \in Texts /\ Len(record) = N - a + 1 /\ \A i \in 1 .. N - a + 1 : record[i] = text[a - 1 + i]
  <2>1. N <= Len(text)
    BY <1>1 DEF N
  <2> QED
    BY <1>1, <1>6, <1>11, <2>1, SubText
<1>13. Len(record) <= Len(Body(row)) /\ \A i \in 1 .. Len(record) : record[i] = Body(row)[i]
  BY <1>5, <1>12 DEF Stands
<1>14. parsed.mode = "done" /\ Len(parsed.fields) = Width => ShortenedRow(parsed.fields)
  BY <1>12, <1>13, CutParses
<1> HIDE DEF parsed, end
<1>15. ASSUME ~t.failed
       PROVE  /\ t = [at |-> N + 2, rows |-> Append(s.rows, parsed.fields), failed |-> FALSE]
              /\ ShortenedRow(parsed.fields)
  BY <1>7, <1>9, <1>14, <1>15
<1> QED
  BY <1>10, <1>15 DEF t, N

\* What n turns of the loop have made of the first n records.
LoadedTo(written, cut, n, s) ==
    /\ Len(s.rows) = n
    /\ \A k \in 1 .. n : k # cut + 1 => s.rows[k] = written[k]

\* All of the file read.
LoadedAll(written, cut, s) ==
    /\ Len(s.rows) = Len(written) + (IF cut = Len(written) THEN 1 ELSE 0)
    /\ \A k \in 1 .. Len(written) : k # cut + 1 => s.rows[k] = written[k]
    /\ cut = Len(written) => ShortenedRow(s.rows[Len(written) + 1])

\* All its turns: what load_table_rows returns for a file of such records.
LEMMA SegmentsLoad ==
    ASSUME NEW text \in Texts, NEW written \in Seq(Row), NEW cut \in -1 .. Len(written), NEW q, NEW st,
           Segments(text, written, cut, q, st)
    PROVE  LET s == Load(text)
           IN  /\ s.rows \in Seq(Seq(Texts))
               /\ s.failed => cut # -1
               /\ ~s.failed => LoadedAll(written, cut, s)
<1> DEFINE N == Len(text)
           L == Len(written)
<1>1. N \in Nat /\ L \in Nat /\ cut \in Int /\ L + 1 \in 1 .. L + 1
  BY DEF Texts
<1>2. PICK f \in [0 .. N -> LoadStates] :
        /\ f[0] = LoadStart
        /\ \A n \in 1 .. N : f[n] = LoadTurn(text, f[n - 1])
        /\ Load(text) = f[N]
  BY LoadLoop
<1>3. /\ st \in [1 .. L + 1 -> 1 .. N + 1] /\ st[1] = 1
      /\ \A k \in 1 .. L : st[k] < st[k + 1]
      /\ cut = L => st[L + 1] <= N
      /\ cut # L => st[L + 1] = N + 1
  BY DEF Segments, Segment, CutTail
<1> HIDE DEF N, L
<1>4. \A n \in 0 .. L : n + 1 \in 1 .. L + 1 /\ n < st[n + 1]
  <2> DEFINE Good == {n \in 0 .. L : n + 1 \in 1 .. L + 1 /\ n < st[n + 1]}
  <2>1. 0 \in Good
    <3>1. 0 + 1 = 1 /\ 0 \in 0 .. L /\ 1 \in 1 .. L + 1
      BY <1>1
    <3> QED
      BY <1>3, <3>1
  <2>2. ASSUME NEW n \in 0 .. L - 1, n \in Good PROVE n + 1 \in Good
    <3> DEFINE k == n + 1
               j == k + 1
    <3>1. k \in 1 .. L /\ k \in 1 .. L + 1 /\ j \in 1 .. L + 1 /\ k \in 0 .. L /\ j = k + 1 /\ k = n + 1 /\ n \in Nat
      BY <1>1
    <3>2. n < st[k]
      BY <2>2
    <3> HIDE DEF j, k, Good
    <3>3. st[k] \in Nat /\ st[j] \in Nat /\ st[k] < st[j]
      BY <1>3, <3>1
    <3>4. k < st[j]
      BY <3>1, <3>2, <3>3
    <3> QED
      BY <3>1, <3>4 DEF Good, k, j
  <2> HIDE DEF Good
  <2>3. \A n \in 0 .. L : n \in Good
    BY <1>1, <2>1, <2>2, UpTo
  <2> QED
    BY <2>3 DEF Good
<1>5. L <= N /\ (cut = L => L + 1 <= N)
  <2>1. L \in 0 .. L /\ st[L + 1] \in 1 .. N + 1
    BY <1>1, <1>3
  <2>2. L < st[L + 1]
    BY <1>4, <2>1
  <2> DEFINE x == st[L + 1]
  <2>3. x \in 1 .. N + 1 /\ L < x /\ (cut = L => x <= N)
    BY <1>3, <2>1, <2>2
  <2> HIDE DEF x
  <2> QED
    BY <1>1, <2>3
<1> DEFINE Along(s, n) == n <= L /\ s.at = st[n + 1] /\ LoadedTo(written, cut, n, s)
           Ended(s) == s.at > N /\ LoadedAll(written, cut, s)
           Fine(s, n) == IF s.failed THEN cut # -1 ELSE Along(s, n) \/ Ended(s)
           Good == {n \in 0 .. N : Fine(f[n], n)}
<1>6. 0 \in Good
  <2>1. f[0].at = 1 /\ f[0].rows = <<>> /\ f[0].failed = FALSE
    BY <1>2 DEF LoadStart
  <2>2. 0 + 1 = 1 /\ 0 \in 0 .. N /\ 0 <= L
    BY <1>1
  <2>3. LoadedTo(written, cut, 0, f[0])
    BY <2>1 DEF LoadedTo
  <2> QED
    BY <1>3, <2>1, <2>2, <2>3
<1>7. ASSUME NEW s \in LoadStates, NEW n \in 0 .. L - 1, ~s.failed, Along(s, n)
      PROVE  Fine(LoadTurn(text, s), n + 1)
  <2> DEFINE t == LoadTurn(text, s)
             k == n + 1
             j == k + 1
  <2>1. k \in 1 .. L /\ k <= L /\ k = n + 1 /\ n \in Nat /\ j = k + 1 /\ k - 1 = n
    BY <1>1
  <2>2. s.at = st[k] /\ Len(s.rows) = n /\ \A i \in 1 .. n : i # cut + 1 => s.rows[i] = written[i]
    BY <1>7 DEF LoadedTo
  <2> HIDE DEF k, j, t
  <2>3. /\ t.failed => k = cut + 1
        /\ ~t.failed =>
             \E x \in Seq(Texts) :
                 /\ t = [at |-> st[j], rows |-> Append(s.rows, x), failed |-> FALSE]
                 /\ k # cut + 1 => x = written[k]
    BY <1>7, <2>1, <2>2, SegmentLoads DEF t, L
  <2>4. CASE t.failed
    <3>1. cut # -1
      BY <1>1, <2>1, <2>3, <2>4
    <3> QED
      BY <2>4, <3>1 DEF t
  <2>5. CASE ~t.failed
    <3>1. PICK x \in Seq(Texts) :
            /\ t = [at |-> st[j], rows |-> Append(s.rows, x), failed |-> FALSE]
            /\ k # cut + 1 => x = written[k]
      BY <2>3, <2>5
    <3> DEFINE r == Append(s.rows, x)
    <3>2. s.rows \in Seq(Seq(Texts))
      BY DEF LoadStates
    <3>3. Len(r) = Len(s.rows) + 1 /\ r[Len(s.rows) + 1] = x /\ \A i \in 1 .. Len(s.rows) : r[i] = s.rows[i]
      BY <3>2
    <3>4. t.at = st[j] /\ t.rows = r
      BY <3>1
    <3> HIDE DEF r
    <3>5. Len(r) = k /\ r[k] = x /\ \A i \in 1 .. n : r[i] = s.rows[i]
      BY <2>1, <2>2, <3>3
    <3>6. \A i \in 1 .. k : i = k \/ i \in 1 .. n
      BY <2>1
    <3>7. LoadedTo(written, cut, k, t)
      <4>1. k # cut + 1 => r[k] = written[k]
        BY <3>1, <3>5
      <4>2. \A i \in 1 .. n : i # cut + 1 => r[i] = written[i]
        BY <2>2, <3>5
      <4>3. \A i \in 1 .. k : i # cut + 1 => r[i] = written[i]
        BY <3>6, <4>1, <4>2
      <4> QED
        BY <3>4, <3>5, <4>3 DEF LoadedTo
    <3>8. Along(t, k)
      BY <2>1, <3>4, <3>7 DEF j
    <3> QED
      BY <2>5, <3>8 DEF t, k
  <2> QED
    BY <2>4, <2>5
<1>8. ASSUME NEW s \in LoadStates, ~s.failed, Along(s, L), NEW n
      PROVE  Fine(LoadTurn(text, s), n)
  <2> DEFINE t == LoadTurn(text, s)
             a == st[L + 1]
  <2>1. s.at = a /\ Len(s.rows) = L /\ \A i \in 1 .. L : i # cut + 1 => s.rows[i] = written[i]
    BY <1>8 DEF LoadedTo
  <2>2. CASE cut # L
    <3>1. s.at > N
      BY <1>1, <1>3, <2>1, <2>2
    <3>2. t = s
      BY <3>1 DEF LoadTurn, N
    <3>3. LoadedAll(written, cut, s)
      BY <1>1, <2>1, <2>2 DEF LoadedAll, L
    <3> QED
      BY <1>8, <3>1, <3>2, <3>3
  <2>3. CASE cut = L
    <3> HIDE DEF t
    <3>1. cut # -1
      BY <1>1, <2>3
    <3>2. ~t.failed =>
            \E x \in Seq(Texts) :
                /\ t = [at |-> N + 2, rows |-> Append(s.rows, x), failed |-> FALSE]
                /\ ShortenedRow(x)
      BY <1>8, <2>1, <2>3, TailLoads DEF t, N, L
    <3>3. ASSUME ~t.failed PROVE Ended(t)
      <4>1. PICK x \in Seq(Texts) :
              /\ t = [at |-> N + 2, rows |-> Append(s.rows, x), failed |-> FALSE]
              /\ ShortenedRow(x)
        BY <3>2, <3>3
      <4> DEFINE r == Append(s.rows, x)
      <4>2. s.rows \in Seq(Seq(Texts))
        BY DEF LoadStates
      <4>3. Len(r) = Len(s.rows) + 1 /\ r[Len(s.rows) + 1] = x /\ \A i \in 1 .. Len(s.rows) : r[i] = s.rows[i]
        BY <4>2
      <4>4. t.at = N + 2 /\ t.rows = r
        BY <4>1
      <4> HIDE DEF r
      <4>5. LoadedAll(written, cut, t)
        BY <2>1, <2>3, <4>1, <4>3, <4>4 DEF LoadedAll, L
      <4>6. t.at > N
        BY <1>1, <4>4
      <4> QED
        BY <4>5, <4>6
    <3> QED
      BY <3>1, <3>3 DEF t
  <2> QED
    BY <2>2, <2>3
<1>9. ASSUME NEW n \in 0 .. N - 1, n \in Good PROVE n + 1 \in Good
  <2> DEFINE k == n + 1
             s == f[n]
             t == f[k]
  <2>1. k \in 1 .. N /\ k - 1 = n /\ n \in 0 .. N /\ k \in 0 .. N /\ k = n + 1 /\ n \in Nat
    BY <1>1
  <2>2. Fine(s, n)
    BY <1>9
  <2> HIDE DEF k, Good
  <2>3. t = LoadTurn(text, s) /\ s \in LoadStates
    BY <1>2, <2>1
  <2> HIDE DEF s, t
  <2>4. CASE s.failed \/ Ended(s)
    <3>1. t = s
      BY <2>3, <2>4 DEF LoadTurn, N
    <3>2. Fine(t, k)
      BY <2>2, <2>4, <3>1
    <3> HIDE DEF Fine
    <3> QED
      BY <2>1, <3>2 DEF Good, t, k
  <2>5. CASE ~s.failed /\ Along(s, n) /\ n # L
    <3>1. n \in 0 .. L - 1
      BY <1>1, <2>1, <2>5
    <3>2. Fine(LoadTurn(text, s), n + 1)
      BY <1>7, <2>3, <2>5, <3>1
    <3> HIDE DEF Fine
    <3> QED
      BY <2>1, <2>3, <3>2 DEF Good, t, k
  <2>6. CASE ~s.failed /\ Along(s, n) /\ n = L
    <3>1. Along(s, L)
      BY <2>6
    <3>2. Fine(LoadTurn(text, s), n + 1)
      BY <1>8, <2>3, <2>6, <3>1
    <3> HIDE DEF Fine
    <3> QED
      BY <2>1, <2>3, <3>2 DEF Good, t, k
  <2> QED
    BY <2>2, <2>4, <2>5, <2>6
<1> HIDE DEF Good
<1>10. \A n \in 0 .. N : n \in Good
  BY <1>1, <1>6, <1>9, UpTo
<1> DEFINE s == f[N]
<1>11. N \in 0 .. N /\ s \in LoadStates /\ Load(text) = s
  BY <1>1, <1>2
<1>12. Fine(s, N)
  BY <1>10, <1>11 DEF Good
<1> HIDE DEF s
<1>13. ASSUME ~s.failed PROVE LoadedAll(written, cut, s)
  <2>1. CASE Along(s, N)
    <3>1. N = L /\ cut # L
      BY <1>1, <1>5, <2>1
    <3> QED
      BY <1>1, <2>1, <3>1 DEF LoadedTo, LoadedAll, L
  <2> QED
    BY <1>12, <1>13, <2>1
<1>14. s.failed => cut # -1
  BY <1>12
<1> QED
  BY <1>11, <1>13, <1>14 DEF LoadStates

-----------------------------------------------------------------------------
(***************************************************************************)
(* What a write and a cut do to the records of the file.                   *)
(***************************************************************************)
LEMMA LineInside ==
    ASSUME NEW row \in Row
    PROVE  /\ Line(row) \in Texts /\ Body(row) \in Texts /\ Len(Line(row)) = Len(Body(row)) + 1
           /\ Line(row)[Len(Line(row))] = "\n" /\ Stands(Line(row), 1, Body(row), Len(Body(row)))
           /\ \E p : /\ Inside(Line(row), p) /\ ~p[0] /\ ~p[Len(Line(row))]
                     /\ Sealed(Line(row), p, 1, Len(Body(row)))
<1> DEFINE body == Body(row)
           line == Line(row)
           mark == <<"\n">>
           l == Len(body)
<1>1. line = body \o mark /\ body \in Texts /\ line \in Texts /\ mark \in Texts /\ Len(mark) = 1 /\ mark[1] = "\n"
  BY LineIs, Singles, FixedChars
<1>2. PICK b : PassesBy(body, b, FALSE, FALSE)
  BY BodyPasses DEF Passes
<1> DEFINE w == [n \in 0 .. 1 |-> FALSE]
<1>3. w \in [0 .. 1 -> BOOLEAN] /\ \A n \in 0 .. 1 : w[n] = FALSE
  OBVIOUS
<1> HIDE DEF body, line, mark, l, w
<1>4. Inside(mark, w)
  <2>1. \A n \in 1 .. 1 : n = 1 /\ n - 1 = 0
    OBVIOUS
  <2>2. mark[1] # Quote
    BY <1>1 DEF Quote
  <2> QED
    BY <1>1, <1>3, <2>1, <2>2 DEF Inside
<1>5. /\ Inside(body, b) /\ b[0] = FALSE /\ b[l] = FALSE
      /\ \A n \in 1 .. l : body[n] \in LineEnds => b[n - 1]
  BY <1>2 DEF PassesBy, Sealed, l
<1> DEFINE p == Join(b, w, l, 1)
<1>6. /\ Inside(line, p)
      /\ \A n \in 0 .. l : p[n] = b[n]
      /\ \A n \in 0 .. 1 : p[l + n] = w[n]
  <2>1. b[Len(body)] = w[0]
    <3>1. 0 \in 0 .. 1
      OBVIOUS
    <3>2. w[0] = FALSE
      BY <1>3, <3>1
    <3>3. b[Len(body)] = FALSE
      BY <1>5 DEF l
    <3> QED
      BY <3>2, <3>3
  <2>2. LET r == Join(b, w, Len(body), Len(mark))
        IN  /\ Inside(body \o mark, r)
            /\ \A n \in 0 .. Len(body) : r[n] = b[n]
            /\ \A n \in 0 .. Len(mark) : r[Len(body) + n] = w[n]
    <3>1. body \in Texts /\ mark \in Texts
      BY <1>1
    <3>2. Inside(body, b)
      BY <1>5
    <3> QED
      BY <1>4, <2>1, <3>1, <3>2, InsideOn
  <2> QED
    BY <1>1, <2>2 DEF l
<1> HIDE DEF p
<1>7. Len(line) = l + 1 /\ l \in Nat /\ line[l + 1] = "\n" /\ \A n \in 1 .. l : line[n] = body[n]
  <2>0. Len(mark) = 1 /\ mark[1] = "\n"
    BY <1>1
  <2>1. body \in Seq(Chars) /\ mark \in Seq(Chars)
    BY <1>1 DEF Texts
  <2>2. /\ Len(body \o mark) = Len(body) + Len(mark)
        /\ \A n \in 1 .. Len(body) : (body \o mark)[n] = body[n]
        /\ \A n \in 1 .. Len(mark) : (body \o mark)[Len(body) + n] = mark[n]
    BY <2>1, ConcatPlaces
  <2>3. l \in Nat
    BY <2>1 DEF l
  <2> QED
    BY <1>1, <2>0, <2>2, <2>3 DEF l
<1>8. ~p[0] /\ ~p[l + 1] /\ Sealed(line, p, 1, l)
  <2>1. 0 \in 0 .. l /\ \A n \in 1 .. l : n - 1 \in 0 .. l
    BY <1>7
  <2> QED
    BY <1>3, <1>5, <1>6, <1>7, <2>1 DEF Sealed
<1>9. Stands(line, 1, body, l)
  <2>1. \A i \in 1 .. l : 1 - 1 + i = i
    BY <1>7
  <2> QED
    BY <1>7, <2>1 DEF Stands
<1> QED
  BY <1>1, <1>6, <1>7, <1>8, <1>9 DEF l, body, line

LEMMA InsideNot ==
    ASSUME NEW text \in Texts, NEW q, Inside(text, q)
    PROVE  Inside(text, [n \in 0 .. Len(text) |-> ~q[n]])
<1> DEFINE p == [n \in 0 .. Len(text) |-> ~q[n]]
<1>1. \A n \in 1 .. Len(text) : n \in 0 .. Len(text) /\ n - 1 \in 0 .. Len(text)
  BY DEF Texts
<1>2. /\ q \in [0 .. Len(text) -> BOOLEAN]
      /\ \A n \in 1 .. Len(text) : q[n] = IF text[n] = Quote THEN ~q[n - 1] ELSE q[n - 1]
  BY DEF Inside
<1>3. p \in [0 .. Len(text) -> BOOLEAN] /\ \A n \in 0 .. Len(text) : p[n] = ~q[n]
  OBVIOUS
<1> HIDE DEF p
<1>4. \A n \in 1 .. Len(text) : p[n] = IF text[n] = Quote THEN ~p[n - 1] ELSE p[n - 1]
  BY <1>1, <1>2, <1>3
<1>5. Inside(text, p)
  BY <1>3, <1>4 DEF Inside
<1> QED
  BY <1>5 DEF p

\* Quotes are counted from the left: a cut does not change them.
LEMMA InsideCut ==
    ASSUME NEW text \in Texts, NEW q, Inside(text, q), NEW n \in 1 .. Len(text)
    PROVE  Inside(SubSeq(text, 1, n), [i \in 0 .. n |-> q[i]])
<1> DEFINE t == SubSeq(text, 1, n)
           p == [i \in 0 .. n |-> q[i]]
<1>1. /\ n \in Nat /\ 1 <= n + 1 /\ n <= Len(text) /\ n - 1 + 1 = n
      /\ \A i \in 1 .. n : 1 - 1 + i = i
      /\ Len(text) \in Nat
  BY DEF Texts
<1>2. t \in Texts /\ Len(t) = n - 1 + 1 /\ \A i \in 1 .. n - 1 + 1 : t[i] = text[1 - 1 + i]
  BY <1>1, SubText
<1>3. Len(t) = n /\ \A i \in 1 .. n : t[i] = text[i]
  BY <1>1, <1>2
<1>4. \A i \in 0 .. n : i \in 0 .. Len(text)
  BY <1>1
<1>5. /\ q \in [0 .. Len(text) -> BOOLEAN]
      /\ \A i \in 1 .. Len(text) : q[i] = IF text[i] = Quote THEN ~q[i - 1] ELSE q[i - 1]
  BY DEF Inside
<1>6. p \in [0 .. n -> BOOLEAN] /\ \A i \in 0 .. n : p[i] = q[i]
  BY <1>4, <1>5
<1> HIDE DEF t, p
<1>7. \A i \in 1 .. n : i \in 1 .. Len(text) /\ i \in 0 .. n /\ i - 1 \in 0 .. n
  BY <1>1
<1>8. \A i \in 1 .. n : p[i] = IF t[i] = Quote THEN ~p[i - 1] ELSE p[i - 1]
  BY <1>3, <1>5, <1>6, <1>7
<1>9. Inside(t, p)
  BY <1>3, <1>6, <1>8 DEF Inside
<1> QED
  BY <1>9 DEF t, p

\* A text that goes on as another.
Extends(text, q, more, r) ==
    /\ \A i \in 1 .. Len(text) : more[i] = text[i]
    /\ \A i \in 0 .. Len(text) : r[i] = q[i]

\* What is behind a record changes nothing in it.
LEMMA SegmentStays ==
    ASSUME NEW text, Len(text) \in Nat, NEW q, NEW more, NEW r, Extends(text, q, more, r),
           NEW a \in 1 .. Len(text) + 1, NEW b \in 1 .. Len(text) + 1, Segment(text, q, a, b)
    PROVE  Segment(more, r, a, b)
<1>1. a < b /\ text[b - 1] = "\n" /\ \A n \in a .. b - 2 : text[n] \in LineEnds => q[n - 1]
  BY DEF Segment, Sealed
<1>2. b - 1 \in 1 .. Len(text) /\ \A n \in a .. b - 2 : n \in 1 .. Len(text) /\ n - 1 \in 0 .. Len(text)
  BY <1>1
<1>3. (\A i \in 1 .. Len(text) : more[i] = text[i]) /\ \A i \in 0 .. Len(text) : r[i] = q[i]
  BY DEF Extends
<1> QED
  BY <1>1, <1>2, <1>3 DEF Segment, Sealed

LEMMA ExactStays ==
    ASSUME NEW text, Len(text) \in Nat, NEW q, NEW more, NEW r, Extends(text, q, more, r),
           NEW a \in 1 .. Len(text) + 1, NEW b \in 1 .. Len(text) + 1, NEW row, Exact(text, a, b, row)
    PROVE  Exact(more, a, b, row)
<1>1. Len(Body(row)) = b - 1 - a /\ \A i \in 1 .. Len(Body(row)) : text[a - 1 + i] = Body(row)[i]
  BY DEF Exact, Stands
<1>2. \A i \in 1 .. Len(Body(row)) : a - 1 + i \in 1 .. Len(text)
  BY <1>1
<1>3. \A i \in 1 .. Len(text) : more[i] = text[i]
  BY DEF Extends
<1>4. \A i \in 1 .. Len(Body(row)) : more[a - 1 + i] = Body(row)[i]
  BY <1>1, <1>2, <1>3
<1> QED
  BY <1>1, <1>4 DEF Exact, Stands

\* A row written behind the records is one more of them, or the end of the one that was cut.
LEMMA WriteKeeps ==
    ASSUME NEW text \in Texts, NEW written \in Seq(Row), NEW cut \in -1 .. Len(written), NEW q, NEW st,
           Segments(text, written, cut, q, st), NEW row \in Row
    PROVE  \E r, su : Segments(text \o Line(row), Append(written, row), cut, r, su)
<1> DEFINE line == Line(row)
           body == Body(row)
           more == text \o line
           rows2 == Append(written, row)
           m == Len(text)
           l == Len(line)
           L == Len(written)
           M == m + l
<1>1. /\ line \in Texts /\ Len(body) = l - 1 /\ l \in Nat /\ l > 0 /\ line[l] = "\n"
      /\ \A i \in 1 .. l - 1 : line[i] = body[i]
  <2>1. Len(body) \in Nat /\ l = Len(body) + 1 /\ line \in Texts
    BY LineInside DEF Texts
  <2>2. Stands(line, 1, body, Len(body)) /\ line[l] = "\n"
    BY LineInside
  <2>3. \A i \in 1 .. Len(body) : 1 - 1 + i = i
    BY <2>1
  <2> QED
    BY <2>1, <2>2, <2>3 DEF Stands
<1>2. PICK p : Inside(line, p) /\ ~p[0] /\ ~p[l] /\ Sealed(line, p, 1, l - 1)
  BY <1>1, LineInside
<1>3. Inside(text, q) /\ ~q[m]
  BY DEF Segments
<1>4. /\ more \in Texts /\ Len(more) = M /\ m \in Nat /\ M \in Nat
      /\ \A i \in 1 .. m : more[i] = text[i]
      /\ \A i \in 1 .. l : more[m + i] = line[i]
  <2>1. text \in Seq(Chars) /\ line \in Seq(Chars)
    BY <1>1 DEF Texts
  <2>2. /\ text \o line \in Seq(Chars) /\ Len(text \o line) = Len(text) + Len(line)
        /\ \A n \in 1 .. Len(text) : (text \o line)[n] = text[n]
        /\ \A n \in 1 .. Len(line) : (text \o line)[Len(text) + n] = line[n]
    BY <2>1, ConcatPlaces
  <2> QED
    BY <2>1, <2>2 DEF Texts
<1> DEFINE r == Join(q, p, m, l)
<1>5. /\ Inside(more, r)
      /\ \A n \in 0 .. m : r[n] = q[n]
      /\ \A n \in 0 .. l : r[m + n] = p[n]
  <2>1. q[Len(text)] = p[0]
    <3>1. q \in [0 .. Len(text) -> BOOLEAN] /\ p \in [0 .. l -> BOOLEAN]
      BY <1>2, <1>3 DEF Inside
    <3>2. Len(text) \in 0 .. Len(text) /\ 0 \in 0 .. l
      BY <1>1, <1>4
    <3>3. q[Len(text)] \in BOOLEAN /\ p[0] \in BOOLEAN
      BY <3>1, <3>2
    <3> QED
      BY <1>2, <1>3, <3>3
  <2>2. line \in Texts /\ Inside(line, p)
    BY <1>1, <1>2
  <2> HIDE DEF line
  <2> QED
    BY <1>3, <2>1, <2>2, InsideOn DEF l
<1>6. /\ rows2 \in Seq(Row) /\ Len(rows2) = L + 1 /\ rows2[L + 1] = row
      /\ \A k \in 1 .. L : rows2[k] = written[k]
      /\ L \in Nat
  OBVIOUS
<1> DEFINE last == st[L + 1]
<1>7. /\ st \in [1 .. L + 1 -> 1 .. m + 1] /\ st[1] = 1
      /\ \A k \in 1 .. L + 1 : ~q[st[k] - 1]
      /\ \A k \in 1 .. L :
           /\ Segment(text, q, st[k], st[k + 1])
           /\ k # cut + 1 => Exact(text, st[k], st[k + 1], written[k])
      /\ cut = L => Sealed(text, q, last, m)
      /\ cut # L => last = m + 1
  BY DEF Segments, CutTail
<1>8. Extends(text, q, more, r)
  BY <1>4, <1>5 DEF Extends
<1> DEFINE su == [k \in 1 .. L + 2 |-> IF k = L + 2 THEN M + 1 ELSE st[k]]
<1>9. /\ \A k \in 1 .. L + 1 : k \in 1 .. L + 2 /\ k # L + 2
      /\ L + 2 \in 1 .. L + 2 /\ 1 \in 1 .. L + 1 /\ L + 1 \in 1 .. L + 1 /\ L + 1 + 1 = L + 2
      /\ \A k \in 1 .. L + 2 : k = L + 2 \/ k \in 1 .. L + 1
      /\ \A k \in 1 .. L + 1 : k = L + 1 \/ k \in 1 .. L
      /\ \A k \in 1 .. L : k \in 1 .. L + 1 /\ k + 1 \in 1 .. L + 1
  BY <1>6
<1>10. (\A k \in 1 .. L + 1 : su[k] = st[k]) /\ su[L + 2] = M + 1
  BY <1>9
<1>11. su \in [1 .. L + 2 -> 1 .. M + 1]
  <2>1. \A i \in 1 .. m + 1 : i \in 1 .. M + 1
    BY <1>1, <1>4
  <2>2. M + 1 \in 1 .. M + 1
    BY <1>4
  <2> QED
    BY <1>7, <1>9, <2>1, <2>2
<1>12. last \in 1 .. m + 1
  BY <1>7, <1>9
<1> HIDE DEF line, body, more, rows2, m, l, L, M, r, su, last
<1>13. \A k \in 1 .. L + 2 : ~r[su[k] - 1]
  <2> SUFFICES ASSUME NEW k \in 1 .. L + 2 PROVE ~r[su[k] - 1]
    OBVIOUS
  <2>1. CASE k = L + 2
    <3>1. su[k] - 1 = m + l /\ l \in 0 .. l
      BY <1>1, <1>4, <1>10, <2>1 DEF M
    <3> QED
      BY <1>2, <1>5, <3>1
  <2>2. CASE k \in 1 .. L + 1
    <3> DEFINE a == st[k]
    <3>1. a \in 1 .. m + 1 /\ ~q[a - 1] /\ su[k] = a
      BY <1>7, <1>10, <2>2
    <3> HIDE DEF a
    <3>2. a - 1 \in 0 .. m
      BY <1>4, <3>1
    <3> QED
      BY <1>5, <3>1, <3>2
  <2> QED
    BY <1>9, <2>1, <2>2
<1>14. ASSUME NEW k \in 1 .. L
       PROVE  /\ Segment(more, r, su[k], su[k + 1])
              /\ k # cut + 1 => Exact(more, su[k], su[k + 1], rows2[k])
  <2> DEFINE a == st[k]
             b == st[k + 1]
  <2>1. a \in 1 .. m + 1 /\ b \in 1 .. m + 1 /\ su[k] = a /\ su[k + 1] = b /\ rows2[k] = written[k]
    BY <1>6, <1>7, <1>9, <1>10
  <2>2. Segment(text, q, a, b) /\ (k # cut + 1 => Exact(text, a, b, written[k]))
    BY <1>7
  <2> HIDE DEF a, b
  <2>3. Segment(more, r, a, b)
    BY <1>4, <1>8, <2>1, <2>2, SegmentStays DEF m
  <2>4. k # cut + 1 => Exact(more, a, b, written[k])
    BY <1>4, <1>8, <2>1, <2>2, ExactStays DEF m
  <2> QED
    BY <2>1, <2>3, <2>4
<1>15. /\ Segment(more, r, last, M + 1)
       /\ L # cut => Exact(more, last, M + 1, row)
  <2>1. last < M + 1 /\ M + 1 - 1 = m + l /\ M + 1 - 2 = M - 1 /\ M = m + l
    BY <1>1, <1>4, <1>12 DEF M
  <2>2. more[M] = "\n" /\ M + 1 - 1 = M
    <3>1. l \in 1 .. l
      BY <1>1
    <3> QED
      BY <1>1, <1>4, <2>1, <3>1
  <2>3. ASSUME NEW n \in last .. M - 1, more[n] \in LineEnds PROVE r[n - 1]
    <3>1. CASE n <= m
      <4>1. n \in 1 .. m /\ n - 1 \in 0 .. m /\ n \in last .. m
        BY <1>4, <1>12, <3>1
      <4>2. cut = L
        BY <1>4, <1>7, <1>12, <4>1
      <4>3. text[n] \in LineEnds
        BY <1>4, <2>3, <4>1
      <4>4. q[n - 1]
        BY <1>7, <4>1, <4>2, <4>3 DEF Sealed
      <4> QED
        BY <1>5, <4>1, <4>4
    <3>2. CASE n > m
      <4> DEFINE i == n - m
      <4>1. i \in 1 .. l - 1 /\ i \in 1 .. l /\ n = m + i /\ i - 1 \in 0 .. l /\ n - 1 = m + (i - 1)
        BY <1>1, <1>4, <1>12, <2>1, <3>2
      <4> HIDE DEF i
      <4>2. line[i] \in LineEnds
        BY <1>4, <2>3, <4>1
      <4>3. p[i - 1]
        BY <1>2, <4>1, <4>2 DEF Sealed
      <4> QED
        BY <1>5, <4>1, <4>3
    <3>3. n \in Nat
      BY <1>12
    <3> QED
      BY <1>4, <3>1, <3>2, <3>3
  <2>4. Segment(more, r, last, M + 1)
    BY <2>1, <2>2, <2>3 DEF Segment, Sealed
  <2>5. ASSUME L # cut PROVE Exact(more, last, M + 1, row)
    <3>1. last = m + 1
      BY <1>7, <2>5
    <3>2. Len(body) = M + 1 - 1 - last
      BY <1>1, <1>4, <2>1, <3>1
    <3>3. ASSUME NEW i \in 1 .. Len(body) PROVE more[last - 1 + i] = body[i]
      <4>1. i \in 1 .. l - 1 /\ i \in 1 .. l /\ last - 1 + i = m + i
        BY <1>1, <1>4, <3>1
      <4> QED
        BY <1>1, <1>4, <4>1
    <3>4. Stands(more, last, body, Len(body))
      BY <3>3 DEF Stands
    <3> QED
      BY <1>4, <1>12, <3>2, <3>4 DEF Exact, body
  <2> QED
    BY <2>4, <2>5
<1>16. ASSUME NEW k \in 1 .. L + 1
       PROVE  /\ Segment(more, r, su[k], su[k + 1])
              /\ k # cut + 1 => Exact(more, su[k], su[k + 1], rows2[k])
  <2>1. CASE k \in 1 .. L
    BY <1>14, <2>1
  <2>2. CASE k = L + 1
    <3>1. su[k] = last /\ su[k + 1] = M + 1 /\ rows2[k] = row
      BY <1>6, <1>9, <1>10, <2>2 DEF last
    <3>2. k # cut + 1 => L # cut
      BY <2>2
    <3> QED
      BY <1>15, <3>1, <3>2
  <2> QED
    BY <1>9, <2>1, <2>2
<1>17. ~r[M] /\ su[1] = 1 /\ cut # L + 1 /\ su[L + 1 + 1] = M + 1
  <2>1. su[L + 2] - 1 = M
    BY <1>4, <1>10
  <2>2. cut # L + 1
    BY <1>6 DEF L
  <2> QED
    BY <1>7, <1>9, <1>10, <1>13, <2>1, <2>2
<1>18. Segments(more, rows2, cut, r, su)
  <2>1. L + 1 + 1 = L + 2 /\ Len(rows2) = L + 1 /\ Len(more) = M
    BY <1>4, <1>6, <1>9
  <2> QED
    BY <1>5, <1>11, <1>13, <1>16, <1>17, <2>1 DEF Segments
<1> QED
  BY <1>18 DEF more, rows2, line

\* The first characters of a line, added to a file.
LEMMA CutEnds ==
    ASSUME NEW text \in Texts, NEW q, Inside(text, q), ~q[Len(text)],
           NEW row \in Row, NEW n \in 1 .. Len(Line(row)) - 1
    PROVE  LET more == text \o SubSeq(Line(row), 1, n)
               m    == Len(text)
           IN  /\ more \in Texts /\ Len(more) = m + n /\ n <= Len(Body(row))
               /\ \E r : /\ Inside(more, r) /\ Extends(text, q, more, r)
                         /\ Sealed(more, r, m + 1, m + n) /\ Stands(more, m + 1, Body(row), n)
<1> DEFINE line == Line(row)
           body == Body(row)
           part == SubSeq(line, 1, n)
           more == text \o part
           m == Len(text)
           l == Len(line)
<1>1. /\ line \in Texts /\ Len(body) = l - 1 /\ l \in Nat /\ n \in 1 .. l /\ n \in 1 .. l - 1 /\ n \in Nat
      /\ \A i \in 1 .. l - 1 : line[i] = body[i]
  <2>1. Len(body) \in Nat /\ l = Len(body) + 1 /\ line \in Texts
    BY LineInside DEF Texts
  <2>2. Stands(line, 1, body, Len(body))
    BY LineInside
  <2>3. \A i \in 1 .. Len(body) : 1 - 1 + i = i
    BY <2>1
  <2> QED
    BY <2>1, <2>2, <2>3 DEF Stands
<1>2. PICK p : Inside(line, p) /\ ~p[0] /\ Sealed(line, p, 1, l - 1)
  BY <1>1, LineInside
<1> DEFINE c == [i \in 0 .. n |-> p[i]]
<1>3. Inside(part, c)
  <2> HIDE DEF line
  <2> QED
    BY <1>1, <1>2, InsideCut DEF l
<1>4. part \in Texts /\ Len(part) = n /\ \A i \in 1 .. n : part[i] = line[i]
  <2> HIDE DEF line
  <2>1. 1 <= n + 1 /\ n <= Len(line) /\ n - 1 + 1 = n /\ \A i \in 1 .. n : 1 - 1 + i = i
    BY <1>1 DEF l
  <2> HIDE DEF part
  <2>2. part \in Texts /\ Len(part) = n - 1 + 1 /\ \A i \in 1 .. n - 1 + 1 : part[i] = line[1 - 1 + i]
    BY <1>1, <2>1, SubText DEF part
  <2> QED
    BY <2>1, <2>2
<1>5. c[0] = p[0] /\ (\A i \in 0 .. n : c[i] = p[i])
  BY <1>1
<1> HIDE DEF line, body, part, m, l, c
<1>6. /\ more \in Texts /\ Len(more) = m + n /\ m \in Nat
      /\ \A i \in 1 .. m : more[i] = text[i]
      /\ \A i \in 1 .. n : more[m + i] = part[i]
  <2>0. Len(part) = n
    BY <1>4
  <2>1. text \in Seq(Chars) /\ part \in Seq(Chars)
    BY <1>4 DEF Texts
  <2>2. /\ text \o part \in Seq(Chars) /\ Len(text \o part) = Len(text) + Len(part)
        /\ \A i \in 1 .. Len(text) : (text \o part)[i] = text[i]
        /\ \A i \in 1 .. Len(part) : (text \o part)[Len(text) + i] = part[i]
    BY <2>1, ConcatPlaces
  <2> QED
    BY <2>0, <2>1, <2>2 DEF Texts, m
<1> DEFINE r == Join(q, c, m, n)
<1>7. /\ Inside(more, r)
      /\ \A i \in 0 .. m : r[i] = q[i]
      /\ \A i \in 0 .. n : r[m + i] = c[i]
  <2>1. q[Len(text)] = c[0]
    <3>1. q \in [0 .. Len(text) -> BOOLEAN] /\ p \in [0 .. l -> BOOLEAN]
      BY <1>2 DEF Inside, l
    <3>2. Len(text) \in 0 .. Len(text) /\ 0 \in 0 .. l
      BY <1>1, <1>6 DEF m
    <3>3. q[Len(text)] \in BOOLEAN /\ p[0] \in BOOLEAN
      BY <3>1, <3>2
    <3> QED
      BY <1>2, <1>5, <3>3
  <2>2. part \in Texts
    BY <1>4
  <2>3. LET x == Join(q, c, Len(text), Len(part))
        IN  /\ Inside(text \o part, x)
            /\ \A i \in 0 .. Len(text) : x[i] = q[i]
            /\ \A i \in 0 .. Len(part) : x[Len(text) + i] = c[i]
    BY <1>3, <2>1, <2>2, InsideOn
  <2>4. Len(part) = n
    BY <1>4
  <2> QED
    BY <2>3, <2>4 DEF m
<1> HIDE DEF more, r
<1>8. Extends(text, q, more, r)
  BY <1>6, <1>7 DEF Extends, m
<1>9. ASSUME NEW k \in m + 1 .. m + n, more[k] \in LineEnds PROVE r[k - 1]
  <2> DEFINE i == k - m
  <2>1. i \in 1 .. n /\ k = m + i /\ i - 1 \in 0 .. n /\ k - 1 = m + (i - 1) /\ i \in 1 .. l - 1
    BY <1>1, <1>6
  <2> HIDE DEF i
  <2>2. line[i] \in LineEnds
    BY <1>4, <1>6, <1>9, <2>1
  <2>3. p[i - 1]
    BY <1>2, <2>1, <2>2 DEF Sealed
  <2> QED
    BY <1>5, <1>7, <2>1, <2>3
<1>10. Stands(more, m + 1, body, n)
  <2>1. ASSUME NEW i \in 1 .. n PROVE more[m + 1 - 1 + i] = body[i]
    <3>1. m + 1 - 1 + i = m + i /\ i \in 1 .. l - 1
      BY <1>1, <1>6
    <3> QED
      BY <1>1, <1>4, <1>6, <3>1
  <2> QED
    BY <1>6, <2>1 DEF Stands
<1>11. Sealed(more, r, m + 1, m + n)
  BY <1>9 DEF Sealed
<1>12. n <= Len(body)
  BY <1>1
<1> QED
  BY <1>6, <1>7, <1>8, <1>10, <1>11, <1>12 DEF more, m, part, line, body

\* The quotes of a text decide whether the cut left a tail or an open quote.
LEMMA CutKeeps ==
    ASSUME NEW text \in Texts, NEW written \in Seq(Row), NEW q, NEW st, Segments(text, written, -1, q, st),
           NEW row \in Row, NEW n \in 1 .. Len(Line(row)) - 1
    PROVE  LET more == text \o SubSeq(Line(row), 1, n)
           IN  \/ \E r, su : Segments(more, written, Len(written), r, su)
               \/ \E r : Inside(more, r) /\ ~r[0] /\ r[Len(more)]
<1> DEFINE more == text \o SubSeq(Line(row), 1, n)
           m == Len(text)
           L == Len(written)
           last == st[L + 1]
<1>1. /\ Inside(text, q) /\ ~q[m] /\ L \in Nat
      /\ st \in [1 .. L + 1 -> 1 .. m + 1] /\ st[1] = 1
      /\ \A k \in 1 .. L + 1 : ~q[st[k] - 1]
      /\ \A k \in 1 .. L :
           /\ Segment(text, q, st[k], st[k + 1])
           /\ k # -1 + 1 => Exact(text, st[k], st[k + 1], written[k])
      /\ -1 # L => last = m + 1
  BY DEF Segments
<1>2. /\ more \in Texts /\ Len(more) = m + n /\ n <= Len(Body(row))
      /\ \E r : /\ Inside(more, r) /\ Extends(text, q, more, r)
                /\ Sealed(more, r, m + 1, m + n) /\ Stands(more, m + 1, Body(row), n)
  BY <1>1, CutEnds
<1>3. PICK r : /\ Inside(more, r) /\ Extends(text, q, more, r)
               /\ Sealed(more, r, m + 1, m + n) /\ Stands(more, m + 1, Body(row), n)
  BY <1>2
<1>4. m \in Nat /\ n \in Nat /\ n > 0 /\ m + n \in Nat
  BY DEF Texts
<1>5. /\ 1 \in 1 .. L + 1 /\ L + 1 \in 1 .. L + 1 /\ last = m + 1
      /\ \A k \in 1 .. L : k \in 1 .. L + 1 /\ k + 1 \in 1 .. L + 1 /\ k # 0
  BY <1>1
<1> HIDE DEF more, m, L, last
<1>6. ~r[0]
  <2>1. st[1] - 1 = 0 /\ 0 \in 0 .. m
    BY <1>1, <1>4
  <2>2. ~q[0]
    BY <1>1, <1>5, <2>1
  <2> QED
    BY <1>3, <2>1, <2>2 DEF Extends, m
<1>7. CASE r[Len(more)]
  BY <1>3, <1>6, <1>7 DEF more
<1>8. CASE ~r[Len(more)]
  <2>1. st \in [1 .. L + 1 -> 1 .. Len(more) + 1]
    <3>1. \A i \in 1 .. m + 1 : i \in 1 .. Len(more) + 1
      BY <1>2, <1>4
    <3> QED
      BY <1>1, <3>1
  <2>2. ASSUME NEW k \in 1 .. L + 1 PROVE ~r[st[k] - 1]
    <3> DEFINE a == st[k]
    <3>1. a \in 1 .. m + 1 /\ ~q[a - 1]
      BY <1>1
    <3> HIDE DEF a
    <3>2. a - 1 \in 0 .. m
      BY <1>4, <3>1
    <3>3. ~r[a - 1]
      BY <1>3, <3>1, <3>2 DEF Extends, m
    <3> QED
      BY <3>3 DEF a
  <2>3. ASSUME NEW k \in 1 .. L
        PROVE  Segment(more, r, st[k], st[k + 1]) /\ Exact(more, st[k], st[k + 1], written[k])
    <3> DEFINE a == st[k]
               b == st[k + 1]
    <3>1. a \in 1 .. m + 1 /\ b \in 1 .. m + 1
      BY <1>1, <1>5
    <3>2. Segment(text, q, a, b) /\ Exact(text, a, b, written[k])
      <4>1. k # -1 + 1
        BY <1>5
      <4> QED
        BY <1>1, <4>1
    <3> HIDE DEF a, b
    <3>3. Segment(more, r, a, b)
      BY <1>3, <1>4, <3>1, <3>2, SegmentStays DEF m
    <3>4. Exact(more, a, b, written[k])
      BY <1>3, <1>4, <3>1, <3>2, ExactStays DEF m
    <3> QED
      BY <3>3, <3>4 DEF a, b
  <2>4. CutTail(more, r, last, row)
    <3> DEFINE M == Len(more)
    <3>1. M = m + n /\ last = m + 1 /\ n <= Len(Body(row))
      BY <1>2, <1>5
    <3> HIDE DEF M
    <3>2. last <= M /\ M - last + 1 = n
      BY <1>4, <3>1
    <3>3. Sealed(more, r, last, M) /\ Stands(more, last, Body(row), n)
      BY <1>3, <3>1
    <3> QED
      BY <3>1, <3>2, <3>3 DEF CutTail, M
  <2>5. Segments(more, written, L, r, st)
    BY <1>1, <1>3, <1>8, <2>1, <2>2, <2>3, <2>4 DEF Segments, L, last
  <2> QED
    BY <2>5 DEF more, L
<1> QED
  BY <1>7, <1>8

\* A line closes no quote that a cut left open.
LEMMA BrokenKeeps ==
    ASSUME NEW text \in Texts, NEW q, Inside(text, q), ~q[0], q[Len(text)], NEW row \in Row
    PROVE  \E r : Inside(text \o Line(row), r) /\ ~r[0] /\ r[Len(text \o Line(row))]
<1> DEFINE line == Line(row)
           l == Len(line)
           m == Len(text)
<1>1. line \in Texts /\ l \in Nat /\ m \in Nat
  BY LineInside DEF Texts
<1>2. PICK p : Inside(line, p) /\ ~p[0] /\ ~p[l]
  BY LineInside
<1> DEFINE c == [n \in 0 .. l |-> ~p[n]]
<1>3. Inside(line, c)
  BY <1>1, <1>2, InsideNot
<1>4. c[0] = TRUE /\ c[l] = TRUE
  <2>1. 0 \in 0 .. l /\ l \in 0 .. l
    BY <1>1
  <2> QED
    BY <1>2, <2>1
<1> HIDE DEF line, c
<1>5. q[Len(text)] = c[0]
  <2>1. q \in [0 .. m -> BOOLEAN] /\ m \in 0 .. m
    BY <1>1 DEF Inside
  <2> QED
    BY <1>4, <2>1
<1> DEFINE r == Join(q, c, Len(text), Len(line))
<1>6. /\ Inside(text \o line, r)
      /\ \A n \in 0 .. m : r[n] = q[n]
      /\ \A n \in 0 .. l : r[m + n] = c[n]
  BY <1>1, <1>3, <1>5, InsideOn
<1>7. Len(text \o line) = m + l
  BY <1>1 DEF Texts
<1>8. 0 \in 0 .. m /\ l \in 0 .. l
  BY <1>1
<1> HIDE DEF r
<1>9. ~r[0] /\ r[m + l]
  BY <1>4, <1>6, <1>8
<1> QED
  BY <1>6, <1>7, <1>9 DEF line

-----------------------------------------------------------------------------
(***************************************************************************)
(* The inductive invariant.  Until a cut, the file is its records one      *)
(* behind the other.  A cut outside of quotes leaves a tail, or a record   *)
(* that the next row's line is joined to: it is the only one that may not  *)
(* hold what was written.  A cut inside quotes leaves them open for good,  *)
(* since what is written behind it has an even number of quotes.           *)
(***************************************************************************)
CsvTypeInv == file \in Texts /\ rows \in Seq(Row) /\ cutAt \in -1 .. Len(rows)

Segmented == \E q, st : Segments(file, rows, cutAt, q, st)

Broken == cutAt # -1 /\ \E q : Inside(file, q) /\ ~q[0] /\ q[Len(file)]

CsvInv == CsvTypeInv /\ (Segmented \/ Broken)

\* The empty file has no record, and the first one starts at its end.
LEMMA CsvInit == Init => CsvInv
<1> SUFFICES ASSUME Init PROVE CsvInv
  OBVIOUS
<1>1. file = <<>> /\ rows = <<>> /\ cutAt = -1 /\ Len(file) = 0 /\ Len(rows) = 0
  BY DEF Init
<1>2. CsvTypeInv
  BY <1>1 DEF CsvTypeInv, Texts
<1> DEFINE q == [n \in 0 .. 0 |-> FALSE]
           st == [k \in 1 .. 1 |-> 1]
<1>3. q \in [0 .. 0 -> BOOLEAN] /\ q[0] = FALSE /\ st \in [1 .. 1 -> 1 .. 1] /\ st[1] = 1
  OBVIOUS
<1>4. (\A n \in 1 .. 0 : FALSE) /\ 0 + 1 = 1 /\ (\A k \in 1 .. 1 : k = 1) /\ 1 - 1 = 0 /\ -1 # 0
  OBVIOUS
<1> HIDE DEF q, st
<1>5. Inside(file, q)
  BY <1>1, <1>3, <1>4 DEF Inside
<1>6. Segments(file, rows, cutAt, q, st)
  BY <1>1, <1>3, <1>4, <1>5 DEF Segments
<1> QED
  BY <1>2, <1>6 DEF CsvInv, Segmented

\* The two steps keep the invariant.
LEMMA CsvWriteRow == ASSUME CsvInv, WriteRow PROVE CsvInv'
<1>1. PICK row \in Row : file' = file \o Line(row) /\ rows' = Append(rows, row) /\ cutAt' = cutAt
  BY DEF WriteRow
<1>2. file \in Texts /\ rows \in Seq(Row) /\ cutAt \in -1 .. Len(rows) /\ Line(row) \in Texts
  BY LineIs DEF CsvInv, CsvTypeInv
<1>3. CsvTypeInv'
  <2>1. file \o Line(row) \in Texts
    BY <1>2 DEF Texts
  <2>2. Append(rows, row) \in Seq(Row) /\ Len(Append(rows, row)) = Len(rows) + 1 /\ Len(rows) \in Nat
    BY <1>2
  <2> QED
    BY <1>1, <1>2, <2>1, <2>2 DEF CsvTypeInv
<1>4. CASE Segmented
  <2>1. PICK q, st : Segments(file, rows, cutAt, q, st)
    BY <1>4 DEF Segmented
  <2>2. \E r, su : Segments(file \o Line(row), Append(rows, row), cutAt, r, su)
    BY <1>2, <2>1, WriteKeeps
  <2> QED
    BY <1>1, <1>3, <2>2 DEF CsvInv, Segmented
<1>5. CASE Broken
  <2>1. PICK q : Inside(file, q) /\ ~q[0] /\ q[Len(file)]
    BY <1>5 DEF Broken
  <2>2. \E r : Inside(file \o Line(row), r) /\ ~r[0] /\ r[Len(file \o Line(row))]
    BY <1>2, <2>1, BrokenKeeps
  <2> QED
    BY <1>1, <1>3, <1>5, <2>2 DEF CsvInv, Broken
<1> QED
  BY <1>4, <1>5 DEF CsvInv

LEMMA CsvCutRow == ASSUME CsvInv, CutRow PROVE CsvInv'
<1>1. PICK row \in Row : \E n \in 1 .. Len(Line(row)) - 1 : file' = file \o SubSeq(Line(row), 1, n)
  BY DEF CutRow
<1>2. PICK n \in 1 .. Len(Line(row)) - 1 : file' = file \o SubSeq(Line(row), 1, n)
  BY <1>1
<1>3. rows' = rows /\ cutAt = -1 /\ cutAt' = Len(rows)
  BY DEF CutRow
<1>4. file \in Texts /\ rows \in Seq(Row) /\ Len(rows) \in Nat
  BY DEF CsvInv, CsvTypeInv
<1>5. PICK q, st : Segments(file, rows, -1, q, st)
  BY <1>3 DEF CsvInv, Segmented, Broken
<1>6. CsvTypeInv'
  <2>1. Inside(file, q) /\ ~q[Len(file)]
    BY <1>5 DEF Segments
  <2>2. file \o SubSeq(Line(row), 1, n) \in Texts
    BY <1>4, <2>1, CutEnds
  <2> QED
    BY <1>2, <1>3, <1>4, <2>2 DEF CsvTypeInv
<1> DEFINE more == file \o SubSeq(Line(row), 1, n)
<1>7. \/ \E r, su : Segments(more, rows, Len(rows), r, su)
      \/ \E r : Inside(more, r) /\ ~r[0] /\ r[Len(more)]
  BY <1>4, <1>5, CutKeeps
<1>8. cutAt' # -1
  BY <1>3, <1>4
<1>9. file' = more
  BY <1>2
<1> HIDE DEF more
<1> QED
  BY <1>3, <1>6, <1>7, <1>8, <1>9 DEF CsvInv, Segmented, Broken

(***************************************************************************)
(* In every state the file is records of whole rows, but for the one that  *)
(* a cut was joined to, or ends inside quotes since a cut.                 *)
(***************************************************************************)
THEOREM CsvInvariant == Spec => []CsvInv
<1>1. Init => CsvInv
  BY CsvInit
<1>2. CsvInv /\ [Next]_vars => CsvInv'
  <2> SUFFICES ASSUME CsvInv, [Next]_vars PROVE CsvInv'
    OBVIOUS
  <2>1. CASE WriteRow
    BY <2>1, CsvWriteRow
  <2>2. CASE CutRow
    BY <2>2, CsvCutRow
  <2>3. CASE UNCHANGED vars
    BY <2>3 DEF vars, CsvInv, CsvTypeInv, Segmented, Broken
  <2> QED
    BY <2>1, <2>2, <2>3 DEF Next
<1> QED
  BY <1>1, <1>2, PTL DEF Spec

\* The promises, from the invariant.
LEMMA WrittenReads == CsvInv => WhatIsWrittenIsRead
<1> SUFFICES ASSUME CsvInv, cutAt = -1 PROVE Readable /\ Loaded = rows
  BY DEF WhatIsWrittenIsRead
<1>1. file \in Texts /\ rows \in Seq(Row) /\ cutAt \in -1 .. Len(rows) /\ Len(rows) \in Nat
  BY DEF CsvInv, CsvTypeInv
<1>2. PICK q, st : Segments(file, rows, cutAt, q, st)
  BY DEF CsvInv, Segmented, Broken
<1> DEFINE s == Load(file)
<1>3. s.rows \in Seq(Seq(Texts)) /\ (s.failed => cutAt # -1) /\ (~s.failed => LoadedAll(rows, cutAt, s))
  BY <1>1, <1>2, SegmentsLoad
<1> HIDE DEF s
<1>4. ~s.failed /\ LoadedAll(rows, cutAt, s)
  BY <1>3
<1>5. Len(s.rows) = Len(rows) /\ \A k \in 1 .. Len(rows) : s.rows[k] = rows[k]
  <2>1. cutAt # Len(rows) /\ \A k \in 1 .. Len(rows) : k # cutAt + 1
    BY <1>1
  <2> QED
    BY <1>1, <1>4, <2>1 DEF LoadedAll
<1>6. rows \in Seq(Seq(Texts))
  <2>1. \A row \in Row : row \in Seq(Texts)
    BY RowType
  <2> QED
    BY <1>1, <2>1
<1>7. Starts(s.rows, rows, Len(rows))
  BY <1>5 DEF Starts
<1>8. s.rows = rows
  BY <1>3, <1>6, <1>7, StartsAll
<1> QED
  BY <1>4, <1>8 DEF Readable, Loaded, s

(***************************************************************************)
(* load_table_rows reads back what write_csv_row wrote, whatever the       *)
(* characters of the cells and however many of them there are.             *)
(***************************************************************************)
THEOREM WrittenIsRead == Spec => []WhatIsWrittenIsRead
BY CsvInvariant, WrittenReads, PTL

LEMMA CutReads == CsvInv => CutIsConfined
<1> SUFFICES ASSUME CsvInv, Readable
             PROVE  /\ IsPrefix(Before, Loaded)
                    /\ Len(Loaded) <= Lines
                    /\ cutAt = Len(rows) => Len(Loaded) = cutAt + 1 /\ ShortenedRow(Last(Loaded))
  BY DEF CutIsConfined
<1> DEFINE s == Load(file)
           L == Len(rows)
<1>1. file \in Texts /\ rows \in Seq(Row) /\ cutAt \in -1 .. L /\ L \in Nat
  BY DEF CsvInv, CsvTypeInv
<1>2. ~s.failed /\ Loaded = s.rows
  BY DEF Readable, Loaded
<1>3. PICK q, st : Segments(file, rows, cutAt, q, st)
  <2>1. ~Broken
    BY <1>1, <1>2, BrokenLoads DEF Broken
  <2> QED
    BY <2>1 DEF CsvInv, Segmented
<1>4. Loaded \in Seq(Seq(Texts)) /\ LoadedAll(rows, cutAt, s)
  BY <1>1, <1>2, <1>3, SegmentsLoad
<1> HIDE DEF s
<1>5. /\ Len(Loaded) = L + (IF cutAt = L THEN 1 ELSE 0)
      /\ \A k \in 1 .. L : k # cutAt + 1 => Loaded[k] = rows[k]
      /\ cutAt = L => ShortenedRow(Loaded[L + 1])
  BY <1>2, <1>4 DEF LoadedAll
<1> HIDE DEF L
<1>6. Len(Loaded) <= Lines
  <2>1. Lines = L + (IF cutAt = -1 THEN 0 ELSE 1)
    BY DEF Lines, L
  <2> QED
    BY <1>1, <1>5, <2>1
<1>7. cutAt = L => Len(Loaded) = cutAt + 1 /\ ShortenedRow(Last(Loaded))
  BY <1>1, <1>5 DEF Last
<1>8. rows \in Seq(Seq(Texts))
  <2>1. \A row \in Row : row \in Seq(Texts)
    BY RowType
  <2> QED
    BY <1>1, <2>1
<1>9. IsPrefix(Before, Loaded)
  <2> DEFINE n == IF cutAt = -1 THEN L ELSE cutAt
             b == SubSeq(rows, 1, n)
             c == SubSeq(Loaded, 1, n)
  <2>1. n \in 0 .. L /\ n <= Len(Loaded) /\ Len(Loaded) \in Nat /\ \A k \in 1 .. n : k \in 1 .. L /\ k # cutAt + 1
    BY <1>1, <1>5
  <2>2. Before \in Seq(Seq(Texts)) /\ Len(Before) = n /\ \A k \in 1 .. n : Before[k] = rows[k]
    <3>1. CASE cutAt = -1
      BY <1>8, <3>1 DEF Before, L
    <3>2. CASE cutAt # -1
      <4>1. Before = b
        BY <3>2 DEF Before
      <4> HIDE DEF n
      <4>2. b \in Seq(Seq(Texts)) /\ Len(b) = n /\ \A k \in 1 .. n : b[k] = rows[k]
        BY <1>8, <2>1 DEF L
      <4> QED
        BY <4>1, <4>2
    <3> QED
      BY <3>1, <3>2
  <2> HIDE DEF n
  <2>3. c \in Seq(Seq(Texts)) /\ Len(c) = n /\ \A k \in 1 .. n : c[k] = Loaded[k]
    BY <1>4, <2>1
  <2> DEFINE d == SubSeq(Before, 1, n)
  <2>4. d \in Seq(Seq(Texts)) /\ Len(d) = n /\ \A k \in 1 .. n : d[k] = Before[k]
    BY <2>1, <2>2
  <2> HIDE DEF b, c, d
  <2>5. Starts(d, c, Len(c))
    BY <1>5, <2>1, <2>2, <2>3, <2>4 DEF Starts
  <2>6. d = c
    BY <2>3, <2>4, <2>5, StartsAll
  <2> QED
    BY <2>1, <2>2, <2>6 DEF IsPrefix, c, d
<1> QED
  BY <1>6, <1>7, <1>9 DEF L

(***************************************************************************)
(* Whatever is cut and whatever is written behind it, the rows before the  *)
(* cut are read as they were, no line is read as two, and a cut record     *)
(* with nothing behind it is read, if at all, as a row with a shorter last *)
(* cell.                                                                   *)
(***************************************************************************)
THEOREM CutsAreConfined == Spec => []CutIsConfined
BY CsvInvariant, CutReads, PTL
=============================================================================
