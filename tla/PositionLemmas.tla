--------------------------- MODULE PositionLemmas ---------------------------
(***************************************************************************)
(* What several proofs share: what AtPositions returns, the greatest and   *)
(* the least element of a finite set, induction up to a number, a loop as  *)
(* the sequence of its states, and what FlattenSeq returns.                *)
(***************************************************************************)
EXTENDS Positions, SequencesExt, FiniteSetsExt, FiniteSetTheorems, SequenceTheorems, TLAPS

\* A greater element has a greater rank.
LEMMA RanksIncrease ==
    ASSUME NEW S \in SUBSET Int, IsFiniteSet(S), NEW p \in S, NEW r \in S, p < r
    PROVE  /\ Cardinality({q \in S : q <= p}) < Cardinality({q \in S : q <= r})
           /\ Cardinality({q \in S : q <= p}) \in Nat
           /\ Cardinality({q \in S : q <= r}) \in Nat
<1> DEFINE upTo(x) == {q \in S : q <= x}
<1>1. upTo(p) \subseteq upTo(r) /\ upTo(p) # upTo(r)
  <2>1. r \in upTo(r) /\ r \notin upTo(p)
    OBVIOUS
  <2>2. \A q \in S : q <= p => q <= r
    OBVIOUS
  <2> QED
    BY <2>1, <2>2
<1>2. IsFiniteSet(upTo(r)) /\ IsFiniteSet(upTo(p))
  BY FS_Subset, upTo(r) \subseteq S, upTo(p) \subseteq S
<1>3. Cardinality(upTo(r)) \in Nat /\ Cardinality(upTo(p)) \in Nat
  BY <1>2, FS_CardinalityType
<1>4. Cardinality(upTo(p)) <= Cardinality(upTo(r)) /\ Cardinality(upTo(p)) # Cardinality(upTo(r))
  BY <1>1, <1>2, FS_Subset
<1> QED
  BY <1>3, <1>4

(***************************************************************************)
(* A finite set of integers has an i-th smallest element: ranks are an     *)
(* injection into 1 .. n, hence onto.                                      *)
(***************************************************************************)
LEMMA RankIsOnto ==
    ASSUME NEW S \in SUBSET Int, IsFiniteSet(S), NEW i \in 1 .. Cardinality(S)
    PROVE  \E p \in S : Cardinality({q \in S : q <= p}) = i
<1> DEFINE upTo(p) == {q \in S : q <= p}
           rank == [p \in S |-> Cardinality(upTo(p))]
           n == Cardinality(S)
<1>1. n \in Nat
  BY FS_CardinalityType
<1>2. \A p \in S : /\ IsFiniteSet(upTo(p))
                   /\ Cardinality(upTo(p)) \in 1 .. n
  <2> TAKE p \in S
  <2>1. upTo(p) \subseteq S
    OBVIOUS
  <2>2. IsFiniteSet(upTo(p)) /\ Cardinality(upTo(p)) <= n
    BY <2>1, FS_Subset
  <2>3. p \in upTo(p)
    OBVIOUS
  <2>4. Cardinality(upTo(p)) \in Nat /\ Cardinality(upTo(p)) # 0
    BY <2>2, <2>3, FS_CardinalityType, FS_EmptySet
  <2> QED
    BY <2>2, <2>4, <1>1
<1>3. \A p, r \in S : p < r => Cardinality(upTo(p)) < Cardinality(upTo(r))
  BY RanksIncrease
<1>4. rank \in Injection(S, 1 .. n)
  <2>1. rank \in [S -> 1 .. n]
    BY <1>2
  <2>2. \A p, r \in S : rank[p] = rank[r] => p = r
    BY <1>2, <1>3
  <2> QED
    BY <2>1, <2>2 DEF Injection, IsInjective
<1>5. IsFiniteSet(1 .. n) /\ Cardinality(1 .. n) = n
  BY <1>1, FS_Interval
<1>6. rank \in Surjection(S, 1 .. n)
  BY <1>4, <1>5, FS_Injection
<1> QED
  BY <1>6 DEF Surjection

\* Max of the community modules is a greatest element.
LEMMA MaxIsGreatest ==
    ASSUME NEW S \in SUBSET Int, IsFiniteSet(S), S # {}
    PROVE  Max(S) \in S /\ \A x \in S : x <= Max(S)
<1> DEFINE n == Cardinality(S)
<1>1. n \in 1 .. n
  BY FS_CardinalityType, FS_EmptySet
<1>2. PICK p \in S : Cardinality({q \in S : q <= p}) = n
  BY <1>1, RankIsOnto
<1>3. {q \in S : q <= p} = S
  <2>1. {q \in S : q <= p} \subseteq S
    OBVIOUS
  <2> QED
    BY <1>2, <2>1, FS_Subset
<1>4. \A x \in S : p >= x
  BY <1>3
<1> QED
  BY <1>4 DEF Max

\* ... and Min a least one.
LEMMA MinIsLeast ==
    ASSUME NEW S \in SUBSET Int, IsFiniteSet(S), S # {}
    PROVE  Min(S) \in S /\ \A x \in S : Min(S) <= x
<1> DEFINE n == Cardinality(S)
<1>1. 1 \in 1 .. n
  BY FS_CardinalityType, FS_EmptySet
<1>2. PICK m \in S : Cardinality({q \in S : q <= m}) = 1
  BY <1>1, RankIsOnto
<1>3. \A x \in S : m <= x
  <2> SUFFICES ASSUME NEW x \in S PROVE m <= x
    OBVIOUS
  <2>1. m \in Int /\ x \in Int
    OBVIOUS
  <2>2. ASSUME x < m PROVE FALSE
    <3> DEFINE below == {q \in S : q <= x}
    <3>1. Cardinality(below) < 1 /\ Cardinality(below) \in Nat
      BY <1>2, <2>2, RanksIncrease
    <3>2. below \subseteq S /\ x \in below
      BY <2>1
    <3>3. Cardinality(below) = 0
      BY <3>1
    <3> QED
      BY <3>2, <3>3, FS_Subset, FS_EmptySet
  <2> QED
    BY <2>1, <2>2
<1> QED
  BY <1>3 DEF Min

(***************************************************************************)
(* The rows a WHERE clause selects, or a DELETE keeps, are rows of the     *)
(* table.                                                                  *)
(***************************************************************************)
LEMMA DomainIsFinite ==
    ASSUME NEW D, NEW seq \in Seq(D), NEW ps \in SUBSET DOMAIN seq
    PROVE  /\ Len(seq) \in Nat
           /\ DOMAIN seq = 1 .. Len(seq)
           /\ ps \in SUBSET Int
           /\ IsFiniteSet(ps)
           /\ Cardinality(ps) \in Nat
<1>1. Len(seq) \in Nat /\ DOMAIN seq = 1 .. Len(seq)
  BY LenProperties
<1>2. ps \in SUBSET Int
  BY <1>1
<1>3. IsFiniteSet(1 .. Len(seq))
  BY <1>1, FS_Interval
<1>4. IsFiniteSet(ps)
  BY <1>1, <1>3, FS_Subset
<1> QED
  BY <1>1, <1>2, <1>4, FS_CardinalityType

LEMMA AtPositionsType ==
    ASSUME NEW D, NEW seq \in Seq(D), NEW ps \in SUBSET DOMAIN seq
    PROVE  AtPositions(seq, ps) \in Seq(D)
<1> DEFINE n == Cardinality(ps)
           nth(i) == CHOOSE p \in ps : Cardinality({q \in ps : q <= p}) = i
<1>1. ps \in SUBSET Int /\ IsFiniteSet(ps) /\ n \in Nat
  BY DomainIsFinite
<1>2. \A i \in 1 .. n : nth(i) \in ps
  BY <1>1, RankIsOnto
<1>3. \A p \in ps : seq[p] \in D
  BY DomainIsFinite, ElementOfSeq
<1>4. AtPositions(seq, ps) = [i \in 1 .. n |-> seq[nth(i)]]
  BY DEF AtPositions
<1>5. AtPositions(seq, ps) \in [1 .. n -> D]
  BY <1>2, <1>3, <1>4
<1> QED
  BY <1>1, <1>5, SeqDef

(***************************************************************************)
(* Every position is copied once: the i-th element of the copy is the      *)
(* element at place[i].                                                    *)
(***************************************************************************)
LEMMA AtPositionsPlaces ==
    ASSUME NEW D, NEW seq \in Seq(D), NEW ps \in SUBSET DOMAIN seq
    PROVE  \E place \in [DOMAIN AtPositions(seq, ps) -> ps] :
             /\ \A i \in DOMAIN AtPositions(seq, ps) : AtPositions(seq, ps)[i] = seq[place[i]]
             /\ \A i, j \in DOMAIN AtPositions(seq, ps) : place[i] = place[j] => i = j
             /\ \A p \in ps : \E i \in DOMAIN AtPositions(seq, ps) : place[i] = p
<1> DEFINE n == Cardinality(ps)
           rank(p) == Cardinality({q \in ps : q <= p})
           nth(i) == CHOOSE p \in ps : rank(p) = i
           at == AtPositions(seq, ps)
           place == [i \in 1 .. n |-> nth(i)]
<1>1. ps \in SUBSET Int /\ IsFiniteSet(ps) /\ n \in Nat
  BY DomainIsFinite
<1>2. \A i \in 1 .. n : nth(i) \in ps /\ rank(nth(i)) = i
  BY <1>1, RankIsOnto
<1>3. DOMAIN at = 1 .. n /\ \A i \in 1 .. n : at[i] = seq[place[i]]
  BY DEF AtPositions
<1>4. \A x, y \in ps : x < y => rank(x) < rank(y) /\ rank(x) \in Nat /\ rank(y) \in Nat
  BY <1>1, RanksIncrease
<1>5. \A p \in ps : rank(p) \in 1 .. n
  <2> SUFFICES ASSUME NEW p \in ps PROVE rank(p) \in 1 .. n
    OBVIOUS
  <2> DEFINE upTo == {q \in ps : q <= p}
  <2>1. IsFiniteSet(upTo) /\ Cardinality(upTo) <= n /\ p \in upTo
    BY <1>1, FS_Subset, upTo \subseteq ps
  <2>2. Cardinality(upTo) \in Nat /\ Cardinality(upTo) # 0
    BY <2>1, FS_CardinalityType, FS_EmptySet
  <2> QED
    BY <1>1, <2>1, <2>2
<1> HIDE DEF rank, nth, at, n
<1>6. place \in [1 .. n -> ps]
  BY <1>2
<1>7. \A i, j \in 1 .. n : place[i] = place[j] => i = j
  <2> SUFFICES ASSUME NEW i \in 1 .. n, NEW j \in 1 .. n, nth(i) = nth(j) PROVE i = j
    OBVIOUS
  <2> QED
    BY <1>2
<1>8. ASSUME NEW p \in ps PROVE \E i \in 1 .. n : place[i] = p
  <2>1. nth(rank(p)) \in ps /\ rank(nth(rank(p))) = rank(p) /\ rank(p) \in 1 .. n
    BY <1>2, <1>5
  <2>2. ~(nth(rank(p)) < p) /\ ~(p < nth(rank(p)))
    BY <1>4, <2>1
  <2>3. nth(rank(p)) = p
    BY <1>1, <2>1, <2>2
  <2> QED
    BY <2>1, <2>3
<1> HIDE DEF place
<1>9. /\ place \in [DOMAIN at -> ps]
      /\ \A i \in DOMAIN at : at[i] = seq[place[i]]
      /\ \A i, j \in DOMAIN at : place[i] = place[j] => i = j
      /\ \A p \in ps : \E i \in DOMAIN at : place[i] = p
  BY <1>3, <1>6, <1>7, <1>8
<1> USE <1>9 DEF at
<1> WITNESS place \in [DOMAIN at -> ps]
<1> QED
  BY <1>9

\* Nothing is copied from no position.
LEMMA AtNoPositions == \A seq : AtPositions(seq, {}) = <<>>
<1>1. Cardinality({}) = 0
  BY FS_EmptySet
<1> QED
  BY <1>1 DEF AtPositions

(***************************************************************************)
(* A position behind all the others adds its element at the end.           *)
(***************************************************************************)
LEMMA AtPositionsAppend ==
    ASSUME NEW D, NEW seq \in Seq(D), NEW ps \in SUBSET DOMAIN seq, NEW m \in DOMAIN seq, \A p \in ps : p < m
    PROVE  AtPositions(seq, ps \cup {m}) = Append(AtPositions(seq, ps), seq[m])
<1> DEFINE n == Cardinality(ps)
           more == ps \cup {m}
           rank(p) == Cardinality({q \in ps : q <= p})
           rankMore(p) == Cardinality({q \in more : q <= p})
           nth(i) == CHOOSE p \in ps : rank(p) = i
           nthMore(i) == CHOOSE p \in more : rankMore(p) = i
<1>1. ps \in SUBSET Int /\ IsFiniteSet(ps) /\ n \in Nat /\ m \in Int /\ m \notin ps
  BY DomainIsFinite
<1>2. more \in SUBSET DOMAIN seq /\ more \in SUBSET Int
  BY <1>1
<1>3. IsFiniteSet(more) /\ Cardinality(more) = n + 1
  BY <1>1, FS_AddElement
<1>4. \A p \in ps : rankMore(p) = rank(p)
  <2> SUFFICES ASSUME NEW p \in ps PROVE {q \in more : q <= p} = {q \in ps : q <= p}
    OBVIOUS
  <2>1. ~(m <= p)
    BY <1>1
  <2> QED
    BY <2>1
<1>5. rankMore(m) = n + 1
  <2>1. {q \in more : q <= m} = more
    BY <1>1
  <2> QED
    BY <1>3, <2>1
<1>6. \A i \in 1 .. n : nth(i) \in ps /\ rank(nth(i)) = i
  BY <1>1, RankIsOnto
<1>7. \A i \in 1 .. n + 1 : nthMore(i) \in more /\ rankMore(nthMore(i)) = i
  BY <1>2, <1>3, RankIsOnto
<1>8. \A x, y \in more : x < y => rankMore(x) < rankMore(y) /\ rankMore(x) \in Nat /\ rankMore(y) \in Nat
  BY <1>2, <1>3, RanksIncrease
<1> HIDE DEF rank, rankMore, nth, nthMore
<1>9. \A x, y \in more : rankMore(x) = rankMore(y) => x = y
  <2> SUFFICES ASSUME NEW x \in more, NEW y \in more, rankMore(x) = rankMore(y) PROVE x = y
    OBVIOUS
  <2>1. ~(x < y) /\ ~(y < x)
    BY <1>8
  <2> QED
    BY <1>2, <2>1
<1>10. \A i \in 1 .. n : nthMore(i) = nth(i)
  <2> SUFFICES ASSUME NEW i \in 1 .. n PROVE nthMore(i) = nth(i)
    OBVIOUS
  <2>1. i \in 1 .. n + 1
    BY <1>1
  <2>2. nth(i) \in more /\ rankMore(nth(i)) = i
    BY <1>4, <1>6
  <2>3. nthMore(i) \in more /\ rankMore(nthMore(i)) = i
    BY <1>7, <2>1
  <2> QED
    BY <1>9, <2>2, <2>3
<1>11. nthMore(n + 1) = m
  <2>1. n + 1 \in 1 .. n + 1 /\ m \in more
    BY <1>1
  <2>2. nthMore(n + 1) \in more /\ rankMore(nthMore(n + 1)) = n + 1
    BY <1>7, <2>1
  <2> QED
    BY <1>5, <1>9, <2>1, <2>2
<1>12. AtPositions(seq, ps) = [i \in 1 .. n |-> seq[nth(i)]]
  BY DEF AtPositions, nth, rank
<1>13. AtPositions(seq, more) = [i \in 1 .. n + 1 |-> seq[nthMore(i)]]
  BY <1>3 DEF AtPositions, nthMore, rankMore
<1>14. AtPositions(seq, ps) \in Seq(D) /\ Len(AtPositions(seq, ps)) = n
  <2>1. AtPositions(seq, ps) \in Seq(D)
    BY AtPositionsType
  <2> QED
    BY <1>1, <1>12, <2>1, LenProperties
<1> HIDE DEF n, more
<1>15. seq[m] \in D
  BY ElementOfSeq, LenProperties
<1>16. Append(AtPositions(seq, ps), seq[m]) = [i \in 1 .. n + 1 |-> IF i <= n THEN seq[nth(i)] ELSE seq[m]]
  <2>1. \A i \in 1 .. n + 1 : i \in 1 .. n \/ i = n + 1
    BY <1>1
  <2>2. /\ Append(AtPositions(seq, ps), seq[m]) \in Seq(D)
        /\ Len(Append(AtPositions(seq, ps), seq[m])) = n + 1
        /\ \A i \in 1 .. n : Append(AtPositions(seq, ps), seq[m])[i] = AtPositions(seq, ps)[i]
        /\ Append(AtPositions(seq, ps), seq[m])[n + 1] = seq[m]
    BY <1>14, <1>15, AppendProperties
  <2>3. DOMAIN Append(AtPositions(seq, ps), seq[m]) = 1 .. n + 1
    BY <2>2, LenProperties
  <2> QED
    BY <1>1, <1>12, <1>14, <1>15, <2>1, <2>2, <2>3
<1>17. \A i \in 1 .. n + 1 : seq[nthMore(i)] = IF i <= n THEN seq[nth(i)] ELSE seq[m]
  <2> SUFFICES ASSUME NEW i \in 1 .. n + 1 PROVE seq[nthMore(i)] = IF i <= n THEN seq[nth(i)] ELSE seq[m]
    OBVIOUS
  <2>1. CASE i <= n
    BY <1>1, <1>10, <2>1
  <2>2. CASE i > n
    <3>1. i = n + 1
      BY <1>1, <2>2
    <3> QED
      BY <1>1, <1>11, <2>2, <3>1
  <2> QED
    BY <1>1, <2>1, <2>2
<1>18. AtPositions(seq, more) = Append(AtPositions(seq, ps), seq[m])
  BY <1>13, <1>16, <1>17
<1> QED
  BY <1>18 DEF more

(***************************************************************************)
(* Induction up to N, over a set: its greatest number such that all up to  *)
(* it are in the set can only be N.                                        *)
(***************************************************************************)
LEMMA UpTo ==
    ASSUME NEW N \in Nat, NEW S, 0 \in S, \A n \in 0 .. N - 1 : n \in S => n + 1 \in S
    PROVE  \A n \in 0 .. N : n \in S
<1> DEFINE T == {n \in 0 .. N : \A m \in 0 .. n : m \in S}
<1>1. T \in SUBSET Int /\ IsFiniteSet(T)
  <2>1. IsFiniteSet(0 .. N) /\ 0 .. N \in SUBSET Int
    BY FS_Interval
  <2>2. T \subseteq 0 .. N
    OBVIOUS
  <2> QED
    BY <2>1, <2>2, FS_Subset
<1>2. 0 \in T
  <2>1. \A m \in 0 .. 0 : m = 0
    OBVIOUS
  <2> QED
    BY <2>1
<1> DEFINE t == Max(T)
<1>3. t \in T /\ \A x \in T : x <= t
  BY <1>1, <1>2, MaxIsGreatest
<1> HIDE DEF t
<1>4. t \in 0 .. N /\ \A m \in 0 .. t : m \in S
  BY <1>3
<1>5. ASSUME t # N PROVE FALSE
  <2>1. t \in 0 .. N - 1 /\ t \in 0 .. t /\ t + 1 \in 0 .. N /\ ~(t + 1 <= t)
    BY <1>4, <1>5
  <2>2. t + 1 \in S
    BY <1>4, <2>1
  <2>3. \A m \in 0 .. t + 1 : m = t + 1 \/ m \in 0 .. t
    BY <1>4
  <2>4. t + 1 \in T
    BY <1>4, <2>1, <2>2, <2>3
  <2> QED
    BY <1>3, <2>1, <2>4
<1> QED
  BY <1>4, <1>5

\* A loop of N turns.
Iterate(f, step, S, a, N) ==
    f \in [0 .. N -> S] /\ f[0] = a /\ \A n \in 1 .. N : f[n] = step[n][f[n - 1]]

LEMMA Iterates ==
    ASSUME NEW S, NEW N \in Nat, NEW step \in [1 .. N -> [S -> S]], NEW a \in S
    PROVE  \E f : Iterate(f, step, S, a, N)
<1> DEFINE Runs(f, n) == f \in [0 .. n -> S] /\ f[0] = a /\ \A m \in 1 .. n : f[m] = step[m][f[m - 1]]
           Good == {n \in 0 .. N : \E f : Runs(f, n)}
<1>1. 0 \in Good
  <2> DEFINE f == [n \in 0 .. 0 |-> a]
  <2>1. \A n \in 0 .. 0 : n = 0
    OBVIOUS
  <2>2. 0 \in 0 .. 0 /\ 1 .. 0 = {} /\ 0 \in 0 .. N
    OBVIOUS
  <2>3. Runs(f, 0)
    BY <2>1, <2>2
  <2> QED
    BY <2>2, <2>3
<1>2. ASSUME NEW n \in 0 .. N - 1, n \in Good PROVE n + 1 \in Good
  <2>1. PICK f : Runs(f, n)
    BY <1>2
  <2> DEFINE g == [m \in 0 .. n + 1 |-> IF m = n + 1 THEN step[n + 1][f[n]] ELSE f[m]]
  <2>2. /\ n + 1 \in 0 .. N /\ n \in Nat /\ n \in 0 .. n /\ 0 \in 0 .. n /\ n + 1 # 0 /\ n + 1 - 1 = n /\ n + 1 \in 1 .. N
        /\ \A m \in 0 .. n + 1 : m = n + 1 \/ m \in 0 .. n
        /\ \A m \in 0 .. n : m \in 0 .. n + 1 /\ m # n + 1
        /\ \A m \in 1 .. n + 1 : m = n + 1 \/ m \in 1 .. n
        /\ \A m \in 1 .. n : m \in 0 .. n /\ m - 1 \in 0 .. n
    OBVIOUS
  <2>3. f[n] \in S /\ step[n + 1][f[n]] \in S
    BY <2>1, <2>2
  <2>4. \A m \in 0 .. n : g[m] = f[m]
    BY <2>2
  <2>5. g[n + 1] = step[n + 1][f[n]]
    BY <2>2
  <2>6. g \in [0 .. n + 1 -> S]
    BY <2>1, <2>2, <2>3
  <2> HIDE DEF g
  <2>7. \A m \in 1 .. n + 1 : g[m] = step[m][g[m - 1]]
    <3> SUFFICES ASSUME NEW m \in 1 .. n + 1 PROVE g[m] = step[m][g[m - 1]]
      OBVIOUS
    <3>1. CASE m = n + 1
      BY <2>2, <2>4, <2>5, <3>1
    <3>2. CASE m \in 1 .. n
      BY <2>1, <2>2, <2>4, <3>2
    <3> QED
      BY <2>2, <3>1, <3>2
  <2>8. Runs(g, n + 1)
    BY <2>1, <2>2, <2>4, <2>6, <2>7
  <2> QED
    BY <2>2, <2>8
<1>3. N \in Good
  <2>1. N \in 0 .. N
    OBVIOUS
  <2> HIDE DEF Good
  <2> QED
    BY <1>1, <1>2, <2>1, UpTo
<1> QED
  BY <1>3 DEF Iterate

\* Where the elements of a concatenation stand.
LEMMA ConcatPlaces ==
    ASSUME NEW D, NEW s \in Seq(D), NEW t \in Seq(D)
    PROVE  /\ s \o t \in Seq(D) /\ Len(s \o t) = Len(s) + Len(t)
           /\ \A n \in 1 .. Len(s) : (s \o t)[n] = s[n]
           /\ \A n \in 1 .. Len(t) : (s \o t)[Len(s) + n] = t[n]
<1>1. s \o t \in Seq(D) /\ Len(s) \in Nat /\ Len(t) \in Nat
  OBVIOUS
<1> QED
  BY <1>1

\* FlattenSeq appends one piece after the other.
Flattens(f, D, pieces) ==
    /\ f \in [0 .. Len(pieces) -> Seq(D)]
    /\ f[0] = <<>> /\ f[Len(pieces)] = FlattenSeq(pieces)
    /\ \A n \in 1 .. Len(pieces) : f[n] = f[n - 1] \o pieces[n]

LEMMA FlattenRuns ==
    ASSUME NEW D, NEW pieces \in Seq(Seq(D))
    PROVE  \E f : Flattens(f, D, pieces)
<1> DEFINE N == Len(pieces)
           S == Seq(D)
           step == [n \in 1 .. N |-> [s \in S |-> s \o pieces[n]]]
           Is(g) == g = [n \in 1 .. N |-> IF n = 1 THEN pieces[n] ELSE g[n - 1] \o pieces[n]]
<1>1. N \in Nat /\ \A n \in 1 .. N : pieces[n] \in S
  OBVIOUS
<1>2. step \in [1 .. N -> [S -> S]] /\ <<>> \in S
  <2>1. \A n \in 1 .. N : \A s \in S : s \o pieces[n] \in S
    BY <1>1
  <2> QED
    BY <2>1
<1>3. FlattenSeq(pieces) = IF N = 0 THEN pieces ELSE (CHOOSE g : Is(g))[N]
  BY DEF FlattenSeq
<1> HIDE DEF N, S
<1>4. PICK f : Iterate(f, step, S, <<>>, N)
  <2> HIDE DEF step
  <2> QED
    BY <1>1, <1>2, Iterates
<1>5. f \in [0 .. N -> S] /\ f[0] = <<>> /\ \A n \in 1 .. N : f[n] = f[n - 1] \o pieces[n]
  <2>1. f \in [0 .. N -> S] /\ f[0] = <<>> /\ \A n \in 1 .. N : f[n] = step[n][f[n - 1]]
    BY <1>4 DEF Iterate
  <2>2. \A n \in 1 .. N : n - 1 \in 0 .. N
    BY <1>1
  <2> QED
    BY <2>1, <2>2
<1>6. \A g : Is(g) => \A n \in 1 .. N : g[n] = f[n]
  <2> SUFFICES ASSUME NEW g, Is(g) PROVE \A n \in 1 .. N : g[n] = f[n]
    OBVIOUS
  <2> DEFINE Good == {n \in 0 .. N : n = 0 \/ g[n] = f[n]}
  <2>1. 0 \in Good
    BY <1>1
  <2>2. ASSUME NEW n \in 0 .. N - 1, n \in Good PROVE n + 1 \in Good
    <3> DEFINE k == n + 1
    <3>1. k \in 1 .. N /\ k - 1 = n /\ k \in 0 .. N /\ (k = 1 <=> n = 0)
      BY <1>1
    <3> HIDE DEF k
    <3>2. g[k] = IF k = 1 THEN pieces[k] ELSE g[k - 1] \o pieces[k]
      BY <3>1
    <3>3. f[k] = f[k - 1] \o pieces[k] /\ pieces[k] \in Seq(D)
      BY <1>1, <1>5, <3>1 DEF S
    <3>4. <<>> \o pieces[k] = pieces[k]
      BY <3>3
    <3>5. CASE n = 0
      <4>1. f[k - 1] = <<>>
        BY <1>5, <3>1, <3>5
      <4>2. g[k] = f[k]
        BY <3>1, <3>2, <3>3, <3>4, <3>5, <4>1
      <4> QED
        BY <3>1, <4>2 DEF k
    <3>6. CASE n # 0
      <4>1. g[k] = f[k]
        BY <2>2, <3>1, <3>2, <3>3, <3>6
      <4> QED
        BY <3>1, <4>1 DEF k
    <3> QED
      BY <3>5, <3>6
  <2> HIDE DEF Good
  <2>3. \A n \in 0 .. N : n \in Good
    BY <1>1, <2>1, <2>2, UpTo
  <2>4. \A n \in 1 .. N : n \in 0 .. N /\ n # 0
    BY <1>1
  <2> QED
    BY <2>3, <2>4 DEF Good
<1>7. \E g : Is(g)
  <2> DEFINE h == [n \in 1 .. N |-> f[n]]
  <2>1. \A n \in 1 .. N : f[n] = IF n = 1 THEN pieces[n] ELSE h[n - 1] \o pieces[n]
    <3> SUFFICES ASSUME NEW n \in 1 .. N PROVE f[n] = IF n = 1 THEN pieces[n] ELSE h[n - 1] \o pieces[n]
      OBVIOUS
    <3>1. f[n] = f[n - 1] \o pieces[n] /\ pieces[n] \in Seq(D)
      BY <1>1, <1>5 DEF S
    <3>2. CASE n = 1
      <4>1. <<>> \o pieces[n] = pieces[n]
        BY <3>1
      <4>2. f[n - 1] = <<>>
        BY <1>5, <3>2
      <4> QED
        BY <3>1, <3>2, <4>1, <4>2
    <3>3. CASE n # 1
      <4>1. n - 1 \in 1 .. N
        BY <1>1, <3>3
      <4> QED
        BY <3>1, <3>3, <4>1
    <3> QED
      BY <3>2, <3>3
  <2>2. Is(h)
    BY <2>1
  <2> QED
    BY <2>2
<1>8. FlattenSeq(pieces) = f[N]
  <2>1. CASE N = 0
    <3>1. pieces = <<>>
      BY <2>1 DEF N
    <3> QED
      BY <1>3, <1>5, <2>1, <3>1
  <2>2. CASE N # 0
    <3>1. N \in 1 .. N
      BY <1>1, <2>2
    <3> DEFINE g == CHOOSE h : Is(h)
    <3>2. Is(g)
      BY <1>7
    <3> HIDE DEF g
    <3>3. g[N] = f[N]
      BY <1>6, <3>1, <3>2
    <3> QED
      BY <1>3, <2>2, <3>3 DEF g
  <2> QED
    BY <2>1, <2>2
<1> QED
  BY <1>5, <1>8 DEF Flattens, N, S

\* A sequence of pieces makes a sequence ...
LEMMA FlattenIs ==
    ASSUME NEW D, NEW pieces \in Seq(Seq(D))
    PROVE  FlattenSeq(pieces) \in Seq(D)
<1>1. PICK f : Flattens(f, D, pieces)
  BY FlattenRuns
<1>2. Len(pieces) \in Nat
  OBVIOUS
<1> QED
  BY <1>1, <1>2 DEF Flattens

\* ... and one more piece stands at its end.
LEMMA FlattenAppend ==
    ASSUME NEW D, NEW pieces \in Seq(Seq(D)), NEW x \in Seq(D)
    PROVE  FlattenSeq(Append(pieces, x)) = FlattenSeq(pieces) \o x
<1> DEFINE N == Len(pieces)
           more == Append(pieces, x)
<1>1. N \in Nat /\ more \in Seq(Seq(D)) /\ Len(more) = N + 1 /\ more[N + 1] = x
      /\ \A n \in 1 .. N : more[n] = pieces[n]
  OBVIOUS
<1>2. PICK f : Flattens(f, D, pieces)
  BY FlattenRuns
<1>3. PICK g : Flattens(g, D, more)
  BY <1>1, FlattenRuns
<1> HIDE DEF more
<1>4. f[0] = <<>> /\ f[N] = FlattenSeq(pieces) /\ \A n \in 1 .. N : f[n] = f[n - 1] \o pieces[n]
  BY <1>2 DEF Flattens
<1>5. g[0] = <<>> /\ g[N + 1] = FlattenSeq(more) /\ \A n \in 1 .. N + 1 : g[n] = g[n - 1] \o more[n]
  BY <1>1, <1>3 DEF Flattens
<1> HIDE DEF N
<1> DEFINE Good == {n \in 0 .. N : f[n] = g[n]}
<1>6. 0 \in Good
  BY <1>1, <1>4, <1>5
<1>7. ASSUME NEW n \in 0 .. N - 1, n \in Good PROVE n + 1 \in Good
  <2> DEFINE k == n + 1
  <2>1. k \in 1 .. N /\ k \in 1 .. N + 1 /\ k - 1 = n /\ k \in 0 .. N
    BY <1>1
  <2> HIDE DEF k
  <2>2. f[k] = f[k - 1] \o pieces[k] /\ g[k] = g[k - 1] \o more[k]
    BY <1>4, <1>5, <2>1
  <2>3. f[n] = g[n] /\ more[k] = pieces[k]
    BY <1>1, <1>7, <2>1
  <2>4. k \in Good
    BY <2>1, <2>2, <2>3
  <2> QED
    BY <2>4 DEF k
<1> HIDE DEF Good
<1>8. \A n \in 0 .. N : n \in Good
  BY <1>1, <1>6, <1>7, UpTo
<1>9. f[N] = g[N]
  <2>1. N \in 0 .. N
    BY <1>1
  <2>2. N \in Good
    BY <1>8, <2>1
  <2> QED
    BY <2>2 DEF Good
<1>10. g[N + 1] = g[N] \o x
  <2> DEFINE k == N + 1
  <2>1. k \in 1 .. N + 1 /\ k - 1 = N /\ more[k] = x
    BY <1>1
  <2> HIDE DEF k
  <2>2. g[k] = g[k - 1] \o more[k]
    BY <1>5, <2>1
  <2> QED
    BY <2>1, <2>2 DEF k
<1> QED
  BY <1>4, <1>5, <1>9, <1>10 DEF more
=============================================================================
