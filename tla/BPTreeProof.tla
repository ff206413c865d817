----------------------------- MODULE BPTreeProof -----------------------------
(***************************************************************************)
(* Proofs about the tree of BPTree, for every ORDER, whatever callers      *)
(* insert and wherever an allocation fails.                                *)
(*                                                                         *)
(* What is below a node, and the nodes a search visits, are least sets     *)
(* closed under an edge relation (Reach): along all child pointers, or     *)
(* along those bptree_find_leaf follows for a key.  The tree is ordered    *)
(* when every key of every node is on the way a search for it takes        *)
(* (Routed).  The lemmas on this are about any keys and children; the      *)
(* actions are insertions, splits and attachments of such (ks, cs), seen   *)
(* through the heap.                                                       *)
(***************************************************************************)
EXTENDS BPTreeProps, PositionLemmas

(***************************************************************************)
(* Reachability.                                                           *)
(***************************************************************************)
Graph == [Nat -> SUBSET Nat]

ClosedUnder(E, S) == \A x \in S : E[x] \subseteq S

\* The least set that has m and is closed under E.
Reach(E, m) == {n \in Nat : \A S \in SUBSET Nat : m \in S /\ ClosedUnder(E, S) => n \in S}

LEMMA ReachLeast ==
    ASSUME NEW E \in Graph, NEW m \in Nat, NEW S \in SUBSET Nat, m \in S, ClosedUnder(E, S)
    PROVE  Reach(E, m) \subseteq S
BY DEF Reach

LEMMA ReachBasics ==
    ASSUME NEW E \in Graph, NEW m \in Nat
    PROVE  /\ m \in Reach(E, m) /\ Reach(E, m) \in SUBSET Nat
           /\ ClosedUnder(E, Reach(E, m))
<1>1. m \in Reach(E, m) /\ Reach(E, m) \in SUBSET Nat
  BY DEF Reach
<1>2. ASSUME NEW x \in Reach(E, m), NEW y \in E[x]
      PROVE  y \in Reach(E, m)
  <2>1. x \in Nat /\ y \in Nat
    BY <1>1 DEF Graph
  <2>2. ASSUME NEW S \in SUBSET Nat, m \in S, ClosedUnder(E, S)
        PROVE  y \in S
    BY <2>2 DEF Reach, ClosedUnder
  <2> QED
    BY <2>1, <2>2 DEF Reach
<1> QED
  BY <1>1, <1>2 DEF ClosedUnder

LEMMA ReachTransitive ==
    ASSUME NEW E \in Graph, NEW m \in Nat, NEW c \in Reach(E, m)
    PROVE  Reach(E, c) \subseteq Reach(E, m)
BY ReachBasics, ReachLeast, c \in Nat

\* What is reached is the start or an edge leads to it from what is reached.
LEMMA ReachLast ==
    ASSUME NEW E \in Graph, NEW m \in Nat, NEW x \in Reach(E, m), x # m
    PROVE  \E y \in Reach(E, m) : x \in E[y]
<1> DEFINE S == {n \in Reach(E, m) : n = m \/ \E y \in Reach(E, m) : n \in E[y]}
<1>1. S \in SUBSET Nat /\ m \in S /\ ClosedUnder(E, S)
  BY ReachBasics DEF ClosedUnder
<1>2. x \in S
  BY <1>1, ReachLeast
<1> QED
  BY <1>2

LEMMA ReachFirst ==
    ASSUME NEW E \in Graph, NEW m \in Nat
    PROVE  Reach(E, m) = {m} \cup UNION {Reach(E, c) : c \in E[m]}
<1> DEFINE S == {m} \cup UNION {Reach(E, c) : c \in E[m]}
<1>1. \A c \in E[m] : /\ c \in Nat /\ c \in Reach(E, m) /\ c \in Reach(E, c)
                      /\ Reach(E, c) \in SUBSET Nat /\ ClosedUnder(E, Reach(E, c))
                      /\ Reach(E, c) \subseteq Reach(E, m)
  <2> SUFFICES ASSUME NEW c \in E[m]
               PROVE  /\ c \in Nat /\ c \in Reach(E, m) /\ c \in Reach(E, c)
                      /\ Reach(E, c) \in SUBSET Nat /\ ClosedUnder(E, Reach(E, c))
                      /\ Reach(E, c) \subseteq Reach(E, m)
    OBVIOUS
  <2>1. c \in Nat
    BY DEF Graph
  <2>2. c \in Reach(E, m)
    BY ReachBasics DEF ClosedUnder
  <2> QED
    BY <2>1, <2>2, ReachBasics, ReachTransitive
<1>2. S \in SUBSET Nat /\ m \in S
  BY <1>1
<1>3. ClosedUnder(E, S)
  BY <1>1 DEF ClosedUnder
<1>4. S \subseteq Reach(E, m)
  BY <1>1, ReachBasics
<1> QED
  BY <1>2, <1>3, <1>4, ReachLeast

\* More edges reach more.
LEMMA ReachMonotone ==
    ASSUME NEW E \in Graph, NEW F \in Graph, NEW m \in Nat,
           \A x \in Reach(F, m) : E[x] \subseteq F[x]
    PROVE  Reach(E, m) \subseteq Reach(F, m)
<1>1. ClosedUnder(E, Reach(F, m))
  BY ReachBasics DEF ClosedUnder
<1> QED
  BY <1>1, ReachBasics, ReachLeast

LEMMA ReachAgrees ==
    ASSUME NEW E \in Graph, NEW F \in Graph, NEW m \in Nat,
           \A x \in Reach(E, m) : E[x] = F[x]
    PROVE  Reach(E, m) = Reach(F, m)
<1>1. Reach(F, m) \subseteq Reach(E, m)
  BY ReachMonotone
<1>2. \A x \in Reach(F, m) : E[x] \subseteq F[x]
  BY <1>1
<1> QED
  BY <1>1, <1>2, ReachMonotone

(***************************************************************************)
(* Trees: the keys and the children of each node.                          *)
(***************************************************************************)
Kids(cs) == [n \in Nat |-> Range(cs[n])]

\* The child a search for k goes to.
Slot(keys, k) == FirstSlot(keys, LAMBDA s : k < s)

Way(ks, cs, k) ==
    [n \in Nat |-> IF cs[n] = <<>> THEN {} ELSE {cs[n][Slot(ks[n], k)]}]

Below(cs, m) == Reach(Kids(cs), m)
Path(ks, cs, m, k) == Reach(Way(ks, cs, k), m)

Fits(ks, cs) ==
    /\ ks \in [Nat -> Seq(Keys)] /\ cs \in [Nat -> Seq(Nat)]
    /\ \A n \in Nat : Ascending(ks[n])
    /\ \A n \in Nat : cs[n] # <<>> => Len(cs[n]) = Len(ks[n]) + 1

\* No node is the child of two, or of one twice.
Forest(cs) ==
    \A x, y \in Nat : \A i \in DOMAIN cs[x], j \in DOMAIN cs[y] :
        cs[x][i] = cs[y][j] => x = y /\ i = j

\* No node is below itself.
Descends(cs) ==
    \E level \in [Nat -> Nat] : \A n \in Nat : \A c \in Kids(cs)[n] : level[c] < level[n]

Tree(ks, cs) == Fits(ks, cs) /\ Forest(cs) /\ Descends(cs)

Top(cs, m) == m \in Nat /\ \A n \in Nat : m \notin Kids(cs)[n]

(***************************************************************************)
(* Slots.                                                                  *)
(***************************************************************************)
\* A set of numbers has a least one.
LEMMA LeastExists ==
    ASSUME NEW S \in SUBSET Nat, S # {}
    PROVE  Min(S) \in S /\ \A x \in S : Min(S) <= x
<1>1. PICK s \in S : TRUE
  OBVIOUS
<1> DEFINE T == {x \in S : x <= s}
<1>2. T \in SUBSET Int /\ IsFiniteSet(T)
  <2>1. s \in Nat /\ T \subseteq 0 .. s
    <3>1. \A x \in S : x \in Nat
      OBVIOUS
    <3>2. \A x \in T : x \in 0 .. s
      BY <3>1
    <3> QED
      BY <3>1, <3>2
  <2>2. IsFiniteSet(0 .. s)
    BY <2>1, FS_Interval
  <2> QED
    BY <2>1, <2>2, FS_Subset
<1>3. 1 \in 1 .. Cardinality(T)
  <2>1. Cardinality(T) \in Nat /\ Cardinality(T) # 0
    BY <1>1, <1>2, FS_CardinalityType, FS_EmptySet
  <2> QED
    BY <2>1
<1>4. PICK p \in T : Cardinality({q \in T : q <= p}) = 1
  BY <1>2, <1>3, RankIsOnto
<1> DEFINE U == {q \in T : q <= p}
<1>5. \A q \in U : q = p
  <2>1. IsFiniteSet(U) /\ IsFiniteSet({p}) /\ {p} \subseteq U
    BY <1>2, <1>4, FS_Subset, FS_Singleton
  <2>2. Cardinality({p}) = 1
    BY FS_Singleton
  <2>3. U = {p}
    BY <1>4, <2>1, <2>2, FS_Subset
  <2> QED
    BY <2>3
<1>6. \A x \in S : p <= x
  <2> SUFFICES ASSUME NEW x \in S, x < p PROVE FALSE
    OBVIOUS
  <2>1. x \in U
    OBVIOUS
  <2> QED
    BY <1>5, <2>1
<1>7. \E x \in S : \A y \in S : x =< y
  BY <1>6
<1> QED
  BY <1>7 DEF Min

\* A scan stops at the first position that passes.
LEMMA FirstSlotIs ==
    ASSUME NEW n \in Nat, NEW hits \in SUBSET (1 .. n),
           NEW slot, slot = IF hits = {} THEN n + 1 ELSE Min(hits)
    PROVE  /\ slot \in 1 .. n + 1
           /\ slot <= n => slot \in hits
           /\ \A i \in 1 .. n : i < slot => i \notin hits
<1>1. CASE hits = {}
  BY <1>1
<1>2. CASE hits # {}
  <2>1. hits \in SUBSET Nat
    OBVIOUS
  <2>2. Min(hits) \in hits /\ \A x \in hits : Min(hits) <= x
    BY <1>2, <2>1, LeastExists
  <2>3. slot = Min(hits)
    BY <1>2
  <2> QED
    BY <2>2, <2>3
<1> QED
  BY <1>1, <1>2

LEMMA SlotIs ==
    ASSUME NEW keys \in Seq(Int), NEW k \in Int
    PROVE  /\ Slot(keys, k) \in 1 .. Len(keys) + 1
           /\ Slot(keys, k) <= Len(keys) => k < keys[Slot(keys, k)]
           /\ \A i \in 1 .. Len(keys) : i < Slot(keys, k) => keys[i] <= k
<1> DEFINE hits == {i \in DOMAIN keys : k < keys[i]}
<1>1. Len(keys) \in Nat /\ DOMAIN keys = 1 .. Len(keys) /\ \A i \in 1 .. Len(keys) : keys[i] \in Int
  BY LenProperties, ElementOfSeq
<1>2. hits \in SUBSET (1 .. Len(keys))
  BY <1>1
<1>3. Slot(keys, k) = IF hits = {} THEN Len(keys) + 1 ELSE Min(hits)
  BY DEF Slot, FirstSlot
<1>4. /\ Slot(keys, k) \in 1 .. Len(keys) + 1
      /\ Slot(keys, k) <= Len(keys) => Slot(keys, k) \in hits
      /\ \A i \in 1 .. Len(keys) : i < Slot(keys, k) => i \notin hits
  BY <1>1, <1>2, <1>3, FirstSlotIs
<1> QED
  BY <1>1, <1>4

\* Among ascending keys there is only one such slot.
LEMMA SlotIsUnique ==
    ASSUME NEW keys \in Seq(Int), Ascending(keys), NEW k \in Int,
           NEW i \in 1 .. Len(keys) + 1,
           i > 1 => keys[i - 1] <= k, i <= Len(keys) => k < keys[i]
    PROVE  Slot(keys, k) = i
<1>1. Len(keys) \in Nat /\ DOMAIN keys = 1 .. Len(keys) /\ \A j \in 1 .. Len(keys) : keys[j] \in Int
  BY LenProperties, ElementOfSeq
<1> DEFINE s == Slot(keys, k)
<1>2. /\ s \in 1 .. Len(keys) + 1
      /\ s <= Len(keys) => k < keys[s]
      /\ \A j \in 1 .. Len(keys) : j < s => keys[j] <= k
  BY SlotIs
<1> HIDE DEF s
<1>3. CASE s < i
  <2>1. i > 1 /\ i - 1 \in 1 .. Len(keys) /\ s \in 1 .. Len(keys) /\ s <= i - 1
    BY <1>1, <1>2, <1>3
  <2>2. s < i - 1 => keys[s] < keys[i - 1]
    BY <1>1, <2>1 DEF Ascending
  <2> QED
    <3>1. keys[s] <= keys[i - 1]
      BY <1>1, <2>1, <2>2
    <3>2. keys[s] \in Int /\ keys[i - 1] \in Int
      BY <1>1, <2>1
    <3> QED
      BY <1>2, <2>1, <3>1, <3>2
<1>4. CASE i < s
  BY <1>1, <1>2, <1>4
<1> QED
  BY <1>1, <1>2, <1>3, <1>4 DEF s

(***************************************************************************)
(* Ways through a tree.                                                    *)
(***************************************************************************)
LEMMA KeysAreNumbers ==
    ASSUME NEW ks, NEW cs, Fits(ks, cs), NEW n \in Nat
    PROVE  /\ ks[n] \in Seq(Int) /\ Range(ks[n]) \in SUBSET Keys /\ Range(ks[n]) \in SUBSET Int
<1>1. ks[n] \in Seq(Keys)
  BY DEF Fits
<1> QED
  BY <1>1, RangeOfSeq, SeqMonotonic, KeysAssumption

LEMMA TreeGraphs ==
    ASSUME NEW ks, NEW cs, Fits(ks, cs), NEW k \in Int
    PROVE  /\ Kids(cs) \in Graph /\ Way(ks, cs, k) \in Graph
           /\ \A n \in Nat : Way(ks, cs, k)[n] \subseteq Kids(cs)[n]
<1>1. ASSUME NEW n \in Nat
      PROVE  /\ cs[n] \in Seq(Nat) /\ Len(cs[n]) \in Nat /\ DOMAIN cs[n] = 1 .. Len(cs[n])
             /\ Range(cs[n]) \in SUBSET Nat
             /\ cs[n] # <<>> => cs[n][Slot(ks[n], k)] \in Range(cs[n])
  <2>1. /\ cs[n] \in Seq(Nat) /\ Len(cs[n]) \in Nat /\ DOMAIN cs[n] = 1 .. Len(cs[n])
        /\ Range(cs[n]) \in SUBSET Nat
    BY LenProperties, RangeOfSeq DEF Fits
  <2>2. cs[n] # <<>> => Slot(ks[n], k) \in DOMAIN cs[n]
    <3>1. ks[n] \in Seq(Int) /\ (cs[n] # <<>> => Len(cs[n]) = Len(ks[n]) + 1)
      BY KeysAreNumbers DEF Fits
    <3> QED
      BY <2>1, <3>1, SlotIs
  <2> QED
    BY <2>1, <2>2 DEF Range
<1>2. Kids(cs) \in Graph
  BY <1>1 DEF Kids, Graph
<1>3. \A n \in Nat : Way(ks, cs, k)[n] \subseteq Kids(cs)[n]
  BY <1>1 DEF Way, Kids
<1>4. Way(ks, cs, k) \in Graph
  <2>1. \A n \in Nat : Way(ks, cs, k)[n] \in SUBSET Nat
    BY <1>2, <1>3 DEF Graph
  <2> QED
    BY <2>1 DEF Way, Graph
<1> QED
  BY <1>2, <1>3, <1>4

\* Who has a child is the only one.
LEMMA OneParent ==
    ASSUME NEW cs, Forest(cs), NEW x \in Nat, NEW y \in Nat, NEW c \in Kids(cs)[x], c \in Kids(cs)[y]
    PROVE  x = y
BY DEF Forest, Kids, Range

\* The parent of a node below c is below c, except the parent of c.
LEMMA ParentIsBelow ==
    ASSUME NEW cs, Kids(cs) \in Graph, Forest(cs), NEW c \in Nat, NEW x \in Nat,
           NEW y \in Kids(cs)[x], y \in Below(cs, c), y # c
    PROVE  x \in Below(cs, c)
<1>1. PICK z \in Below(cs, c) : y \in Kids(cs)[z]
  BY ReachLast DEF Below
<1>2. z \in Nat
  BY ReachBasics DEF Below
<1> QED
  BY <1>1, <1>2, OneParent

LEMMA PathIsBelow ==
    ASSUME NEW ks, NEW cs, Fits(ks, cs), NEW k \in Int, NEW m \in Nat
    PROVE  Path(ks, cs, m, k) \subseteq Below(cs, m)
BY TreeGraphs, ReachMonotone, ReachBasics DEF Path, Below

\* The trees of two tops have no node in common.
LEMMA TreesAreApart ==
    ASSUME NEW cs, Kids(cs) \in Graph, Forest(cs), NEW a, NEW b, Top(cs, a), Top(cs, b), a # b
    PROVE  Below(cs, a) \cap Below(cs, b) = {}
<1> DEFINE S == Nat \ Below(cs, b)
<1>1. a \in S
  <2> SUFFICES ASSUME a \in Below(cs, b) PROVE FALSE
    BY DEF Top
  <2>1. PICK z \in Below(cs, b) : a \in Kids(cs)[z]
    BY ReachLast DEF Below, Top
  <2> QED
    BY <2>1, ReachBasics DEF Top, Below
<1>2. ClosedUnder(Kids(cs), S)
  <2> SUFFICES ASSUME NEW x \in S, NEW y \in Kids(cs)[x] PROVE y \in S
    BY DEF ClosedUnder
  <2>1. y \in Nat /\ y # b /\ b \in Nat
    BY DEF Graph, Top
  <2> QED
    BY <2>1, ParentIsBelow
<1>3. Below(cs, a) \subseteq S
  BY <1>1, <1>2, ReachLeast DEF Below, Top
<1> QED
  BY <1>3

\* A search that comes to a node below c came to c.
LEMMA ThroughAncestor ==
    ASSUME NEW ks, NEW cs, Fits(ks, cs), Forest(cs), NEW k \in Int, NEW m, Top(cs, m), NEW c \in Nat,
           NEW x \in Path(ks, cs, m, k), x \in Below(cs, c)
    PROVE  c \in Path(ks, cs, m, k)
<1> DEFINE path == Path(ks, cs, m, k)
           S == {n \in Nat : n \in path => c \in path}
<1>1. /\ Kids(cs) \in Graph /\ Way(ks, cs, k) \in Graph /\ m \in Nat
      /\ \A n \in Nat : Way(ks, cs, k)[n] \subseteq Kids(cs)[n]
      /\ path \in SUBSET Nat
  BY TreeGraphs, ReachBasics DEF Top, Path
<1>2. ClosedUnder(Kids(cs), S)
  <2> SUFFICES ASSUME NEW n \in S, NEW y \in Kids(cs)[n], y \in path PROVE c \in path
    BY <1>1 DEF ClosedUnder, Graph
  <2>1. y # m
    BY DEF Top
  <2>2. PICK z \in path : y \in Way(ks, cs, k)[z]
    BY <1>1, <2>1, ReachLast DEF Path
  <2>3. z = n
    BY <1>1, <2>2, OneParent
  <2> QED
    BY <2>2, <2>3
<1>3. c \in S /\ S \in SUBSET Nat
  OBVIOUS
<1>4. Below(cs, c) \subseteq S
  BY <1>1, <1>2, <1>3, ReachLeast DEF Below
<1> QED
  BY <1>4

\* ... and turned to c at the parent of c.
LEMMA TurnsToChild ==
    ASSUME NEW ks, NEW cs, Fits(ks, cs), Forest(cs), NEW k \in Int, NEW m, Top(cs, m),
           NEW q \in Nat, NEW c \in Kids(cs)[q],
           NEW x \in Path(ks, cs, m, k), x \in Below(cs, c)
    PROVE  /\ q \in Path(ks, cs, m, k) /\ c \in Way(ks, cs, k)[q]
<1>1. /\ Kids(cs) \in Graph /\ Way(ks, cs, k) \in Graph /\ m \in Nat /\ c \in Nat /\ c # m
      /\ \A n \in Nat : Way(ks, cs, k)[n] \subseteq Kids(cs)[n]
      /\ Path(ks, cs, m, k) \in SUBSET Nat
  BY TreeGraphs, ReachBasics DEF Top, Path, Graph
<1>2. c \in Path(ks, cs, m, k)
  BY <1>1, ThroughAncestor
<1>3. PICK z \in Path(ks, cs, m, k) : c \in Way(ks, cs, k)[z]
  BY <1>1, <1>2, ReachLast DEF Path
<1>4. z = q
  BY <1>1, <1>3, OneParent
<1> QED
  BY <1>3, <1>4

\* A search that started at c would go on as one that came to it.
LEMMA PathRestarts ==
    ASSUME NEW ks, NEW cs, Fits(ks, cs), Forest(cs), NEW k \in Int, NEW m, Top(cs, m), NEW c \in Nat,
           NEW x \in Path(ks, cs, m, k), x \in Below(cs, c)
    PROVE  x \in Path(ks, cs, c, k)
<1> DEFINE S == Path(ks, cs, c, k) \cup (Nat \ Below(cs, c))
<1>1. /\ Kids(cs) \in Graph /\ Way(ks, cs, k) \in Graph /\ m \in Nat
      /\ \A n \in Nat : Way(ks, cs, k)[n] \subseteq Kids(cs)[n]
      /\ Path(ks, cs, c, k) \in SUBSET Nat /\ c \in Path(ks, cs, c, k)
      /\ ClosedUnder(Way(ks, cs, k), Path(ks, cs, c, k))
  BY TreeGraphs, ReachBasics DEF Top, Path
<1>2. m \in S
  <2>1. CASE m = c
    BY <1>1, <2>1
  <2>2. CASE m # c /\ m \in Below(cs, c)
    <3>1. PICK z \in Below(cs, c) : m \in Kids(cs)[z]
      BY <1>1, <2>2, ReachLast DEF Below
    <3> QED
      BY <1>1, <3>1, ReachBasics DEF Top, Below
  <2> QED
    BY <1>1, <2>1, <2>2
<1>3. ClosedUnder(Way(ks, cs, k), S)
  <2> SUFFICES ASSUME NEW n \in S, NEW y \in Way(ks, cs, k)[n] PROVE y \in S
    BY DEF ClosedUnder
  <2>1. CASE n \in Path(ks, cs, c, k)
    BY <1>1, <2>1 DEF ClosedUnder
  <2>2. CASE n \in Nat \ Below(cs, c)
    <3>1. y \in Kids(cs)[n] /\ y \in Nat
      BY <1>1, <2>2 DEF Graph
    <3>2. CASE y = c
      BY <1>1, <3>2
    <3>3. CASE y # c
      BY <1>1, <2>2, <3>1, <3>3, ParentIsBelow
    <3> QED
      BY <3>2, <3>3
  <2> QED
    BY <2>1, <2>2
<1>4. S \in SUBSET Nat
  BY <1>1
<1> HIDE DEF S
<1>5. x \in S
  BY <1>1, <1>2, <1>3, <1>4, ReachLeast DEF Path
<1> QED
  BY <1>5 DEF S

\* No node is below one of its children.
LEMMA NotBelowChild ==
    ASSUME NEW cs, Kids(cs) \in Graph, Descends(cs), NEW q \in Nat, NEW c \in Kids(cs)[q]
    PROVE  q \notin Below(cs, c)
<1>1. PICK level \in [Nat -> Nat] : \A n \in Nat : \A d \in Kids(cs)[n] : level[d] < level[n]
  BY DEF Descends
<1> DEFINE S == {n \in Nat : level[n] <= level[c]}
<1>2. c \in Nat /\ c \in S /\ S \in SUBSET Nat
  BY <1>1 DEF Graph
<1>3. ClosedUnder(Kids(cs), S)
  <2> SUFFICES ASSUME NEW x \in S, NEW y \in Kids(cs)[x] PROVE y \in S
    BY DEF ClosedUnder
  <2>1. y \in Nat /\ x \in Nat
    BY DEF Graph
  <2>2. level[y] \in Nat /\ level[x] \in Nat /\ level[c] \in Nat
    BY <1>1, <1>2, <2>1
  <2>3. level[y] < level[x] /\ level[x] <= level[c]
    BY <1>1, <2>1
  <2> QED
    BY <2>1, <2>2, <2>3
<1>4. Below(cs, c) \subseteq S
  BY <1>2, <1>3, ReachLeast DEF Below
<1>5. q \notin S
  BY <1>1, <1>2
<1> QED
  BY <1>4, <1>5

(***************************************************************************)
(* The order of a tree: a search for a key comes to every node that has    *)
(* the key.                                                                *)
(***************************************************************************)
Routed(ks, cs, m) ==
    \A n \in Below(cs, m) : \A k \in Range(ks[n]) : n \in Path(ks, cs, m, k)

\* What a pending bptree_insert_into_parent knows of its arguments: right
\* takes over the keys from `key' on that searches go to left for.
Hangs(ks, cs, m, left, key, right) ==
    /\ key \in Int /\ left \in Path(ks, cs, m, key)
    /\ \E low \in Int : low < key /\ left \in Path(ks, cs, m, low)
    /\ Top(cs, right) /\ right # m
    /\ \A n \in Below(cs, left) : \A k \in Range(ks[n]) : k < key
    /\ \A n \in Below(cs, right) : \A k \in Range(ks[n]) :
         key <= k /\ left \in Path(ks, cs, m, k)
    /\ Routed(ks, cs, right)

(***************************************************************************)
(* Splitting q: the keys from `key' on, and the children behind it, go to  *)
(* a new node.                                                             *)
(***************************************************************************)
LEMMA SplitKeepsRoutes ==
    ASSUME NEW ks, NEW cs, NEW ks2, NEW cs2, Tree(ks, cs), Fits(ks2, cs2), Forest(cs2),
           NEW m, Top(cs, m), NEW q \in Below(cs, m), NEW new, Top(cs, new), new # m,
           cs[new] = <<>>, NEW key \in Range(ks[q]), NEW low \in Range(ks[q]), low < key,
           \A n \in Nat \ {q, new} : ks2[n] = ks[n] /\ cs2[n] = cs[n],
           Range(ks2[q]) \subseteq {k \in Range(ks[q]) : k < key},
           Range(ks2[new]) \subseteq {k \in Range(ks[q]) : key <= k},
           Kids(cs)[q] = Kids(cs2)[q] \cup Kids(cs2)[new],
           \A k \in Int : k < key => /\ Way(ks2, cs2, k)[q] = Way(ks, cs, k)[q]
                                     /\ Way(ks, cs, k)[q] \cap Kids(cs2)[new] = {},
           \A k \in Int : key <= k => /\ Way(ks2, cs2, k)[new] = Way(ks, cs, k)[q]
                                      /\ Way(ks, cs, k)[q] \cap Kids(cs2)[q] = {},
           Routed(ks, cs, m)
    PROVE  /\ Routed(ks2, cs2, m) /\ Top(cs2, m)
           /\ Hangs(ks2, cs2, m, q, key, new)
<1> DEFINE E == Kids(cs)
           F == Kids(cs2)
<1>1. /\ E \in Graph /\ F \in Graph /\ m \in Nat /\ new \in Nat /\ q \in Nat
      /\ Fits(ks, cs) /\ Forest(cs) /\ Descends(cs)
      /\ \A n \in Nat : Below(cs, n) \in SUBSET Nat /\ n \in Below(cs, n)
      /\ \A n \in Nat : Below(cs2, n) \in SUBSET Nat /\ n \in Below(cs2, n)
  <2>1. E \in Graph /\ F \in Graph /\ m \in Nat /\ new \in Nat
    BY 0 \in Int, TreeGraphs DEF Tree, Top
  <2> QED
    BY <2>1, ReachBasics DEF Below, Tree
<1>2. key \in Int /\ low \in Int
  BY <1>1, KeysAreNumbers
<1>3. /\ new \notin Below(cs, m) /\ new # q /\ E[new] = {}
      /\ \A n \in Nat \ {q, new} : F[n] = E[n]
  <2>1. new \notin Below(cs, m)
    BY <1>1, TreesAreApart
  <2>2. E[new] = {}
    BY <1>1 DEF Kids, Range
  <2> QED
    BY <2>1, <2>2 DEF Kids
<1>4. \A n \in Nat : \A y \in F[n] : \E x \in Nat : y \in E[x] /\ (x = n \/ (x = q /\ n = new))
  BY <1>1, <1>3
<1>5. Top(cs2, m) /\ Top(cs2, new)
  BY <1>1, <1>4 DEF Top
<1>6. \A c \in E[q] : /\ c \in Nat /\ c # m /\ c # new /\ Below(cs, c) \subseteq Below(cs, m)
                      /\ q \notin Below(cs, c) /\ new \notin Below(cs, c)
  <2> SUFFICES ASSUME NEW c \in E[q]
               PROVE  /\ c \in Nat /\ c # m /\ c # new /\ Below(cs, c) \subseteq Below(cs, m)
                      /\ q \notin Below(cs, c) /\ new \notin Below(cs, c)
    OBVIOUS
  <2>1. c \in Nat /\ c # m /\ c # new
    BY <1>1 DEF Top, Graph
  <2>2. c \in Below(cs, m)
    BY <1>1, ReachBasics DEF Below, ClosedUnder
  <2>3. Below(cs, c) \subseteq Below(cs, m)
    BY <1>1, <2>2, ReachTransitive DEF Below
  <2>4. q \notin Below(cs, c)
    BY <1>1, NotBelowChild
  <2> QED
    BY <1>3, <2>1, <2>3, <2>4
<1>7. \A k \in Int : /\ Way(ks, cs, k) \in Graph /\ Way(ks2, cs2, k) \in Graph
                     /\ \A n \in Nat \ {q, new} : Way(ks2, cs2, k)[n] = Way(ks, cs, k)[n]
                     /\ Way(ks, cs, k)[new] = {}
                     /\ \A n \in Nat : Way(ks, cs, k)[n] \subseteq E[n]
  <2> SUFFICES ASSUME NEW k \in Int
               PROVE  /\ Way(ks, cs, k) \in Graph /\ Way(ks2, cs2, k) \in Graph
                      /\ \A n \in Nat \ {q, new} : Way(ks2, cs2, k)[n] = Way(ks, cs, k)[n]
                      /\ Way(ks, cs, k)[new] = {}
                      /\ \A n \in Nat : Way(ks, cs, k)[n] \subseteq E[n]
    OBVIOUS
  <2>1. /\ Way(ks, cs, k) \in Graph /\ Way(ks2, cs2, k) \in Graph
        /\ \A n \in Nat : Way(ks, cs, k)[n] \subseteq E[n]
    BY <1>1, TreeGraphs
  <2>2. \A n \in Nat \ {q, new} : Way(ks2, cs2, k)[n] = Way(ks, cs, k)[n]
    BY DEF Way
  <2>3. Way(ks, cs, k)[new] = {}
    BY <1>1 DEF Way
  <2> QED
    BY <2>1, <2>2, <2>3
<1> HIDE DEF E, F
\* A search still comes to what is not strictly below q.
<1>8. ASSUME NEW k \in Int, NEW x \in Path(ks, cs, m, k), \A c \in E[q] : x \notin Below(cs, c)
      PROVE  x \in Path(ks2, cs2, m, k)
  <2> DEFINE W == Way(ks, cs, k)
             W2 == Way(ks2, cs2, k)
             inner == UNION {Below(cs, c) : c \in E[q]}
             S == Reach(W2, m) \cup inner
  <2>1. /\ W \in Graph /\ W2 \in Graph /\ Reach(W2, m) \in SUBSET Nat /\ m \in Reach(W2, m)
        /\ ClosedUnder(W2, Reach(W2, m))
    BY <1>1, <1>7, ReachBasics
  <2>2. inner \in SUBSET Nat /\ ClosedUnder(E, inner)
    <3>1. \A c \in E[q] : Below(cs, c) \in SUBSET Nat /\ ClosedUnder(E, Below(cs, c))
      BY <1>1, <1>6, ReachBasics DEF Below, E
    <3> QED
      BY <3>1 DEF ClosedUnder
  <2>3. ASSUME NEW n \in S, NEW y \in W[n]
        PROVE  y \in S
    <3>1. n \in Nat
      BY <2>1, <2>2
    <3>2. y \in E[n]
      BY <1>7, <3>1
    <3>3. CASE n \in inner
      BY <2>2, <3>2, <3>3 DEF ClosedUnder
    <3>4. CASE n = q
      BY <1>1, <1>6, <3>2, <3>4
    <3>5. CASE n \in Reach(W2, m) /\ n # q
      <4>1. n # new
        BY <1>7, <3>5
      <4>2. y \in W2[n]
        BY <1>7, <3>1, <3>5, <4>1
      <4> QED
        BY <2>1, <3>5, <4>2 DEF ClosedUnder
    <3> QED
      BY <3>3, <3>4, <3>5
  <2>4. ClosedUnder(W, S)
    BY <2>3 DEF ClosedUnder
  <2>5. S \in SUBSET Nat /\ m \in S
    BY <2>1, <2>2
  <2> HIDE DEF S, W2, inner
  <2>6. x \in S
    BY <1>1, <2>1, <2>4, <2>5, ReachLeast DEF Path
  <2>7. x \notin inner
    BY <1>8 DEF inner
  <2> QED
    BY <2>6, <2>7 DEF S, Path, W2
\* One for a smaller key goes the same way.
<1>9. ASSUME NEW k \in Int, k < key, NEW x \in Path(ks, cs, m, k)
      PROVE  x \in Path(ks2, cs2, m, k)
  <2>1. \A n \in Nat : Way(ks, cs, k)[n] \subseteq Way(ks2, cs2, k)[n]
    BY <1>7, <1>9
  <2>2. \A n \in Reach(Way(ks2, cs2, k), m) : Way(ks, cs, k)[n] \subseteq Way(ks2, cs2, k)[n]
    BY <1>1, <1>7, <2>1, ReachBasics
  <2> QED
    BY <1>1, <1>7, <2>2, ReachMonotone DEF Path
\* The trees of the children stay as they are.
<1>10. ASSUME NEW c \in E[q], NEW x \in Below(cs, c)
       PROVE  x \in Nat \ {q, new} /\ ks2[x] = ks[x] /\ F[x] = E[x] /\ E[x] \subseteq Below(cs, c)
  <2>1. x \in Nat \ {q, new} /\ ClosedUnder(E, Below(cs, c))
    BY <1>1, <1>6, ReachBasics DEF Below, E
  <2> QED
    BY <1>3, <2>1 DEF ClosedUnder
<1>11. ASSUME NEW c \in E[q], NEW x \in Below(cs, c), NEW k \in Range(ks[x])
       PROVE  /\ k \in Int /\ x \in Path(ks, cs, m, k) /\ q \in Path(ks, cs, m, k)
              /\ c \in Way(ks, cs, k)[q]
  <2>1. x \in Below(cs, m) /\ x \in Nat
    BY <1>1, <1>6
  <2>2. k \in Int
    BY <1>1, <2>1, KeysAreNumbers
  <2>3. x \in Path(ks, cs, m, k)
    BY <2>1 DEF Routed
  <2> QED
    BY <1>1, <2>2, <2>3, TurnsToChild DEF E
<1>12. Below(cs2, m) \subseteq {x \in Below(cs, m) : \A c \in F[new] : x \notin Below(cs, c)}
  <2> DEFINE T == {x \in Below(cs, m) : \A c \in F[new] : x \notin Below(cs, c)}
  <2>1. \A c \in F[new] : c \in E[q] /\ c \in Nat
    BY <1>1, <1>6 DEF E, F
  <2>2. m \in T
    <3> SUFFICES ASSUME NEW c \in F[new], m \in Below(cs, c) PROVE FALSE
      BY <1>1
    <3>1. c \in Nat /\ m # c
      BY <1>6, <2>1
    <3>2. PICK z \in Below(cs, c) : m \in E[z]
      BY <1>1, <3>1, ReachLast DEF Below, E
    <3> QED
      BY <1>1, <3>1, <3>2 DEF Top, E
  <2>3. ASSUME NEW x \in T, NEW y \in F[x]
        PROVE  y \in T
    <3>1. x \in Nat /\ x # new /\ y \in E[x]
      BY <1>1, <1>3, <1>4
    <3>2. y \in Below(cs, m)
      BY <1>1, <3>1, ReachBasics DEF Below, ClosedUnder, E
    <3>3. ASSUME NEW c \in F[new], y \in Below(cs, c)
          PROVE  FALSE
      <4>1. CASE y = c
        BY <1>1, <3>1, <3>3, <4>1, OneParent DEF F
      <4>2. CASE y # c
        <5>1. x \in Below(cs, c)
          BY <1>1, <2>1, <3>1, <3>3, <4>2, ParentIsBelow DEF E
        <5> QED
          BY <5>1
      <4> QED
        BY <4>1, <4>2
    <3> QED
      BY <3>2, <3>3
  <2>4. T \in SUBSET Nat /\ ClosedUnder(F, T)
    BY <1>1, <2>3 DEF ClosedUnder
  <2> HIDE DEF T
  <2>5. Below(cs2, m) \subseteq T
    BY <1>1, <2>2, <2>4, ReachLeast DEF Below, F
  <2> QED
    BY <2>5 DEF T
<1>13. Routed(ks2, cs2, m)
  <2> SUFFICES ASSUME NEW n \in Below(cs2, m), NEW k \in Range(ks2[n])
               PROVE  n \in Path(ks2, cs2, m, k)
    BY DEF Routed
  <2>1. n \in Below(cs, m) /\ (\A c \in F[new] : n \notin Below(cs, c)) /\ n # new /\ n \in Nat
    BY <1>1, <1>3, <1>12
  <2>2. CASE \E c \in E[q] : n \in Below(cs, c)
    <3>1. PICK c \in E[q] : n \in Below(cs, c)
      BY <2>2
    <3>2. c \in F[q]
      BY <2>1, <3>1 DEF E, F
    <3>3. k \in Range(ks[n])
      BY <1>10, <3>1
    <3>4. k \in Int /\ n \in Path(ks, cs, m, k) /\ c \in Way(ks, cs, k)[q]
      BY <1>11, <3>1, <3>3
    <3>5. k < key
      BY <1>2, <3>2, <3>4 DEF F
    <3> QED
      BY <1>9, <3>4, <3>5
  <2>3. CASE \A c \in E[q] : n \notin Below(cs, c)
    <3>1. k \in Range(ks[n])
      BY <2>1
    <3>2. k \in Int /\ n \in Path(ks, cs, m, k)
      BY <1>1, <2>1, <3>1, KeysAreNumbers DEF Routed
    <3> QED
      BY <1>8, <2>3, <3>2
  <2> QED
    BY <2>2, <2>3
<1>14. \A k \in Int : q \in Path(ks, cs, m, k) => q \in Path(ks2, cs2, m, k)
  BY <1>6, <1>8
<1>15. q \in Path(ks2, cs2, m, key) /\ q \in Path(ks2, cs2, m, low)
  BY <1>2, <1>14 DEF Routed
<1>16. ASSUME NEW r \in {q, new}, NEW n \in Below(cs2, r)
       PROVE  n = r \/ \E c \in F[r] : n \in Below(cs, c)
  <2> DEFINE T == {r} \cup UNION {Below(cs, c) : c \in F[r]}
  <2>1. F[r] \subseteq E[q]
    BY DEF E, F
  <2>2. T \in SUBSET Nat
    BY <1>1, <1>6, <2>1
  <2>3. \A c \in F[r] : c \in Below(cs, c)
    BY <1>1, <1>6, <2>1
  <2>4. ASSUME NEW x \in T, NEW y \in F[x]
        PROVE  y \in T
    <3>1. CASE x = r
      BY <2>3, <3>1
    <3>2. CASE x # r
      <4>1. PICK c \in F[r] : x \in Below(cs, c)
        BY <3>2
      <4>2. y \in Below(cs, c)
        BY <1>10, <2>1, <4>1
      <4> QED
        BY <4>1, <4>2
    <3> QED
      BY <3>1, <3>2
  <2>5. r \in T /\ r \in Nat /\ ClosedUnder(F, T)
    BY <1>1, <2>4 DEF ClosedUnder
  <2> HIDE DEF T
  <2>6. n \in T
    BY <1>1, <2>2, <2>5, ReachLeast DEF Below, F
  <2> QED
    BY <2>6 DEF T
<1>17. \A n \in Below(cs2, q) : \A k \in Range(ks2[n]) : k < key
  <2> SUFFICES ASSUME NEW n \in Below(cs2, q), NEW k \in Range(ks2[n]) PROVE k < key
    OBVIOUS
  <2>1. CASE n = q
    BY <2>1
  <2>2. CASE n # q
    <3>1. PICK c \in F[q] : n \in Below(cs, c)
      BY <1>16, <2>2
    <3>2. c \in E[q]
      BY <3>1 DEF E, F
    <3>3. k \in Range(ks[n])
      BY <1>10, <3>1, <3>2
    <3>4. k \in Int /\ c \in Way(ks, cs, k)[q]
      BY <1>11, <3>1, <3>2, <3>3
    <3> QED
      BY <1>2, <3>1, <3>4 DEF F
  <2> QED
    BY <2>1, <2>2
<1>18. ASSUME NEW n \in Below(cs2, new), NEW k \in Range(ks2[n])
       PROVE  /\ key <= k /\ q \in Path(ks2, cs2, m, k)
              /\ n \in Path(ks2, cs2, new, k)
  <2>1. CASE n = new
    <3>1. k \in Range(ks[q]) /\ key <= k
      BY <1>18, <2>1
    <3>2. k \in Int /\ q \in Path(ks, cs, m, k)
      BY <1>1, <3>1, KeysAreNumbers DEF Routed
    <3>3. new \in Path(ks2, cs2, new, k)
      BY <1>1, <1>7, <3>2, ReachBasics DEF Path
    <3> QED
      BY <1>14, <2>1, <3>1, <3>2, <3>3
  <2>2. CASE n # new
    <3>1. PICK c \in F[new] : n \in Below(cs, c)
      BY <1>16, <2>2
    <3>2. c \in E[q] /\ c \in Nat
      BY <1>6, <3>1 DEF E, F
    <3>3. k \in Range(ks[n])
      BY <1>10, <1>18, <3>1, <3>2
    <3>4. /\ k \in Int /\ n \in Path(ks, cs, m, k) /\ q \in Path(ks, cs, m, k)
          /\ c \in Way(ks, cs, k)[q]
      BY <1>11, <3>1, <3>2, <3>3
    <3>5. key <= k
      BY <1>2, <3>1, <3>4 DEF F
    <3>6. n \in Path(ks, cs, c, k)
      BY <1>1, <3>1, <3>2, <3>4, PathRestarts
    <3> DEFINE W == Way(ks, cs, k)
               W2 == Way(ks2, cs2, k)
    <3>7. W \in Graph /\ W2 \in Graph
      BY <1>7, <3>4
    <3>8. \A x \in Reach(W, c) : W[x] = W2[x]
      <4> SUFFICES ASSUME NEW x \in Reach(W, c) PROVE W[x] = W2[x]
        OBVIOUS
      <4>1. x \in Below(cs, c)
        BY <1>1, <3>2, <3>4, PathIsBelow DEF Path
      <4>2. x \in Nat \ {q, new}
        BY <1>10, <3>2, <4>1
      <4> QED
        BY <1>7, <3>4, <4>2
    <3>9. c \in W2[new]
      BY <3>4, <3>5
    <3> HIDE DEF W, W2
    <3>10. n \in Reach(W2, c)
      BY <3>2, <3>6, <3>7, <3>8, ReachAgrees DEF Path, W
    <3>11. n \in Reach(W2, new)
      BY <1>1, <3>7, <3>9, <3>10, ReachFirst
    <3> QED
      BY <1>14, <3>4, <3>5, <3>11 DEF Path, W2
  <2> QED
    BY <2>1, <2>2
<1>19. Routed(ks2, cs2, new)
  BY <1>18 DEF Routed
<1> QED
  BY <1>2, <1>5, <1>13, <1>15, <1>17, <1>18, <1>19 DEF Hangs

(***************************************************************************)
(* A new right child beside its left one, with its key between them.       *)
(***************************************************************************)
\* t is s with e in place i.
IsInsertion(t, s, i, e) ==
    /\ Len(t) = Len(s) + 1 /\ t[i] = e
    /\ \A j \in 1 .. Len(s) : j < i => t[j] = s[j]
    /\ \A j \in 1 .. Len(s) : j >= i => t[j + 1] = s[j]
    /\ Range(t) = Range(s) \cup {e}

LEMMA InsertAtIs ==
    ASSUME NEW D, NEW s \in Seq(D), NEW i \in 1 .. Len(s) + 1, NEW e \in D
    PROVE  InsertAt(s, i, e) \in Seq(D) /\ IsInsertion(InsertAt(s, i, e), s, i, e)
<1> DEFINE a == SubSeq(s, 1, i - 1)
           b == SubSeq(s, i, Len(s))
           t == InsertAt(s, i, e)
<1>1. Len(s) \in Nat /\ DOMAIN s = 1 .. Len(s) /\ \A j \in 1 .. Len(s) : s[j] \in D
  BY LenProperties, ElementOfSeq
<1>2. /\ a \in Seq(D) /\ Len(a) = i - 1
      /\ \A j \in 1 .. i - 1 : a[j] = s[j]
  <2>1. \A j \in 1 .. i - 1 : s[j] \in D
    BY <1>1
  <2>2. /\ a \in Seq(D) /\ Len(a) = IF 1 <= i - 1 THEN i - 1 - 1 + 1 ELSE 0
        /\ \A j \in 1 .. i - 1 - 1 + 1 : a[j] = s[1 + j - 1]
    BY <2>1, SubSeqProperties
  <2> QED
    BY <1>1, <2>2
<1>3. /\ b \in Seq(D) /\ Len(b) = Len(s) - i + 1
      /\ \A j \in 1 .. Len(s) - i + 1 : b[j] = s[i + j - 1]
  <2>1. \A j \in i .. Len(s) : s[j] \in D
    BY <1>1
  <2>2. /\ b \in Seq(D) /\ Len(b) = IF i <= Len(s) THEN Len(s) - i + 1 ELSE 0
        /\ \A j \in 1 .. Len(s) - i + 1 : b[j] = s[i + j - 1]
    BY <1>1, <2>1, SubSeqProperties
  <2> QED
    BY <1>1, <2>2
<1>4. <<e>> \in Seq(D) /\ Len(<<e>>) = 1 /\ <<e>>[1] = e
  OBVIOUS
<1> HIDE DEF a, b
<1>5. /\ a \o <<e>> \in Seq(D) /\ Len(a \o <<e>>) = i
      /\ \A j \in 1 .. i : (a \o <<e>>)[j] = IF j <= i - 1 THEN a[j] ELSE <<e>>[j - (i - 1)]
  BY <1>1, <1>2, <1>4, ConcatProperties
<1>6. /\ a \o <<e>> \o b \in Seq(D) /\ Len(a \o <<e>> \o b) = Len(s) + 1
      /\ \A j \in 1 .. Len(s) + 1 : (a \o <<e>> \o b)[j] = IF j <= i THEN (a \o <<e>>)[j] ELSE b[j - i]
  <2> DEFINE c == a \o <<e>>
  <2>1. c \in Seq(D) /\ b \in Seq(D) /\ Len(c) = i /\ Len(b) = Len(s) - i + 1
    BY <1>3, <1>5
  <2> HIDE DEF c
  <2>2. /\ c \o b \in Seq(D) /\ Len(c \o b) = Len(c) + Len(b)
        /\ \A j \in 1 .. Len(c) + Len(b) : (c \o b)[j] = IF j <= Len(c) THEN c[j] ELSE b[j - Len(c)]
    BY <2>1, ConcatProperties
  <2>3. Len(c) + Len(b) = Len(s) + 1
    BY <1>1, <2>1
  <2> QED
    BY <2>1, <2>2, <2>3 DEF c
<1>7. t = a \o <<e>> \o b
  BY DEF InsertAt, a, b
<1> HIDE DEF t
<1>8. \A j \in 1 .. Len(s) + 1 : t[j] = IF j < i THEN s[j] ELSE IF j = i THEN e ELSE s[j - 1]
  <2> SUFFICES ASSUME NEW j \in 1 .. Len(s) + 1
               PROVE  t[j] = IF j < i THEN s[j] ELSE IF j = i THEN e ELSE s[j - 1]
    OBVIOUS
  <2>1. CASE j < i
    BY <1>1, <1>2, <1>5, <1>6, <1>7, <2>1
  <2>2. CASE j = i
    <3>1. t[i] = (a \o <<e>>)[i] /\ (a \o <<e>>)[i] = <<e>>[i - (i - 1)] /\ i - (i - 1) = 1
      BY <1>1, <1>5, <1>6, <1>7
    <3>2. t[i] = e
      BY <1>4, <3>1
    <3> QED
      BY <2>2, <3>2
  <2>3. CASE j > i
    <3>1. t[j] = b[j - i] /\ j - i \in 1 .. Len(s) - i + 1
      BY <1>1, <1>6, <1>7, <2>3
    <3>2. b[j - i] = s[i + (j - i) - 1] /\ i + (j - i) - 1 = j - 1
      BY <1>1, <1>3, <2>3, <3>1
    <3> QED
      BY <2>3, <3>1, <3>2
  <2> QED
    BY <1>1, <2>1, <2>2, <2>3
<1>9. /\ t \in Seq(D) /\ Len(t) = Len(s) + 1 /\ DOMAIN t = 1 .. Len(s) + 1
  BY <1>6, <1>7, LenProperties
<1>10. Range(t) = Range(s) \cup {e}
  <2>1. ASSUME NEW x \in Range(t) PROVE x \in Range(s) \cup {e}
    <3>1. PICK j \in 1 .. Len(s) + 1 : x = t[j]
      BY <1>9 DEF Range
    <3>2. CASE j < i
      BY <1>1, <1>8, <3>1, <3>2 DEF Range
    <3>3. CASE j = i
      BY <1>8, <3>1, <3>3
    <3>4. CASE j > i
      <4>1. j - 1 \in DOMAIN s /\ x = s[j - 1]
        BY <1>1, <1>8, <3>1, <3>4
      <4> QED
        BY <4>1 DEF Range
    <3> QED
      BY <1>1, <3>2, <3>3, <3>4
  <2>2. e \in Range(t)
    BY <1>1, <1>8, <1>9 DEF Range
  <2>3. ASSUME NEW x \in Range(s) PROVE x \in Range(t)
    <3>1. PICK j \in 1 .. Len(s) : x = s[j]
      BY <1>1 DEF Range
    <3>2. CASE j < i
      <4>1. j \in DOMAIN t /\ t[j] = s[j]
        BY <1>1, <1>8, <1>9, <3>2
      <4> QED
        BY <3>1, <4>1 DEF Range
    <3>3. CASE j >= i
      <4>1. j + 1 \in 1 .. Len(s) + 1 /\ ~(j + 1 < i) /\ j + 1 # i /\ j + 1 - 1 = j
        BY <1>1, <3>3
      <4>2. t[j + 1] = s[j + 1 - 1]
        BY <1>8, <4>1
      <4>3. j + 1 \in DOMAIN t /\ t[j + 1] = s[j]
        BY <1>9, <4>1, <4>2
      <4> QED
        BY <3>1, <4>3 DEF Range
    <3> QED
      BY <1>1, <3>2, <3>3
  <2> QED
    BY <2>1, <2>2, <2>3
<1>11. t[i] = e /\ \A j \in 1 .. Len(s) : j < i => t[j] = s[j]
  BY <1>1, <1>8
<1>12. ASSUME NEW j \in 1 .. Len(s), j >= i
       PROVE  t[j + 1] = s[j]
  <2>1. j + 1 \in 1 .. Len(s) + 1 /\ ~(j + 1 < i) /\ j + 1 # i /\ j + 1 - 1 = j
    BY <1>1, <1>12
  <2>2. t[j + 1] = s[j + 1 - 1]
    BY <1>8, <2>1
  <2> QED
    BY <2>1, <2>2
<1> QED
  BY <1>9, <1>10, <1>11, <1>12 DEF t, IsInsertion

\* A key that goes into slot i, where a smaller one goes too.
ShiftsSlots(t, keys, i, key) ==
    \A k \in Int :
        Slot(t, k) = IF Slot(keys, k) < i \/ (Slot(keys, k) = i /\ k < key)
                     THEN Slot(keys, k) ELSE Slot(keys, k) + 1

LEMMA InsertSeparator ==
    ASSUME NEW keys \in Seq(Int), Ascending(keys), NEW key \in Int, NEW low \in Int, low < key,
           NEW i, i = Slot(keys, key), i = Slot(keys, low),
           NEW t \in Seq(Int), IsInsertion(t, keys, i, key)
    PROVE  /\ i \in 1 .. Len(keys) + 1
           /\ Ascending(t)
           /\ ShiftsSlots(t, keys, i, key)
<1>0. /\ Len(t) = Len(keys) + 1 /\ t[i] = key
      /\ \A j \in 1 .. Len(keys) : j < i => t[j] = keys[j]
      /\ \A j \in 1 .. Len(keys) : j >= i => t[j + 1] = keys[j]
  BY DEF IsInsertion
<1>1. Len(keys) \in Nat /\ DOMAIN keys = 1 .. Len(keys) /\ \A j \in 1 .. Len(keys) : keys[j] \in Int
  BY LenProperties, ElementOfSeq
<1>2. /\ i \in 1 .. Len(keys) + 1
      /\ i <= Len(keys) => key < keys[i]
      /\ \A j \in 1 .. Len(keys) : j < i => keys[j] <= low
  <2>1. \A j \in 1 .. Len(keys) : j < Slot(keys, low) => keys[j] <= low
    BY SlotIs
  <2> QED
    BY <2>1, SlotIs
<1>3. /\ Len(t) = Len(keys) + 1 /\ DOMAIN t = 1 .. Len(keys) + 1
      /\ \A j \in 1 .. Len(keys) + 1 :
           t[j] = IF j < i THEN keys[j] ELSE IF j = i THEN key ELSE keys[j - 1]
  <2>1. /\ Len(t) = Len(keys) + 1
        /\ \A j \in 1 .. Len(keys) + 1 :
             t[j] = IF j < i THEN keys[j] ELSE IF j = i THEN key ELSE keys[j - 1]
    <3>1. i \in 1 .. Len(keys) + 1
      BY <1>2
    <3>3. ASSUME NEW j \in 1 .. Len(keys) + 1
          PROVE  t[j] = IF j < i THEN keys[j] ELSE IF j = i THEN key ELSE keys[j - 1]
      <4>1. CASE j < i
        BY <1>0, <1>1, <3>1, <4>1
      <4>2. CASE j > i
        <5>1. j - 1 \in 1 .. Len(keys) /\ j - 1 >= i /\ j - 1 + 1 = j
          BY <1>1, <3>1, <4>2
        <5>2. t[j - 1 + 1] = keys[j - 1]
          BY <1>0, <5>1
        <5> QED
          BY <1>1, <3>1, <4>2, <5>1, <5>2
      <4> QED
        BY <1>0, <1>1, <3>1, <4>1, <4>2
    <3> QED
      BY <1>0, <3>3
  <2> QED
    BY <2>1, LenProperties
<1>4. \A a, b \in 1 .. Len(keys) : a < b => keys[a] < keys[b]
  BY <1>1 DEF Ascending
<1>5. \A a \in 1 .. Len(keys) : i <= a => key < keys[a]
  <2> SUFFICES ASSUME NEW a \in 1 .. Len(keys), i <= a PROVE key < keys[a]
    OBVIOUS
  <2>1. i \in 1 .. Len(keys) /\ key < keys[i]
    BY <1>1, <1>2
  <2>2. i < a => keys[i] < keys[a]
    BY <1>4, <2>1
  <2> QED
    BY <1>1, <2>1, <2>2
<1>6. ASSUME NEW a \in 1 .. Len(keys) + 1, NEW b \in 1 .. Len(keys) + 1, a < b
      PROVE  t[a] < t[b]
  <2>1. CASE b < i
    <3>1. a \in 1 .. Len(keys) /\ b \in 1 .. Len(keys) /\ t[a] = keys[a] /\ t[b] = keys[b]
      BY <1>1, <1>2, <1>3, <1>6, <2>1
    <3> QED
      BY <1>4, <1>6, <3>1
  <2>2. CASE b = i
    <3>1. a \in 1 .. Len(keys) /\ a < i /\ t[a] = keys[a] /\ t[b] = key
      BY <1>1, <1>2, <1>3, <1>6, <2>2
    <3> QED
      BY <1>1, <1>2, <3>1
  <2>3. CASE b > i /\ a < i
    <3>1. a \in 1 .. Len(keys) /\ t[a] = keys[a] /\ b - 1 \in 1 .. Len(keys) /\ t[b] = keys[b - 1]
          /\ i <= b - 1
      BY SMTT(30), <1>1, <1>2, <1>3, <2>3
    <3>2. keys[a] <= low /\ key < keys[b - 1]
      BY <1>2, <1>5, <2>3, <3>1
    <3> QED
      BY <1>1, <3>1, <3>2
  <2>4. CASE b > i /\ a = i
    <3>1. t[a] = key /\ b - 1 \in 1 .. Len(keys) /\ t[b] = keys[b - 1] /\ i <= b - 1
      <4>1. b - 1 \in 1 .. Len(keys) /\ i <= b - 1 /\ ~(b < i) /\ b # i /\ ~(a < i)
        BY <1>1, <1>2, <2>4
      <4> QED
        BY <1>3, <2>4, <4>1
    <3> QED
      BY <1>5, <3>1
  <2>5. CASE a > i
    <3>0. /\ a - 1 \in 1 .. Len(keys) /\ a - 1 < b - 1 /\ b - 1 \in 1 .. Len(keys)
          /\ ~(a < i) /\ a # i /\ ~(b < i) /\ b # i
      BY <1>1, <1>2, <1>6, <2>5
    <3>1. /\ a - 1 \in 1 .. Len(keys) /\ t[a] = keys[a - 1] /\ a - 1 < b - 1
          /\ b - 1 \in 1 .. Len(keys) /\ t[b] = keys[b - 1]
      BY <1>3, <3>0
    <3> QED
      BY <1>4, <3>1
  <2> QED
    BY <1>1, <1>2, <1>6, <2>1, <2>2, <2>3, <2>4, <2>5
<1>7. Ascending(t)
  BY <1>3, <1>6 DEF Ascending
<1>8. ASSUME NEW k \in Int
      PROVE  Slot(t, k) = IF Slot(keys, k) < i \/ (Slot(keys, k) = i /\ k < key)
                          THEN Slot(keys, k) ELSE Slot(keys, k) + 1
  <2> DEFINE s == Slot(keys, k)
  <2>1. /\ s \in 1 .. Len(keys) + 1
        /\ s <= Len(keys) => k < keys[s]
        /\ \A j \in 1 .. Len(keys) : j < s => keys[j] <= k
    BY SlotIs
  <2> HIDE DEF s
  <2>2. CASE s < i
    <3>1. s \in 1 .. Len(t) + 1
      BY <1>1, <1>3, <2>1
    <3>2. s > 1 => t[s - 1] <= k
      <4> SUFFICES ASSUME s > 1 PROVE t[s - 1] <= k
        OBVIOUS
      <4>1. s - 1 \in 1 .. Len(keys) /\ s - 1 \in 1 .. Len(keys) + 1 /\ s - 1 < i /\ s - 1 < s
        BY <1>1, <1>2, <2>1, <2>2
      <4>2. t[s - 1] = keys[s - 1]
        BY <1>3, <4>1
      <4> QED
        BY <2>1, <4>1, <4>2
    <3>3. s <= Len(t) => k < t[s]
      BY <1>1, <1>2, <1>3, <2>1, <2>2
    <3>4. Slot(t, k) = s
      BY <1>3, <1>7, <3>1, <3>2, <3>3, SlotIsUnique
    <3> QED
      BY <2>2, <3>4 DEF s
  <2>3. CASE s = i /\ k < key
    <3>1. s \in 1 .. Len(t) + 1
      BY <1>1, <1>3, <2>1
    <3>2. s > 1 => t[s - 1] <= k
      <4> SUFFICES ASSUME s > 1 PROVE t[s - 1] <= k
        OBVIOUS
      <4>1. s - 1 \in 1 .. Len(keys) /\ s - 1 \in 1 .. Len(keys) + 1 /\ s - 1 < i /\ s - 1 < s
        BY <1>1, <1>2, <2>1, <2>3
      <4>2. t[s - 1] = keys[s - 1]
        BY <1>3, <4>1
      <4> QED
        BY <2>1, <4>1, <4>2
    <3>3. s <= Len(t) => k < t[s]
      BY <1>1, <1>2, <1>3, <2>1, <2>3
    <3>4. Slot(t, k) = s
      BY <1>3, <1>7, <3>1, <3>2, <3>3, SlotIsUnique
    <3> QED
      BY <2>3, <3>4 DEF s
  <2>4. CASE s = i /\ ~(k < key)
    <3>1. s + 1 \in 1 .. Len(t) + 1 /\ s + 1 - 1 = s
      BY <1>1, <1>3, <2>1
    <3>2. t[s + 1 - 1] <= k
      BY <1>1, <1>2, <1>3, <2>1, <2>4, <3>1
    <3>3. s + 1 <= Len(t) => k < t[s + 1]
      <4> SUFFICES ASSUME s + 1 <= Len(t) PROVE k < t[s + 1]
        OBVIOUS
      <4>1. s \in 1 .. Len(keys)
        BY <1>1, <1>3, <2>1
      <4>2. s + 1 \in 1 .. Len(keys) + 1 /\ ~(s + 1 < i) /\ s + 1 # i
        BY <1>1, <2>4, <4>1
      <4>3. t[s + 1] = keys[s + 1 - 1]
        <5>1. \A j \in 1 .. Len(keys) + 1 : ~(j < i) /\ j # i => t[j] = keys[j - 1]
          BY <1>3
        <5> HIDE DEF s
        <5> QED
          BY <4>1, <4>2, <5>1
      <4> QED
        BY <2>1, <3>1, <4>1, <4>3
    <3>4. Slot(t, k) = s + 1
      <4> DEFINE u == s + 1
      <4>1. u \in 1 .. Len(t) + 1 /\ t[u - 1] <= k /\ (u <= Len(t) => k < t[u])
        BY <1>1, <2>1, <2>4, <3>1, <3>2, <3>3
      <4> HIDE DEF u
      <4>2. Slot(t, k) = u
        BY <1>3, <1>7, <4>1, SlotIsUnique
      <4> QED
        BY <4>2 DEF u
    <3> QED
      BY <1>1, <1>2, <2>4, <3>4 DEF s
  <2>5. CASE s > i
    <3>1. s + 1 \in 1 .. Len(t) + 1 /\ s + 1 - 1 = s /\ s \in 1 .. Len(keys) + 1 /\ ~(s < i) /\ s # i
      BY SMTT(30), <1>1, <1>2, <1>3, <2>1, <2>5
    <3>2. t[s + 1 - 1] <= k
      <4>1. t[s] = keys[s - 1] /\ s - 1 \in 1 .. Len(keys) /\ s - 1 < s
        BY <1>1, <1>2, <1>3, <2>5, <3>1
      <4> QED
        BY <2>1, <3>1, <4>1
    <3>3. s + 1 <= Len(t) => k < t[s + 1]
      <4> SUFFICES ASSUME s + 1 <= Len(t) PROVE k < t[s + 1]
        OBVIOUS
      <4>1. s \in 1 .. Len(keys) /\ s + 1 \in 1 .. Len(keys) + 1 /\ ~(s + 1 < i) /\ s + 1 # i
        BY SMTT(30), <1>1, <1>2, <1>3, <2>1, <2>5
      <4>2. t[s + 1] = keys[s + 1 - 1]
        BY SMTT(30), <1>3, <4>1
      <4> QED
        BY <2>1, <3>1, <4>1, <4>2
    <3>4. Slot(t, k) = s + 1
      <4> DEFINE u == s + 1
      <4>1. u \in 1 .. Len(t) + 1 /\ t[u - 1] <= k /\ (u <= Len(t) => k < t[u])
        BY <3>1, <3>2, <3>3
      <4> HIDE DEF u
      <4>2. Slot(t, k) = u
        BY <1>3, <1>7, <4>1, SlotIsUnique
      <4> QED
        BY <4>2 DEF u
    <3> QED
      BY <1>1, <1>2, <2>1, <2>5, <3>4 DEF s
  <2> QED
    BY <1>1, <1>2, <2>1, <2>2, <2>3, <2>4, <2>5
<1> QED
  BY <1>2, <1>7, <1>8 DEF ShiftsSlots

LEMMA ForestIs ==
    ASSUME NEW cs,
           \A x, y \in Nat : x # y => Kids(cs)[x] \cap Kids(cs)[y] = {},
           \A n \in Nat : \A i, j \in DOMAIN cs[n] : cs[n][i] = cs[n][j] => i = j
    PROVE  Forest(cs)
<1> SUFFICES ASSUME NEW x \in Nat, NEW y \in Nat, NEW i \in DOMAIN cs[x], NEW j \in DOMAIN cs[y],
                    cs[x][i] = cs[y][j]
             PROVE  x = y /\ i = j
  BY DEF Forest
<1>1. cs[x][i] \in Kids(cs)[x] /\ cs[y][j] \in Kids(cs)[y]
  BY DEF Kids, Range
<1>2. x = y
  BY <1>1
<1> QED
  BY <1>2

\* The slot a search takes is the place of the child it goes to.
LEMMA SlotOfWay ==
    ASSUME NEW ks, NEW cs, Fits(ks, cs), Forest(cs), NEW q \in Nat, NEW i \in DOMAIN cs[q],
           NEW k \in Int
    PROVE  /\ cs[q][i] \in Way(ks, cs, k)[q] <=> Slot(ks[q], k) = i
           /\ cs[q] # <<>> /\ Slot(ks[q], k) \in DOMAIN cs[q]
           /\ cs[q][Slot(ks[q], k)] \in Kids(cs)[q]
<1>1. /\ cs[q] \in Seq(Nat) /\ DOMAIN cs[q] = 1 .. Len(cs[q]) /\ Len(cs[q]) \in Nat
      /\ ks[q] \in Seq(Int)
  BY LenProperties, KeysAreNumbers DEF Fits
<1>2. cs[q] # <<>>
  BY <1>1
<1>3. Slot(ks[q], k) \in DOMAIN cs[q]
  <2>1. Len(cs[q]) = Len(ks[q]) + 1
    BY <1>2 DEF Fits
  <2> QED
    BY <1>1, <2>1, SlotIs
<1>4. Way(ks, cs, k)[q] = {cs[q][Slot(ks[q], k)]}
  BY <1>2 DEF Way
<1> QED
  BY <1>2, <1>3, <1>4 DEF Forest, Kids, Range

\* right goes in behind child i of q.
Attaches(ks, cs, q, i, key, right, ks1, cs1) ==
    /\ ks1 = [ks EXCEPT ![q] = InsertAt(ks[q], i, key)]
    /\ cs1 = [cs EXCEPT ![q] = InsertAt(cs[q], i + 1, right)]

\* q is all that changes; searches from key on go to right where they went to
\* child i.
IsAttachment(ks, cs, q, i, key, right, ks1, cs1) ==
    /\ \A n \in Nat \ {q} : ks1[n] = ks[n] /\ cs1[n] = cs[n]
    /\ Range(ks1[q]) = Range(ks[q]) \cup {key}
    /\ Kids(cs1)[q] = Kids(cs)[q] \cup {right}
    /\ \A k \in Int : Way(ks1, cs1, k)[q] =
           IF Slot(ks[q], k) = i /\ key <= k THEN {right} ELSE Way(ks, cs, k)[q]

LEMMA AttachFits ==
    ASSUME NEW ks, NEW cs, Fits(ks, cs), Forest(cs), NEW m, Top(cs, m),
           NEW q \in Nat, NEW i \in DOMAIN cs[q], NEW key \in Keys, NEW right,
           Hangs(ks, cs, m, cs[q][i], key, right),
           NEW ks1, NEW cs1, Attaches(ks, cs, q, i, key, right, ks1, cs1)
    PROVE  /\ Fits(ks1, cs1) /\ Forest(cs1)
           /\ Slot(ks[q], key) = i /\ q \in Path(ks, cs, m, key)
           /\ IsAttachment(ks, cs, q, i, key, right, ks1, cs1)
<1> DEFINE left == cs[q][i]
           keys == ks[q]
           kids == cs[q]
<1>1. /\ Kids(cs) \in Graph /\ left \in Kids(cs)[q] /\ left \in Nat /\ right \in Nat
      /\ left \in Below(cs, left) /\ key \in Int
  <2>1. Kids(cs) \in Graph
    BY 0 \in Int, TreeGraphs
  <2>2. left \in Kids(cs)[q] /\ right \in Nat /\ key \in Int
    BY KeysAssumption DEF Kids, Range, Hangs, Top
  <2>3. left \in Nat
    BY <2>1, <2>2 DEF Graph
  <2> QED
    BY <2>1, <2>2, <2>3, ReachBasics DEF Below
<1>2. /\ keys \in Seq(Keys) /\ keys \in Seq(Int) /\ Ascending(keys)
      /\ Len(keys) \in Nat /\ DOMAIN keys = 1 .. Len(keys)
      /\ kids \in Seq(Nat) /\ DOMAIN kids = 1 .. Len(keys) + 1 /\ Len(kids) = Len(keys) + 1
      /\ i \in 1 .. Len(keys) + 1
  <2>1. /\ keys \in Seq(Keys) /\ keys \in Seq(Int) /\ Ascending(keys)
        /\ Len(keys) \in Nat /\ DOMAIN keys = 1 .. Len(keys)
        /\ kids \in Seq(Nat)
    BY KeysAreNumbers, LenProperties DEF Fits
  <2>2. kids # <<>> /\ DOMAIN kids = 1 .. Len(kids)
    BY <2>1, LenProperties
  <2> QED
    BY <2>1, <2>2 DEF Fits
<1>3. PICK low \in Int : low < key /\ left \in Path(ks, cs, m, low)
  BY DEF Hangs
<1>4. q \in Path(ks, cs, m, key) /\ Slot(keys, key) = i /\ Slot(keys, low) = i
  <2>1. left \in Path(ks, cs, m, key)
    BY DEF Hangs
  <2>2. q \in Path(ks, cs, m, key) /\ left \in Way(ks, cs, key)[q]
    BY <1>1, <2>1, TurnsToChild
  <2>3. left \in Way(ks, cs, low)[q]
    BY <1>1, <1>3, TurnsToChild
  <2> QED
    BY <1>1, <2>2, <2>3, SlotOfWay
<1> DEFINE t == InsertAt(keys, i, key)
           u == InsertAt(kids, i + 1, right)
<1>5. /\ t \in Seq(Keys) /\ Len(t) = Len(keys) + 1
      /\ IsInsertion(t, keys, i, key) /\ Range(t) = Range(keys) \cup {key}
  <2>1. t \in Seq(Keys) /\ IsInsertion(t, keys, i, key)
    BY <1>2, InsertAtIs
  <2> QED
    BY <2>1 DEF IsInsertion
<1>6. /\ u \in Seq(Nat) /\ Len(u) = Len(keys) + 2 /\ DOMAIN u = 1 .. Len(keys) + 2
      /\ u[i + 1] = right
      /\ \A j \in 1 .. Len(keys) + 1 : j <= i => u[j] = kids[j]
      /\ \A j \in 1 .. Len(keys) + 1 : j > i => u[j + 1] = kids[j]
      /\ Range(u) = Range(kids) \cup {right}
  <2> DEFINE p == i + 1
  <2>1. p \in 1 .. Len(kids) + 1
    BY <1>2
  <2> HIDE DEF p
  <2>0. InsertAt(kids, p, right) \in Seq(Nat) /\ IsInsertion(InsertAt(kids, p, right), kids, p, right)
    BY <1>1, <1>2, <2>1, InsertAtIs
  <2>2. /\ InsertAt(kids, p, right) \in Seq(Nat)
        /\ Len(InsertAt(kids, p, right)) = Len(kids) + 1
        /\ InsertAt(kids, p, right)[p] = right
        /\ \A j \in 1 .. Len(kids) : j < p => InsertAt(kids, p, right)[j] = kids[j]
        /\ \A j \in 1 .. Len(kids) : j >= p => InsertAt(kids, p, right)[j + 1] = kids[j]
        /\ Range(InsertAt(kids, p, right)) = Range(kids) \cup {right}
    BY <2>0 DEF IsInsertion
  <2>3. /\ u \in Seq(Nat) /\ u[i + 1] = right /\ Range(u) = Range(kids) \cup {right}
    BY <2>2 DEF p
  <2>4. Len(u) = Len(keys) + 2
    BY <1>2, <2>2 DEF p
  <2>5. DOMAIN u = 1 .. Len(keys) + 2
    BY <2>3, <2>4, LenProperties
  <2>6. \A j \in 1 .. Len(keys) + 1 : j <= i => u[j] = kids[j]
    BY <1>2, <2>2 DEF p
  <2>7. \A j \in 1 .. Len(keys) + 1 : j > i => u[j + 1] = kids[j]
    BY <1>2, <2>2 DEF p
  <2> QED
    BY <2>3, <2>4, <2>5, <2>6, <2>7
<1>7. ks1[q] = t /\ cs1[q] = u /\ \A n \in Nat \ {q} : ks1[n] = ks[n] /\ cs1[n] = cs[n]
  BY DEF Fits, Attaches
<1> HIDE DEF t, u
<1>8. /\ Ascending(t)
      /\ ShiftsSlots(t, keys, i, key)
  <2>1. t \in Seq(Int)
    BY <1>5, SeqMonotonic, KeysAssumption
  <2> HIDE DEF keys
  <2> QED
    BY <1>1, <1>2, <1>3, <1>4, <1>5, <2>1, InsertSeparator
<1>9. Fits(ks1, cs1)
  <2>1. ks1 \in [Nat -> Seq(Keys)] /\ cs1 \in [Nat -> Seq(Nat)]
    BY <1>5, <1>6 DEF Fits, t, u, Attaches
  <2>2. \A n \in Nat : Ascending(ks1[n])
    BY <1>7, <1>8 DEF Fits
  <2>3. ASSUME NEW n \in Nat, cs1[n] # <<>> PROVE Len(cs1[n]) = Len(ks1[n]) + 1
    <3>1. CASE n = q
      <4>1. Len(cs1[n]) = Len(keys) + 2 /\ Len(ks1[n]) = Len(keys) + 1 /\ Len(keys) \in Nat
        BY <1>2, <1>5, <1>6, <1>7, <3>1
      <4> QED
        BY <4>1
    <3>2. CASE n # q
      BY <1>7, <2>3, <3>2 DEF Fits
    <3> QED
      BY <3>1, <3>2
  <2> QED
    BY <2>1, <2>2, <2>3 DEF Fits
<1>10. /\ Kids(cs1)[q] = Kids(cs)[q] \cup {right}
       /\ \A n \in Nat \ {q} : Kids(cs1)[n] = Kids(cs)[n]
  BY <1>6, <1>7 DEF Kids
<1>11. \A n \in Nat : right \notin Kids(cs)[n]
  BY DEF Hangs, Top
<1>12. Forest(cs1)
  <2>1. \A x, y \in Nat : x # y => Kids(cs1)[x] \cap Kids(cs1)[y] = {}
    <3> SUFFICES ASSUME NEW x \in Nat, NEW y \in Nat, NEW c \in Kids(cs1)[x], c \in Kids(cs1)[y]
                 PROVE  x = y
      OBVIOUS
    <3>1. CASE c = right
      BY <1>10, <1>11, <3>1
    <3>2. CASE c # right
      <4>1. \A n \in Nat : c \in Kids(cs1)[n] => c \in Kids(cs)[n]
        BY <1>10, <3>2
      <4> QED
        BY <4>1, OneParent
    <3> QED
      BY <3>1, <3>2
  <2>2. ASSUME NEW n \in Nat, NEW a \in DOMAIN cs1[n], NEW b \in DOMAIN cs1[n], cs1[n][a] = cs1[n][b]
        PROVE  a = b
    <3>1. CASE n # q
      BY <1>7, <2>2, <3>1 DEF Forest
    <3>2. CASE n = q
      <4>1. a \in 1 .. Len(keys) + 2 /\ b \in 1 .. Len(keys) + 2 /\ u[a] = u[b]
        BY <1>6, <1>7, <2>2, <3>2
      <4>0. Len(keys) \in Nat /\ i \in Nat
        BY <1>2
      <4> DEFINE old(x) == IF x <= i THEN x ELSE x - 1
      <4>2. ASSUME NEW x \in 1 .. Len(keys) + 2, x # i + 1
            PROVE  old(x) \in 1 .. Len(keys) + 1 /\ u[x] = kids[old(x)]
        <5>1. CASE x <= i
          <6>1. x \in 1 .. Len(keys) + 1 /\ old(x) = x
            BY <1>2, <5>1
          <6> QED
            BY <1>6, <5>1, <6>1
        <5>2. CASE x > i
          <6>0. x > i + 1
            BY <1>2, <4>2, <5>2
          <6>1. x - 1 \in 1 .. Len(keys) + 1 /\ x - 1 > i /\ x - 1 + 1 = x
            BY <4>0, <6>0
          <6>2. u[x - 1 + 1] = kids[x - 1]
            BY <1>6, <6>1
          <6>3. old(x) = x - 1
            BY <1>2, <5>2
          <6> QED
            BY <6>1, <6>2, <6>3
        <5> QED
          BY <1>2, <5>1, <5>2
      <4>3. \A x \in 1 .. Len(keys) + 1 : kids[x] # right
        BY <1>2, <1>11 DEF Kids, Range
      <4>4. CASE a = i + 1
        BY <1>6, <4>1, <4>2, <4>3, <4>4
      <4>5. CASE b = i + 1
        BY <1>6, <4>1, <4>2, <4>3, <4>5
      <4>6. CASE a # i + 1 /\ b # i + 1
        <5>1. old(a) \in DOMAIN cs[q] /\ old(b) \in DOMAIN cs[q] /\ cs[q][old(a)] = cs[q][old(b)]
          BY <1>2, <4>1, <4>2, <4>6
        <5>2. old(a) = old(b)
          BY <5>1 DEF Forest
        <5>3. /\ (a <= i => old(a) = a) /\ (~(a <= i) => old(a) = a - 1)
              /\ (b <= i => old(b) = b) /\ (~(b <= i) => old(b) = b - 1)
          OBVIOUS
        <5> HIDE DEF old
        <5> QED
          <6>1. a \in Int /\ b \in Int /\ i \in Int
            BY <4>0, <4>1
          <6> QED
            BY <4>6, <5>2, <5>3, <6>1
      <4> QED
        BY <4>4, <4>5, <4>6
    <3> QED
      BY <3>1, <3>2
  <2>3. \A n \in Nat : \A a, b \in DOMAIN cs1[n] : cs1[n][a] = cs1[n][b] => a = b
    BY <2>2
  <2> QED
    BY <2>1, <2>3, ForestIs
<1>13. ASSUME NEW k \in Int
       PROVE  Way(ks1, cs1, k)[q] =
                  IF Slot(ks[q], k) = i /\ key <= k THEN {right} ELSE Way(ks, cs, k)[q]
  <2> DEFINE s == Slot(keys, k)
  <2>1. s \in 1 .. Len(keys) + 1
    BY <1>2, SlotIs
  <2>2. Way(ks1, cs1, k)[q] = {u[Slot(t, k)]} /\ Way(ks, cs, k)[q] = {kids[s]}
    <3>1. u # <<>> /\ kids # <<>>
      BY SMTT(30), <1>2, <1>6
    <3> QED
      BY <1>7, <3>1 DEF Way
  <2>3. Slot(t, k) = IF s < i \/ (s = i /\ k < key) THEN s ELSE s + 1
    BY <1>8 DEF ShiftsSlots
  <2> HIDE DEF s
  <2>4. CASE s < i \/ (s = i /\ k < key)
    <3>1. u[s] = kids[s] /\ Slot(t, k) = s
      <4>1. Slot(t, k) = s
        BY <2>3, <2>4
      <4>2. s <= i
        BY <1>2, <2>1, <2>4
      <4>3. u[s] = kids[s]
        BY <1>6, <2>1, <4>2
      <4> QED
        BY <4>1, <4>3
    <3>2. ~(s = i /\ key <= k)
      BY <1>1, <1>2, <2>1, <2>4
    <3> QED
      BY <2>2, <3>1, <3>2 DEF s
  <2>5. CASE s = i /\ ~(k < key)
    <3>1. Slot(t, k) = i + 1 /\ key <= k
      BY <1>1, <1>2, <2>3, <2>5
    <3> QED
      BY <1>6, <2>2, <2>5, <3>1 DEF s
  <2>6. CASE s > i
    <3>1. u[s + 1] = kids[s] /\ Slot(t, k) = s + 1 /\ s # i
      BY <1>2, <1>6, <2>1, <2>3, <2>6
    <3> QED
      BY <2>2, <3>1 DEF s
  <2> QED
    BY <1>2, <2>1, <2>4, <2>5, <2>6
<1>14. IsAttachment(ks, cs, q, i, key, right, ks1, cs1)
  BY <1>5, <1>7, <1>10, <1>13 DEF IsAttachment
<1> QED
  BY <1>4, <1>9, <1>12, <1>14

LEMMA AttachKeepsRoutes ==
    ASSUME NEW ks, NEW cs, Tree(ks, cs), NEW m, Top(cs, m), Routed(ks, cs, m),
           NEW q \in Nat, NEW i \in DOMAIN cs[q], NEW key \in Keys, NEW right,
           Hangs(ks, cs, m, cs[q][i], key, right), q \in Below(cs, m),
           NEW ks1, NEW cs1, Attaches(ks, cs, q, i, key, right, ks1, cs1)
    PROVE  Routed(ks1, cs1, m) /\ Top(cs1, m)
<1> DEFINE E == Kids(cs)
           F == Kids(cs1)
           left == cs[q][i]
<1>1. /\ Fits(ks, cs) /\ Forest(cs) /\ Descends(cs) /\ Fits(ks1, cs1) /\ Forest(cs1)
      /\ Slot(ks[q], key) = i /\ q \in Path(ks, cs, m, key)
      /\ \A n \in Nat \ {q} : ks1[n] = ks[n] /\ cs1[n] = cs[n]
      /\ Range(ks1[q]) = Range(ks[q]) \cup {key}
      /\ F[q] = E[q] \cup {right}
      /\ \A k \in Int : Way(ks1, cs1, k)[q] =
             IF Slot(ks[q], k) = i /\ key <= k THEN {right} ELSE Way(ks, cs, k)[q]
  <2>1. Fits(ks, cs) /\ Forest(cs) /\ Descends(cs)
    BY DEF Tree
  <2> HIDE DEF E, F, left
  <2>2. /\ Fits(ks1, cs1) /\ Forest(cs1)
        /\ Slot(ks[q], key) = i /\ q \in Path(ks, cs, m, key)
        /\ IsAttachment(ks, cs, q, i, key, right, ks1, cs1)
    BY <2>1, AttachFits
  <2> QED
    BY <2>1, <2>2 DEF E, F, IsAttachment
<1>2. /\ E \in Graph /\ F \in Graph /\ m \in Nat /\ right \in Nat /\ left \in E[q] /\ left \in Nat
      /\ Top(cs, right) /\ right # m
      /\ \A n \in Nat : Below(cs, n) \in SUBSET Nat /\ n \in Below(cs, n)
      /\ \A n \in Nat \ {q} : F[n] = E[n]
  <2>1. E \in Graph /\ F \in Graph /\ m \in Nat /\ right \in Nat /\ Top(cs, right) /\ right # m
    BY <1>1, 0 \in Int, TreeGraphs DEF Hangs, Top
  <2>2. left \in E[q]
    BY DEF Kids, Range
  <2>3. left \in Nat
    BY <2>1, <2>2 DEF Graph
  <2>4. \A n \in Nat \ {q} : F[n] = E[n]
    BY <1>1 DEF Kids
  <2> QED
    BY <2>1, <2>2, <2>3, <2>4, ReachBasics DEF Below
<1>3. /\ \A n \in Below(cs, left) : \A k \in Range(ks[n]) : k < key
      /\ \A n \in Below(cs, right) : \A k \in Range(ks[n]) :
           key <= k /\ left \in Path(ks, cs, m, k)
      /\ Routed(ks, cs, right)
  BY DEF Hangs
<1>4. q \notin Below(cs, left)
  BY <1>1, <1>2, NotBelowChild
<1>5. q \notin Below(cs, right)
  BY <1>1, <1>2, TreesAreApart
<1>6. \A k \in Int : /\ Way(ks, cs, k) \in Graph /\ Way(ks1, cs1, k) \in Graph
                     /\ \A n \in Nat \ {q} : Way(ks1, cs1, k)[n] = Way(ks, cs, k)[n]
                     /\ \A n \in Nat : Way(ks, cs, k)[n] \subseteq E[n]
  <2>1. \A k \in Int : \A n \in Nat \ {q} : Way(ks1, cs1, k)[n] = Way(ks, cs, k)[n]
    BY <1>1 DEF Way
  <2> QED
    BY <1>1, <2>1, TreeGraphs
<1> HIDE DEF E, F
\* The way of k changes only where it went to left and now goes to right.
<1>7. ASSUME NEW k \in Int, NEW x \in Path(ks, cs, m, k), x \notin Below(cs, left) \/ k < key
      PROVE  x \in Path(ks1, cs1, m, k)
  <2> DEFINE W == Way(ks, cs, k)
             W1 == Way(ks1, cs1, k)
  <2>1. W \in Graph /\ W1 \in Graph
    BY <1>6
  <2>2. CASE ~(Slot(ks[q], k) = i /\ key <= k)
    <3>1. \A n \in Nat : W[n] \subseteq W1[n]
      BY <1>1, <1>6, <2>2
    <3>2. \A n \in Reach(W1, m) : W[n] \subseteq W1[n]
      BY <1>2, <2>1, <3>1, ReachBasics
    <3> HIDE DEF W, W1
    <3>3. Reach(W, m) \subseteq Reach(W1, m)
      BY <1>2, <2>1, <3>2, ReachMonotone
    <3> QED
      BY <3>3 DEF Path, W, W1
  <2>3. CASE Slot(ks[q], k) = i /\ key <= k
    <3> DEFINE S == Reach(W1, m) \cup Below(cs, left)
    <3>1. W[q] = {left}
      <4>1. left \in W[q]
        BY <1>1, <2>3, SlotOfWay
      <4> QED
        BY <4>1 DEF Way
    <3>2. /\ Reach(W1, m) \in SUBSET Nat /\ m \in Reach(W1, m) /\ ClosedUnder(W1, Reach(W1, m))
          /\ Below(cs, left) \in SUBSET Nat /\ left \in Below(cs, left)
          /\ ClosedUnder(E, Below(cs, left))
      BY <1>2, <2>1, ReachBasics DEF Below, E
    <3>3. ASSUME NEW n \in S, NEW y \in W[n]
          PROVE  y \in S
      <4>1. n \in Nat
        BY <3>2
      <4>2. CASE n = q
        BY <3>1, <3>2, <3>3, <4>2
      <4>3. CASE n \in Below(cs, left)
        BY <1>6, <3>2, <3>3, <4>1, <4>3 DEF ClosedUnder
      <4>4. CASE n # q /\ n \in Reach(W1, m)
        <5>1. y \in W1[n]
          BY <1>6, <3>3, <4>1, <4>4
        <5> QED
          BY <3>2, <4>4, <5>1 DEF ClosedUnder
      <4> QED
        BY <4>2, <4>3, <4>4
    <3>4. S \in SUBSET Nat /\ m \in S /\ ClosedUnder(W, S)
      BY <3>2, <3>3 DEF ClosedUnder
    <3> HIDE DEF S, W, W1
    <3>5. Reach(W, m) \subseteq S
      BY <1>2, <2>1, <3>4, ReachLeast
    <3>6. x \in S
      BY <3>5 DEF Path, W
    <3>7. key \in Int
      BY KeysAssumption
    <3>8. x \notin Below(cs, left)
      BY <1>7, <2>3, <3>7
    <3> QED
      BY <3>6, <3>8 DEF S, Path, W1
  <2> QED
    BY <2>2, <2>3
<1>8. Below(cs1, m) \subseteq Below(cs, m) \cup Below(cs, right)
  <2> DEFINE T == Below(cs, m) \cup Below(cs, right)
  <2>1. /\ T \in SUBSET Nat /\ m \in T /\ right \in T
        /\ ClosedUnder(E, Below(cs, m)) /\ ClosedUnder(E, Below(cs, right))
    BY <1>2, ReachBasics DEF Below, E
  <2>2. ASSUME NEW x \in T, NEW y \in F[x]
        PROVE  y \in T
    <3>1. y \in E[x] \/ y = right
      BY <1>1, <1>2, <2>1, <2>2
    <3> QED
      BY <2>1, <3>1 DEF ClosedUnder
  <2>3. ClosedUnder(F, T)
    BY <2>2 DEF ClosedUnder
  <2> HIDE DEF T
  <2>4. Below(cs1, m) \subseteq T
    BY <1>2, <2>1, <2>3, ReachLeast DEF Below, F
  <2> QED
    BY <2>4 DEF T
<1>9. ASSUME NEW n \in Below(cs1, m), NEW k \in Range(ks1[n])
      PROVE  n \in Path(ks1, cs1, m, k)
  <2>0. n \in Nat /\ key \in Int
    BY <1>2, <1>8, KeysAssumption
  <2>1. k \in Int
    BY <1>1, <2>0, KeysAreNumbers
  <2>2. CASE n = q
    <3>1. n \in Path(ks, cs, m, k)
      BY <1>1, <1>9, <2>2 DEF Routed
    <3> QED
      BY <1>4, <1>7, <2>1, <2>2, <3>1
  <2>3. CASE n # q /\ n \in Below(cs, m)
    <3>1. k \in Range(ks[n])
      BY <1>1, <1>9, <2>0, <2>3
    <3>2. n \in Path(ks, cs, m, k)
      BY <2>3, <3>1 DEF Routed
    <3>3. n \notin Below(cs, left) \/ k < key
      BY <1>3, <3>1
    <3> QED
      BY <1>7, <2>1, <3>2, <3>3
  <2>4. CASE n # q /\ n \in Below(cs, right)
    <3>1. k \in Range(ks[n])
      BY <1>1, <1>9, <2>0, <2>4
    <3>2. key <= k /\ left \in Path(ks, cs, m, k)
      BY <1>3, <2>4, <3>1
    <3>3. q \in Path(ks, cs, m, k) /\ left \in Way(ks, cs, k)[q]
      BY <1>1, <1>2, <2>1, <3>2, TurnsToChild DEF E
    <3>4. Slot(ks[q], k) = i
      BY <1>1, <2>1, <3>3, SlotOfWay
    <3> DEFINE W == Way(ks, cs, k)
               W1 == Way(ks1, cs1, k)
    <3>5. W \in Graph /\ W1 \in Graph /\ right \in W1[q]
      BY <1>1, <1>6, <2>1, <3>2, <3>4
    <3>6. q \in Path(ks1, cs1, m, k)
      BY <1>4, <1>7, <2>1, <3>3
    <3>7. \A x \in Reach(W, right) : W[x] = W1[x]
      <4> SUFFICES ASSUME NEW x \in Reach(W, right) PROVE W[x] = W1[x]
        OBVIOUS
      <4>1. x \in Below(cs, right)
        BY <1>1, <1>2, <2>1, PathIsBelow DEF Path
      <4>2. x \in Nat /\ x # q
        BY <1>2, <1>5, <4>1
      <4> QED
        BY <1>6, <2>1, <4>2
    <3>8. n \in Path(ks, cs, right, k)
      BY <1>3, <2>4, <3>1 DEF Routed
    <3> HIDE DEF W, W1
    <3>9. n \in Reach(W1, right)
      BY <1>2, <3>5, <3>7, <3>8, ReachAgrees DEF Path, W
    <3>10. q \in Reach(W1, m)
      BY <3>6 DEF Path, W1
    <3>11. right \in Reach(W1, m)
      BY <1>2, <3>5, <3>10, ReachBasics DEF ClosedUnder
    <3>12. n \in Reach(W1, m)
      BY <1>2, <3>5, <3>9, <3>11, ReachTransitive
    <3> QED
      BY <3>12 DEF Path, W1
  <2> QED
    BY <1>8, <2>2, <2>3, <2>4
<1>10. Top(cs1, m)
  BY <1>1, <1>2 DEF Top, E, F
<1> QED
  BY <1>9, <1>10 DEF Routed

(***************************************************************************)
(* A key that goes into the leaf a search for it comes to.                 *)
(***************************************************************************)
LEMMA InsertKeepsRoutes ==
    ASSUME NEW ks, NEW cs, Fits(ks, cs), NEW m \in Nat, Routed(ks, cs, m),
           NEW q \in Nat, cs[q] = <<>>, NEW key, q \in Path(ks, cs, m, key),
           NEW ks1, \A n \in Nat \ {q} : ks1[n] = ks[n], Range(ks1[q]) = Range(ks[q]) \cup {key}
    PROVE  Routed(ks1, cs, m)
<1>1. \A k : Way(ks1, cs, k) = Way(ks, cs, k)
  BY DEF Way
<1>2. \A k : Path(ks1, cs, m, k) = Path(ks, cs, m, k)
  BY <1>1 DEF Path
<1>3. Below(cs, m) \in SUBSET Nat
  BY 0 \in Int, TreeGraphs, ReachBasics DEF Below
<1> SUFFICES ASSUME NEW n \in Below(cs, m), NEW k \in Range(ks1[n]) PROVE n \in Path(ks, cs, m, k)
  BY <1>2 DEF Routed
<1>4. n \in Nat
  BY <1>3
<1> QED
  BY <1>4 DEF Routed

(***************************************************************************)
(* A new root above the old one.                                           *)
(***************************************************************************)
LEMMA RaiseKeepsRoutes ==
    ASSUME NEW ks, NEW cs, Tree(ks, cs), NEW m, Top(cs, m), Routed(ks, cs, m),
           NEW new, Top(cs, new), new # m, ks[new] = <<>>, cs[new] = <<>>,
           NEW key \in Keys, NEW right, right # new, Hangs(ks, cs, m, m, key, right),
           NEW cs1, cs1 = [cs EXCEPT ![new] = <<m>>]
    PROVE  /\ Fits(ks, cs1) /\ Forest(cs1) /\ Top(cs1, new) /\ Routed(ks, cs1, new)
           /\ Hangs(ks, cs1, new, m, key, right) /\ new \in Below(cs1, new)
<1>1. /\ Fits(ks, cs) /\ Forest(cs) /\ m \in Nat /\ new \in Nat /\ cs1[new] = <<m>>
      /\ \A n \in Nat \ {new} : cs1[n] = cs[n]
      /\ right \in Nat /\ right # m /\ Top(cs, right) /\ key \in Int
  BY KeysAssumption DEF Tree, Top, Fits, Hangs
<1>2. Fits(ks, cs1)
  <2>1. cs1 \in [Nat -> Seq(Nat)]
    BY <1>1 DEF Fits
  <2>2. Len(<<m>>) = 1 /\ Len(<<>>) = 0
    OBVIOUS
  <2>3. ASSUME NEW n \in Nat, cs1[n] # <<>> PROVE Len(cs1[n]) = Len(ks[n]) + 1
    <3>1. CASE n = new
      <4>1. Len(cs1[n]) = 1 /\ Len(ks[n]) = 0
        BY <1>1, <2>2, <3>1
      <4> QED
        BY <4>1
    <3>2. CASE n # new
      BY <1>1, <2>3, <3>2 DEF Fits
    <3> QED
      BY <3>1, <3>2
  <2> QED
    BY <1>1, <2>1, <2>3 DEF Fits
<1>3. /\ Kids(cs) \in Graph /\ Kids(cs1) \in Graph
      /\ Kids(cs1)[new] = {m} /\ \A n \in Nat \ {new} : Kids(cs1)[n] = Kids(cs)[n]
  <2>1. Range(<<m>>) = {m}
    BY DEF Range
  <2> QED
    <3>1. Kids(cs) \in Graph /\ Kids(cs1) \in Graph
      BY <1>1, <1>2, 0 \in Int, TreeGraphs
    <3>2. Kids(cs1)[new] = {m} /\ \A n \in Nat \ {new} : Kids(cs1)[n] = Kids(cs)[n]
      BY <1>1, <2>1 DEF Kids
    <3> QED
      BY <3>1, <3>2
<1>4. Forest(cs1)
  <2>1. \A x, y \in Nat : x # y => Kids(cs1)[x] \cap Kids(cs1)[y] = {}
    <3>1. \A x, y \in Nat : x # y => Kids(cs)[x] \cap Kids(cs)[y] = {}
      BY <1>1, OneParent
    <3>2. \A n \in Nat : m \notin Kids(cs)[n]
      BY DEF Top
    <3> SUFFICES ASSUME NEW x \in Nat, NEW y \in Nat, x # y, NEW c \in Kids(cs1)[x], c \in Kids(cs1)[y]
                 PROVE  FALSE
      OBVIOUS
    <3>3. CASE x = new
      BY <1>3, <3>2, <3>3
    <3>4. CASE y = new
      BY <1>3, <3>2, <3>4
    <3>5. CASE x # new /\ y # new
      BY <1>3, <3>1, <3>5
    <3> QED
      BY <3>3, <3>4, <3>5
  <2>2. \A n \in Nat : \A a, b \in DOMAIN cs1[n] : cs1[n][a] = cs1[n][b] => a = b
    <3>1. DOMAIN <<m>> = {1}
      OBVIOUS
    <3> QED
      BY <1>1, <3>1 DEF Forest
  <2> QED
    BY <2>1, <2>2, ForestIs
<1>5. Top(cs1, new) /\ Top(cs1, right)
  BY <1>1, <1>3 DEF Top
<1>6. ASSUME NEW k \in Int
      PROVE  /\ Way(ks, cs1, k) \in Graph /\ Way(ks, cs, k) \in Graph
             /\ Way(ks, cs1, k)[new] = {m}
             /\ \A n \in Nat \ {new} : Way(ks, cs1, k)[n] = Way(ks, cs, k)[n]
  <2>1. 1 \in DOMAIN cs1[new] /\ cs1[new][1] = m
    BY <1>1
  <2>0. DOMAIN <<m>> = {1}
    OBVIOUS
  <2>2. Slot(ks[new], k) \in DOMAIN cs1[new] /\ cs1[new] # <<>>
    <3>1. \E i \in DOMAIN cs1[new] : TRUE
      BY <2>1
    <3> QED
      BY <1>1, <1>2, <1>4, <3>1, SlotOfWay
  <2>3. Slot(ks[new], k) = 1
    BY <1>1, <2>0, <2>2
  <2>4. Way(ks, cs1, k)[new] = {m}
    BY <1>1, <2>1, <2>2, <2>3 DEF Way
  <2>5. \A n \in Nat \ {new} : Way(ks, cs1, k)[n] = Way(ks, cs, k)[n]
    BY <1>1 DEF Way
  <2> QED
    BY <1>1, <1>2, <2>4, <2>5, TreeGraphs
\* Below the other tops nothing changes.
<1>7. ASSUME NEW r \in {m, right}
      PROVE  /\ Below(cs1, r) = Below(cs, r) /\ new \notin Below(cs, r)
             /\ \A k \in Int : Path(ks, cs1, r, k) = Path(ks, cs, r, k)
  <2>1. r \in Nat /\ new \notin Below(cs, r) /\ Below(cs, r) \in SUBSET Nat
    <3>1. r \in Nat /\ Top(cs, r) /\ r # new
      BY <1>1
    <3>2. new \in Below(cs, new)
      BY <1>1, <1>3, ReachBasics DEF Below
    <3> QED
      BY <1>1, <1>3, <3>1, <3>2, TreesAreApart, ReachBasics DEF Below
  <2>2. \A x \in Below(cs, r) : Kids(cs)[x] = Kids(cs1)[x]
    BY <1>3, <2>1
  <2>3. Below(cs, r) = Below(cs1, r)
    BY <1>3, <2>1, <2>2, ReachAgrees DEF Below
  <2>4. ASSUME NEW k \in Int PROVE Path(ks, cs1, r, k) = Path(ks, cs, r, k)
    <3>1. Path(ks, cs, r, k) \subseteq Below(cs, r)
      BY <1>1, <2>1, PathIsBelow
    <3>2. \A x \in Path(ks, cs, r, k) : Way(ks, cs, k)[x] = Way(ks, cs1, k)[x]
      BY <1>6, <2>1, <3>1
    <3> QED
      BY <1>6, <2>1, <3>2, ReachAgrees DEF Path
  <2> QED
    BY <2>1, <2>3, <2>4
<1>8. ASSUME NEW k \in Int
      PROVE  Path(ks, cs1, new, k) = {new} \cup Path(ks, cs, m, k)
  <2> DEFINE W == Way(ks, cs1, k)
  <2>0. W \in Graph /\ W[new] = {m}
    BY <1>6
  <2>2. Path(ks, cs1, new, k) = Reach(W, new) /\ Reach(W, m) = Path(ks, cs, m, k)
    BY <1>7 DEF Path
  <2> HIDE DEF W
  <2>1. Reach(W, new) = {new} \cup UNION {Reach(W, c) : c \in {m}}
    BY <1>1, <2>0, ReachFirst
  <2> QED
    BY <2>1, <2>2
<1>9. Below(cs1, new) = {new} \cup Below(cs, m)
  <2> DEFINE E == Kids(cs1)
  <2>0. E \in Graph /\ E[new] = {m} /\ new \in Nat /\ Below(cs1, new) = Reach(E, new)
    BY <1>1, <1>3 DEF Below
  <2> HIDE DEF E
  <2>1. Below(cs1, new) = {new} \cup UNION {Reach(E, c) : c \in {m}}
    BY <2>0, ReachFirst
  <2> QED
    BY <1>7, <2>1 DEF Below, E
<1>10. Routed(ks, cs1, new)
  <2> SUFFICES ASSUME NEW n \in Below(cs1, new), NEW k \in Range(ks[n])
               PROVE  n \in Path(ks, cs1, new, k)
    BY DEF Routed
  <2>1. n # new
    BY <1>1 DEF Range
  <2>2. n \in Below(cs, m) /\ n \in Path(ks, cs, m, k)
    BY <1>9, <2>1 DEF Routed
  <2>3. n \in Nat
    BY <1>1, <1>3, <2>2, ReachBasics DEF Below
  <2>4. k \in Int
    BY <1>1, <2>3, KeysAreNumbers
  <2> QED
    BY <1>8, <2>2, <2>4
<1>11. Hangs(ks, cs1, new, m, key, right)
  <2>1. \A k \in Int : m \in Path(ks, cs1, new, k)
    <3>1. \A k \in Int : m \in Path(ks, cs, m, k)
      BY <1>1, <1>6, ReachBasics DEF Path
    <3> QED
      BY <1>8, <3>1
  <2>2. \E low \in Int : low < key
    BY DEF Hangs
  <2>3. \A n \in Below(cs1, m) : \A k \in Range(ks[n]) : k < key
    BY <1>7 DEF Hangs
  <2>4. ASSUME NEW n \in Below(cs1, right), NEW k \in Range(ks[n])
        PROVE  key <= k /\ m \in Path(ks, cs1, new, k) /\ n \in Path(ks, cs1, right, k)
    <3>1. n \in Below(cs, right) /\ n \in Nat
      BY <1>1, <1>3, <1>7, ReachBasics DEF Below
    <3>2. k \in Int
      BY <1>1, <3>1, KeysAreNumbers
    <3>3. key <= k /\ n \in Path(ks, cs, right, k)
      BY <3>1 DEF Hangs, Routed
    <3> QED
      BY <1>7, <2>1, <3>2, <3>3
  <2>5. Routed(ks, cs1, right)
    BY <2>4 DEF Routed
  <2> QED
    BY <1>1, <1>5, <2>1, <2>2, <2>3, <2>4, <2>5 DEF Hangs
<1> QED
  BY <1>1, <1>2, <1>3, <1>4, <1>5, <1>9, <1>10, <1>11

(***************************************************************************)
(* The keys in the leaves, and the separators above them.                  *)
(***************************************************************************)
LeafKeys(ks, cs, n) == UNION {Range(ks[x]) : x \in {y \in Below(cs, n) : cs[y] = <<>>}}

\* A separator with the child behind it.
Pairs(keys, kids) == {<<keys[i], kids[i + 1]>> : i \in DOMAIN keys}

\* Every separator is a key in a leaf behind it.
Separates(ks, cs) ==
    \A n \in Nat : cs[n] # <<>> =>
        \A p \in Pairs(ks[n], cs[n]) : p[1] \in LeafKeys(ks, cs, p[2])

LEMMA LeafKeysGrow ==
    ASSUME NEW ks, NEW cs, NEW ks1, NEW cs1, Kids(cs) \in Graph, Kids(cs1) \in Graph,
           \A n \in Nat : Kids(cs)[n] \subseteq Kids(cs1)[n],
           \A n \in Nat : cs[n] = <<>> => \A k \in Range(ks[n]) : cs1[n] = <<>> /\ k \in Range(ks1[n]),
           NEW m \in Nat
    PROVE  LeafKeys(ks, cs, m) \subseteq LeafKeys(ks1, cs1, m)
<1> SUFFICES ASSUME NEW k \in LeafKeys(ks, cs, m) PROVE k \in LeafKeys(ks1, cs1, m)
  OBVIOUS
<1>1. PICK x \in Below(cs, m) : cs[x] = <<>> /\ k \in Range(ks[x])
  BY DEF LeafKeys
<1>2. x \in Nat /\ Below(cs, m) \subseteq Below(cs1, m)
  BY ReachBasics, ReachMonotone DEF Below
<1>3. x \in Below(cs1, m) /\ cs1[x] = <<>> /\ k \in Range(ks1[x])
  BY <1>1, <1>2
<1> QED
  BY <1>3 DEF LeafKeys

\* Where a pair is.
AtPlace(p, keys, kids) ==
    \E i \in DOMAIN keys : /\ i + 1 \in DOMAIN kids /\ i \in 1 .. Len(keys)
                           /\ p[1] = keys[i] /\ p[2] = kids[i + 1]

LEMMA PairsAre ==
    ASSUME NEW ks, NEW cs, Fits(ks, cs), NEW n \in Nat, cs[n] # <<>>, NEW p \in Pairs(ks[n], cs[n])
    PROVE  /\ p[2] \in Kids(cs)[n] /\ p[2] \in Nat /\ p[1] \in Range(ks[n])
           /\ AtPlace(p, ks[n], cs[n])
<1>1. /\ ks[n] \in Seq(Int) /\ cs[n] \in Seq(Nat) /\ Len(cs[n]) = Len(ks[n]) + 1
      /\ Len(ks[n]) \in Nat /\ DOMAIN ks[n] = 1 .. Len(ks[n]) /\ DOMAIN cs[n] = 1 .. Len(cs[n])
  BY KeysAreNumbers, LenProperties DEF Fits
<1>2. PICK i \in DOMAIN ks[n] : p = <<ks[n][i], cs[n][i + 1]>>
  BY DEF Pairs
<1>3. i \in 1 .. Len(ks[n]) /\ i + 1 \in DOMAIN cs[n]
  BY <1>1
<1>4. p[1] = ks[n][i] /\ p[2] = cs[n][i + 1]
  BY <1>2
<1>5. cs[n][i + 1] \in Range(cs[n]) /\ cs[n][i + 1] \in Nat
  BY <1>1, <1>3, ElementOfSeq DEF Range
<1>6. AtPlace(p, ks[n], cs[n])
  BY <1>3, <1>4 DEF AtPlace
<1> QED
  BY <1>3, <1>4, <1>5, <1>6 DEF Kids, Range

\* A key more in a leaf.
LEMMA InsertSeparates ==
    ASSUME NEW ks, NEW cs, NEW ks1, Fits(ks, cs), Separates(ks, cs),
           NEW q \in Nat, cs[q] = <<>>, Range(ks[q]) \subseteq Range(ks1[q]),
           \A n \in Nat \ {q} : ks1[n] = ks[n]
    PROVE  Separates(ks1, cs)
<1>1. Kids(cs) \in Graph
  BY 0 \in Int, TreeGraphs
<1>2. \A n \in Nat : cs[n] = <<>> => \A k \in Range(ks[n]) : cs[n] = <<>> /\ k \in Range(ks1[n])
  OBVIOUS
<1>3. \A n \in Nat : LeafKeys(ks, cs, n) \subseteq LeafKeys(ks1, cs, n)
  BY <1>1, <1>2, LeafKeysGrow
<1> SUFFICES ASSUME NEW n \in Nat, cs[n] # <<>>, NEW p \in Pairs(ks1[n], cs[n])
             PROVE  p[1] \in LeafKeys(ks1, cs, p[2])
  BY DEF Separates
<1>4. ks1[n] = ks[n]
  OBVIOUS
<1>5. p \in Pairs(ks[n], cs[n])
  BY <1>4
<1>6. p[2] \in Nat /\ p[1] \in LeafKeys(ks, cs, p[2])
  BY <1>5, PairsAre DEF Separates
<1> QED
  BY <1>3, <1>6

LEMMA InsertPairs ==
    ASSUME NEW keys \in Seq(Keys), NEW kids \in Seq(Nat), Len(kids) = Len(keys) + 1,
           NEW i \in DOMAIN kids, NEW key \in Keys, NEW right \in Nat
    PROVE  Pairs(InsertAt(keys, i, key), InsertAt(kids, i + 1, right))
             \subseteq Pairs(keys, kids) \cup {<<key, right>>}
<1> DEFINE t == InsertAt(keys, i, key)
           i1 == i + 1
           u == InsertAt(kids, i1, right)
<1>1. /\ Len(keys) \in Nat /\ DOMAIN keys = 1 .. Len(keys) /\ DOMAIN kids = 1 .. Len(keys) + 1
      /\ i \in 1 .. Len(keys) + 1 /\ i1 \in 1 .. Len(kids) + 1
  BY LenProperties
<1> HIDE DEF i1
<1>2. t \in Seq(Keys) /\ IsInsertion(t, keys, i, key)
  BY <1>1, InsertAtIs
<1>3. u \in Seq(Nat) /\ IsInsertion(u, kids, i1, right)
  BY <1>1, InsertAtIs
<1> HIDE DEF t, u
<1>4. DOMAIN t = 1 .. Len(keys) + 1
  BY <1>2, LenProperties DEF IsInsertion
<1>5. ASSUME NEW j \in DOMAIN t
      PROVE  <<t[j], u[j + 1]>> \in Pairs(keys, kids) \cup {<<key, right>>}
  <2>1. CASE j < i
    <3>1. j \in 1 .. Len(keys) /\ j + 1 \in 1 .. Len(kids) /\ j + 1 < i1
      BY <1>1, <1>4, <2>1 DEF i1
    <3>2. t[j] = keys[j] /\ u[j + 1] = kids[j + 1]
      BY <1>2, <1>3, <2>1, <3>1 DEF IsInsertion
    <3> QED
      BY <1>1, <3>1, <3>2 DEF Pairs
  <2>2. CASE j = i
    <3>1. t[j] = key /\ u[j + 1] = right
      BY <1>2, <1>3, <2>2 DEF IsInsertion, i1
    <3> QED
      BY <3>1
  <2>3. CASE i < j
    <3> DEFINE o == j - 1
    <3>1. o \in 1 .. Len(keys) /\ i <= o /\ j = o + 1 /\ j \in 1 .. Len(kids) /\ i1 <= j
      BY <1>1, <1>4, <2>3 DEF i1
    <3> HIDE DEF o
    <3>2. t[o + 1] = keys[o]
      BY <1>2, <3>1 DEF IsInsertion
    <3>3. u[j + 1] = kids[j]
      BY <1>3, <3>1 DEF IsInsertion
    <3> QED
      BY <1>1, <3>1, <3>2, <3>3 DEF Pairs
  <2> QED
    BY <1>1, <1>4, <2>1, <2>2, <2>3
<1>6. Pairs(t, u) \subseteq Pairs(keys, kids) \cup {<<key, right>>}
  BY <1>5 DEF Pairs
<1> QED
  BY <1>6 DEF t, u, i1

\* right and its separator join q.
LEMMA AttachSeparates ==
    ASSUME NEW ks, NEW cs, NEW ks1, NEW cs1, Fits(ks, cs), Fits(ks1, cs1), Separates(ks, cs),
           NEW q \in Nat, NEW i \in DOMAIN cs[q], NEW key \in Keys, NEW right \in Nat,
           Attaches(ks, cs, q, i, key, right, ks1, cs1),
           IsAttachment(ks, cs, q, i, key, right, ks1, cs1),
           key \in LeafKeys(ks, cs, right)
    PROVE  Separates(ks1, cs1)
<1>1. Kids(cs) \in Graph /\ Kids(cs1) \in Graph
  BY 0 \in Int, TreeGraphs
<1>2. /\ ks \in [Nat -> Seq(Keys)] /\ cs \in [Nat -> Seq(Nat)]
      /\ ks[q] \in Seq(Keys) /\ cs[q] \in Seq(Nat) /\ cs[q] # <<>> /\ Len(cs[q]) = Len(ks[q]) + 1
  <2>1. ks[q] \in Seq(Keys) /\ cs[q] \in Seq(Nat) /\ ks \in [Nat -> Seq(Keys)] /\ cs \in [Nat -> Seq(Nat)]
    BY DEF Fits
  <2>2. cs[q] # <<>>
    OBVIOUS
  <2> QED
    BY <2>1, <2>2 DEF Fits
<1>3. \A n \in Nat : Kids(cs)[n] \subseteq Kids(cs1)[n]
  BY DEF IsAttachment, Kids
<1>4. \A n \in Nat : cs[n] = <<>> => \A k \in Range(ks[n]) : cs1[n] = <<>> /\ k \in Range(ks1[n])
  BY <1>2 DEF IsAttachment
<1>5. \A n \in Nat : LeafKeys(ks, cs, n) \subseteq LeafKeys(ks1, cs1, n)
  BY <1>1, <1>3, <1>4, LeafKeysGrow
<1>6. Pairs(ks1[q], cs1[q]) \subseteq Pairs(ks[q], cs[q]) \cup {<<key, right>>}
  <2>1. ks1[q] = InsertAt(ks[q], i, key) /\ cs1[q] = InsertAt(cs[q], i + 1, right)
    BY <1>2 DEF Attaches
  <2> QED
    BY <1>2, <2>1, InsertPairs
<1> SUFFICES ASSUME NEW n \in Nat, cs1[n] # <<>>, NEW p \in Pairs(ks1[n], cs1[n])
             PROVE  p[1] \in LeafKeys(ks1, cs1, p[2])
  BY DEF Separates
<1>7. (p \in Pairs(ks[n], cs[n]) /\ cs[n] # <<>>) \/ p = <<key, right>>
  <2>1. CASE n = q
    BY <1>2, <1>6, <2>1
  <2>2. CASE n # q
    BY <2>2 DEF IsAttachment
  <2> QED
    BY <2>1, <2>2
<1>8. CASE p = <<key, right>>
  BY <1>5, <1>8
<1>9. CASE p \in Pairs(ks[n], cs[n]) /\ cs[n] # <<>>
  <2>1. p[2] \in Nat /\ p[1] \in LeafKeys(ks, cs, p[2])
    BY <1>9, PairsAre DEF Separates
  <2> QED
    BY <1>5, <2>1
<1> QED
  BY <1>7, <1>8, <1>9

\* q and the new node part their keys and children; what is above keeps its
\* separators, because they are below every key that leaves q.
LEMMA SplitSeparates ==
    ASSUME NEW ks, NEW cs, NEW ks2, NEW cs2, Tree(ks, cs), Fits(ks2, cs2),
           NEW m, Top(cs, m), NEW q \in Below(cs, m), NEW new, Top(cs, new), new # m,
           NEW key \in Range(ks[q]), NEW low \in Range(ks[q]), low < key,
           \A n \in Nat \ {q, new} : ks2[n] = ks[n] /\ cs2[n] = cs[n],
           Kids(cs)[q] = Kids(cs2)[q] \cup Kids(cs2)[new],
           \A k \in Int : k < key => Way(ks, cs, k)[q] \cap Kids(cs2)[new] = {},
           Routed(ks, cs, m), Separates(ks, cs),
           cs[q] = <<>> => /\ cs2[q] = <<>> /\ cs2[new] = <<>> /\ key \in Range(ks2[new])
                           /\ {k \in Range(ks[q]) : k < key} \subseteq Range(ks2[q]),
           cs[q] # <<>> => /\ Pairs(ks2[q], cs2[q]) \subseteq Pairs(ks[q], cs[q])
                           /\ Pairs(ks2[new], cs2[new]) \subseteq Pairs(ks[q], cs[q])
                           /\ \E d \in Kids(cs2)[new] : <<key, d>> \in Pairs(ks[q], cs[q])
    PROVE  Separates(ks2, cs2) /\ key \in LeafKeys(ks2, cs2, new)
<1> DEFINE E == Kids(cs)
           F == Kids(cs2)
<1>1. /\ E \in Graph /\ F \in Graph /\ m \in Nat /\ new \in Nat /\ q \in Nat
      /\ Fits(ks, cs) /\ Forest(cs) /\ Descends(cs)
      /\ \A n \in Nat : Below(cs, n) \in SUBSET Nat /\ n \in Below(cs, n)
      /\ \A n \in Nat : Below(cs2, n) \in SUBSET Nat /\ n \in Below(cs2, n)
      /\ \A n \in Nat : ClosedUnder(F, Below(cs2, n)) /\ ClosedUnder(E, Below(cs, n))
  <2>1. E \in Graph /\ F \in Graph /\ m \in Nat /\ new \in Nat
    BY 0 \in Int, TreeGraphs DEF Tree, Top
  <2> QED
    BY <2>1, ReachBasics DEF Below, Tree
<1>2. key \in Int /\ low \in Int
  BY <1>1, KeysAreNumbers
<1>3. /\ new \notin Below(cs, m) /\ new # q
      /\ \A n \in Nat \ {q, new} : F[n] = E[n]
  <2>1. new \notin Below(cs, m)
    BY <1>1, TreesAreApart
  <2> QED
    BY <2>1 DEF Kids
<1> HIDE DEF E, F
<1>4. ASSUME NEW d \in Nat, d # new
      PROVE  new \notin Below(cs, d)
  <2> SUFFICES ASSUME new \in Below(cs, d) PROVE FALSE
    OBVIOUS
  <2>1. PICK y \in Below(cs, d) : new \in Kids(cs)[y]
    BY <1>1, <1>4, ReachLast DEF Below, E
  <2> QED
    BY <1>1, <1>4, <2>1 DEF Top
\* Away from q nothing changes.
<1>5. ASSUME NEW d \in Nat, d # new, q \notin Below(cs, d)
      PROVE  LeafKeys(ks, cs, d) \subseteq LeafKeys(ks2, cs2, d)
  <2>1. \A x \in Below(cs, d) : x \in Nat \ {q, new} /\ F[x] = E[x]
    BY <1>1, <1>3, <1>4, <1>5
  <2>2. Below(cs2, d) = Below(cs, d)
    BY <1>1, <2>1, ReachAgrees DEF Below, E, F
  <2> QED
    BY <2>1, <2>2 DEF LeafKeys
\* What was below d still is, or went to the new node.
<1>6. ASSUME NEW d \in Nat, d # new, NEW x \in Below(cs, d)
      PROVE  x \in Below(cs2, d) \/ \E e \in F[new] : x \in Below(cs, e)
  <2> DEFINE S == {y \in Below(cs, d) : y \in Below(cs2, d) \/ \E e \in F[new] : y \in Below(cs, e)}
  <2>1. d \in S /\ S \in SUBSET Nat
    BY <1>1
  <2>2. ClosedUnder(E, S)
    <3> SUFFICES ASSUME NEW y \in S, NEW z \in E[y] PROVE z \in S
      BY DEF ClosedUnder
    <3>1. /\ y \in Nat /\ z \in Nat /\ \A e \in F[new] : e \in Nat
      BY <1>1 DEF Graph
    <3>2. y # new /\ z \in Below(cs, d)
      BY <1>1, <1>4, <1>6 DEF ClosedUnder
    <3>3. CASE \E e \in F[new] : y \in Below(cs, e)
      <4>1. \E e \in F[new] : z \in Below(cs, e)
        BY <1>1, <3>1, <3>3 DEF ClosedUnder
      <4> QED
        BY <3>2, <4>1
    <3>4. CASE y \in Below(cs2, d) /\ y # q
      <4>1. z \in F[y]
        BY <1>3, <3>1, <3>2, <3>4
      <4>2. z \in Below(cs2, d)
        BY <1>1, <3>4, <4>1 DEF ClosedUnder
      <4> QED
        BY <3>2, <4>2
    <3>5. CASE y \in Below(cs2, d) /\ y = q
      <4>1. z \in F[q] \/ z \in F[new]
        BY <3>5 DEF E, F
      <4>2. CASE z \in F[q]
        <5>1. z \in Below(cs2, d)
          BY <1>1, <3>5, <4>2 DEF ClosedUnder
        <5> QED
          BY <3>2, <5>1
      <4>3. CASE z \in F[new]
        <5>1. z \in Below(cs, z)
          BY <1>1, <3>1
        <5> QED
          BY <3>2, <4>3, <5>1
      <4> QED
        BY <4>1, <4>2, <4>3
    <3> QED
      BY <3>3, <3>4, <3>5
  <2> HIDE DEF S
  <2>3. x \in S
    BY <1>1, <1>6, <2>1, <2>2, ReachLeast DEF Below, E
  <2> QED
    BY <2>3 DEF S
\* No separator is lost.
<1>7. ASSUME NEW n \in Nat, cs[n] # <<>>, NEW p \in Pairs(ks[n], cs[n])
      PROVE  p[1] \in LeafKeys(ks2, cs2, p[2])
  <2> DEFINE s == p[1]
             d == p[2]
  <2>1. d \in E[n] /\ d \in Nat /\ s \in Range(ks[n]) /\ s \in LeafKeys(ks, cs, d)
    BY <1>1, <1>7, PairsAre DEF Separates, E
  <2>2. d # new
    BY <2>1 DEF Top, E
  <2>3. CASE q \notin Below(cs, d)
    BY <1>5, <2>1, <2>2, <2>3
  <2>4. CASE q \in Below(cs, d)
    <3>1. q \in Path(ks, cs, m, low) /\ q \in Path(ks, cs, m, key)
      BY DEF Routed
    <3>2. n \in Path(ks, cs, m, low) /\ d \in Way(ks, cs, low)[n]
      BY <1>1, <1>2, <2>1, <2>4, <3>1, TurnsToChild DEF E
    <3>3. n \in Below(cs, m) /\ d \in Below(cs, m)
      BY <1>1, <1>2, <2>1, <3>2, PathIsBelow DEF ClosedUnder
    <3>4. s <= low /\ s \in Int
      <4>0. AtPlace(p, ks[n], cs[n])
        BY <1>1, <1>7, PairsAre
      <4>1. PICK i \in DOMAIN ks[n] : i + 1 \in DOMAIN cs[n] /\ i \in 1 .. Len(ks[n]) /\ s = ks[n][i] /\ d = cs[n][i + 1]
        BY <4>0 DEF AtPlace
      <4> DEFINE i1 == i + 1
      <4>2. i1 \in DOMAIN cs[n] /\ cs[n][i1] \in Way(ks, cs, low)[n]
        BY <3>2, <4>1
      <4> HIDE DEF i1
      <4>3. Slot(ks[n], low) = i1
        BY <1>1, <1>2, <4>2, SlotOfWay
      <4>4. ks[n] \in Seq(Int) /\ Range(ks[n]) \in SUBSET Int
        BY <1>1, KeysAreNumbers
      <4>5. \A j \in 1 .. Len(ks[n]) : j < Slot(ks[n], low) => ks[n][j] <= low
        BY <1>2, <4>4, SlotIs
      <4>6. i < i1
        BY <4>1 DEF i1
      <4> QED
        BY <2>1, <4>1, <4>3, <4>4, <4>5, <4>6
    <3>5. s < key
      BY <1>2, <3>4
    <3>6. PICK x \in Below(cs, d) : cs[x] = <<>> /\ s \in Range(ks[x])
      BY <2>1 DEF LeafKeys
    <3> HIDE DEF s, d
    <3>7. x \in Nat /\ x \in Below(cs, m) /\ x \in Path(ks, cs, m, s)
      <4>1. x \in Below(cs, m)
        BY <1>1, <3>3, <3>6, ReachTransitive DEF Below, E
      <4> QED
        BY <1>1, <3>6, <4>1 DEF Routed
    <3>8. ASSUME NEW e \in F[new], x \in Below(cs, e)
          PROVE  FALSE
      <4>1. e \in E[q] /\ e \in Nat
        BY <1>1, <3>8 DEF E, F, Graph
      <4>2. x # q
        BY <1>1, <3>8, <4>1, NotBelowChild DEF E
      <4>3. e \in Way(ks, cs, s)[q]
        BY <1>1, <3>4, <3>7, <3>8, <4>1, TurnsToChild DEF E
      <4> QED
        BY <3>4, <3>5, <3>8, <4>3 DEF F
    <3>9. x \in Below(cs2, d)
      BY <1>6, <2>1, <2>2, <3>6, <3>8 DEF d
    <3>10. cs2[x] = <<>> /\ s \in Range(ks2[x])
      <4>1. CASE x = q
        BY <3>5, <3>6, <4>1
      <4>2. CASE x # q
        <5>1. x # new
          BY <1>3, <3>7
        <5> QED
          BY <3>6, <3>7, <4>2, <5>1
      <4> QED
        BY <4>1, <4>2
    <3>11. s \in LeafKeys(ks2, cs2, d)
      BY <3>9, <3>10 DEF LeafKeys
    <3> QED
      BY <3>11 DEF s, d
  <2> QED
    BY <2>3, <2>4
<1>8. Separates(ks2, cs2)
  <2> SUFFICES ASSUME NEW n \in Nat, cs2[n] # <<>>, NEW p \in Pairs(ks2[n], cs2[n])
               PROVE  p[1] \in LeafKeys(ks2, cs2, p[2])
    BY DEF Separates
  <2>1. CASE n \notin {q, new}
    <3>1. cs[n] # <<>> /\ p \in Pairs(ks[n], cs[n])
      BY <2>1
    <3> QED
      BY <1>7, <3>1
  <2>2. CASE n \in {q, new}
    <3>1. cs[q] # <<>> /\ p \in Pairs(ks[q], cs[q])
      BY <2>2
    <3> QED
      BY <1>1, <1>7, <3>1
  <2> QED
    BY <2>1, <2>2
<1>9. key \in LeafKeys(ks2, cs2, new)
  <2>1. CASE cs[q] = <<>>
    BY <1>1, <2>1 DEF LeafKeys
  <2>2. CASE cs[q] # <<>>
    <3>1. PICK d \in F[new] : <<key, d>> \in Pairs(ks[q], cs[q])
      BY <2>2 DEF F
    <3>2. key \in LeafKeys(ks2, cs2, d)
      <4>1. <<key, d>>[1] = key /\ <<key, d>>[2] = d
        OBVIOUS
      <4> QED
        BY <1>1, <1>7, <2>2, <3>1, <4>1
    <3>3. d \in Below(cs2, new)
      BY <1>1, <3>1 DEF ClosedUnder
    <3>4. Below(cs2, d) \subseteq Below(cs2, new)
      BY <1>1, <3>3, ReachTransitive DEF Below, F
    <3> QED
      BY <3>2, <3>4 DEF LeafKeys
  <2> QED
    BY <2>1, <2>2
<1> QED
  BY <1>8, <1>9

(***************************************************************************)
(* The heap as such a tree.                                                *)
(***************************************************************************)
KeysIn(h) == [n \in Nat |-> IF n \in DOMAIN h THEN h[n].keys ELSE <<>>]
KidsIn(h) == [n \in Nat |-> IF n \in DOMAIN h THEN h[n].children ELSE <<>>]

Node == [isLeaf : BOOLEAN, keys : Seq(Keys), values : Seq(Values), children : Seq(Nat),
         parent : Nat, next : Nat]

Sound(node, size) ==
    /\ node \in Node
    /\ Range(node.children) \subseteq 1 .. size
    /\ node.parent \in 0 .. size /\ node.next \in 0 .. size
    /\ Len(node.keys) <= MaxKeys
    /\ Ascending(node.keys)
    /\ node.isLeaf => Len(node.values) = Len(node.keys) /\ node.children = <<>>
    /\ ~node.isLeaf => Len(node.children) = Len(node.keys) + 1

Shaped(h) == h \in Seq(Node) /\ \A n \in DOMAIN h : Sound(h[n], Len(h))

\* Parent pointers are the inverse of child pointers, in every node allocated.
Linked(h, r) ==
    /\ r \in DOMAIN h /\ h[r].parent = Null
    /\ \A n \in DOMAIN h : \A i \in DOMAIN h[n].children :
         /\ h[h[n].children[i]].parent = n
         /\ \A j \in DOMAIN h[n].children : h[n].children[i] = h[n].children[j] => i = j

\* Leaves are at one level, and so are the two nodes of a pending insert.
Levels(h, c, level) ==
    /\ level \in [Nat -> Nat]
    /\ \A n \in DOMAIN h : \A x \in Range(h[n].children) : level[n] = level[x] + 1
    /\ \A n \in DOMAIN h : h[n].isLeaf => level[n] = 0
    /\ c # Idle => level[c.left] = level[c.right]

Levelled(h, c) == \E level \in [Nat -> Nat] : Levels(h, c, level)

InOrder(h, r) == Routed(KeysIn(h), KidsIn(h), r)

Pending(h, r, c) ==
    c # Idle =>
        /\ c \in [left : DOMAIN h, key : Keys, right : DOMAIN h]
        /\ c.left \in Below(KidsIn(h), r)
        /\ h[c.right].parent = h[c.left].parent
        /\ Hangs(KeysIn(h), KidsIn(h), r, c.left, c.key, c.right)

\* Splits leave two halves.  The root may hold less, but not one that has split.
Half(node) ==
    Len(node.keys) >= IF node.isLeaf THEN LeafSplitIndex ELSE ORDER - LeafSplitIndex - 1

Filled(h, r, c) ==
    /\ \A n \in DOMAIN h \ {r} : Half(h[n])
    /\ c # Idle => Half(h[c.left])

Separated(h, c) ==
    /\ Separates(KeysIn(h), KidsIn(h))
    /\ c # Idle => c.key \in LeafKeys(KeysIn(h), KidsIn(h), c.right)

TreeInv(h, r, c) ==
    /\ Shaped(h) /\ Linked(h, r) /\ Levelled(h, c) /\ InOrder(h, r) /\ Pending(h, r, c)
    /\ Filled(h, r, c) /\ Separated(h, c)

Inv ==
    /\ TreeInv(heap, root, carry)
    /\ ret \in {-1, 0, 1} /\ failures \in 0 .. MaxFailures

LEMMA NodesIn ==
    ASSUME NEW h, Shaped(h)
    PROVE  /\ Len(h) \in Nat /\ DOMAIN h = 1 .. Len(h) /\ DOMAIN h \in SUBSET Nat
           /\ \A n \in DOMAIN h :
                /\ h[n] \in Node /\ Sound(h[n], Len(h))
                /\ KeysIn(h)[n] = h[n].keys /\ KidsIn(h)[n] = h[n].children
                /\ h[n].keys \in Seq(Keys) /\ h[n].values \in Seq(Values) /\ h[n].children \in Seq(Nat)
                /\ Range(h[n].children) \subseteq DOMAIN h
                /\ h[n].parent \in Nat /\ h[n].next \in Nat /\ h[n].isLeaf \in BOOLEAN
           /\ \A n \in Nat \ DOMAIN h : KeysIn(h)[n] = <<>> /\ KidsIn(h)[n] = <<>>
<1>1. Len(h) \in Nat /\ DOMAIN h = 1 .. Len(h) /\ DOMAIN h \in SUBSET Nat
  BY LenProperties DEF Shaped
<1>2. ASSUME NEW n \in DOMAIN h
      PROVE  /\ h[n] \in Node /\ Sound(h[n], Len(h))
             /\ KeysIn(h)[n] = h[n].keys /\ KidsIn(h)[n] = h[n].children
             /\ h[n].keys \in Seq(Keys) /\ h[n].values \in Seq(Values) /\ h[n].children \in Seq(Nat)
             /\ Range(h[n].children) \subseteq DOMAIN h
             /\ h[n].parent \in Nat /\ h[n].next \in Nat /\ h[n].isLeaf \in BOOLEAN
  <2>1. n \in Nat
    BY <1>1
  <2>2. h[n] \in Node /\ Sound(h[n], Len(h)) /\ Range(h[n].children) \subseteq DOMAIN h
    BY <1>1 DEF Shaped, Sound
  <2>3. KeysIn(h)[n] = h[n].keys /\ KidsIn(h)[n] = h[n].children
    BY <2>1 DEF KeysIn, KidsIn
  <2> QED
    BY <2>2, <2>3 DEF Node
<1>3. \A n \in Nat \ DOMAIN h : KeysIn(h)[n] = <<>> /\ KidsIn(h)[n] = <<>>
  BY DEF KeysIn, KidsIn
<1> QED
  BY <1>1, <1>2, <1>3

LEMMA HeapIsTree ==
    ASSUME NEW h, NEW r, Shaped(h), Linked(h, r), NEW c, Levelled(h, c)
    PROVE  /\ Tree(KeysIn(h), KidsIn(h)) /\ Top(KidsIn(h), r) /\ Kids(KidsIn(h)) \in Graph
           /\ Below(KidsIn(h), r) \subseteq DOMAIN h
<1> DEFINE ks == KeysIn(h)
           cs == KidsIn(h)
<1>1. /\ DOMAIN h \in SUBSET Nat /\ r \in DOMAIN h /\ DOMAIN h = 1 .. Len(h)
      /\ \A n \in DOMAIN h : /\ ks[n] = h[n].keys /\ cs[n] = h[n].children /\ Sound(h[n], Len(h))
                             /\ ks[n] \in Seq(Keys) /\ cs[n] \in Seq(Nat)
                             /\ Range(cs[n]) \subseteq DOMAIN h /\ h[n].isLeaf \in BOOLEAN
      /\ \A n \in Nat \ DOMAIN h : ks[n] = <<>> /\ cs[n] = <<>>
  BY NodesIn DEF Linked
<1>2. Fits(ks, cs)
  <2>1. ks \in [Nat -> Seq(Keys)]
    <3>0. <<>> \in Seq(Keys)
      OBVIOUS
    <3>1. \A n \in Nat : ks[n] \in Seq(Keys)
      <4> HIDE DEF ks
      <4> QED
        BY <1>1, <3>0
    <3> QED
      BY <3>1 DEF KeysIn
  <2>2. cs \in [Nat -> Seq(Nat)]
    <3>0. <<>> \in Seq(Nat)
      OBVIOUS
    <3>1. \A n \in Nat : cs[n] \in Seq(Nat)
      <4> HIDE DEF cs
      <4> QED
        BY <1>1, <3>0
    <3> QED
      BY <3>1 DEF KidsIn
  <2>3. ASSUME NEW n \in Nat
        PROVE  Ascending(ks[n]) /\ (cs[n] # <<>> => Len(cs[n]) = Len(ks[n]) + 1)
    <3>1. CASE n \in DOMAIN h
      BY <1>1, <3>1 DEF Sound
    <3>2. CASE n \notin DOMAIN h
      <4>1. Ascending(<<>>)
        BY DEF Ascending
      <4> QED
        BY <1>1, <3>2, <4>1
    <3> QED
      BY <3>1, <3>2
  <2> QED
    BY <2>1, <2>2, <2>3 DEF Fits
<1> HIDE DEF ks, cs
<1>3. \A n \in Nat : \A c1 \in Kids(cs)[n] : n \in DOMAIN h /\ c1 \in DOMAIN h /\ h[c1].parent = n
  <2> SUFFICES ASSUME NEW n \in Nat, NEW c1 \in Kids(cs)[n]
               PROVE  n \in DOMAIN h /\ c1 \in DOMAIN h /\ h[c1].parent = n
    OBVIOUS
  <2>1. c1 \in Range(cs[n])
    BY DEF Kids
  <2>2. n \in DOMAIN h
    <3>1. Range(<<>>) = {}
      BY DEF Range
    <3> QED
      BY <1>1, <2>1, <3>1
  <2>3. PICK i \in DOMAIN h[n].children : c1 = h[n].children[i]
    BY <1>1, <2>1, <2>2 DEF Range
  <2> QED
    BY <1>1, <2>1, <2>2, <2>3 DEF Linked
<1>4. Forest(cs)
  <2>1. \A x, y \in Nat : x # y => Kids(cs)[x] \cap Kids(cs)[y] = {}
    BY <1>3
  <2>2. ASSUME NEW n \in Nat, NEW i \in DOMAIN cs[n], NEW j \in DOMAIN cs[n], cs[n][i] = cs[n][j]
        PROVE  i = j
    <3>1. cs[n][i] \in Kids(cs)[n]
      BY DEF Kids, Range
    <3>2. n \in DOMAIN h
      BY <1>3, <3>1
    <3> QED
      BY <1>1, <2>2, <3>2 DEF Linked
  <2>3. \A n \in Nat : \A i, j \in DOMAIN cs[n] : cs[n][i] = cs[n][j] => i = j
    BY <2>2
  <2> QED
    BY <2>1, <2>3, ForestIs
<1>5. Descends(cs)
  <2>1. PICK level \in [Nat -> Nat] : Levels(h, c, level)
    BY DEF Levelled
  <2>2. ASSUME NEW n \in Nat, NEW x \in Kids(cs)[n]
        PROVE  level[x] < level[n]
    <3>1. n \in DOMAIN h /\ x \in DOMAIN h
      BY <1>3
    <3>2. x \in Range(h[n].children)
      BY <1>1, <3>1 DEF Kids
    <3>3. level[n] = level[x] + 1 /\ level[x] \in Nat
      BY <1>1, <2>1, <3>1, <3>2 DEF Levels
    <3> QED
      BY <3>3
  <2> QED
    BY <2>2 DEF Descends
<1>6. Top(cs, r)
  <2>1. h[r].parent = Null /\ r \in Nat
    BY <1>1 DEF Linked
  <2> SUFFICES ASSUME NEW n \in Nat, r \in Kids(cs)[n] PROVE FALSE
    BY <2>1 DEF Top
  <2>2. n \in 1 .. Len(h) /\ n = 0
    BY <1>1, <1>3, <2>1 DEF Null
  <2> QED
    BY <1>1, <2>2
<1>7. Kids(cs) \in Graph
  BY <1>2, 0 \in Int, TreeGraphs
<1>8. Below(cs, r) \subseteq DOMAIN h
  <2>1. ClosedUnder(Kids(cs), DOMAIN h)
    BY <1>1, <1>3 DEF ClosedUnder
  <2> QED
    BY <1>1, <1>7, <2>1, ReachLeast DEF Below
<1> QED
  BY <1>2, <1>4, <1>5, <1>6, <1>7, <1>8 DEF Tree, ks, cs

\* Of some nodes there is one with the least level.
LEMMA LeastLevel ==
    ASSUME NEW level \in [Nat -> Nat], NEW B \in SUBSET Nat, B # {}
    PROVE  \E n \in B : \A x \in B : level[n] <= level[x]
<1> DEFINE S == {level[n] : n \in B}
<1>1. S \in SUBSET Nat /\ S # {}
  OBVIOUS
<1>2. Min(S) \in S /\ \A x \in S : Min(S) <= x
  BY <1>1, LeastExists
<1> QED
  BY <1>2

(***************************************************************************)
(* bptree_find_leaf ends in a leaf on the way of the search.               *)
(***************************************************************************)
LEMMA FindLeafIs ==
    ASSUME TreeInv(heap, root, carry), NEW k \in Int
    PROVE  /\ FindLeaf(k) \in DOMAIN heap /\ heap[FindLeaf(k)].isLeaf
           /\ FindLeaf(k) \in Path(KeysIn(heap), KidsIn(heap), root, k)
<1> DEFINE ks == KeysIn(heap)
           cs == KidsIn(heap)
           W == Way(ks, cs, k)
           step(n) == heap[n].children[ChildSlot(n, k)]
           equation(f) == [n \in DOMAIN heap |-> IF heap[n].isLeaf THEN n ELSE f[step(n)]]
           descend[n \in DOMAIN heap] == IF heap[n].isLeaf THEN n ELSE descend[heap[n].children[ChildSlot(n, k)]]
           leaves(n) == {x \in Reach(W, n) : heap[x].isLeaf}
           w == [n \in DOMAIN heap |-> CHOOSE x : x \in leaves(n)]
<1>1. /\ Shaped(heap) /\ Linked(heap, root) /\ Levelled(heap, carry)
      /\ Tree(ks, cs) /\ Fits(ks, cs) /\ Top(cs, root)
      /\ DOMAIN heap \in SUBSET Nat /\ root \in DOMAIN heap /\ W \in Graph
  <2>1. Shaped(heap) /\ Linked(heap, root) /\ Levelled(heap, carry)
    BY DEF TreeInv
  <2>2. Tree(ks, cs) /\ Top(cs, root)
    BY <2>1, HeapIsTree
  <2> QED
    BY <2>1, <2>2, NodesIn, TreeGraphs DEF Tree, Linked
<1>2. ASSUME NEW n \in DOMAIN heap
      PROVE  /\ heap[n].isLeaf => W[n] = {}
             /\ ~heap[n].isLeaf => W[n] = {step(n)} /\ step(n) \in Range(heap[n].children)
                                   /\ step(n) \in DOMAIN heap
  <2>1. /\ cs[n] = heap[n].children /\ ks[n] = heap[n].keys /\ n \in Nat
        /\ Range(heap[n].children) \subseteq DOMAIN heap /\ Sound(heap[n], Len(heap))
    BY <1>1, NodesIn
  <2>2. CASE heap[n].isLeaf
    BY <2>1, <2>2 DEF Sound, Way
  <2>3. CASE ~heap[n].isLeaf
    <3>1. Len(heap[n].children) = Len(heap[n].keys) + 1 /\ Len(heap[n].keys) \in Nat
          /\ heap[n].children \in Seq(Nat) /\ heap[n].keys \in Seq(Keys)
      BY <1>1, <2>1, <2>3, NodesIn, LenProperties DEF Sound
    <3>2. cs[n] # <<>> /\ 1 \in DOMAIN cs[n]
      BY <2>1, <3>1, LenProperties
    <3>3. W[n] = {cs[n][Slot(ks[n], k)]} /\ cs[n][Slot(ks[n], k)] \in Kids(cs)[n]
      <4>1. W[n] = {cs[n][Slot(ks[n], k)]}
        BY <2>1, <3>2 DEF Way
      <4> HIDE DEF ks, cs, W
      <4>2. cs[n][Slot(ks[n], k)] \in Kids(cs)[n]
        BY <1>1, <2>1, <3>2, SlotOfWay DEF Tree
      <4> QED
        BY <4>1, <4>2
    <3>4. Slot(ks[n], k) = ChildSlot(n, k)
      BY <2>1 DEF Slot, ChildSlot
    <3>5. step(n) = cs[n][Slot(ks[n], k)] /\ Kids(cs)[n] = Range(heap[n].children)
      BY <2>1, <3>4 DEF Kids
    <3> HIDE DEF step, cs, ks, W
    <3> QED
      BY <2>1, <2>3, <3>3, <3>5
  <2> QED
    BY <2>2, <2>3
<1> HIDE DEF W, step
<1>3. ASSUME NEW n \in DOMAIN heap
      PROVE  w[n] = IF heap[n].isLeaf THEN n ELSE w[step(n)]
  <2>1. Reach(W, n) = {n} \cup UNION {Reach(W, c) : c \in W[n]}
    BY <1>1, ReachFirst
  <2>2. CASE heap[n].isLeaf
    <3>1. leaves(n) = {n}
      BY <1>2, <2>1, <2>2
    <3> QED
      BY <2>2, <3>1
  <2>3. CASE ~heap[n].isLeaf
    <3>1. Reach(W, n) = {n} \cup Reach(W, step(n)) /\ step(n) \in DOMAIN heap
      BY <1>2, <2>1, <2>3
    <3>2. leaves(n) = leaves(step(n))
      BY <2>3, <3>1
    <3> HIDE DEF leaves
    <3>3. w[n] = w[step(n)]
      BY <3>1, <3>2
    <3> QED
      BY <2>3, <3>3
  <2> QED
    BY <2>2, <2>3
<1>4. \E f : f = equation(f)
  <2>0. w = [n \in DOMAIN heap |-> w[n]]
    OBVIOUS
  <2> HIDE DEF w
  <2>1. w = equation(w)
    BY <1>3, <2>0
  <2> QED
    BY <2>1
<1>5. FindLeaf(k) = descend[root]
  BY DEF FindLeaf
<1>6. descend = CHOOSE f : f = equation(f)
  BY DEF step
<1> HIDE DEF descend
<1>7. descend = equation(descend)
  BY <1>4, <1>6
<1> DEFINE good(n) == /\ descend[n] \in DOMAIN heap /\ heap[descend[n]].isLeaf
                      /\ descend[n] \in Reach(W, n)
           B == {n \in DOMAIN heap : ~good(n)}
<1>8. B = {}
  <2> SUFFICES ASSUME B # {} PROVE FALSE
    OBVIOUS
  <2>1. PICK level \in [Nat -> Nat] : Levels(heap, carry, level)
    BY <1>1 DEF Levelled
  <2>2. B \in SUBSET Nat
    BY <1>1
  <2> HIDE DEF B
  <2>3. PICK n \in B : \A x \in B : level[n] <= level[x]
    BY <2>2, LeastLevel
  <2>4. n \in DOMAIN heap /\ ~good(n)
    BY DEF B
  <2>5. /\ n \in Nat /\ n \in Reach(W, n)
    BY <1>1, <2>4, ReachBasics
  <2>6. ~heap[n].isLeaf
    <3> SUFFICES ASSUME heap[n].isLeaf PROVE FALSE
      OBVIOUS
    <3>1. descend[n] = n
      BY <1>7, <2>4
    <3> QED
      BY <2>4, <2>5, <3>1
  <2>7. W[n] = {step(n)} /\ step(n) \in Range(heap[n].children) /\ step(n) \in DOMAIN heap
    BY <1>2, <2>4, <2>6
  <2>8. descend[n] = descend[step(n)]
    BY <1>7, <2>4, <2>6
  <2>9. step(n) \notin B
    <3>1. level[n] = level[step(n)] + 1 /\ level[step(n)] \in Nat
      BY <1>1, <2>1, <2>4, <2>7 DEF Levels
    <3>2. ~(level[n] <= level[step(n)])
      BY <3>1
    <3> QED
      BY <2>3, <3>2
  <2>10. good(step(n))
    BY <2>7, <2>9 DEF B
  <2>11. Reach(W, step(n)) \subseteq Reach(W, n)
    <3>1. step(n) \in Reach(W, n)
      BY <1>1, <2>5, <2>7, ReachBasics DEF ClosedUnder
    <3> QED
      BY <1>1, <2>5, <3>1, ReachTransitive
  <2> QED
    BY <2>4, <2>8, <2>10, <2>11
<1>9. good(root)
  BY <1>1, <1>8
<1> QED
  BY <1>5, <1>9 DEF Path, W

LEMMA HalfOfOrder ==
    /\ MaxKeys \in Nat /\ MaxKeys + 1 = ORDER /\ ORDER \in Nat
    /\ LeafSplitIndex = PromoteIndex /\ LeafSplitIndex = ORDER \div 2
    /\ LeafSplitIndex \in Nat /\ 1 <= LeafSplitIndex /\ LeafSplitIndex + 2 <= ORDER
    /\ ORDER <= 2 * LeafSplitIndex + 1 /\ 2 * LeafSplitIndex <= ORDER
<1>1. ORDER \in Nat /\ ORDER >= 3 /\ MaxKeys = ORDER - 1 /\ MaxKeys + 1 = ORDER /\ MaxKeys \in Nat
  BY OrderAssumption DEF MaxKeys
<1>2. LeafSplitIndex = ORDER \div 2 /\ PromoteIndex = ORDER \div 2
  BY <1>1 DEF LeafSplitIndex, PromoteIndex
<1> QED
  BY <1>1, <1>2

(***************************************************************************)
(* A new key in a leaf.                                                    *)
(***************************************************************************)
LEMMA SeqLike ==
    ASSUME NEW D, NEW s \in Seq(D), NEW f, DOMAIN f = DOMAIN s, f = [i \in DOMAIN f |-> f[i]],
           \A i \in DOMAIN s : f[i] \in D
    PROVE  f \in Seq(D) /\ Len(f) = Len(s)
<1>1. Len(s) \in Nat /\ DOMAIN s = 1 .. Len(s)
  BY LenProperties
<1>2. f \in [1 .. Len(s) -> D]
  BY <1>1
<1>3. f \in Seq(D)
  BY <1>1, <1>2, SeqDef
<1>4. Len(f) \in Nat /\ DOMAIN f = 1 .. Len(f)
  BY <1>3, LenProperties
<1> QED
  BY <1>1, <1>3, <1>4

LEMMA KeySlotIs ==
    ASSUME NEW keys \in Seq(Int), NEW k \in Int, NEW slot, slot = FirstSlot(keys, LAMBDA s : s >= k)
    PROVE  /\ slot \in 1 .. Len(keys) + 1
           /\ slot <= Len(keys) => keys[slot] >= k
           /\ \A i \in 1 .. Len(keys) : i < slot => keys[i] < k
<1> DEFINE hits == {i \in DOMAIN keys : keys[i] >= k}
<1>1. Len(keys) \in Nat /\ DOMAIN keys = 1 .. Len(keys) /\ \A i \in 1 .. Len(keys) : keys[i] \in Int
  BY LenProperties, ElementOfSeq
<1>2. hits \in SUBSET (1 .. Len(keys))
  BY <1>1
<1>3. slot = IF hits = {} THEN Len(keys) + 1 ELSE Min(hits)
  BY DEF FirstSlot
<1>4. /\ slot \in 1 .. Len(keys) + 1
      /\ slot <= Len(keys) => slot \in hits
      /\ \A i \in 1 .. Len(keys) : i < slot => i \notin hits
  BY <1>1, <1>2, <1>3, FirstSlotIs
<1>5. slot <= Len(keys) => keys[slot] >= k
  BY <1>4
<1>6. \A i \in 1 .. Len(keys) : i < slot => keys[i] < k
  <2> SUFFICES ASSUME NEW i \in 1 .. Len(keys), i < slot PROVE keys[i] < k
    OBVIOUS
  <2>1. keys[i] \in Int /\ ~(keys[i] >= k)
    BY <1>1, <1>4
  <2> QED
    BY <2>1
<1> QED
  BY <1>4, <1>5, <1>6

LEMMA NewKeyGoesIn ==
    ASSUME NEW keys \in Seq(Keys), Ascending(keys), NEW k \in Keys,
           NEW slot, slot = FirstSlot(keys, LAMBDA s : s >= k),
           ~(slot <= Len(keys) /\ keys[slot] = k)
    PROVE  /\ slot \in 1 .. Len(keys) + 1
           /\ InsertAt(keys, slot, k) \in Seq(Keys)
           /\ IsInsertion(InsertAt(keys, slot, k), keys, slot, k)
           /\ Ascending(InsertAt(keys, slot, k))
<1> DEFINE low == k - 1
<1>1. keys \in Seq(Int) /\ k \in Int /\ low \in Int /\ low < k
  BY SeqMonotonic, KeysAssumption
<1>2. Len(keys) \in Nat /\ DOMAIN keys = 1 .. Len(keys) /\ \A j \in 1 .. Len(keys) : keys[j] \in Int
  BY <1>1, LenProperties, ElementOfSeq
<1>3. /\ slot \in 1 .. Len(keys) + 1
      /\ slot <= Len(keys) => keys[slot] >= k
      /\ \A i \in 1 .. Len(keys) : i < slot => keys[i] < k
  BY <1>1, KeySlotIs
<1>4. InsertAt(keys, slot, k) \in Seq(Keys) /\ IsInsertion(InsertAt(keys, slot, k), keys, slot, k)
  BY <1>3, InsertAtIs
<1>5. slot <= Len(keys) => k < keys[slot] /\ low < keys[slot]
  <2> SUFFICES ASSUME slot <= Len(keys) PROVE k < keys[slot] /\ low < keys[slot]
    OBVIOUS
  <2>1. keys[slot] \in Int /\ keys[slot] >= k /\ keys[slot] # k
    BY <1>2, <1>3
  <2> QED
    BY <1>1, <2>1
<1>6. slot > 1 => keys[slot - 1] <= k /\ keys[slot - 1] <= low
  <2> SUFFICES ASSUME slot > 1 PROVE keys[slot - 1] <= k /\ keys[slot - 1] <= low
    OBVIOUS
  <2>1. slot - 1 \in 1 .. Len(keys) /\ slot - 1 < slot
    BY <1>2, <1>3
  <2>2. keys[slot - 1] \in Int /\ keys[slot - 1] < k
    BY <1>2, <1>3, <2>1
  <2> QED
    BY <1>1, <2>2
<1> HIDE DEF low
<1>7. Slot(keys, k) = slot /\ Slot(keys, low) = slot
  <2>1. Slot(keys, k) = slot
    BY <1>1, <1>3, <1>5, <1>6, SlotIsUnique
  <2>2. Slot(keys, low) = slot
    BY <1>1, <1>3, <1>5, <1>6, SlotIsUnique
  <2> QED
    BY <2>1, <2>2
<1> DEFINE t == InsertAt(keys, slot, k)
<1>8. t \in Seq(Int)
  BY <1>4, SeqMonotonic, KeysAssumption
<1>9. IsInsertion(t, keys, slot, k)
  BY <1>4
<1> HIDE DEF t
<1>10. Ascending(t)
  BY <1>1, <1>7, <1>8, <1>9, InsertSeparator
<1> QED
  BY <1>3, <1>4, <1>10 DEF t

\* Keys and values are all that changes.
LEMMA SameShape ==
    ASSUME NEW h, Shaped(h), NEW r, Linked(h, r), NEW c, Levelled(h, c),
           NEW h2, DOMAIN h2 = DOMAIN h,
           \A n \in DOMAIN h : /\ h2[n].isLeaf = h[n].isLeaf /\ h2[n].children = h[n].children
                               /\ h2[n].parent = h[n].parent
    PROVE  Linked(h2, r) /\ Levelled(h2, c) /\ KidsIn(h2) = KidsIn(h)
<1>1. \A n \in DOMAIN h : \A i \in DOMAIN h[n].children : h[n].children[i] \in DOMAIN h
  BY NodesIn DEF Range
<1>2. Linked(h2, r)
  BY <1>1 DEF Linked
<1>3. Levelled(h2, c)
  <2>1. PICK level \in [Nat -> Nat] : Levels(h, c, level)
    BY DEF Levelled
  <2>2. Levels(h2, c, level)
    BY <2>1 DEF Levels
  <2> QED
    BY <2>2 DEF Levelled
<1>4. KidsIn(h2) = KidsIn(h)
  BY DEF KidsIn
<1> QED
  BY <1>2, <1>3, <1>4

LEMMA InsertIntoLeafKeeps ==
    ASSUME TreeInv(heap, root, carry), NEW k \in Keys, NEW v \in Values, InsertIntoLeaf(k, v)
    PROVE  TreeInv(heap', root', carry')
<1> DEFINE leaf == FindLeaf(k)
           keys == heap[leaf].keys
           slot == KeySlot(leaf, k)
           t == InsertAt(keys, slot, k)
           u == InsertAt(heap[leaf].values, slot, v)
<1>1. /\ Shaped(heap) /\ Linked(heap, root) /\ Levelled(heap, carry) /\ InOrder(heap, root)
      /\ carry = Idle /\ k \in Int
  BY KeysAssumption DEF TreeInv, InsertIntoLeaf
<1>2. /\ leaf \in DOMAIN heap /\ heap[leaf].isLeaf
      /\ leaf \in Path(KeysIn(heap), KidsIn(heap), root, k)
  BY <1>1, FindLeafIs
<1>3. /\ ~Holds(leaf, k) /\ HasRoom(leaf) /\ root' = root /\ carry' = carry
      /\ heap' = [heap EXCEPT ![leaf].keys = t, ![leaf].values = u]
  BY DEF InsertIntoLeaf
<1> HIDE DEF leaf
<1>4. /\ heap[leaf] \in Node /\ Sound(heap[leaf], Len(heap)) /\ Len(heap) \in Nat
      /\ keys \in Seq(Keys) /\ heap[leaf].values \in Seq(Values) /\ Len(keys) \in Nat
      /\ Len(heap[leaf].values) = Len(keys) /\ Ascending(keys) /\ heap[leaf].children = <<>>
  <2>1. /\ heap[leaf] \in Node /\ Sound(heap[leaf], Len(heap)) /\ Len(heap) \in Nat
        /\ keys \in Seq(Keys) /\ heap[leaf].values \in Seq(Values)
    BY <1>1, <1>2, NodesIn
  <2> QED
    BY <1>2, <2>1, LenProperties DEF Sound
<1>5. /\ slot \in 1 .. Len(keys) + 1 /\ t \in Seq(Keys) /\ Ascending(t)
      /\ IsInsertion(t, keys, slot, k)
  <2>1. slot = FirstSlot(keys, LAMBDA s : s >= k)
    BY DEF KeySlot
  <2>2. ~(slot <= Len(keys) /\ keys[slot] = k)
    BY <1>3 DEF Holds
  <2> HIDE DEF slot, keys
  <2> QED
    BY <1>4, <2>1, <2>2, NewKeyGoesIn
<1>6. u \in Seq(Values) /\ Len(u) = Len(keys) + 1
  <2>1. u \in Seq(Values) /\ IsInsertion(u, heap[leaf].values, slot, v)
    BY <1>4, <1>5, InsertAtIs
  <2> QED
    BY <1>4, <2>1 DEF IsInsertion
<1>7. Len(t) = Len(keys) + 1 /\ Range(t) = Range(keys) \cup {k}
  BY <1>5 DEF IsInsertion
<1> HIDE DEF t, u, slot
<1>8. /\ heap'[leaf] = [heap[leaf] EXCEPT !.keys = t, !.values = u]
      /\ \A n \in DOMAIN heap \ {leaf} : heap'[n] = heap[n]
      /\ DOMAIN heap' = DOMAIN heap /\ heap' = [i \in DOMAIN heap' |-> heap'[i]]
  BY <1>2, <1>3
<1>9. /\ heap'[leaf] \in Node /\ heap'[leaf].isLeaf /\ heap'[leaf].keys = t /\ heap'[leaf].values = u
      /\ heap'[leaf].children = heap[leaf].children /\ heap'[leaf].parent = heap[leaf].parent
      /\ heap'[leaf].next = heap[leaf].next
  BY ZenonT(30), <1>2, <1>4, <1>5, <1>6, <1>8 DEF Node
<1>10. heap' \in Seq(Node) /\ Len(heap') = Len(heap)
  <2>1. heap \in Seq(Node) /\ \A i \in DOMAIN heap : heap[i] \in Node
    BY <1>1, NodesIn DEF Shaped
  <2>2. \A i \in DOMAIN heap : heap'[i] \in Node
    BY <1>8, <1>9, <2>1
  <2> QED
    BY <1>8, <2>1, <2>2, SeqLike
<1>11. Sound(heap'[leaf], Len(heap))
  <2>1. Len(t) <= MaxKeys
    BY <1>3, <1>4, <1>7, OrderAssumption DEF HasRoom, MaxKeys
  <2> QED
    BY <1>4, <1>5, <1>6, <1>7, <1>9, <2>1 DEF Sound
<1>12. Shaped(heap')
  <2>1. \A n \in DOMAIN heap : Sound(heap'[n], Len(heap))
    BY <1>1, <1>8, <1>11 DEF Shaped
  <2> QED
    BY <1>8, <1>10, <2>1 DEF Shaped
<1>13. Linked(heap', root) /\ Levelled(heap', carry) /\ KidsIn(heap') = KidsIn(heap)
  <2>1. \A n \in DOMAIN heap : /\ heap'[n].isLeaf = heap[n].isLeaf
                               /\ heap'[n].children = heap[n].children
                               /\ heap'[n].parent = heap[n].parent
    BY <1>2, <1>4, <1>8, <1>9 DEF Node
  <2> QED
    BY <1>1, <1>8, <2>1, SameShape
<1>14. InOrder(heap', root)
  <2> DEFINE ks == KeysIn(heap)
             cs == KidsIn(heap)
             ks1 == KeysIn(heap')
  <2>1. Fits(ks, cs) /\ root \in Nat /\ Routed(ks, cs, root)
    BY <1>1, HeapIsTree DEF Tree, Top, InOrder
  <2>2. leaf \in Nat /\ ks[leaf] = keys /\ cs[leaf] = <<>> /\ ks1[leaf] = t
    BY <1>1, <1>2, <1>4, <1>8, <1>9, NodesIn DEF KeysIn
  <2>3. \A n \in Nat \ {leaf} : ks1[n] = ks[n]
    BY <1>8 DEF KeysIn
  <2>4. Range(ks1[leaf]) = Range(ks[leaf]) \cup {k}
    BY <1>7, <2>2
  <2>5. leaf \in Path(ks, cs, root, k)
    BY <1>2
  <2> HIDE DEF ks, cs, ks1
  <2>6. Routed(ks1, cs, root)
    BY <2>1, <2>2, <2>3, <2>4, <2>5, InsertKeepsRoutes
  <2> QED
    BY <1>13, <2>6 DEF InOrder, ks, cs, ks1
<1>15. Filled(heap', root, carry)
  <2>1. Filled(heap, root, carry)
    BY DEF TreeInv
  <2>2. ASSUME NEW n \in DOMAIN heap \ {root} PROVE Half(heap'[n])
    <3>1. Half(heap[n])
      BY <2>1 DEF Filled
    <3>2. CASE n = leaf
      <4>1. Len(heap[leaf].keys) >= LeafSplitIndex /\ Len(heap'[leaf].keys) = Len(heap[leaf].keys) + 1
        BY <1>2, <1>7, <1>9, <3>1, <3>2 DEF Half
      <4> QED
        BY <1>4, <1>9, <3>2, <4>1, HalfOfOrder DEF Half
    <3>3. CASE n # leaf
      BY <1>8, <3>1, <3>3
    <3> QED
      BY <3>2, <3>3
  <2> QED
    BY <1>1, <1>8, <2>2 DEF Filled
<1>16. Separated(heap', carry)
  <2> DEFINE ks == KeysIn(heap)
             cs == KidsIn(heap)
             ks1 == KeysIn(heap')
  <2>1. Fits(ks, cs) /\ Separates(ks, cs)
    BY <1>1, HeapIsTree DEF Tree, TreeInv, Separated
  <2>2. leaf \in Nat /\ ks[leaf] = keys /\ cs[leaf] = <<>> /\ ks1[leaf] = t
    BY <1>1, <1>2, <1>4, <1>8, <1>9, NodesIn DEF KeysIn
  <2>3. \A n \in Nat \ {leaf} : ks1[n] = ks[n]
    BY <1>8 DEF KeysIn
  <2>4. Range(ks[leaf]) \subseteq Range(ks1[leaf])
    BY <1>7, <2>2
  <2> HIDE DEF ks, cs, ks1
  <2>5. Separates(ks1, cs)
    BY <2>1, <2>2, <2>3, <2>4, InsertSeparates
  <2> QED
    BY <1>1, <1>13, <2>5 DEF Separated, ks, cs, ks1
<1> QED
  BY <1>1, <1>3, <1>12, <1>13, <1>14, <1>15, <1>16 DEF TreeInv, Pending

LEMMA OverwriteKeeps ==
    ASSUME TreeInv(heap, root, carry), NEW k \in Keys, NEW v \in Values, OverwriteValue(k, v)
    PROVE  TreeInv(heap', root', carry')
<1> DEFINE leaf == FindLeaf(k)
           slot == KeySlot(leaf, k)
           u == [heap[leaf].values EXCEPT ![slot] = v]
<1>1. /\ Shaped(heap) /\ Linked(heap, root) /\ Levelled(heap, carry) /\ InOrder(heap, root)
      /\ carry = Idle /\ k \in Int
  BY KeysAssumption DEF TreeInv, OverwriteValue
<1>2. leaf \in DOMAIN heap
  BY <1>1, FindLeafIs
<1>3. /\ root' = root /\ carry' = carry
      /\ heap' = [heap EXCEPT ![leaf].values[slot] = v]
  BY DEF OverwriteValue
<1> HIDE DEF leaf, slot
<1>4. /\ heap[leaf] \in Node /\ Sound(heap[leaf], Len(heap)) /\ heap[leaf].values \in Seq(Values)
  BY <1>1, <1>2, NodesIn
<1>5. /\ u \in Seq(Values) /\ Len(u) = Len(heap[leaf].values)
  <2>1. \A i \in DOMAIN heap[leaf].values : u[i] \in Values
    BY <1>4, ElementOfSeq, LenProperties
  <2>2. DOMAIN u = DOMAIN heap[leaf].values /\ u = [i \in DOMAIN u |-> u[i]]
    OBVIOUS
  <2> HIDE DEF u
  <2> QED
    BY <1>4, <2>1, <2>2, SeqLike
<1>6. heap' = [heap EXCEPT ![leaf].values = u]
  BY <1>3
<1> HIDE DEF u
<1>8. /\ heap'[leaf] = [heap[leaf] EXCEPT !.values = u]
      /\ \A n \in DOMAIN heap \ {leaf} : heap'[n] = heap[n]
      /\ DOMAIN heap' = DOMAIN heap /\ heap' = [i \in DOMAIN heap' |-> heap'[i]]
  BY <1>2, <1>6
<1>9. /\ heap'[leaf] \in Node /\ heap'[leaf].isLeaf = heap[leaf].isLeaf /\ heap'[leaf].values = u
      /\ heap'[leaf].keys = heap[leaf].keys
      /\ heap'[leaf].children = heap[leaf].children /\ heap'[leaf].parent = heap[leaf].parent
      /\ heap'[leaf].next = heap[leaf].next
  BY <1>2, <1>4, <1>5, <1>8 DEF Node
<1>10. heap' \in Seq(Node) /\ Len(heap') = Len(heap)
  <2>1. heap \in Seq(Node) /\ \A i \in DOMAIN heap : heap[i] \in Node
    BY <1>1, NodesIn DEF Shaped
  <2>2. \A i \in DOMAIN heap : heap'[i] \in Node
    BY <1>8, <1>9, <2>1
  <2> QED
    BY <1>8, <2>1, <2>2, SeqLike
<1>11. Sound(heap'[leaf], Len(heap))
  BY <1>4, <1>5, <1>9 DEF Sound
<1>12. Shaped(heap')
  <2>1. \A n \in DOMAIN heap : Sound(heap'[n], Len(heap))
    BY <1>1, <1>8, <1>11 DEF Shaped
  <2> QED
    BY <1>8, <1>10, <2>1 DEF Shaped
<1>13. \A n \in DOMAIN heap : /\ heap'[n].isLeaf = heap[n].isLeaf /\ heap'[n].keys = heap[n].keys
                              /\ heap'[n].children = heap[n].children
                              /\ heap'[n].parent = heap[n].parent
  BY <1>2, <1>8, <1>9
<1>14. Linked(heap', root) /\ Levelled(heap', carry) /\ KidsIn(heap') = KidsIn(heap)
  BY <1>1, <1>8, <1>13, SameShape
<1>15. KeysIn(heap') = KeysIn(heap)
  BY <1>8, <1>13 DEF KeysIn
<1>16. Filled(heap', root, carry)
  BY <1>1, <1>8, <1>13 DEF TreeInv, Filled, Half
<1> QED
  BY <1>1, <1>3, <1>12, <1>14, <1>15, <1>16 DEF TreeInv, Pending, InOrder, Separated

(***************************************************************************)
(* Halves.                                                                 *)
(***************************************************************************)
LEMMA PartOf ==
    ASSUME NEW D, NEW s \in Seq(D), NEW a \in Nat \ {0}, NEW b \in Nat, a <= b + 1, b <= Len(s)
    PROVE  /\ SubSeq(s, a, b) \in Seq(D) /\ Len(SubSeq(s, a, b)) = b - a + 1
           /\ \A j \in 1 .. b - a + 1 : SubSeq(s, a, b)[j] = s[a + j - 1]
<1>1. Len(s) \in Nat /\ DOMAIN s = 1 .. Len(s) /\ \A i \in 1 .. Len(s) : s[i] \in D
  BY LenProperties, ElementOfSeq
<1>2. \A i \in a .. b : s[i] \in D
  BY <1>1
<1>3. /\ SubSeq(s, a, b) \in Seq(D) /\ Len(SubSeq(s, a, b)) = IF a <= b THEN b - a + 1 ELSE 0
      /\ \A j \in 1 .. b - a + 1 : SubSeq(s, a, b)[j] = s[a + j - 1]
  BY <1>2, SubSeqProperties
<1> QED
  BY <1>3

\* The elements of t are those s has from a to b.
RangeIs(t, s, a, b) == Range(t) = {s[i] : i \in a .. b}

\* The elements of a part, each with its place.
LEMMA RangeOfPart ==
    ASSUME NEW D, NEW s \in Seq(D), NEW a \in Nat \ {0}, NEW b \in Nat, a <= b + 1, b <= Len(s)
    PROVE  RangeIs(SubSeq(s, a, b), s, a, b)
<1> DEFINE t == SubSeq(s, a, b)
<1>1. t \in Seq(D) /\ Len(t) = b - a + 1 /\ \A j \in 1 .. b - a + 1 : t[j] = s[a + j - 1]
  BY PartOf
<1>2. DOMAIN t = 1 .. b - a + 1
  BY <1>1, LenProperties
<1> HIDE DEF t
<1>3. ASSUME NEW x \in Range(t) PROVE x \in {s[i] : i \in a .. b}
  <2>1. PICK j \in 1 .. b - a + 1 : x = t[j]
    BY <1>2 DEF Range
  <2>2. a + j - 1 \in a .. b /\ x = s[a + j - 1]
    BY <1>1, <2>1
  <2> QED
    BY <2>2
<1>4. ASSUME NEW i \in a .. b PROVE s[i] \in Range(t)
  <2>1. i - a + 1 \in 1 .. b - a + 1 /\ a + (i - a + 1) - 1 = i
    OBVIOUS
  <2>2. t[i - a + 1] = s[a + (i - a + 1) - 1]
    BY <1>1, <2>1
  <2>3. t[i - a + 1] = s[i] /\ i - a + 1 \in DOMAIN t
    BY <1>2, <2>1, <2>2
  <2> QED
    BY <2>3 DEF Range
<1> QED
  BY <1>3, <1>4 DEF t, RangeIs

LEMMA AscendingPart ==
    ASSUME NEW s \in Seq(Int), Ascending(s), NEW a \in Nat \ {0}, NEW b \in Nat, a <= b + 1, b <= Len(s)
    PROVE  Ascending(SubSeq(s, a, b))
<1> DEFINE t == SubSeq(s, a, b)
<1>1. t \in Seq(Int) /\ Len(t) = b - a + 1 /\ \A j \in 1 .. b - a + 1 : t[j] = s[a + j - 1]
  BY PartOf
<1>2. DOMAIN t = 1 .. b - a + 1 /\ DOMAIN s = 1 .. Len(s) /\ Len(s) \in Nat
  BY <1>1, LenProperties
<1> HIDE DEF t
<1> SUFFICES ASSUME NEW i \in 1 .. b - a + 1, NEW j \in 1 .. b - a + 1, i < j PROVE t[i] < t[j]
  BY <1>2 DEF Ascending, t
<1>3. a + i - 1 \in DOMAIN s /\ a + j - 1 \in DOMAIN s /\ a + i - 1 < a + j - 1
  BY <1>2
<1>4. s[a + i - 1] < s[a + j - 1]
  BY <1>3 DEF Ascending
<1> QED
  BY <1>1, <1>4

\* p keys stay, those from u on go, and key number p + 1 goes up.
IsHalving(keys, p, u) ==
    /\ SubSeq(keys, 1, p) \in Seq(Keys) /\ SubSeq(keys, u, Len(keys)) \in Seq(Keys)
    /\ Len(SubSeq(keys, 1, p)) = p /\ Len(SubSeq(keys, u, Len(keys))) = Len(keys) - u + 1
    /\ Ascending(SubSeq(keys, 1, p)) /\ Ascending(SubSeq(keys, u, Len(keys)))
    /\ keys[1] \in Range(keys) /\ keys[p + 1] \in Range(keys) /\ keys[p + 1] \in Keys
    /\ keys[1] < keys[p + 1]
    /\ Range(SubSeq(keys, 1, p)) \subseteq {k \in Range(keys) : k < keys[p + 1]}
    /\ Range(SubSeq(keys, u, Len(keys))) \subseteq {k \in Range(keys) : keys[p + 1] <= k}
    /\ {k \in Range(keys) : k < keys[p + 1]} \subseteq Range(SubSeq(keys, 1, p))
    /\ u = p + 1 => keys[p + 1] \in Range(SubSeq(keys, u, Len(keys)))

LEMMA Halves ==
    ASSUME NEW keys \in Seq(Keys), Ascending(keys), NEW p \in Nat, 1 <= p, p + 1 <= Len(keys),
           NEW u \in {p + 1, p + 2}, u <= Len(keys) + 1
    PROVE  IsHalving(keys, p, u)
<1>1. /\ Len(keys) \in Nat /\ DOMAIN keys = 1 .. Len(keys) /\ keys \in Seq(Int)
      /\ u \in Nat \ {0} /\ \A i \in 1 .. Len(keys) : keys[i] \in Keys /\ keys[i] \in Int
  <2>1. Len(keys) \in Nat /\ DOMAIN keys = 1 .. Len(keys) /\ \A i \in 1 .. Len(keys) : keys[i] \in Keys
    BY LenProperties, ElementOfSeq
  <2>2. keys \in Seq(Int)
    BY SeqMonotonic, KeysAssumption
  <2>3. \A i \in 1 .. Len(keys) : keys[i] \in Int
    BY <2>1, KeysAssumption
  <2>4. u \in Nat \ {0}
    OBVIOUS
  <2> QED
    BY <2>1, <2>2, <2>3, <2>4
<1>2. /\ SubSeq(keys, 1, p) \in Seq(Keys) /\ SubSeq(keys, u, Len(keys)) \in Seq(Keys)
      /\ Len(SubSeq(keys, 1, p)) = p /\ Len(SubSeq(keys, u, Len(keys))) = Len(keys) - u + 1
  <2>1. SubSeq(keys, 1, p) \in Seq(Keys) /\ Len(SubSeq(keys, 1, p)) = p - 1 + 1
    BY <1>1, PartOf
  <2>2. SubSeq(keys, u, Len(keys)) \in Seq(Keys) /\ Len(SubSeq(keys, u, Len(keys))) = Len(keys) - u + 1
    BY <1>1, PartOf
  <2> QED
    BY <2>1, <2>2
<1>3. Ascending(SubSeq(keys, 1, p)) /\ Ascending(SubSeq(keys, u, Len(keys)))
  BY <1>1, AscendingPart
<1>4. RangeIs(SubSeq(keys, 1, p), keys, 1, p)
  BY <1>1, RangeOfPart
<1>5. RangeIs(SubSeq(keys, u, Len(keys)), keys, u, Len(keys))
  BY <1>1, RangeOfPart
<1>6. \A i \in 1 .. Len(keys) : keys[i] \in Range(keys)
  BY <1>1 DEF Range
<1>7. \A i \in 1 .. p : i \in 1 .. Len(keys) /\ keys[i] < keys[p + 1]
  BY SMTT(30), <1>1 DEF Ascending
<1>8. \A i \in u .. Len(keys) : i \in 1 .. Len(keys) /\ keys[p + 1] <= keys[i]
  <2> SUFFICES ASSUME NEW i \in u .. Len(keys) PROVE i \in 1 .. Len(keys) /\ keys[p + 1] <= keys[i]
    OBVIOUS
  <2>1. i \in 1 .. Len(keys) /\ p + 1 \in 1 .. Len(keys) /\ (i = p + 1 \/ p + 1 < i)
    BY <1>1
  <2> QED
    BY SMTT(30), <1>1, <2>1 DEF Ascending
<1>9. 1 \in 1 .. p /\ p + 1 \in 1 .. Len(keys)
  BY <1>1
<1>10. {k \in Range(keys) : k < keys[p + 1]} \subseteq Range(SubSeq(keys, 1, p))
  <2> SUFFICES ASSUME NEW i \in 1 .. Len(keys), keys[i] < keys[p + 1] PROVE i \in 1 .. p
    BY <1>1, <1>4 DEF Range, RangeIs
  <2> SUFFICES ASSUME p < i PROVE FALSE
    BY <1>1
  <2>1. i \in p + 1 .. Len(keys) /\ p + 1 \in 1 .. Len(keys) /\ (i = p + 1 \/ p + 1 < i)
    BY <1>1
  <2>2. i = p + 1 \/ keys[p + 1] < keys[i]
    BY <1>1, <2>1 DEF Ascending
  <2>3. keys[i] \in Int /\ keys[p + 1] \in Int
    BY <1>1, <2>1
  <2> QED
    BY <2>2, <2>3
<1>11. u = p + 1 => keys[p + 1] \in Range(SubSeq(keys, u, Len(keys)))
  <2>1. u = p + 1 => p + 1 \in u .. Len(keys)
    BY <1>1
  <2> QED
    BY <1>5, <2>1 DEF RangeIs
<1> QED
  BY <1>1, <1>2, <1>3, <1>4, <1>5, <1>6, <1>7, <1>8, <1>9, <1>10, <1>11 DEF IsHalving, RangeIs

(***************************************************************************)
(* bptree_split_leaf.                                                      *)
(***************************************************************************)
LEMMA FreshNode ==
    ASSUME NEW h, Shaped(h), NEW new, new = Len(h) + 1
    PROVE  /\ new \in Nat \ DOMAIN h /\ Top(KidsIn(h), new)
           /\ KidsIn(h)[new] = <<>> /\ KeysIn(h)[new] = <<>>
           /\ \A n \in Nat : \A x \in Kids(KidsIn(h))[n] : n \in DOMAIN h /\ x \in DOMAIN h
<1>1. new \in Nat \ DOMAIN h
  BY NodesIn
<1>2. \A n \in Nat : \A x \in Kids(KidsIn(h))[n] : n \in DOMAIN h /\ x \in DOMAIN h
  <2> SUFFICES ASSUME NEW n \in Nat, NEW x \in Kids(KidsIn(h))[n] PROVE n \in DOMAIN h /\ x \in DOMAIN h
    OBVIOUS
  <2>1. x \in Range(KidsIn(h)[n])
    BY DEF Kids
  <2>2. Range(<<>>) = {}
    BY DEF Range
  <2>3. n \in DOMAIN h
    BY <2>1, <2>2, NodesIn
  <2> QED
    BY <2>1, <2>3, NodesIn
<1> QED
  BY <1>1, <1>2, NodesIn DEF Top

\* A node is as sound in a larger heap.
LEMMA SoundGrows ==
    ASSUME NEW node, NEW size \in Nat, Sound(node, size)
    PROVE  Sound(node, size + 1)
BY DEF Sound

\* A heap with some nodes changed and one more.
LEMMA HeapGrows ==
    ASSUME NEW h, Shaped(h), NEW f, DOMAIN f = DOMAIN h, f = [i \in DOMAIN f |-> f[i]],
           NEW node, Sound(node, Len(h) + 1), \A n \in DOMAIN h : Sound(f[n], Len(h) + 1)
    PROVE  /\ Shaped(Append(f, node)) /\ Len(Append(f, node)) = Len(h) + 1
           /\ DOMAIN Append(f, node) = DOMAIN h \cup {Len(h) + 1}
           /\ Append(f, node)[Len(h) + 1] = node
           /\ \A n \in DOMAIN h : Append(f, node)[n] = f[n]
<1>1. /\ h \in Seq(Node) /\ Len(h) \in Nat /\ DOMAIN h = 1 .. Len(h)
  BY NodesIn DEF Shaped
<1>2. f \in Seq(Node) /\ Len(f) = Len(h) /\ node \in Node
  <2>1. \A n \in DOMAIN h : f[n] \in Node
    BY DEF Sound
  <2>2. f \in Seq(Node) /\ Len(f) = Len(h)
    BY <1>1, <2>1, SeqLike
  <2> QED
    BY <2>2 DEF Sound
<1> DEFINE g == Append(f, node)
<1>3. /\ g \in Seq(Node) /\ Len(g) = Len(h) + 1 /\ g[Len(h) + 1] = node
      /\ \A n \in 1 .. Len(h) : g[n] = f[n]
  BY <1>2, AppendProperties
<1>4. DOMAIN g = DOMAIN h \cup {Len(h) + 1}
  BY <1>1, <1>3, LenProperties
<1> HIDE DEF g
<1>5. \A n \in DOMAIN g : Sound(g[n], Len(g))
  BY <1>1, <1>3, <1>4
<1>6. Shaped(g)
  BY <1>3, <1>5 DEF Shaped
<1> QED
  BY <1>1, <1>3, <1>4, <1>6 DEF g

LEMMA SplitLeafKeeps ==
    ASSUME TreeInv(heap, root, carry), NEW k \in Keys, NEW v \in Values, SplitLeaf(k, v)
    PROVE  TreeInv(heap', root', carry')
<1> DEFINE leaf == FindLeaf(k)
           slot == KeySlot(leaf, k)
           t == InsertAt(heap[leaf].keys, slot, k)
           u == InsertAt(heap[leaf].values, slot, v)
           S == LeafSplitIndex
           new == Len(heap) + 1
           f == [heap EXCEPT ![leaf].keys = SubSeq(t, 1, S),
                             ![leaf].values = SubSeq(u, 1, S),
                             ![leaf].next = new]
           upper == UpperLeaf(leaf, t, u)
           key == t[S + 1]
           ks == KeysIn(heap)
           cs == KidsIn(heap)
           ks1 == [ks EXCEPT ![leaf] = t]
           ks2 == KeysIn(heap')
<1>1. /\ Shaped(heap) /\ Linked(heap, root) /\ Levelled(heap, carry) /\ InOrder(heap, root)
      /\ carry = Idle /\ k \in Int
  BY KeysAssumption DEF TreeInv, SplitLeaf
<1>2. /\ leaf \in DOMAIN heap /\ heap[leaf].isLeaf
      /\ leaf \in Path(ks, cs, root, k)
  BY <1>1, FindLeafIs
<1>3. /\ ~Holds(leaf, k) /\ ~HasRoom(leaf) /\ root' = root
      /\ heap' = Append(f, upper)
      /\ carry' = [left |-> leaf, key |-> key, right |-> new]
  BY DEF SplitLeaf, LeafSeparator
<1> HIDE DEF leaf
<1>4. /\ heap[leaf] \in Node /\ Sound(heap[leaf], Len(heap)) /\ Len(heap) \in Nat
      /\ heap[leaf].keys \in Seq(Keys) /\ heap[leaf].values \in Seq(Values)
      /\ Len(heap[leaf].keys) \in Nat
      /\ Len(heap[leaf].values) = Len(heap[leaf].keys) /\ Ascending(heap[leaf].keys)
      /\ heap[leaf].children = <<>> /\ ks[leaf] = heap[leaf].keys /\ cs[leaf] = <<>>
      /\ heap[leaf].parent \in Nat /\ heap[leaf].next \in Nat
  <2>1. /\ heap[leaf] \in Node /\ Sound(heap[leaf], Len(heap)) /\ Len(heap) \in Nat
        /\ heap[leaf].keys \in Seq(Keys) /\ heap[leaf].values \in Seq(Values)
        /\ ks[leaf] = heap[leaf].keys /\ cs[leaf] = heap[leaf].children
        /\ heap[leaf].parent \in Nat /\ heap[leaf].next \in Nat
    BY <1>1, <1>2, NodesIn
  <2> QED
    BY <1>2, <2>1, LenProperties DEF Sound
<1>5. /\ slot \in 1 .. Len(heap[leaf].keys) + 1 /\ t \in Seq(Keys) /\ Ascending(t)
      /\ IsInsertion(t, heap[leaf].keys, slot, k)
  <2> DEFINE keys == heap[leaf].keys
  <2>1. slot = FirstSlot(keys, LAMBDA s : s >= k)
    BY DEF KeySlot
  <2>2. ~(slot <= Len(keys) /\ keys[slot] = k)
    BY <1>3 DEF Holds
  <2> HIDE DEF slot
  <2> QED
    BY <1>4, <2>1, <2>2, NewKeyGoesIn
<1>6. u \in Seq(Values) /\ Len(u) = Len(heap[leaf].keys) + 1
  <2>1. u \in Seq(Values) /\ IsInsertion(u, heap[leaf].values, slot, v)
    BY <1>4, <1>5, InsertAtIs
  <2> QED
    BY <1>4, <2>1 DEF IsInsertion
<1>7. Len(t) = ORDER /\ Len(u) = ORDER /\ Range(t) = Range(heap[leaf].keys) \cup {k}
  <2>1. Len(t) = Len(heap[leaf].keys) + 1 /\ Range(t) = Range(heap[leaf].keys) \cup {k}
    BY <1>5 DEF IsInsertion
  <2>2. Len(heap[leaf].keys) = MaxKeys
    BY <1>3, <1>4, HalfOfOrder DEF HasRoom, Sound
  <2> QED
    BY <1>6, <2>1, <2>2, HalfOfOrder
<1> HIDE DEF t, u, slot, S
<1>8. /\ S \in Nat /\ 1 <= S /\ S + 2 <= ORDER /\ ORDER \in Nat /\ ORDER <= 2 * S + 1 /\ MaxKeys = ORDER - 1
  BY HalfOfOrder DEF S, MaxKeys
<1>9. /\ SubSeq(t, 1, S) \in Seq(Keys) /\ SubSeq(t, S + 1, Len(t)) \in Seq(Keys)
      /\ Len(SubSeq(t, 1, S)) = S /\ Len(SubSeq(t, S + 1, Len(t))) = Len(t) - (S + 1) + 1
      /\ Ascending(SubSeq(t, 1, S)) /\ Ascending(SubSeq(t, S + 1, Len(t)))
      /\ t[1] \in Range(t) /\ key \in Range(t) /\ key \in Keys
      /\ t[1] < key
      /\ Range(SubSeq(t, 1, S)) \subseteq {x \in Range(t) : x < key}
      /\ Range(SubSeq(t, S + 1, Len(t))) \subseteq {x \in Range(t) : key <= x}
      /\ {x \in Range(t) : x < key} \subseteq Range(SubSeq(t, 1, S))
      /\ key \in Range(SubSeq(t, S + 1, Len(t)))
  <2> DEFINE w == S + 1
  <2>1. w \in {S + 1, S + 2} /\ w <= Len(t) + 1 /\ S + 1 <= Len(t)
    BY <1>7, <1>8
  <2> HIDE DEF w
  <2>2. IsHalving(t, S, w)
    BY <1>5, <1>8, <2>1, Halves
  <2> QED
    BY <2>2 DEF IsHalving, w
<1>10. /\ SubSeq(u, 1, S) \in Seq(Values) /\ SubSeq(u, S + 1, Len(u)) \in Seq(Values)
       /\ Len(SubSeq(u, 1, S)) = S /\ Len(SubSeq(u, S + 1, Len(u))) = Len(u) - (S + 1) + 1
  <2>1. SubSeq(u, 1, S) \in Seq(Values) /\ Len(SubSeq(u, 1, S)) = S - 1 + 1
    BY <1>6, <1>7, <1>8, PartOf
  <2> DEFINE w == S + 1
  <2>2. w \in Nat \ {0} /\ w <= Len(u) + 1 /\ Len(u) \in Nat
    BY <1>7, <1>8
  <2> HIDE DEF w
  <2>3. SubSeq(u, w, Len(u)) \in Seq(Values) /\ Len(SubSeq(u, w, Len(u))) = Len(u) - w + 1
    BY <1>6, <2>2, PartOf
  <2> QED
    BY <1>8, <2>1, <2>3 DEF w
<1>11. /\ DOMAIN f = DOMAIN heap /\ f = [i \in DOMAIN f |-> f[i]]
       /\ \A n \in DOMAIN heap \ {leaf} : f[n] = heap[n]
       /\ f[leaf] = [heap[leaf] EXCEPT !.keys = SubSeq(t, 1, S), !.values = SubSeq(u, 1, S), !.next = new]
  BY <1>2
<1> HIDE DEF f
<1>12. /\ f[leaf] \in Node /\ f[leaf].isLeaf /\ f[leaf].keys = SubSeq(t, 1, S)
       /\ f[leaf].values = SubSeq(u, 1, S) /\ f[leaf].children = <<>>
       /\ f[leaf].parent = heap[leaf].parent /\ f[leaf].next = new
  <2>1. new \in Nat
    BY <1>4
  <2> HIDE DEF new
  <2>2. f[leaf] \in Node
    BY <1>4, <1>9, <1>10, <1>11, <2>1 DEF Node
  <2>3. /\ f[leaf].isLeaf = heap[leaf].isLeaf /\ f[leaf].keys = SubSeq(t, 1, S)
        /\ f[leaf].values = SubSeq(u, 1, S) /\ f[leaf].children = heap[leaf].children
        /\ f[leaf].parent = heap[leaf].parent /\ f[leaf].next = new
    BY <1>4, <1>11 DEF Node
  <2> QED
    BY <1>2, <1>4, <2>2, <2>3
<1>13. /\ upper \in Node /\ upper.isLeaf /\ upper.keys = SubSeq(t, S + 1, Len(t))
       /\ upper.values = SubSeq(u, S + 1, Len(u)) /\ upper.children = <<>>
       /\ upper.parent = heap[leaf].parent /\ upper.next = heap[leaf].next
  <2>1. <<>> \in Seq(Nat)
    OBVIOUS
  <2> QED
    BY <1>4, <1>9, <1>10, <2>1 DEF Node, UpperLeaf, Leaf, S
<1> HIDE DEF upper
<1>14. Range(<<>>) = {} /\ Len(heap) + 1 \in Nat
  BY <1>4 DEF Range
<1>15. Sound(f[leaf], Len(heap) + 1)
  <2>1. f[leaf].parent \in 0 .. Len(heap) + 1 /\ f[leaf].next \in 0 .. Len(heap) + 1
    BY <1>4, <1>12 DEF Sound
  <2>2. Len(f[leaf].keys) <= MaxKeys
    BY <1>8, <1>9, <1>12
  <2> QED
    BY <1>9, <1>10, <1>12, <1>14, <2>1, <2>2 DEF Sound
<1>16. Sound(upper, Len(heap) + 1)
  <2>1. upper.parent \in 0 .. Len(heap) + 1 /\ upper.next \in 0 .. Len(heap) + 1
    BY <1>4, <1>13 DEF Sound
  <2>2. Len(upper.keys) <= MaxKeys
    BY <1>7, <1>8, <1>9, <1>13
  <2>3. Len(upper.values) = Len(upper.keys)
    BY <1>7, <1>9, <1>10, <1>13
  <2> QED
    BY <1>9, <1>10, <1>13, <1>14, <2>1, <2>2, <2>3 DEF Sound
<1>17. /\ Shaped(heap') /\ Len(heap') = new
       /\ DOMAIN heap' = DOMAIN heap \cup {new} /\ heap'[new] = upper
       /\ \A n \in DOMAIN heap : heap'[n] = f[n]
  <2>1. \A n \in DOMAIN heap : Sound(f[n], Len(heap) + 1)
    BY <1>1, <1>4, <1>11, <1>15, SoundGrows DEF Shaped
  <2> QED
    BY <1>1, <1>3, <1>11, <1>16, <2>1, HeapGrows
<1>18. /\ new \in Nat \ DOMAIN heap /\ Top(cs, new) /\ cs[new] = <<>> /\ ks[new] = <<>>
       /\ \A n \in DOMAIN heap : Range(heap[n].children) \subseteq DOMAIN heap
       /\ DOMAIN heap \in SUBSET Nat
       /\ root \in DOMAIN heap /\ leaf # new /\ root # new
  BY <1>1, <1>2, FreshNode, NodesIn DEF Linked
<1> HIDE DEF new
<1>19. /\ \A n \in DOMAIN heap : /\ heap'[n].children = heap[n].children
                                 /\ heap'[n].parent = heap[n].parent
                                 /\ heap'[n].isLeaf = heap[n].isLeaf
       /\ heap'[new].children = <<>> /\ heap'[new].isLeaf /\ heap'[new].parent = heap[leaf].parent
  <2>1. /\ f[leaf].isLeaf = heap[leaf].isLeaf /\ f[leaf].children = heap[leaf].children
        /\ f[leaf].parent = heap[leaf].parent
    BY <1>2, <1>4, <1>12
  <2>2. \A n \in DOMAIN heap : /\ heap'[n].children = heap[n].children
                               /\ heap'[n].parent = heap[n].parent
                               /\ heap'[n].isLeaf = heap[n].isLeaf
    BY <1>11, <1>17, <2>1
  <2> QED
    BY <1>13, <1>17, <2>2
<1>20. Linked(heap', root)
  <2>1. root \in DOMAIN heap' /\ heap'[root].parent = Null
    BY <1>1, <1>17, <1>19 DEF Linked
  <2>2. ASSUME NEW n \in DOMAIN heap', NEW i \in DOMAIN heap'[n].children
        PROVE  /\ heap'[heap'[n].children[i]].parent = n
               /\ \A j \in DOMAIN heap'[n].children : heap'[n].children[i] = heap'[n].children[j] => i = j
    <3>1. n \in DOMAIN heap /\ heap'[n].children = heap[n].children
      <4>1. DOMAIN <<>> = {}
        OBVIOUS
      <4> QED
        BY <1>17, <1>19, <2>2, <4>1
    <3>2. heap[n].children[i] \in DOMAIN heap
      BY <1>18, <2>2, <3>1 DEF Range
    <3> QED
      BY <1>1, <1>19, <2>2, <3>1, <3>2 DEF Linked
  <2> QED
    BY <2>1, <2>2 DEF Linked
<1>21. Levelled(heap', carry')
  <2>1. PICK level \in [Nat -> Nat] : Levels(heap, carry, level)
    BY <1>1 DEF Levelled
  <2> DEFINE level2 == [level EXCEPT ![new] = 0]
  <2>2. level2 \in [Nat -> Nat] /\ level2[new] = 0 /\ \A n \in DOMAIN heap : level2[n] = level[n]
    BY <1>18
  <2> HIDE DEF level2
  <2>3. \A n \in DOMAIN heap' : \A x \in Range(heap'[n].children) : level2[n] = level2[x] + 1
    <3> SUFFICES ASSUME NEW n \in DOMAIN heap', NEW x \in Range(heap'[n].children)
                 PROVE  level2[n] = level2[x] + 1
      OBVIOUS
    <3>1. n \in DOMAIN heap /\ x \in Range(heap[n].children)
      BY <1>14, <1>17, <1>19
    <3> QED
      BY <1>18, <2>1, <2>2, <3>1 DEF Levels
  <2>4. \A n \in DOMAIN heap' : heap'[n].isLeaf => level2[n] = 0
    BY <1>17, <1>19, <2>1, <2>2 DEF Levels
  <2>5. carry'.left = leaf /\ carry'.right = new
    BY <1>3
  <2>6. level2[carry'.left] = level2[carry'.right]
    BY <1>2, <2>1, <2>2, <2>5 DEF Levels
  <2> QED
    BY <2>2, <2>3, <2>4, <2>6 DEF Levels, Levelled
<1>22. KidsIn(heap') = cs
  <2>1. \A n \in Nat : KidsIn(heap')[n] = cs[n]
    BY <1>17, <1>18, <1>19 DEF KidsIn
  <2> QED
    BY <2>1 DEF KidsIn
<1>23. Tree(ks, cs) /\ Top(cs, root) /\ Fits(ks, cs) /\ Forest(cs) /\ Routed(ks, cs, root) /\ root \in Nat
  BY <1>1, HeapIsTree DEF Tree, InOrder, Top
<1>24. Fits(ks2, cs)
  <2>1. Tree(ks2, KidsIn(heap'))
    BY <1>17, <1>20, <1>21, HeapIsTree
  <2> QED
    BY <1>22, <2>1 DEF Tree
<1>25. leaf \in Nat /\ ks1[leaf] = t /\ \A n \in Nat \ {leaf} : ks1[n] = ks[n]
  BY <1>2, <1>18 DEF KeysIn
<1>26. /\ ks2[leaf] = SubSeq(t, 1, S) /\ ks2[new] = SubSeq(t, S + 1, Len(t))
       /\ \A n \in Nat \ {leaf, new} : ks2[n] = ks[n]
  BY <1>2, <1>11, <1>12, <1>13, <1>17, <1>18 DEF KeysIn
<1>27. Tree(ks1, cs)
  <2>1. ks1 \in [Nat -> Seq(Keys)]
    BY <1>5, <1>23 DEF Fits
  <2> HIDE DEF ks1
  <2>2. \A n \in Nat : Ascending(ks1[n])
    BY <1>5, <1>23, <1>25 DEF Fits
  <2>3. \A n \in Nat : cs[n] # <<>> => Len(cs[n]) = Len(ks1[n]) + 1
    BY <1>4, <1>23, <1>25 DEF Fits
  <2> QED
    BY <1>23, <2>1, <2>2, <2>3 DEF Tree, Fits
<1> HIDE DEF ks, cs, ks1, ks2
<1>28. Routed(ks1, cs, root)
  BY SMTT(30), <1>2, <1>4, <1>7, <1>23, <1>25, InsertKeepsRoutes
<1>29. leaf \in Below(cs, root)
  BY <1>1, <1>2, <1>23, PathIsBelow
<1>30. Kids(cs)[leaf] = {} /\ Kids(cs)[new] = {} /\ \A ks0, k0 : Way(ks0, cs, k0)[leaf] = {} /\ Way(ks0, cs, k0)[new] = {}
  BY <1>4, <1>14, <1>18, <1>25 DEF Kids, Way
<1>31. /\ Routed(ks2, cs, root) /\ Top(cs, root)
       /\ Hangs(ks2, cs, root, leaf, key, new)
  <2> DEFINE low == t[1]
             ky == key
  <2>1. /\ ky \in Range(ks1[leaf]) /\ low \in Range(ks1[leaf]) /\ low < ky
        /\ Range(ks2[leaf]) \subseteq {x \in Range(ks1[leaf]) : x < ky}
        /\ Range(ks2[new]) \subseteq {x \in Range(ks1[leaf]) : ky <= x}
    BY <1>9, <1>25, <1>26
  <2>2. \A n \in Nat \ {leaf, new} : ks2[n] = ks1[n] /\ cs[n] = cs[n]
    BY <1>25, <1>26
  <2>3. Kids(cs)[leaf] = Kids(cs)[leaf] \cup Kids(cs)[new]
    BY <1>30
  <2>4. \A x \in Int : x < ky => /\ Way(ks2, cs, x)[leaf] = Way(ks1, cs, x)[leaf]
                                 /\ Way(ks1, cs, x)[leaf] \cap Kids(cs)[new] = {}
    BY <1>30
  <2>5. \A x \in Int : ky <= x => /\ Way(ks2, cs, x)[new] = Way(ks1, cs, x)[leaf]
                                  /\ Way(ks1, cs, x)[leaf] \cap Kids(cs)[leaf] = {}
    BY <1>30
  <2> HIDE DEF low, ky
  <2>6. Routed(ks2, cs, root) /\ Top(cs, root) /\ Hangs(ks2, cs, root, leaf, ky, new)
    BY <1>18, <1>23, <1>24, <1>27, <1>28, <1>29, <2>1, <2>2, <2>3, <2>4, <2>5, SplitKeepsRoutes
  <2> QED
    BY <2>6 DEF ky
<1>32. Pending(heap', root, carry')
  <2>1. carry' \in [left : DOMAIN heap', key : Keys, right : DOMAIN heap']
    BY <1>2, <1>3, <1>9, <1>17
  <2>2. carry'.left = leaf /\ carry'.right = new /\ carry'.key = key
    BY <1>3
  <2>3. heap'[new].parent = heap'[leaf].parent
    BY <1>2, <1>19
  <2> QED
    BY <1>22, <1>29, <1>31, <2>1, <2>2, <2>3 DEF Pending, ks2
<1>33. Filled(heap', root, carry')
  <2>1. Half(heap'[leaf]) /\ Half(heap'[new])
    <3>1. heap'[leaf].keys = SubSeq(t, 1, S) /\ heap'[new].keys = SubSeq(t, S + 1, Len(t))
      BY <1>2, <1>12, <1>13, <1>17
    <3>2. Len(SubSeq(t, S + 1, Len(t))) >= S
      BY <1>7, <1>8, <1>9, HalfOfOrder DEF S
    <3>3. heap'[leaf].isLeaf /\ heap'[new].isLeaf
      BY <1>2, <1>19
    <3> QED
      BY <1>8, <1>9, <3>1, <3>2, <3>3 DEF Half, S
  <2>2. Filled(heap, root, carry)
    BY DEF TreeInv
  <2>3. \A n \in DOMAIN heap' \ {root} : Half(heap'[n])
    BY <1>11, <1>17, <2>1, <2>2 DEF Filled
  <2>4. carry'.left = leaf
    BY <1>3
  <2> QED
    BY <2>1, <2>3, <2>4 DEF Filled
<1>34. Separated(heap', carry')
  <2> DEFINE low == t[1]
             ky == key
  <2>1. Separates(ks, cs)
    BY DEF TreeInv, Separated, ks, cs
  <2>2. Range(ks[leaf]) \subseteq Range(ks1[leaf])
    BY <1>4, <1>7, <1>25
  <2>3. Separates(ks1, cs)
    BY <1>4, <1>23, <1>25, <2>1, <2>2, InsertSeparates
  <2>4. /\ ky \in Range(ks1[leaf]) /\ low \in Range(ks1[leaf]) /\ low < ky
        /\ ky \in Range(ks2[new])
        /\ {x \in Range(ks1[leaf]) : x < ky} \subseteq Range(ks2[leaf])
    BY <1>9, <1>25, <1>26
  <2>5. \A n \in Nat \ {leaf, new} : ks2[n] = ks1[n] /\ cs[n] = cs[n]
    BY <1>25, <1>26
  <2>6. Kids(cs)[leaf] = Kids(cs)[leaf] \cup Kids(cs)[new]
    BY <1>30
  <2>7. \A x \in Int : x < ky => Way(ks1, cs, x)[leaf] \cap Kids(cs)[new] = {}
    BY <1>30
  <2> HIDE DEF low, ky
  <2>8. Separates(ks2, cs) /\ ky \in LeafKeys(ks2, cs, new)
    BY <1>4, <1>18, <1>23, <1>24, <1>27, <1>28, <1>29, <2>3, <2>4, <2>5, <2>6, <2>7, SplitSeparates
  <2>9. carry'.right = new /\ carry'.key = ky
    BY <1>3 DEF ky
  <2> QED
    BY <1>22, <2>8, <2>9 DEF Separated, ks2
<1> QED
  BY <1>3, <1>17, <1>20, <1>21, <1>22, <1>31, <1>32, <1>33, <1>34 DEF TreeInv, InOrder, ks2

(***************************************************************************)
(* bptree_insert_into_parent.                                              *)
(***************************************************************************)
LEMMA ParentIs ==
    ASSUME TreeInv(heap, root, carry), carry # Idle
    PROVE  /\ carry.left \in DOMAIN heap /\ carry.right \in DOMAIN heap /\ carry.key \in Keys
           /\ Parent = Null => carry.left = root
           /\ Parent # Null =>
                /\ Parent \in DOMAIN heap /\ Parent \in Below(KidsIn(heap), root)
                /\ ~heap[Parent].isLeaf
                /\ LeftSlot \in DOMAIN heap[Parent].children
                /\ heap[Parent].children[LeftSlot] = carry.left
<1> DEFINE cs == KidsIn(heap)
           left == carry.left
<1>1. /\ Shaped(heap) /\ Linked(heap, root) /\ Levelled(heap, carry)
      /\ left \in DOMAIN heap /\ carry.right \in DOMAIN heap /\ carry.key \in Keys
      /\ left \in Below(cs, root) /\ Kids(cs) \in Graph /\ Top(cs, root) /\ root \in Nat
      /\ heap[root].parent = Null
  <2>1. /\ Shaped(heap) /\ Linked(heap, root) /\ Levelled(heap, carry)
        /\ left \in DOMAIN heap /\ carry.right \in DOMAIN heap /\ carry.key \in Keys
        /\ left \in Below(cs, root)
    BY DEF TreeInv, Pending
  <2>2. Kids(cs) \in Graph /\ Top(cs, root)
    BY <2>1, HeapIsTree
  <2> QED
    BY <2>1, <2>2 DEF Linked, Top
<1>2. CASE left = root
  BY <1>1, <1>2 DEF Parent
<1>3. CASE left # root
  <2>1. PICK z \in Below(cs, root) : left \in Kids(cs)[z]
    BY <1>1, <1>3, ReachLast DEF Below
  <2>2. z \in DOMAIN heap /\ z \in Nat
    BY <1>1, HeapIsTree, NodesIn
  <2>3. /\ cs[z] = heap[z].children /\ heap[z].children \in Seq(Nat) /\ Sound(heap[z], Len(heap))
        /\ DOMAIN heap = 1 .. Len(heap) /\ Len(heap) \in Nat
    BY <1>1, <2>2, NodesIn
  <2>4. PICK i \in DOMAIN heap[z].children : heap[z].children[i] = left
    BY <2>1, <2>2, <2>3 DEF Kids, Range
  <2>5. heap[left].parent = z
    BY <1>1, <2>2, <2>4 DEF Linked
  <2>6. Parent = z /\ Parent # Null
    BY <2>2, <2>3, <2>5 DEF Parent, Null
  <2>7. ~heap[z].isLeaf
    <3>1. DOMAIN <<>> = {}
      OBVIOUS
    <3> QED
      BY <2>3, <2>4, <3>1 DEF Sound
  <2>8. LeftSlot \in DOMAIN heap[z].children /\ heap[z].children[LeftSlot] = left
    <3> DEFINE kids == heap[z].children
               hits == {j \in DOMAIN kids : kids[j] = left}
    <3>1. Len(kids) \in Nat /\ DOMAIN kids = 1 .. Len(kids)
      BY <2>3, LenProperties
    <3>2. LeftSlot = IF hits = {} THEN Len(kids) + 1 ELSE Min(hits)
      BY <2>6 DEF LeftSlot, FirstSlot
    <3>3. hits # {} /\ hits \in SUBSET Nat
      BY <2>4, <3>1
    <3>4. Min(hits) \in hits
      BY <3>3, LeastExists
    <3>5. LeftSlot \in hits
      BY <3>2, <3>3, <3>4
    <3> QED
      BY <3>5
  <2> QED
    BY <1>1, <2>1, <2>2, <2>6, <2>7, <2>8
<1> QED
  BY <1>1, <1>2, <1>3

\* The parent with the new child in it, whether or not it has room.
LEMMA AttachedTree ==
    ASSUME TreeInv(heap, root, carry), carry # Idle, Parent # Null, NEW ks1, NEW cs1,
           Attaches(KeysIn(heap), KidsIn(heap), Parent, LeftSlot, carry.key, carry.right, ks1, cs1)
    PROVE  /\ Tree(ks1, cs1) /\ Top(cs1, root) /\ Routed(ks1, cs1, root)
           /\ IsAttachment(KeysIn(heap), KidsIn(heap), Parent, LeftSlot, carry.key, carry.right, ks1, cs1)
           /\ Parent \in Below(cs1, root)
<1> DEFINE ks == KeysIn(heap)
           cs == KidsIn(heap)
           q == Parent
           i == LeftSlot
           key == carry.key
           right == carry.right
<1>1. /\ Shaped(heap) /\ Linked(heap, root) /\ Levelled(heap, carry) /\ Routed(ks, cs, root)
      /\ Hangs(ks, cs, root, carry.left, key, right)
  BY DEF TreeInv, InOrder, Pending
<1>2. Tree(ks, cs) /\ Top(cs, root) /\ Fits(ks, cs) /\ Forest(cs) /\ Kids(cs) \in Graph /\ root \in Nat
  <2>1. Tree(ks, cs) /\ Top(cs, root) /\ Kids(cs) \in Graph
    BY <1>1, HeapIsTree
  <2> QED
    BY <2>1 DEF Tree, Top
<1>3. /\ q \in DOMAIN heap /\ q \in Below(cs, root) /\ q \in Nat /\ cs[q] = heap[q].children
      /\ i \in DOMAIN cs[q] /\ cs[q][i] = carry.left /\ key \in Keys
      /\ carry.left \in DOMAIN heap /\ right \in DOMAIN heap
  BY <1>1, ParentIs, NodesIn
<1>4. Hangs(ks, cs, root, cs[q][i], key, right)
  BY <1>1, <1>3
<1> HIDE DEF ks, cs, q, i, key, right
<1>5. Attaches(ks, cs, q, i, key, right, ks1, cs1)
  BY DEF ks, cs, q, i, key, right
<1>6. Fits(ks1, cs1) /\ Forest(cs1) /\ IsAttachment(ks, cs, q, i, key, right, ks1, cs1)
  BY <1>2, <1>3, <1>4, <1>5, AttachFits
<1>7. Routed(ks1, cs1, root) /\ Top(cs1, root)
  BY <1>1, <1>2, <1>3, <1>4, <1>5, AttachKeepsRoutes
<1>8. /\ Kids(cs1)[q] = Kids(cs)[q] \cup {right}
      /\ \A n \in Nat \ {q} : Kids(cs1)[n] = Kids(cs)[n]
  BY <1>6 DEF IsAttachment, Kids
<1>9. Descends(cs1)
  <2>1. PICK level \in [Nat -> Nat] : Levels(heap, carry, level)
    BY <1>1 DEF Levelled
  <2>2. ASSUME NEW n \in Nat, NEW x \in Kids(cs)[n]
        PROVE  level[x] < level[n] /\ (x = carry.left => level[x] + 1 = level[n])
    <3>1. n \in DOMAIN heap /\ x \in DOMAIN heap /\ DOMAIN heap \in SUBSET Nat
      BY <1>1, FreshNode, NodesIn DEF cs
    <3>2. x \in Range(heap[n].children)
      BY <1>1, <3>1, NodesIn DEF Kids, cs
    <3>3. level[n] = level[x] + 1 /\ level[x] \in Nat
      BY <2>1, <3>1, <3>2 DEF Levels
    <3> QED
      BY <3>3
  <2>3. level[right] = level[carry.left] /\ carry.left \in Kids(cs)[q] /\ level[carry.left] < level[q]
    <3>1. carry.left \in Kids(cs)[q]
      BY <1>3 DEF Kids, Range
    <3> QED
      BY <1>3, <2>1, <2>2, <3>1 DEF Levels, right
  <2>4. \A n \in Nat : \A x \in Kids(cs1)[n] : level[x] < level[n]
    BY <1>8, <2>2, <2>3
  <2> QED
    BY <2>4 DEF Descends
<1>10. q \in Below(cs1, root)
  <2>1. Kids(cs1) \in Graph
    BY <1>6, 0 \in Int, TreeGraphs
  <2>2. \A n \in Nat : Kids(cs)[n] \subseteq Kids(cs1)[n]
    BY <1>8
  <2>3. Below(cs1, root) \in SUBSET Nat
    BY <1>2, <2>1, ReachBasics DEF Below
  <2>4. Below(cs, root) \subseteq Below(cs1, root)
    BY <1>2, <2>1, <2>2, <2>3, ReachMonotone DEF Below
  <2> QED
    BY <1>3, <2>4
<1> QED
  BY <1>6, <1>7, <1>9, <1>10 DEF Tree, ks, cs, q, i, key, right

\* Linked, from what the children are.
LEMMA LinkedIs ==
    ASSUME NEW h, Shaped(h), NEW r \in DOMAIN h, h[r].parent = Null, Forest(KidsIn(h)),
           \A n \in DOMAIN h : \A x \in Range(h[n].children) : h[x].parent = n
    PROVE  Linked(h, r)
<1>1. /\ DOMAIN h \in SUBSET Nat /\ \A n \in DOMAIN h : KidsIn(h)[n] = h[n].children
  BY NodesIn
<1>2. \A n \in DOMAIN h : \A i \in DOMAIN h[n].children : h[h[n].children[i]].parent = n
  BY DEF Range
<1>3. \A n \in DOMAIN h : \A i, j \in DOMAIN h[n].children :
        h[n].children[i] = h[n].children[j] => i = j
  BY <1>1 DEF Forest
<1> QED
  BY <1>2, <1>3 DEF Linked

LEMMA InsertIntoInternalKeeps ==
    ASSUME TreeInv(heap, root, carry), InsertIntoInternal
    PROVE  TreeInv(heap', root', carry')
<1> DEFINE q == Parent
           right == carry.right
           t == InsertAt(heap[q].keys, LeftSlot, carry.key)
           u == InsertAt(heap[q].children, LeftSlot + 1, right)
           ks == KeysIn(heap)
           cs == KidsIn(heap)
           ks1 == KeysIn(heap')
           cs1 == KidsIn(heap')
<1>1. /\ Shaped(heap) /\ Linked(heap, root) /\ Levelled(heap, carry)
      /\ carry # Idle /\ q # Null /\ HasRoom(q)
      /\ Hangs(ks, cs, root, carry.left, carry.key, right)
      /\ heap' = [heap EXCEPT ![q].keys = t, ![q].children = u, ![right].parent = q]
      /\ root' = root /\ carry' = Idle
  BY DEF TreeInv, InsertIntoInternal, Pending
<1>2. /\ q \in DOMAIN heap /\ right \in DOMAIN heap /\ carry.key \in Keys
      /\ q \in Below(cs, root) /\ carry.left \in DOMAIN heap
      /\ ~heap[q].isLeaf /\ LeftSlot \in DOMAIN heap[q].children
      /\ heap[q].children[LeftSlot] = carry.left
  BY <1>1, ParentIs
<1>3. /\ heap[q] \in Node /\ Sound(heap[q], Len(heap)) /\ Len(heap) \in Nat /\ DOMAIN heap = 1 .. Len(heap)
      /\ heap[q].keys \in Seq(Keys) /\ heap[q].children \in Seq(Nat) /\ Len(heap[q].keys) \in Nat
      /\ Len(heap[q].children) = Len(heap[q].keys) + 1
      /\ DOMAIN heap[q].children = 1 .. Len(heap[q].keys) + 1
      /\ heap[right] \in Node /\ Sound(heap[right], Len(heap))
  <2>1. /\ heap[q] \in Node /\ Sound(heap[q], Len(heap)) /\ Len(heap) \in Nat /\ DOMAIN heap = 1 .. Len(heap)
        /\ heap[q].keys \in Seq(Keys) /\ heap[q].children \in Seq(Nat)
        /\ heap[right] \in Node /\ Sound(heap[right], Len(heap))
    BY <1>1, <1>2, NodesIn
  <2>2. Len(heap[q].children) = Len(heap[q].keys) + 1
    BY <1>2, <2>1 DEF Sound
  <2> QED
    BY <2>1, <2>2, LenProperties
<1>4. /\ Top(cs, root) /\ Top(cs, right) /\ right # root /\ Kids(cs) \in Graph
      /\ Forest(cs) /\ root \in Nat /\ right \in Nat
  <2>1. Top(cs, right) /\ right # root
    BY <1>1 DEF Hangs
  <2> QED
    BY <1>1, <2>1, HeapIsTree DEF Tree, Top
<1>5. right # q
  <2>1. right \in Below(cs, right)
    BY <1>4, ReachBasics DEF Below
  <2> QED
    BY <1>2, <1>4, <2>1, TreesAreApart
<1>6. t \in Seq(Keys) /\ Len(t) = Len(heap[q].keys) + 1
  <2>1. t \in Seq(Keys) /\ IsInsertion(t, heap[q].keys, LeftSlot, carry.key)
    BY <1>2, <1>3, InsertAtIs
  <2> QED
    BY <2>1 DEF IsInsertion
<1>7. u \in Seq(Nat) /\ Len(u) = Len(heap[q].keys) + 2 /\ Range(u) = Range(heap[q].children) \cup {right}
  <2> DEFINE p == LeftSlot + 1
  <2>1. p \in 1 .. Len(heap[q].children) + 1
    BY <1>2, <1>3
  <2> HIDE DEF p
  <2>2. /\ InsertAt(heap[q].children, p, right) \in Seq(Nat)
        /\ IsInsertion(InsertAt(heap[q].children, p, right), heap[q].children, p, right)
    BY <1>2, <1>3, <1>4, <2>1, InsertAtIs
  <2>3. Len(u) = Len(heap[q].children) + 1
    BY <2>2 DEF IsInsertion, p
  <2> QED
    BY <1>3, <2>2, <2>3 DEF IsInsertion, p
<1> HIDE DEF q, right, t, u
<1>8. /\ heap'[q] = [heap[q] EXCEPT !.keys = t, !.children = u]
      /\ heap'[right] = [heap[right] EXCEPT !.parent = q]
      /\ \A n \in DOMAIN heap \ {q, right} : heap'[n] = heap[n]
      /\ DOMAIN heap' = DOMAIN heap /\ heap' = [i \in DOMAIN heap' |-> heap'[i]]
  BY <1>1, <1>2, <1>5
<1>9. /\ heap'[q] \in Node /\ heap'[q].keys = t /\ heap'[q].children = u
      /\ heap'[q].isLeaf = heap[q].isLeaf /\ heap'[q].values = heap[q].values
      /\ heap'[q].parent = heap[q].parent /\ heap'[q].next = heap[q].next
  BY <1>3, <1>6, <1>7, <1>8 DEF Node
<1>10. /\ heap'[right] \in Node /\ heap'[right].keys = heap[right].keys
       /\ heap'[right].children = heap[right].children
       /\ heap'[right].isLeaf = heap[right].isLeaf /\ heap'[right].values = heap[right].values
       /\ heap'[right].parent = q /\ heap'[right].next = heap[right].next
  <2>1. q \in Nat
    BY <1>2, <1>3
  <2> QED
    BY <1>3, <1>8, <2>1 DEF Node
<1>11. /\ \A n \in DOMAIN heap \ {q} : /\ heap'[n].keys = heap[n].keys
                                       /\ heap'[n].children = heap[n].children
       /\ \A n \in DOMAIN heap \ {right} : heap'[n].parent = heap[n].parent
       /\ \A n \in DOMAIN heap : heap'[n].isLeaf = heap[n].isLeaf
  BY <1>8, <1>9, <1>10
<1>12. Attaches(ks, cs, q, LeftSlot, carry.key, right, ks1, cs1)
  <2>1. q \in Nat /\ ks[q] = heap[q].keys /\ cs[q] = heap[q].children
    BY <1>1, <1>2, NodesIn
  <2>2. \A n \in Nat : ks1[n] = [ks EXCEPT ![q] = t][n]
    BY <1>2, <1>8, <1>9, <1>11, <2>1 DEF KeysIn
  <2>3. \A n \in Nat : cs1[n] = [cs EXCEPT ![q] = u][n]
    BY <1>2, <1>8, <1>9, <1>11, <2>1 DEF KidsIn
  <2>4. ks1 = [ks EXCEPT ![q] = t]
    BY <2>2 DEF KeysIn
  <2>5. cs1 = [cs EXCEPT ![q] = u]
    BY <2>3 DEF KidsIn
  <2> QED
    BY <2>1, <2>4, <2>5 DEF Attaches, t, u
<1>13. Tree(ks1, cs1) /\ Routed(ks1, cs1, root)
  BY <1>1, <1>12, AttachedTree DEF q, right
<1>14. Shaped(heap')
  <2>1. \A i \in DOMAIN heap : heap[i] \in Node /\ Sound(heap[i], Len(heap))
    BY <1>1, NodesIn
  <2>2. heap' \in Seq(Node) /\ Len(heap') = Len(heap)
    <3>1. heap \in Seq(Node)
      BY <1>1 DEF Shaped
    <3>2. \A i \in DOMAIN heap : heap'[i] \in Node
      BY <1>8, <1>9, <1>10, <2>1
    <3> QED
      BY <1>8, <3>1, <3>2, SeqLike
  <2>3. Sound(heap'[q], Len(heap))
    <3>1. Ascending(t)
      <4>1. ks1[q] = t /\ q \in Nat
        <5>1. q \in Nat /\ q \in DOMAIN heap'
          BY <1>2, <1>3, <1>8
        <5>2. ks1[q] = heap'[q].keys
          BY <5>1 DEF KeysIn
        <5> QED
          BY <1>9, <5>1, <5>2
      <4> QED
        BY <1>13, <4>1 DEF Tree, Fits
    <3>2. Len(t) <= MaxKeys
      <4>1. Len(heap[q].keys) < MaxKeys /\ Len(heap[q].keys) \in Nat /\ Len(t) = Len(heap[q].keys) + 1
        BY <1>1, <1>3, <1>6 DEF HasRoom
      <4> QED
        BY <4>1, HalfOfOrder
    <3>3. Range(u) \subseteq 1 .. Len(heap)
      BY <1>2, <1>3, <1>7 DEF Sound
    <3>4. Len(u) = Len(t) + 1
      BY <1>3, <1>6, <1>7
    <3> QED
      BY <1>2, <1>3, <1>9, <3>1, <3>2, <3>3, <3>4 DEF Sound
  <2>4. Sound(heap'[right], Len(heap))
    BY <1>2, <1>3, <1>10 DEF Sound
  <2>5. \A n \in DOMAIN heap' : Sound(heap'[n], Len(heap'))
    BY <1>8, <2>1, <2>2, <2>3, <2>4
  <2> QED
    BY <2>2, <2>5 DEF Shaped
<1>15. \A n \in DOMAIN heap : \A x \in Range(heap[n].children) : x \in DOMAIN heap /\ heap[x].parent = n /\ x # right
  <2> SUFFICES ASSUME NEW n \in DOMAIN heap, NEW x \in Range(heap[n].children)
               PROVE  x \in DOMAIN heap /\ heap[x].parent = n /\ x # right
    OBVIOUS
  <2>1. n \in Nat /\ cs[n] = heap[n].children /\ x \in DOMAIN heap
    BY <1>1, NodesIn
  <2>2. PICK i \in DOMAIN heap[n].children : x = heap[n].children[i]
    BY DEF Range
  <2>3. x \in Kids(cs)[n]
    BY <2>1 DEF Kids
  <2> QED
    BY <1>1, <1>4, <2>1, <2>2, <2>3 DEF Linked, Top
<1>16. Linked(heap', root)
  <2>1. root \in DOMAIN heap' /\ heap'[root].parent = Null
    BY <1>1, <1>4, <1>8, <1>11 DEF Linked
  <2>2. Forest(KidsIn(heap'))
    BY <1>13 DEF Tree
  <2>3. ASSUME NEW n \in DOMAIN heap', NEW x \in Range(heap'[n].children) PROVE heap'[x].parent = n
    <3>1. CASE n = q /\ x = right
      BY <1>10, <3>1
    <3>2. CASE ~(n = q /\ x = right)
      <4>1. n \in DOMAIN heap /\ x \in Range(heap[n].children)
        <5>1. n \in DOMAIN heap
          BY <1>8, <2>3
        <5>2. CASE n = q
          BY <1>7, <1>9, <2>3, <3>2, <5>1, <5>2
        <5>3. CASE n # q
          BY <1>11, <2>3, <5>1, <5>3
        <5> QED
          BY <5>1, <5>2, <5>3
      <4> QED
        BY <1>11, <1>15, <4>1
    <3> QED
      BY <3>1, <3>2
  <2> QED
    BY <1>14, <2>1, <2>2, <2>3, LinkedIs
<1>17. Levelled(heap', Idle)
  <2>1. PICK level \in [Nat -> Nat] : Levels(heap, carry, level)
    BY <1>1 DEF Levelled
  <2>2. level[right] = level[carry.left] /\ carry.left \in Range(heap[q].children)
    BY <1>1, <1>2, <2>1 DEF Levels, Range, right, q
  <2>3. \A n \in DOMAIN heap' : \A x \in Range(heap'[n].children) : level[n] = level[x] + 1
    <3> SUFFICES ASSUME NEW n \in DOMAIN heap, NEW x \in Range(heap'[n].children)
                 PROVE  level[n] = level[x] + 1
      BY <1>8
    <3>1. CASE n = q /\ x = right
      BY <1>2, <2>1, <2>2, <3>1 DEF Levels
    <3>2. CASE ~(n = q /\ x = right)
      <4>1. x \in Range(heap[n].children)
        BY <1>7, <1>9, <1>11, <3>2
      <4> QED
        BY <2>1, <4>1 DEF Levels
    <3> QED
      BY <3>1, <3>2
  <2>4. \A n \in DOMAIN heap' : heap'[n].isLeaf => level[n] = 0
    BY <1>8, <1>11, <2>1 DEF Levels
  <2> QED
    BY <2>3, <2>4 DEF Levels, Levelled
<1>18. Filled(heap', root, Idle)
  <2>1. Filled(heap, root, carry)
    BY DEF TreeInv
  <2>2. ASSUME NEW n \in DOMAIN heap \ {root} PROVE Half(heap'[n])
    <3>1. Half(heap[n]) /\ heap'[n].isLeaf = heap[n].isLeaf
      BY <1>11, <2>1 DEF Filled
    <3>2. CASE n = q
      <4>1. Len(heap[q].keys) >= ORDER - LeafSplitIndex - 1 /\ Len(heap'[q].keys) = Len(heap[q].keys) + 1
        BY <1>2, <1>6, <1>9, <3>1, <3>2 DEF Half
      <4> DEFINE a == Len(heap[q].keys)
                 b == ORDER - LeafSplitIndex - 1
      <4>2. a \in Nat /\ b \in Int /\ a >= b /\ Len(heap'[q].keys) = a + 1
        <5>1. ORDER \in Nat /\ LeafSplitIndex \in Nat
          BY HalfOfOrder
        <5>2. b \in Int
          BY <5>1
        <5> QED
          BY <1>3, <4>1, <5>2
      <4>3. ~heap'[q].isLeaf
        BY <1>2, <3>1, <3>2
      <4> HIDE DEF a, b
      <4>4. Len(heap'[q].keys) >= b
        BY <4>2
      <4> QED
        BY <3>2, <4>3, <4>4 DEF Half, b
    <3>3. CASE n # q
      BY <1>11, <3>1, <3>3 DEF Half
    <3> QED
      BY <3>2, <3>3
  <2> QED
    BY <1>8, <2>2 DEF Filled
<1>19. Separated(heap', Idle)
  <2>1. Separates(ks, cs) /\ carry.key \in LeafKeys(ks, cs, right)
    BY <1>1 DEF TreeInv, Separated, right
  <2>2. /\ Fits(ks, cs) /\ Fits(ks1, cs1) /\ q \in Nat /\ LeftSlot \in DOMAIN cs[q]
        /\ IsAttachment(ks, cs, q, LeftSlot, carry.key, right, ks1, cs1)
    <3>1. Fits(ks, cs) /\ Fits(ks1, cs1)
      BY <1>1, <1>13, HeapIsTree DEF Tree
    <3>2. q \in Nat /\ cs[q] = heap[q].children
      BY <1>1, <1>2, NodesIn
    <3>3. IsAttachment(ks, cs, q, LeftSlot, carry.key, right, ks1, cs1)
      BY <1>1, <1>12, AttachedTree DEF q, right
    <3> QED
      BY <1>2, <3>1, <3>2, <3>3
  <2> HIDE DEF ks, cs, ks1, cs1
  <2>3. Separates(ks1, cs1)
    BY <1>2, <1>4, <1>12, <2>1, <2>2, AttachSeparates
  <2> QED
    BY <2>3 DEF Separated, ks1, cs1
<1> QED
  BY <1>1, <1>13, <1>14, <1>16, <1>17, <1>18, <1>19 DEF TreeInv, InOrder, Pending

(***************************************************************************)
(* A new root: the old one becomes its only child, then the other joins.   *)
(***************************************************************************)
LEMMA CreateNewRootKeeps ==
    ASSUME TreeInv(heap, root, carry), CreateNewRoot
    PROVE  TreeInv(heap', root', carry')
<1> DEFINE left == carry.left
           right == carry.right
           key == carry.key
           new == Len(heap) + 1
           f == [heap EXCEPT ![left].parent = new, ![right].parent = new]
           top == Internal(<<key>>, <<left, right>>, Null)
           ks == KeysIn(heap)
           cs == KidsIn(heap)
           cs0 == [cs EXCEPT ![new] = <<left>>]
           ks1 == KeysIn(heap')
           cs1 == KidsIn(heap')
<1>1. /\ Shaped(heap) /\ Linked(heap, root) /\ Levelled(heap, carry) /\ Routed(ks, cs, root)
      /\ carry # Idle /\ Parent = Null
      /\ Hangs(ks, cs, root, left, key, right)
      /\ heap' = Append(f, top)
      /\ root' = new /\ carry' = Idle
  BY DEF TreeInv, InOrder, CreateNewRoot, Pending
<1>2. left \in DOMAIN heap /\ right \in DOMAIN heap /\ key \in Keys /\ left = root
  BY <1>1, ParentIs
<1>3. /\ heap[left] \in Node /\ Sound(heap[left], Len(heap))
      /\ heap[right] \in Node /\ Sound(heap[right], Len(heap))
      /\ Len(heap) \in Nat /\ DOMAIN heap = 1 .. Len(heap)
  BY <1>1, <1>2, NodesIn
<1>4. /\ Top(cs, root) /\ Top(cs, right) /\ right # left /\ Kids(cs) \in Graph
      /\ Tree(ks, cs) /\ Forest(cs) /\ root \in Nat /\ right \in Nat
  <2>1. Top(cs, right) /\ right # left
    BY <1>1, <1>2 DEF Hangs
  <2> QED
    BY <1>1, <2>1, HeapIsTree DEF Tree, Top
<1>5. /\ new \in Nat \ DOMAIN heap /\ Top(cs, new) /\ cs[new] = <<>> /\ ks[new] = <<>>
      /\ new # left /\ new # right /\ new # Null
  <2>1. new \in Nat \ DOMAIN heap /\ Top(cs, new) /\ cs[new] = <<>> /\ ks[new] = <<>>
    BY <1>1, FreshNode
  <2>2. new # Null
    BY <1>3 DEF Null
  <2> QED
    BY <1>2, <2>1, <2>2
<1>6. /\ f[left] = [heap[left] EXCEPT !.parent = new] /\ f[right] = [heap[right] EXCEPT !.parent = new]
      /\ \A n \in DOMAIN heap \ {left, right} : f[n] = heap[n]
      /\ DOMAIN f = DOMAIN heap /\ f = [i \in DOMAIN f |-> f[i]]
  BY <1>2, <1>4
<1> HIDE DEF f
<1>7. ASSUME NEW n \in {left, right}
      PROVE  /\ f[n] \in Node /\ f[n].keys = heap[n].keys /\ f[n].children = heap[n].children
             /\ f[n].isLeaf = heap[n].isLeaf /\ f[n].values = heap[n].values
             /\ f[n].parent = new /\ f[n].next = heap[n].next
  <2>1. f[n] = [heap[n] EXCEPT !.parent = new] /\ heap[n] \in Node /\ new \in Nat
    BY <1>3, <1>5, <1>6
  <2> HIDE DEF new
  <2> QED
    BY <2>1 DEF Node
<1>8. /\ top \in Node /\ ~top.isLeaf /\ top.keys = <<key>> /\ top.children = <<left, right>>
      /\ top.parent = Null /\ top.next = Null
  <2>1. <<key>> \in Seq(Keys) /\ <<left, right>> \in Seq(Nat) /\ <<>> \in Seq(Values)
    BY <1>2, <1>3
  <2> QED
    BY <2>1 DEF Node, Internal, Null
<1>9. /\ Len(<<key>>) = 1 /\ Len(<<left, right>>) = 2 /\ Range(<<left, right>>) = {left, right}
      /\ DOMAIN <<key>> = {1} /\ DOMAIN <<left, right>> = {1, 2}
  <2>1. /\ Len(<<key>>) = 1 /\ Len(<<left, right>>) = 2
        /\ DOMAIN <<key>> = {1} /\ DOMAIN <<left, right>> = {1, 2}
    OBVIOUS
  <2> QED
    BY <2>1 DEF Range
<1>10. Sound(top, Len(heap) + 1)
  <2>1. Ascending(<<key>>)
    BY <1>9 DEF Ascending
  <2>2. Len(<<key>>) <= MaxKeys
    BY <1>9, HalfOfOrder
  <2>3. left \in 1 .. Len(heap) + 1 /\ right \in 1 .. Len(heap) + 1 /\ Null \in 0 .. Len(heap) + 1
    BY <1>2, <1>3 DEF Null
  <2> HIDE DEF top
  <2> QED
    BY <1>8, <1>9, <2>1, <2>2, <2>3 DEF Sound
<1>11. \A n \in DOMAIN heap : Sound(f[n], Len(heap) + 1)
  <2> SUFFICES ASSUME NEW n \in DOMAIN heap PROVE Sound(f[n], Len(heap) + 1)
    OBVIOUS
  <2>1. Sound(heap[n], Len(heap) + 1)
    BY <1>1, <1>3, SoundGrows DEF Shaped
  <2>2. CASE n \in {left, right}
    <3>1. new \in 0 .. Len(heap) + 1
      BY <1>3
    <3> QED
      BY <1>7, <2>1, <2>2, <3>1 DEF Sound
  <2>3. CASE n \notin {left, right}
    BY <1>6, <2>1, <2>3
  <2> QED
    BY <2>2, <2>3
<1> HIDE DEF top
<1>12. /\ Shaped(heap') /\ Len(heap') = new
       /\ DOMAIN heap' = DOMAIN heap \cup {new} /\ heap'[new] = top
       /\ \A n \in DOMAIN heap : heap'[n] = f[n]
  BY <1>1, <1>6, <1>10, <1>11, HeapGrows
<1> HIDE DEF new
<1>13. /\ \A n \in DOMAIN heap : /\ heap'[n].keys = heap[n].keys
                                 /\ heap'[n].children = heap[n].children
                                 /\ heap'[n].isLeaf = heap[n].isLeaf
       /\ \A n \in DOMAIN heap \ {left, right} : heap'[n].parent = heap[n].parent
       /\ heap'[left].parent = new /\ heap'[right].parent = new
  BY <1>2, <1>6, <1>7, <1>12
<1>14. PICK level \in [Nat -> Nat] : Levels(heap, carry, level)
  BY <1>1 DEF Levelled
<1> DEFINE level2 == [level EXCEPT ![new] = level[left] + 1]
<1>15. /\ level2 \in [Nat -> Nat] /\ level2[new] = level2[left] + 1 /\ level2[new] = level2[right] + 1
       /\ \A n \in DOMAIN heap : level2[n] = level[n]
       /\ DOMAIN heap \in SUBSET Nat
  <2>1. DOMAIN heap \in SUBSET Nat
    BY <1>3
  <2>2. level[left] = level[right] /\ level[left] \in Nat
    BY <1>1, <1>2, <1>14, <2>1 DEF Levels
  <2>3. level2 \in [Nat -> Nat] /\ level2[new] = level[left] + 1 /\ \A n \in Nat : n # new => level2[n] = level[n]
    <3> DEFINE up == level[left] + 1
    <3>3. level[left] + 1 \in Nat
      BY <2>2
    <3>4. new \in Nat
      BY <1>5
    <3>5. level2 = [level EXCEPT ![new] = up]
      OBVIOUS
    <3>1. up \in Nat /\ new \in Nat /\ level2 = [level EXCEPT ![new] = up]
      BY <3>3, <3>4, <3>5
    <3> HIDE DEF up, level2
    <3>2. level2 \in [Nat -> Nat] /\ level2[new] = up /\ \A n \in Nat : n # new => level2[n] = level[n]
      BY <3>1
    <3> QED
      BY <3>2 DEF up
  <2> HIDE DEF level2
  <2>4. \A n \in DOMAIN heap : level2[n] = level[n]
    BY <1>5, <2>1, <2>3
  <2> QED
    BY <1>2, <2>1, <2>2, <2>3, <2>4
<1> HIDE DEF level2
<1>16. \A n \in Nat : \A x \in Kids(cs)[n] : /\ n \in DOMAIN heap /\ x \in DOMAIN heap
                                             /\ x \in Range(heap[n].children)
                                             /\ level2[n] = level2[x] + 1 /\ level2[x] < level2[n]
  <2> SUFFICES ASSUME NEW n \in Nat, NEW x \in Kids(cs)[n]
               PROVE  /\ n \in DOMAIN heap /\ x \in DOMAIN heap /\ x \in Range(heap[n].children)
                      /\ level2[n] = level2[x] + 1 /\ level2[x] < level2[n]
    OBVIOUS
  <2>1. n \in DOMAIN heap /\ x \in DOMAIN heap
    BY <1>1, FreshNode
  <2>2. x \in Range(heap[n].children)
    BY <1>1, <2>1, NodesIn DEF Kids
  <2>3. level2[n] = level2[x] + 1 /\ level2[x] \in Nat
    BY <1>14, <1>15, <2>1, <2>2 DEF Levels
  <2> QED
    BY <2>1, <2>2, <2>3
<1>17. /\ Fits(ks, cs0) /\ Forest(cs0) /\ Top(cs0, new) /\ Routed(ks, cs0, new)
       /\ Hangs(ks, cs0, new, left, key, right) /\ new \in Below(cs0, new)
  <2>1. Top(cs, left) /\ Routed(ks, cs, left) /\ Hangs(ks, cs, left, left, key, right)
    BY <1>1, <1>2, <1>4
  <2> HIDE DEF ks, cs, left, right, key
  <2>2. cs0 = [cs EXCEPT ![new] = <<left>>]
    OBVIOUS
  <2> HIDE DEF cs0
  <2> QED
    BY <1>2, <1>4, <1>5, <2>1, <2>2, RaiseKeepsRoutes
<1>18. /\ cs0[new] = <<left>> /\ \A n \in Nat \ {new} : cs0[n] = cs[n]
       /\ Range(<<left>>) = {left} /\ DOMAIN <<left>> = {1} /\ <<left>>[1] = left /\ Len(<<left>>) = 1
  <2>1. cs \in [Nat -> Seq(Nat)]
    BY <1>4 DEF Tree, Fits
  <2>2. Range(<<left>>) = {left} /\ DOMAIN <<left>> = {1} /\ <<left>>[1] = left /\ Len(<<left>>) = 1
    BY DEF Range
  <2> HIDE DEF cs
  <2> QED
    BY <1>5, <2>1, <2>2
<1>19. Tree(ks, cs0)
  <2> HIDE DEF cs0
  <2>1. \A n \in Nat : \A x \in Kids(cs0)[n] : level2[x] < level2[n]
    <3> SUFFICES ASSUME NEW n \in Nat, NEW x \in Kids(cs0)[n] PROVE level2[x] < level2[n]
      OBVIOUS
    <3>1. CASE n = new
      <4>1. x = left /\ level2[left] \in Nat
        BY <1>2, <1>15, <1>18, <3>1 DEF Kids
      <4> QED
        BY <1>15, <3>1, <4>1
    <3>2. CASE n # new
      <4>1. x \in Kids(cs)[n]
        BY <1>18, <3>2 DEF Kids
      <4> QED
        BY <1>16, <4>1
    <3> QED
      BY <3>1, <3>2
  <2>2. Descends(cs0)
    BY <1>15, <2>1 DEF Descends
  <2> QED
    BY <1>17, <2>2 DEF Tree
<1>20. Attaches(ks, cs0, new, 1, key, right, ks1, cs1)
  <2>1. InsertAt(<<>>, 1, key) = <<key>>
    <3> DEFINE t == InsertAt(<<>>, 1, key)
    <3>1. <<>> \in Seq(Keys) /\ Len(<<>>) = 0 /\ 1 \in 1 .. 0 + 1
      OBVIOUS
    <3>2. t \in Seq(Keys) /\ IsInsertion(t, <<>>, 1, key)
      BY <1>2, <3>1, InsertAtIs
    <3>3. Len(t) = 1 /\ t[1] = key
      BY <3>1, <3>2 DEF IsInsertion
    <3>4. <<key>> \in Seq(Keys) /\ Len(<<key>>) = 1 /\ <<key>>[1] = key
      BY <1>2
    <3> HIDE DEF t
    <3>5. \A i \in 1 .. Len(t) : t[i] = <<key>>[i]
      BY <3>3, <3>4
    <3>6. t = <<key>>
      BY <3>2, <3>3, <3>4, <3>5, SeqEqual
    <3> QED
      BY <3>6 DEF t
  <2>2. InsertAt(<<left>>, 1 + 1, right) = <<left, right>>
    <3> DEFINE t == InsertAt(<<left>>, 2, right)
    <3>1. <<left>> \in Seq(Nat) /\ 2 \in 1 .. Len(<<left>>) + 1
      BY <1>2, <1>4, <1>18
    <3>2. t \in Seq(Nat) /\ IsInsertion(t, <<left>>, 2, right)
      BY <1>4, <3>1, InsertAtIs
    <3>3. Len(t) = 2 /\ t[2] = right /\ t[1] = left
      <4>1. Len(t) = Len(<<left>>) + 1 /\ t[2] = right
        BY <3>2 DEF IsInsertion
      <4>2. 1 \in 1 .. Len(<<left>>) /\ 1 < 2
        BY <1>18
      <4>3. t[1] = <<left>>[1]
        BY <3>2, <4>2 DEF IsInsertion
      <4> HIDE DEF t
      <4> QED
        BY <1>18, <4>1, <4>3
    <3>4. /\ <<left, right>> \in Seq(Nat) /\ Len(<<left, right>>) = 2
          /\ <<left, right>>[1] = left /\ <<left, right>>[2] = right
      BY <1>2, <1>4
    <3> HIDE DEF t
    <3>5. \A i \in 1 .. Len(t) : t[i] = <<left, right>>[i]
      BY <3>3, <3>4
    <3>6. t = <<left, right>>
      BY <3>2, <3>3, <3>4, <3>5, SeqEqual
    <3> QED
      BY <3>6 DEF t
  <2>3. ks1[new] = <<key>> /\ cs1[new] = <<left, right>>
    BY <1>5, <1>8, <1>12 DEF KeysIn, KidsIn
  <2>4. \A n \in Nat \ {new} : ks1[n] = ks[n] /\ cs1[n] = cs[n]
    BY <1>12, <1>13 DEF KeysIn, KidsIn
  <2>5. ks1 = [ks EXCEPT ![new] = <<key>>]
    <3>1. \A n \in Nat : ks1[n] = [ks EXCEPT ![new] = <<key>>][n]
      BY <2>3, <2>4 DEF KeysIn
    <3> QED
      BY <3>1 DEF KeysIn
  <2>6. cs1 = [cs0 EXCEPT ![new] = <<left, right>>]
    <3>1. \A n \in Nat : cs1[n] = [cs0 EXCEPT ![new] = <<left, right>>][n]
      BY <2>3, <2>4, <1>18 DEF KidsIn
    <3> QED
      BY <3>1 DEF KidsIn
  <2> QED
    BY <1>5, <1>18, <2>1, <2>2, <2>5, <2>6 DEF Attaches
<1>21. Fits(ks1, cs1) /\ Forest(cs1) /\ Routed(ks1, cs1, new)
  <2>1. 1 \in DOMAIN cs0[new] /\ cs0[new][1] = left
    BY <1>18
  <2> HIDE DEF ks, cs, cs0, ks1, cs1, left, right, key
  <2>2. Hangs(ks, cs0, new, cs0[new][1], key, right)
    BY <1>17, <2>1
  <2>3. Fits(ks1, cs1) /\ Forest(cs1)
    BY <1>2, <1>5, <1>17, <1>20, <2>1, <2>2, AttachFits
  <2>4. Routed(ks1, cs1, new)
    BY <1>2, <1>5, <1>17, <1>19, <1>20, <2>1, <2>2, AttachKeepsRoutes
  <2> QED
    BY <2>3, <2>4
<1>22. Linked(heap', new)
  <2>1. new \in DOMAIN heap' /\ heap'[new].parent = Null
    BY <1>8, <1>12
  <2>2. ASSUME NEW n \in DOMAIN heap', NEW x \in Range(heap'[n].children) PROVE heap'[x].parent = n
    <3>1. CASE n = new
      BY <1>8, <1>9, <1>12, <1>13, <2>2, <3>1
    <3>2. CASE n # new
      <4>1. n \in DOMAIN heap /\ x \in Range(heap[n].children) /\ n \in Nat
        BY <1>12, <1>13, <1>15, <2>2, <3>2
      <4>2. x \in DOMAIN heap /\ x \in Kids(cs)[n]
        BY <1>1, <4>1, NodesIn DEF Kids
      <4>3. PICK i \in DOMAIN heap[n].children : x = heap[n].children[i]
        BY <4>1 DEF Range
      <4>4. heap[x].parent = n
        BY <1>1, <4>1, <4>3 DEF Linked
      <4>5. x # left /\ x # right
        BY <1>2, <1>4, <4>1, <4>2 DEF Top
      <4> QED
        BY <1>13, <4>2, <4>4, <4>5
    <3> QED
      BY <3>1, <3>2
  <2> QED
    BY <1>12, <1>21, <2>1, <2>2, LinkedIs
<1>23. Levelled(heap', Idle)
  <2>1. ASSUME NEW n \in DOMAIN heap', NEW x \in Range(heap'[n].children) PROVE level2[n] = level2[x] + 1
    <3>1. CASE n = new
      BY <1>8, <1>9, <1>12, <1>15, <2>1, <3>1
    <3>2. CASE n # new
      <4>1. n \in DOMAIN heap /\ x \in Range(heap[n].children) /\ n \in Nat
        BY <1>12, <1>13, <1>15, <2>1, <3>2
      <4>2. x \in Kids(cs)[n]
        BY <1>1, <4>1, NodesIn DEF Kids
      <4> QED
        BY <1>16, <4>1, <4>2
    <3> QED
      BY <3>1, <3>2
  <2>2. \A n \in DOMAIN heap' : heap'[n].isLeaf => level2[n] = 0
    BY ZenonT(30), <1>8, <1>12, <1>13, <1>14, <1>15 DEF Levels
  <2> QED
    BY <1>15, <2>1, <2>2 DEF Levels, Levelled
<1>24. Filled(heap', new, Idle)
  <2>1. Filled(heap, root, carry)
    BY DEF TreeInv
  <2>2. ASSUME NEW n \in DOMAIN heap PROVE Half(heap'[n])
    <3>1. Half(heap[n])
      BY <1>1, <1>2, <2>1 DEF Filled
    <3> QED
      BY <1>13, <3>1 DEF Half
  <2> QED
    BY <1>12, <2>2 DEF Filled
<1>25. Separated(heap', Idle)
  <2>1. Separates(ks, cs) /\ key \in LeafKeys(ks, cs, right)
    BY <1>1 DEF TreeInv, Separated
  <2> HIDE DEF ks, cs, cs0, ks1, cs1, left, right, key
  <2>2. Range(<<>>) = {}
    BY DEF Range
  <2>3. \A n \in Nat : LeafKeys(ks, cs, n) \subseteq LeafKeys(ks, cs0, n)
    <3>1. Kids(cs0) \in Graph
      BY <1>17, 0 \in Int, TreeGraphs
    <3>2. \A n \in Nat : Kids(cs)[n] \subseteq Kids(cs0)[n]
      BY <1>5, <1>18, <2>2 DEF Kids
    <3>3. \A n \in Nat : cs[n] = <<>> => \A k \in Range(ks[n]) : cs0[n] = <<>> /\ k \in Range(ks[n])
      BY <1>5, <1>18, <2>2
    <3> QED
      BY <1>4, <3>1, <3>2, <3>3, LeafKeysGrow
  <2>4. ASSUME NEW n \in Nat, cs0[n] # <<>>, NEW p \in Pairs(ks[n], cs0[n])
        PROVE  p[1] \in LeafKeys(ks, cs0, p[2])
    <3>1. n # new
      <4> SUFFICES ASSUME n = new PROVE FALSE
        OBVIOUS
      <4>1. DOMAIN ks[n] = {}
        BY <1>5
      <4> QED
        BY <4>1 DEF Pairs
    <3>2. cs[n] # <<>> /\ p \in Pairs(ks[n], cs[n])
      BY <1>18, <2>4, <3>1
    <3>3. p[2] \in Nat /\ p[1] \in LeafKeys(ks, cs, p[2])
      BY <1>4, <2>1, <3>2, PairsAre DEF Separates, Tree
    <3> QED
      BY <2>3, <3>3
  <2>5. Separates(ks, cs0) /\ key \in LeafKeys(ks, cs0, right)
    BY <1>4, <2>1, <2>3, <2>4 DEF Separates
  <2>6. 1 \in DOMAIN cs0[new] /\ cs0[new][1] = left
    BY <1>18
  <2>7. Hangs(ks, cs0, new, cs0[new][1], key, right)
    BY <1>17, <2>6
  <2>8. IsAttachment(ks, cs0, new, 1, key, right, ks1, cs1)
    BY <1>2, <1>5, <1>17, <1>20, <2>6, <2>7, AttachFits
  <2>9. Separates(ks1, cs1)
    BY <1>2, <1>4, <1>5, <1>17, <1>20, <1>21, <2>5, <2>6, <2>8, AttachSeparates
  <2> QED
    BY <2>9 DEF Separated, ks1, cs1
<1> QED
  BY <1>1, <1>12, <1>21, <1>22, <1>23, <1>24, <1>25 DEF TreeInv, InOrder, Pending

(***************************************************************************)
(* bptree_split_internal.                                                  *)
(***************************************************************************)
LEMMA SlotsOfHalves ==
    ASSUME NEW keys \in Seq(Int), Ascending(keys), NEW p \in Nat, 1 <= p, p + 2 <= Len(keys), NEW k \in Int
    PROVE  /\ k < keys[p + 1] => /\ Slot(keys, k) \in 1 .. p + 1
                                 /\ Slot(SubSeq(keys, 1, p), k) = Slot(keys, k)
           /\ keys[p + 1] <= k => /\ Slot(keys, k) \in p + 2 .. Len(keys) + 1
                                  /\ Slot(SubSeq(keys, p + 2, Len(keys)), k) = Slot(keys, k) - (p + 1)
<1> DEFINE s == Slot(keys, k)
           lower == SubSeq(keys, 1, p)
           upper == SubSeq(keys, p + 2, Len(keys))
<1>1. Len(keys) \in Nat /\ DOMAIN keys = 1 .. Len(keys) /\ \A i \in 1 .. Len(keys) : keys[i] \in Int
  BY LenProperties, ElementOfSeq
<1>2. /\ s \in 1 .. Len(keys) + 1
      /\ s <= Len(keys) => k < keys[s]
      /\ \A i \in 1 .. Len(keys) : i < s => keys[i] <= k
  BY SlotIs
<1>3. /\ lower \in Seq(Int) /\ Len(lower) = p /\ Ascending(lower)
      /\ \A j \in 1 .. p : lower[j] = keys[j]
  <2>1. /\ lower \in Seq(Int) /\ Len(lower) = p - 1 + 1
        /\ \A j \in 1 .. p - 1 + 1 : lower[j] = keys[1 + j - 1]
    BY <1>1, PartOf
  <2>2. Ascending(lower)
    BY <1>1, AscendingPart
  <2>3. p - 1 + 1 = p /\ \A j \in 1 .. p : 1 + j - 1 = j
    OBVIOUS
  <2> HIDE DEF lower
  <2> QED
    BY <2>1, <2>2, <2>3
<1>4. /\ upper \in Seq(Int) /\ Len(upper) = Len(keys) - p - 1 /\ Ascending(upper)
      /\ \A j \in 1 .. Len(keys) - p - 1 : upper[j] = keys[p + 1 + j]
  <2> DEFINE a == p + 2
  <2>1. a \in Nat \ {0} /\ a <= Len(keys) + 1
    BY <1>1
  <2> HIDE DEF a
  <2>2. /\ SubSeq(keys, a, Len(keys)) \in Seq(Int) /\ Len(SubSeq(keys, a, Len(keys))) = Len(keys) - a + 1
        /\ \A j \in 1 .. Len(keys) - a + 1 : SubSeq(keys, a, Len(keys))[j] = keys[a + j - 1]
    BY <1>1, <2>1, PartOf
  <2>3. Ascending(SubSeq(keys, a, Len(keys)))
    BY <1>1, <2>1, AscendingPart
  <2>4. Len(keys) - a + 1 = Len(keys) - p - 1 /\ \A j \in 1 .. Len(keys) - p - 1 : a + j - 1 = p + 1 + j
    BY <1>1 DEF a
  <2>5. upper = SubSeq(keys, a, Len(keys))
    BY DEF a
  <2> HIDE DEF upper
  <2> QED
    BY <2>2, <2>3, <2>4, <2>5
<1> HIDE DEF s, lower, upper
<1>5. ASSUME k < keys[p + 1]
      PROVE  s \in 1 .. p + 1 /\ Slot(lower, k) = s
  <2>1. s <= p + 1
    <3> SUFFICES ASSUME p + 1 < s PROVE FALSE
      BY <1>1, <1>2
    <3>1. p + 1 \in 1 .. Len(keys)
      BY <1>1
    <3>2. keys[p + 1] <= k /\ keys[p + 1] \in Int
      BY <1>1, <1>2, <3>1
    <3> QED
      BY <1>5, <3>2
  <2>2. s \in 1 .. Len(lower) + 1
    BY <1>1, <1>2, <1>3, <2>1
  <2>3. s > 1 => lower[s - 1] <= k
    <3> SUFFICES ASSUME s > 1 PROVE lower[s - 1] <= k
      OBVIOUS
    <3>1. s - 1 \in 1 .. p /\ s - 1 \in 1 .. Len(keys) /\ s - 1 < s
      BY <1>1, <1>2, <2>1
    <3> QED
      BY <1>2, <1>3, <3>1
  <2>4. s <= Len(lower) => k < lower[s]
    <3> SUFFICES ASSUME s <= Len(lower) PROVE k < lower[s]
      OBVIOUS
    <3>1. s \in 1 .. p /\ s <= Len(keys)
      BY <1>1, <1>2, <1>3
    <3> QED
      BY <1>2, <1>3, <3>1
  <2> QED
    BY <1>1, <1>2, <1>3, <2>1, <2>2, <2>3, <2>4, SlotIsUnique
<1>6. ASSUME keys[p + 1] <= k
      PROVE  s \in p + 2 .. Len(keys) + 1 /\ Slot(upper, k) = s - (p + 1)
  <2> DEFINE x == s - (p + 1)
  <2>1. p + 1 < s
    <3> SUFFICES ASSUME s <= p + 1 PROVE FALSE
      BY <1>1, <1>2
    <3>1. s \in 1 .. Len(keys) /\ p + 1 \in 1 .. Len(keys) /\ s <= Len(keys)
      BY <1>1, <1>2
    <3>2. k < keys[s] /\ keys[s] \in Int /\ keys[p + 1] \in Int
      BY <1>1, <1>2, <3>1
    <3>3. s = p + 1 \/ keys[s] < keys[p + 1]
      BY <1>1, <3>1 DEF Ascending
    <3> QED
      BY <1>6, <3>2, <3>3
  <2>2. x \in 1 .. Len(upper) + 1
    BY <1>1, <1>2, <1>4, <2>1
  <2>3. x > 1 => upper[x - 1] <= k
    <3> SUFFICES ASSUME x > 1 PROVE upper[x - 1] <= k
      OBVIOUS
    <3>1. x - 1 \in 1 .. Len(keys) - p - 1 /\ p + 1 + (x - 1) = s - 1 /\ s - 1 \in 1 .. Len(keys) /\ s - 1 < s
      BY <1>1, <1>2, <2>1
    <3>2. upper[x - 1] = keys[p + 1 + (x - 1)]
      BY <1>4, <3>1
    <3> QED
      BY <1>2, <3>1, <3>2
  <2>4. x <= Len(upper) => k < upper[x]
    <3> SUFFICES ASSUME x <= Len(upper) PROVE k < upper[x]
      OBVIOUS
    <3>1. x \in 1 .. Len(keys) - p - 1 /\ p + 1 + x = s /\ s <= Len(keys)
      BY <1>1, <1>2, <1>4, <2>1
    <3>2. upper[x] = keys[p + 1 + x]
      BY <1>4, <3>1
    <3> QED
      BY <1>2, <3>1, <3>2
  <2>5. s \in p + 2 .. Len(keys) + 1
    BY <1>1, <1>2, <2>1
  <2> HIDE DEF x
  <2>6. Slot(upper, k) = x
    BY <1>4, <2>2, <2>3, <2>4, SlotIsUnique
  <2> QED
    BY <2>5, <2>6 DEF x
<1> QED
  BY <1>5, <1>6 DEF s, lower, upper

\* t is what is in s from a to b.
IsPart(t, s, a, b) ==
    /\ Len(t) = b - a + 1 /\ \A j \in 1 .. b - a + 1 : t[j] = s[a + j - 1]
    /\ RangeIs(t, s, a, b)

LEMMA PartIs ==
    ASSUME NEW D, NEW s \in Seq(D), NEW a \in Nat \ {0}, NEW b \in Nat, a <= b + 1, b <= Len(s)
    PROVE  SubSeq(s, a, b) \in Seq(D) /\ IsPart(SubSeq(s, a, b), s, a, b)
<1>1. /\ SubSeq(s, a, b) \in Seq(D) /\ Len(SubSeq(s, a, b)) = b - a + 1
      /\ \A j \in 1 .. b - a + 1 : SubSeq(s, a, b)[j] = s[a + j - 1]
  BY PartOf
<1>2. RangeIs(SubSeq(s, a, b), s, a, b)
  BY RangeOfPart
<1> QED
  BY <1>1, <1>2 DEF IsPart

\* The children behind key number p + 1 go with the keys behind it.
SplitsWays(keys, kids, p) ==
    /\ SubSeq(kids, 1, p + 1) \in Seq(Nat) /\ SubSeq(kids, p + 2, Len(kids)) \in Seq(Nat)
    /\ Len(SubSeq(kids, 1, p + 1)) = p + 1 /\ Len(SubSeq(kids, p + 2, Len(kids))) = Len(kids) - p - 1
    /\ Range(kids) = Range(SubSeq(kids, 1, p + 1)) \cup Range(SubSeq(kids, p + 2, Len(kids)))
    /\ Range(SubSeq(kids, 1, p + 1)) \cap Range(SubSeq(kids, p + 2, Len(kids))) = {}
    /\ \A i, j \in DOMAIN SubSeq(kids, 1, p + 1) :
         SubSeq(kids, 1, p + 1)[i] = SubSeq(kids, 1, p + 1)[j] => i = j
    /\ \A i, j \in DOMAIN SubSeq(kids, p + 2, Len(kids)) :
         SubSeq(kids, p + 2, Len(kids))[i] = SubSeq(kids, p + 2, Len(kids))[j] => i = j
    /\ \A k \in Int : k < keys[p + 1] =>
         /\ kids[Slot(keys, k)] = SubSeq(kids, 1, p + 1)[Slot(SubSeq(keys, 1, p), k)]
         /\ kids[Slot(keys, k)] \in Range(SubSeq(kids, 1, p + 1))
    /\ \A k \in Int : keys[p + 1] <= k =>
         /\ kids[Slot(keys, k)] = SubSeq(kids, p + 2, Len(kids))[Slot(SubSeq(keys, p + 2, Len(keys)), k)]
         /\ kids[Slot(keys, k)] \in Range(SubSeq(kids, p + 2, Len(kids)))

LEMMA ChildrenSplit ==
    ASSUME NEW keys \in Seq(Int), Ascending(keys), NEW p \in Nat, 1 <= p, p + 2 <= Len(keys),
           NEW kids \in Seq(Nat), Len(kids) = Len(keys) + 1,
           \A i, j \in DOMAIN kids : kids[i] = kids[j] => i = j
    PROVE  SplitsWays(keys, kids, p)
<1> DEFINE lower == SubSeq(kids, 1, p + 1)
           upper == SubSeq(kids, p + 2, Len(kids))
           n == Len(keys)
<1>1. n \in Nat /\ DOMAIN kids = 1 .. n + 1 /\ Len(kids) = n + 1
  BY LenProperties
<1>2. /\ lower \in Seq(Nat) /\ Len(lower) = p + 1
      /\ \A j \in 1 .. p + 1 : lower[j] = kids[j]
      /\ Range(lower) = {kids[i] : i \in 1 .. p + 1}
  <2> DEFINE b == p + 1
  <2>1. b \in Nat /\ b <= Len(kids) /\ 1 <= b + 1
    BY <1>1
  <2> HIDE DEF b
  <2>2. /\ SubSeq(kids, 1, b) \in Seq(Nat) /\ Len(SubSeq(kids, 1, b)) = b - 1 + 1
        /\ \A j \in 1 .. b - 1 + 1 : SubSeq(kids, 1, b)[j] = kids[1 + j - 1]
        /\ Range(SubSeq(kids, 1, b)) = {kids[i] : i \in 1 .. b}
    <3>1. SubSeq(kids, 1, b) \in Seq(Nat) /\ IsPart(SubSeq(kids, 1, b), kids, 1, b)
      BY <2>1, 1 \in Nat \ {0}, PartIs
    <3> QED
      BY <3>1 DEF IsPart, RangeIs
  <2>3. b - 1 + 1 = b /\ \A j \in 1 .. b : 1 + j - 1 = j
    BY <2>1
  <2>4. /\ SubSeq(kids, 1, b) \in Seq(Nat) /\ Len(SubSeq(kids, 1, b)) = b
        /\ \A j \in 1 .. b : SubSeq(kids, 1, b)[j] = kids[j]
        /\ Range(SubSeq(kids, 1, b)) = {kids[i] : i \in 1 .. b}
    BY <2>2, <2>3
  <2> QED
    BY <2>4 DEF b
<1>3. /\ upper \in Seq(Nat) /\ Len(upper) = n - p
      /\ \A j \in 1 .. n - p : upper[j] = kids[p + 1 + j]
      /\ Range(upper) = {kids[i] : i \in p + 2 .. n + 1}
  <2> DEFINE a == p + 2
  <2>1. a \in Nat \ {0} /\ a <= Len(kids) + 1 /\ Len(kids) \in Nat
    BY <1>1
  <2> HIDE DEF a
  <2>2. /\ SubSeq(kids, a, Len(kids)) \in Seq(Nat) /\ Len(SubSeq(kids, a, Len(kids))) = Len(kids) - a + 1
        /\ \A j \in 1 .. Len(kids) - a + 1 : SubSeq(kids, a, Len(kids))[j] = kids[a + j - 1]
        /\ Range(SubSeq(kids, a, Len(kids))) = {kids[i] : i \in a .. Len(kids)}
    <3>1. SubSeq(kids, a, Len(kids)) \in Seq(Nat) /\ IsPart(SubSeq(kids, a, Len(kids)), kids, a, Len(kids))
      BY SMTT(30), <2>1, PartIs
    <3> QED
      BY <3>1 DEF IsPart, RangeIs
  <2>3. Len(kids) - a + 1 = n - p /\ \A j \in 1 .. n - p : a + j - 1 = p + 1 + j
    BY <1>1 DEF a
  <2>4. /\ SubSeq(kids, a, Len(kids)) \in Seq(Nat) /\ Len(SubSeq(kids, a, Len(kids))) = n - p
        /\ \A j \in 1 .. n - p : SubSeq(kids, a, Len(kids))[j] = kids[p + 1 + j]
        /\ Range(SubSeq(kids, a, Len(kids))) = {kids[i] : i \in a .. n + 1}
    BY <1>1, <2>2, <2>3
  <2> QED
    BY <2>4 DEF a
<1>4. DOMAIN lower = 1 .. p + 1 /\ DOMAIN upper = 1 .. n - p
  BY <1>2, <1>3, LenProperties
<1>5. Len(kids) - p - 1 = n - p
  BY <1>1
<1>6. Range(kids) = Range(lower) \cup Range(upper)
  <2>1. Range(kids) = {kids[i] : i \in 1 .. n + 1}
    BY <1>1 DEF Range
  <2>2. \A i \in 1 .. n + 1 : i \in 1 .. p + 1 \/ i \in p + 2 .. n + 1
    BY <1>1
  <2>3. (\A i \in 1 .. p + 1 : i \in 1 .. n + 1) /\ (\A i \in p + 2 .. n + 1 : i \in 1 .. n + 1)
    BY <1>1
  <2>4. /\ Range(lower) = {kids[i] : i \in 1 .. p + 1}
        /\ Range(upper) = {kids[i] : i \in p + 2 .. n + 1}
    BY <1>2, <1>3
  <2> HIDE DEF lower, upper
  <2>5. ASSUME NEW x \in Range(kids) PROVE x \in Range(lower) \cup Range(upper)
    <3>1. PICK i \in 1 .. n + 1 : x = kids[i]
      BY <2>1
    <3> QED
      BY <2>2, <2>4, <3>1
  <2>6. ASSUME NEW x \in Range(lower) PROVE x \in Range(kids)
    <3>1. PICK i \in 1 .. p + 1 : x = kids[i]
      BY <2>4
    <3> QED
      BY <2>1, <2>3, <3>1
  <2>7. ASSUME NEW x \in Range(upper) PROVE x \in Range(kids)
    <3>1. PICK i \in p + 2 .. n + 1 : x = kids[i]
      BY <2>4
    <3> QED
      BY <2>1, <2>3, <3>1
  <2> QED
    BY <2>5, <2>6, <2>7
<1> HIDE DEF lower, upper
<1>7. Range(lower) \cap Range(upper) = {}
  <2> SUFFICES ASSUME NEW x \in Range(lower), x \in Range(upper) PROVE FALSE
    OBVIOUS
  <2>2. PICK i \in 1 .. p + 1 : x = kids[i]
    BY <1>2
  <2>3. PICK j \in p + 2 .. n + 1 : x = kids[j]
    BY <1>3
  <2>1. i \in DOMAIN kids /\ j \in DOMAIN kids /\ i # j
    BY <1>1
  <2> QED
    BY <2>1, <2>2, <2>3
<1>8. \A i, j \in DOMAIN lower : lower[i] = lower[j] => i = j
  <2> SUFFICES ASSUME NEW i \in 1 .. p + 1, NEW j \in 1 .. p + 1, lower[i] = lower[j] PROVE i = j
    BY <1>4
  <2>1. i \in DOMAIN kids /\ j \in DOMAIN kids /\ kids[i] = kids[j]
    BY SMTT(30), <1>1, <1>2
  <2> QED
    BY <2>1
<1>9. \A i, j \in DOMAIN upper : upper[i] = upper[j] => i = j
  <2> SUFFICES ASSUME NEW i \in 1 .. n - p, NEW j \in 1 .. n - p, upper[i] = upper[j] PROVE i = j
    BY <1>4
  <2>3. p + 1 + i \in DOMAIN kids /\ p + 1 + j \in DOMAIN kids
    BY SMTT(30), <1>1
  <2>4. upper[i] = kids[p + 1 + i] /\ upper[j] = kids[p + 1 + j]
    BY <1>3
  <2>1. p + 1 + i \in DOMAIN kids /\ p + 1 + j \in DOMAIN kids /\ kids[p + 1 + i] = kids[p + 1 + j]
    BY <2>3, <2>4
  <2>2. p + 1 + i = p + 1 + j
    BY <2>1
  <2> QED
    BY <2>2
<1>10. ASSUME NEW k \in Int, k < keys[p + 1]
       PROVE  /\ kids[Slot(keys, k)] = lower[Slot(SubSeq(keys, 1, p), k)]
              /\ kids[Slot(keys, k)] \in Range(lower)
  <2>1. Slot(keys, k) \in 1 .. p + 1 /\ Slot(SubSeq(keys, 1, p), k) = Slot(keys, k)
    BY <1>10, SlotsOfHalves
  <2> QED
    BY <1>2, <2>1
<1>11. ASSUME NEW k \in Int, keys[p + 1] <= k
       PROVE  /\ kids[Slot(keys, k)] = upper[Slot(SubSeq(keys, p + 2, Len(keys)), k)]
              /\ kids[Slot(keys, k)] \in Range(upper)
  <2> DEFINE s == Slot(keys, k)
  <2>1. s \in p + 2 .. n + 1 /\ Slot(SubSeq(keys, p + 2, Len(keys)), k) = s - (p + 1)
    BY <1>11, SlotsOfHalves
  <2> HIDE DEF s
  <2>2. s - (p + 1) \in 1 .. n - p /\ p + 1 + (s - (p + 1)) = s
    BY <1>1, <2>1
  <2>3. upper[s - (p + 1)] = kids[p + 1 + (s - (p + 1))]
    BY <1>3, <2>2
  <2>4. kids[s] \in Range(upper)
    BY <1>3, <2>1
  <2> QED
    BY <2>1, <2>2, <2>3, <2>4 DEF s
<1> QED
  BY <1>2, <1>3, <1>5, <1>6, <1>7, <1>8, <1>9, <1>10, <1>11 DEF SplitsWays, lower, upper

\* ... and so do the separators in front of them.
LEMMA PairsSplit ==
    ASSUME NEW keys \in Seq(Keys), NEW p \in Nat, 1 <= p, p + 2 <= Len(keys),
           NEW kids \in Seq(Nat), Len(kids) = Len(keys) + 1
    PROVE  /\ Pairs(SubSeq(keys, 1, p), SubSeq(kids, 1, p + 1)) \subseteq Pairs(keys, kids)
           /\ Pairs(SubSeq(keys, p + 2, Len(keys)), SubSeq(kids, p + 2, Len(kids))) \subseteq Pairs(keys, kids)
           /\ \E d \in Range(SubSeq(kids, p + 2, Len(kids))) : <<keys[p + 1], d>> \in Pairs(keys, kids)
<1> DEFINE n == Len(keys)
           m == Len(kids)
           a == p + 1
           b == p + 2
           lowKeys == SubSeq(keys, 1, p)
           lower == SubSeq(kids, 1, a)
           upKeys == SubSeq(keys, b, n)
           upper == SubSeq(kids, b, m)
<1>1. n \in Nat /\ m \in Nat /\ m = n + 1 /\ DOMAIN keys = 1 .. n /\ 1 \in Nat \ {0}
  BY LenProperties
<1>2. /\ a \in Nat /\ 1 <= a + 1 /\ a <= m /\ b \in Nat \ {0} /\ b <= n + 1 /\ b <= m + 1
      /\ p <= n /\ 1 <= p + 1 /\ a = p + 1 /\ b = p + 2
  BY <1>1
<1> HIDE DEF n, m, a, b
<1>3. /\ lowKeys \in Seq(Keys) /\ IsPart(lowKeys, keys, 1, p)
      /\ lower \in Seq(Nat) /\ IsPart(lower, kids, 1, a)
  BY <1>1, <1>2, PartIs DEF n, m
<1>4. upKeys \in Seq(Keys) /\ IsPart(upKeys, keys, b, n)
  <2>1. n <= Len(keys)
    BY <1>1 DEF n
  <2> QED
    BY <1>1, <1>2, <2>1, PartIs
<1>5. upper \in Seq(Nat) /\ IsPart(upper, kids, b, m)
  <2>1. m <= Len(kids)
    BY <1>1 DEF m
  <2> QED
    BY <1>1, <1>2, <2>1, PartIs
<1> HIDE DEF lowKeys, lower, upKeys, upper
<1>6. /\ DOMAIN lowKeys = 1 .. p /\ \A j \in 1 .. p : lowKeys[j] = keys[j]
  <2>1. Len(lowKeys) = p - 1 + 1 /\ \A j \in 1 .. p - 1 + 1 : lowKeys[j] = keys[1 + j - 1]
    BY <1>3 DEF IsPart, RangeIs
  <2>2. p - 1 + 1 = p /\ \A j \in 1 .. p : 1 + j - 1 = j
    OBVIOUS
  <2> QED
    BY <1>3, <2>1, <2>2, LenProperties
<1>7. \A j \in 1 .. a : lower[j] = kids[j]
  <2>1. \A j \in 1 .. a - 1 + 1 : lower[j] = kids[1 + j - 1]
    BY <1>3 DEF IsPart, RangeIs
  <2>2. a - 1 + 1 = a /\ \A j \in 1 .. a : 1 + j - 1 = j
    BY <1>2
  <2> QED
    BY <2>1, <2>2
<1>8. /\ DOMAIN upKeys = 1 .. n - a /\ \A j \in 1 .. n - a : upKeys[j] = keys[a + j]
  <2>1. Len(upKeys) = n - b + 1 /\ \A j \in 1 .. n - b + 1 : upKeys[j] = keys[b + j - 1]
    BY <1>4 DEF IsPart, RangeIs
  <2>2. n - b + 1 = n - a /\ \A j \in 1 .. n - a : b + j - 1 = a + j
    BY <1>1, <1>2
  <2> QED
    BY <1>4, <2>1, <2>2, LenProperties
<1>9. \A j \in 1 .. m - a : upper[j] = kids[a + j]
  <2>1. \A j \in 1 .. m - b + 1 : upper[j] = kids[b + j - 1]
    BY <1>5 DEF IsPart, RangeIs
  <2>2. m - b + 1 = m - a /\ \A j \in 1 .. m - a : b + j - 1 = a + j
    BY <1>1, <1>2
  <2> QED
    BY <2>1, <2>2
<1>10. Pairs(lowKeys, lower) \subseteq Pairs(keys, kids)
  <2> SUFFICES ASSUME NEW i \in 1 .. p PROVE <<lowKeys[i], lower[i + 1]>> \in Pairs(keys, kids)
    BY <1>6 DEF Pairs
  <2>1. i \in DOMAIN keys /\ i + 1 \in 1 .. a
    BY <1>1, <1>2
  <2>2. lowKeys[i] = keys[i] /\ lower[i + 1] = kids[i + 1]
    BY <1>6, <1>7, <2>1
  <2> QED
    BY <2>1, <2>2 DEF Pairs
<1>11. Pairs(upKeys, upper) \subseteq Pairs(keys, kids)
  <2> SUFFICES ASSUME NEW i \in 1 .. n - a PROVE <<upKeys[i], upper[i + 1]>> \in Pairs(keys, kids)
    BY <1>8 DEF Pairs
  <2> DEFINE o == a + i
  <2>1. o \in DOMAIN keys /\ i + 1 \in 1 .. m - a /\ a + (i + 1) = o + 1
    BY <1>1, <1>2
  <2>2. upKeys[i] = keys[o] /\ upper[i + 1] = kids[a + (i + 1)]
    BY <1>8, <1>9, <2>1
  <2>3. upper[i + 1] = kids[o + 1]
    BY <2>1, <2>2
  <2> HIDE DEF o
  <2> QED
    BY <2>1, <2>2, <2>3 DEF Pairs
<1>12. kids[a + 1] \in Range(upper) /\ <<keys[a], kids[a + 1]>> \in Pairs(keys, kids)
  <2>1. a \in DOMAIN keys /\ a + 1 = b /\ b \in b .. m
    BY <1>1, <1>2 DEF n
  <2>2. kids[b] \in Range(upper)
    BY <1>5, <2>1 DEF IsPart, RangeIs
  <2> QED
    BY <2>1, <2>2 DEF Pairs
<1> QED
  BY <1>10, <1>11, <1>12 DEF lowKeys, lower, upKeys, upper, a, b, n, m

LEMMA SplitInternalKeeps ==
    ASSUME TreeInv(heap, root, carry), SplitInternal
    PROVE  TreeInv(heap', root', carry')
<1> DEFINE q == Parent
           p == PromoteIndex
           newChild == carry.right
           t == InsertAt(heap[q].keys, LeftSlot, carry.key)
           u == InsertAt(heap[q].children, LeftSlot + 1, newChild)
           new == Len(heap) + 1
           lower == SubSeq(u, 1, p + 1)
           upper == SubSeq(u, p + 2, Len(u))
           lowKeys == SubSeq(t, 1, p)
           upKeys == SubSeq(t, p + 2, Len(t))
           key == t[p + 1]
           node == Internal(upKeys, upper, heap[q].parent)
           f == [n \in DOMAIN heap |->
                    IF n = q THEN Internal(lowKeys, lower, heap[q].parent)
                    ELSE [heap[n] EXCEPT !.parent = OwnerAfterSplit(n, lower, upper, new)]]
           ks == KeysIn(heap)
           cs == KidsIn(heap)
           ks1 == [ks EXCEPT ![q] = t]
           cs1 == [cs EXCEPT ![q] = u]
           ks2 == KeysIn(heap')
           cs2 == KidsIn(heap')
<1>1. /\ Shaped(heap) /\ Linked(heap, root) /\ Levelled(heap, carry)
      /\ carry # Idle /\ q # Null /\ ~HasRoom(q)
      /\ Hangs(ks, cs, root, carry.left, carry.key, newChild)
      /\ heap' = Append(f, node)
      /\ root' = root /\ carry' = [left |-> q, key |-> key, right |-> new]
  BY DEF TreeInv, SplitInternal, Pending, CarryUp
<1>2. /\ q \in DOMAIN heap /\ newChild \in DOMAIN heap /\ carry.key \in Keys
      /\ carry.left \in DOMAIN heap
      /\ ~heap[q].isLeaf /\ LeftSlot \in DOMAIN heap[q].children
      /\ heap[q].children[LeftSlot] = carry.left
  BY <1>1, ParentIs
<1>3. /\ heap[q] \in Node /\ Sound(heap[q], Len(heap)) /\ Len(heap) \in Nat /\ DOMAIN heap = 1 .. Len(heap)
      /\ heap[q].keys \in Seq(Keys) /\ heap[q].children \in Seq(Nat) /\ Len(heap[q].keys) = MaxKeys
      /\ Len(heap[q].children) = MaxKeys + 1
      /\ DOMAIN heap[q].children = 1 .. MaxKeys + 1
      /\ heap[q].parent \in 0 .. Len(heap) /\ q \in Nat /\ newChild \in Nat
      /\ ks[q] = heap[q].keys /\ cs[q] = heap[q].children
  <2>1. /\ heap[q] \in Node /\ Sound(heap[q], Len(heap)) /\ Len(heap) \in Nat /\ DOMAIN heap = 1 .. Len(heap)
        /\ heap[q].keys \in Seq(Keys) /\ heap[q].children \in Seq(Nat)
        /\ ks[q] = heap[q].keys /\ cs[q] = heap[q].children
    BY <1>1, <1>2, NodesIn
  <2>2. Len(heap[q].keys) \in Nat /\ Len(heap[q].keys) <= MaxKeys
    BY <2>1, LenProperties DEF Sound
  <2>3. Len(heap[q].keys) = MaxKeys
    BY <1>1, <2>2, HalfOfOrder DEF HasRoom
  <2>4. Len(heap[q].children) = MaxKeys + 1
    BY <1>2, <2>1, <2>3 DEF Sound
  <2> QED
    BY <1>2, <2>1, <2>3, <2>4, LenProperties DEF Sound
<1>4. /\ Top(cs, root) /\ Top(cs, newChild) /\ newChild # root /\ Kids(cs) \in Graph
      /\ Tree(ks, cs) /\ Forest(cs) /\ root \in Nat
  <2>1. Top(cs, newChild) /\ newChild # root
    BY <1>1 DEF Hangs
  <2> QED
    BY <1>1, <2>1, HeapIsTree DEF Tree, Top
<1>5. t \in Seq(Keys) /\ Len(t) = ORDER
  <2>1. t \in Seq(Keys) /\ IsInsertion(t, heap[q].keys, LeftSlot, carry.key)
    BY <1>2, <1>3, InsertAtIs
  <2> QED
    BY <1>3, <2>1, HalfOfOrder DEF IsInsertion
<1>6. u \in Seq(Nat) /\ Len(u) = ORDER + 1 /\ Range(u) = Range(heap[q].children) \cup {newChild}
  <2> DEFINE r == LeftSlot + 1
             size == MaxKeys + 1
  <2>1. r \in 1 .. Len(heap[q].children) + 1
    <3>1. size \in Nat /\ LeftSlot \in 1 .. size /\ Len(heap[q].children) = size
      BY <1>2, <1>3, HalfOfOrder
    <3> HIDE DEF size
    <3>2. r \in 1 .. size + 1
      BY <3>1
    <3> QED
      BY <3>1, <3>2
  <2> HIDE DEF r
  <2>2. /\ InsertAt(heap[q].children, r, newChild) \in Seq(Nat)
        /\ IsInsertion(InsertAt(heap[q].children, r, newChild), heap[q].children, r, newChild)
    BY <1>3, <2>1, InsertAtIs
  <2>3. Len(u) = Len(heap[q].children) + 1
    BY <2>2 DEF IsInsertion, r
  <2>4. Len(u) = ORDER + 1
    BY <1>3, <2>3, HalfOfOrder
  <2> QED
    BY <2>2, <2>4 DEF IsInsertion, r
<1>7. p \in Nat /\ 1 <= p /\ p + 2 <= ORDER /\ ORDER \in Nat /\ MaxKeys = ORDER - 1 /\ ORDER <= 2 * p + 1
  BY HalfOfOrder DEF MaxKeys
<1>8. Attaches(ks, cs, q, LeftSlot, carry.key, newChild, ks1, cs1)
  BY <1>3 DEF Attaches
<1>9. /\ Tree(ks1, cs1) /\ Top(cs1, root) /\ Routed(ks1, cs1, root)
      /\ IsAttachment(ks, cs, q, LeftSlot, carry.key, newChild, ks1, cs1)
      /\ q \in Below(cs1, root)
  <2> HIDE DEF ks1, cs1
  <2> QED
    BY <1>1, <1>8, AttachedTree
<1>10. /\ ks1[q] = t /\ cs1[q] = u /\ \A n \in Nat \ {q} : ks1[n] = ks[n] /\ cs1[n] = cs[n]
  <2>1. ks \in [Nat -> Seq(Keys)] /\ cs \in [Nat -> Seq(Nat)]
    BY <1>4 DEF Tree, Fits
  <2> HIDE DEF ks, cs, t, u
  <2> QED
    BY <1>3, <2>1
<1> HIDE DEF q, p, newChild, t, u, ks1, cs1
<1>11. Ascending(t) /\ t \in Seq(Int) /\ \A i, j \in DOMAIN u : u[i] = u[j] => i = j
  <2>1. Ascending(t)
    BY <1>3, <1>9, <1>10 DEF Tree, Fits
  <2>2. t \in Seq(Int)
    BY <1>5, SeqMonotonic, KeysAssumption
  <2>3. \A i, j \in DOMAIN u : u[i] = u[j] => i = j
    BY <1>3, <1>9, <1>10 DEF Tree, Forest
  <2> QED
    BY <2>1, <2>2, <2>3
<1>12. IsHalving(t, p, p + 2)
  <2> DEFINE w == p + 2
  <2>1. w \in {p + 1, p + 2} /\ w <= Len(t) + 1 /\ p + 1 <= Len(t)
    BY <1>5, <1>7
  <2> HIDE DEF w
  <2>2. IsHalving(t, p, w)
    BY <1>5, <1>7, <1>11, <2>1, Halves
  <2> QED
    BY <2>2 DEF w
<1>13. SplitsWays(t, u, p)
  BY <1>5, <1>6, <1>7, <1>11, ChildrenSplit
<1>14. /\ lowKeys \in Seq(Keys) /\ Len(lowKeys) = p /\ Ascending(lowKeys)
       /\ upKeys \in Seq(Keys) /\ Len(upKeys) = ORDER - p - 1 /\ Ascending(upKeys)
       /\ key \in Keys /\ key \in Range(t) /\ t[1] \in Range(t) /\ t[1] < key
       /\ Range(lowKeys) \subseteq {x \in Range(t) : x < key}
       /\ Range(upKeys) \subseteq {x \in Range(t) : key <= x}
  <2>1. Len(t) - (p + 2) + 1 = ORDER - p - 1
    BY <1>5, <1>7
  <2> QED
    BY <1>12, <2>1 DEF IsHalving
<1>15. /\ lower \in Seq(Nat) /\ Len(lower) = p + 1
       /\ upper \in Seq(Nat) /\ Len(upper) = ORDER - p
       /\ Range(u) = Range(lower) \cup Range(upper) /\ Range(lower) \cap Range(upper) = {}
       /\ \A i, j \in DOMAIN lower : lower[i] = lower[j] => i = j
       /\ \A i, j \in DOMAIN upper : upper[i] = upper[j] => i = j
       /\ \A k \in Int : k < key => u[Slot(t, k)] = lower[Slot(lowKeys, k)] /\ u[Slot(t, k)] \in Range(lower)
       /\ \A k \in Int : key <= k => u[Slot(t, k)] = upper[Slot(upKeys, k)] /\ u[Slot(t, k)] \in Range(upper)
  <2>1. Len(u) - p - 1 = ORDER - p
    BY <1>6, <1>7
  <2> QED
    BY <1>13, <2>1 DEF SplitsWays
<1>35. /\ Pairs(lowKeys, lower) \subseteq Pairs(t, u) /\ Pairs(upKeys, upper) \subseteq Pairs(t, u)
       /\ \E d \in Range(upper) : <<key, d>> \in Pairs(t, u)
  <2>1. p + 2 <= Len(t) /\ Len(u) = Len(t) + 1
    BY <1>5, <1>6, <1>7
  <2> QED
    BY <1>5, <1>6, <1>7, <2>1, PairsSplit
<1> HIDE DEF lower, upper, lowKeys, upKeys, key
<1>16. /\ DOMAIN f = DOMAIN heap /\ f = [i \in DOMAIN f |-> f[i]]
       /\ f[q] = Internal(lowKeys, lower, heap[q].parent)
       /\ \A n \in DOMAIN heap \ {q} :
            f[n] = [heap[n] EXCEPT !.parent = OwnerAfterSplit(n, lower, upper, new)]
  BY <1>2
<1> HIDE DEF f
<1>17. /\ f[q] \in Node /\ ~f[q].isLeaf /\ f[q].keys = lowKeys /\ f[q].children = lower
       /\ f[q].parent = heap[q].parent /\ f[q].next = Null
       /\ node \in Node /\ ~node.isLeaf /\ node.keys = upKeys /\ node.children = upper
       /\ node.parent = heap[q].parent /\ node.next = Null
  <2>1. <<>> \in Seq(Values) /\ heap[q].parent \in Nat
    BY <1>3
  <2> QED
    BY <1>14, <1>15, <1>16, <2>1 DEF Node, Internal, Null
<1> HIDE DEF node
<1>18. \A n : OwnerAfterSplit(n, lower, upper, new) =
              IF n \in Range(lower) THEN q ELSE IF n \in Range(upper) THEN new ELSE heap[n].parent
  <2> SUFFICES ASSUME NEW n
               PROVE  OwnerAfterSplit(n, lower, upper, new) =
                        IF n \in Range(lower) THEN q ELSE IF n \in Range(upper) THEN new ELSE heap[n].parent
    OBVIOUS
  <2>1. ~(n \in Range(lower) /\ n \in Range(upper))
    BY <1>15
  <2>2. CASE n \in Range(lower)
    BY <2>1, <2>2 DEF OwnerAfterSplit, q
  <2>3. CASE n \in Range(upper)
    BY <2>1, <2>3 DEF OwnerAfterSplit, q
  <2>4. CASE n \notin Range(lower) /\ n \notin Range(upper)
    BY <2>4 DEF OwnerAfterSplit, q
  <2> QED
    BY <2>2, <2>3, <2>4
<1>19. new \in Nat \ DOMAIN heap /\ Top(cs, new) /\ cs[new] = <<>> /\ ks[new] = <<>>
       /\ DOMAIN heap \in SUBSET Nat /\ root \in DOMAIN heap /\ new # root /\ new # q
  BY <1>1, <1>2, FreshNode, NodesIn DEF Linked
<1>20. ASSUME NEW n \in DOMAIN heap, n # q
       PROVE  /\ f[n] \in Node /\ f[n].keys = heap[n].keys /\ f[n].children = heap[n].children
              /\ f[n].isLeaf = heap[n].isLeaf /\ f[n].values = heap[n].values /\ f[n].next = heap[n].next
              /\ f[n].parent = IF n \in Range(lower) THEN q ELSE IF n \in Range(upper) THEN new ELSE heap[n].parent
              /\ Sound(f[n], Len(heap) + 1)
  <2> DEFINE o == OwnerAfterSplit(n, lower, upper, new)
  <2>1. heap[n] \in Node /\ heap[n].parent \in 0 .. Len(heap) /\ Sound(heap[n], Len(heap) + 1)
    BY <1>1, <1>3, SoundGrows, NodesIn DEF Shaped, Sound
  <2>2. o = IF n \in Range(lower) THEN q ELSE IF n \in Range(upper) THEN new ELSE heap[n].parent
    BY <1>18
  <2>3. o \in 0 .. Len(heap) + 1 /\ o \in Nat
    <3>1. q \in 0 .. Len(heap) + 1 /\ new \in 0 .. Len(heap) + 1 /\ heap[n].parent \in 0 .. Len(heap) + 1
      <4>1. \A x \in DOMAIN heap : x \in 0 .. Len(heap) + 1
        BY <1>3
      <4>2. q \in 0 .. Len(heap) + 1
        BY <1>2, <4>1
      <4>3. new \in 0 .. Len(heap) + 1
        BY <1>3
      <4>4. heap[n].parent \in 0 .. Len(heap) + 1
        BY <1>3, <2>1
      <4> QED
        BY <4>2, <4>3, <4>4
    <3>2. o \in 0 .. Len(heap) + 1
      BY <2>2, <3>1
    <3> QED
      BY <3>2
  <2>4. f[n] = [heap[n] EXCEPT !.parent = o]
    BY <1>16, <1>20
  <2> HIDE DEF o, new
  <2>5. /\ f[n] \in Node /\ f[n].keys = heap[n].keys /\ f[n].children = heap[n].children
        /\ f[n].isLeaf = heap[n].isLeaf /\ f[n].values = heap[n].values /\ f[n].next = heap[n].next
        /\ f[n].parent = o
    BY <2>1, <2>3, <2>4 DEF Node
  <2>6. Sound(f[n], Len(heap) + 1)
    BY <2>1, <2>3, <2>5 DEF Sound
  <2> QED
    BY <2>2, <2>5, <2>6
<1>21. \A x \in Range(u) : x \in DOMAIN heap /\ x # q
  <2>1. Range(heap[q].children) \subseteq DOMAIN heap
    BY <1>1, <1>2, NodesIn
  <2>2. newChild # q
    <3>1. newChild \in Below(cs, newChild) /\ q \in Below(cs, root)
      BY <1>1, <1>3, <1>4, ParentIs, ReachBasics DEF Below, q
    <3> QED
      BY <1>4, <3>1, TreesAreApart
  <2>3. q \notin Range(heap[q].children)
    <3>1. Kids(cs)[q] = Range(heap[q].children)
      BY <1>3 DEF Kids
    <3>2. q \in Below(cs, q)
      BY <1>3, <1>4, ReachBasics DEF Below
    <3> QED
      BY <1>3, <1>4, <3>1, <3>2, NotBelowChild DEF Tree
  <2> QED
    BY <1>2, <1>6, <2>1, <2>2, <2>3
<1>22. Sound(f[q], Len(heap) + 1) /\ Sound(node, Len(heap) + 1)
  <2>1. Range(lower) \subseteq 1 .. Len(heap) + 1 /\ Range(upper) \subseteq 1 .. Len(heap) + 1
    <3>1. \A x \in Range(u) : x \in 1 .. Len(heap) + 1
      BY <1>3, <1>21
    <3> QED
      BY <1>15, <3>1
  <2>2. heap[q].parent \in 0 .. Len(heap) + 1 /\ Null \in 0 .. Len(heap) + 1
    BY <1>3 DEF Null
  <2>3. /\ Len(lowKeys) <= MaxKeys /\ Len(upKeys) <= MaxKeys
        /\ Len(lower) = Len(lowKeys) + 1 /\ Len(upper) = Len(upKeys) + 1
    BY <1>7, <1>14, <1>15
  <2> QED
    BY <1>14, <1>17, <2>1, <2>2, <2>3 DEF Sound
<1>23. /\ Shaped(heap') /\ Len(heap') = new
       /\ DOMAIN heap' = DOMAIN heap \cup {new} /\ heap'[new] = node
       /\ \A n \in DOMAIN heap : heap'[n] = f[n]
  <2>1. \A n \in DOMAIN heap : Sound(f[n], Len(heap) + 1)
    BY <1>20, <1>22
  <2> QED
    BY <1>1, <1>16, <1>22, <2>1, HeapGrows
<1> HIDE DEF new
<1>24. /\ ks2[q] = lowKeys /\ cs2[q] = lower /\ ks2[new] = upKeys /\ cs2[new] = upper
       /\ \A n \in Nat \ {q, new} : ks2[n] = ks[n] /\ cs2[n] = cs[n]
  <2>1. ks2[q] = lowKeys /\ cs2[q] = lower
    BY <1>2, <1>3, <1>17, <1>23 DEF KeysIn, KidsIn
  <2>2. ks2[new] = upKeys /\ cs2[new] = upper
    BY <1>17, <1>19, <1>23 DEF KeysIn, KidsIn
  <2>3. \A n \in Nat \ {q, new} : ks2[n] = ks[n] /\ cs2[n] = cs[n]
    BY <1>20, <1>23 DEF KeysIn, KidsIn
  <2> QED
    BY <2>1, <2>2, <2>3
<1>25. \A n \in DOMAIN heap : \A x \in Range(heap[n].children) :
         x \in DOMAIN heap /\ heap[x].parent = n /\ x # newChild /\ x \in Kids(cs)[n] /\ n \in Nat
  <2> SUFFICES ASSUME NEW n \in DOMAIN heap, NEW x \in Range(heap[n].children)
               PROVE  x \in DOMAIN heap /\ heap[x].parent = n /\ x # newChild /\ x \in Kids(cs)[n] /\ n \in Nat
    OBVIOUS
  <2>1. n \in Nat /\ cs[n] = heap[n].children /\ x \in DOMAIN heap
    BY <1>1, NodesIn
  <2>2. PICK i \in DOMAIN heap[n].children : x = heap[n].children[i]
    BY DEF Range
  <2>3. x \in Kids(cs)[n]
    BY <2>1 DEF Kids
  <2> QED
    BY <1>1, <1>4, <2>1, <2>2, <2>3 DEF Linked, Top
<1>26. Forest(cs2)
  <2>1. /\ Kids(cs2)[q] = Range(lower) /\ Kids(cs2)[new] = Range(upper)
        /\ \A n \in Nat \ {q, new} : Kids(cs2)[n] = Kids(cs1)[n]
        /\ Kids(cs1)[q] = Range(u)
    BY <1>3, <1>10, <1>19, <1>24 DEF Kids
  <2>2. \A x, y \in Nat : x # y => Kids(cs1)[x] \cap Kids(cs1)[y] = {}
    BY <1>9, OneParent DEF Tree
  <2>3. \A x, y \in Nat : x # y => Kids(cs2)[x] \cap Kids(cs2)[y] = {}
    <3> SUFFICES ASSUME NEW x \in Nat, NEW y \in Nat, NEW c \in Kids(cs2)[x], c \in Kids(cs2)[y], x # y
                 PROVE  FALSE
      OBVIOUS
    <3> DEFINE from(n) == IF n = new THEN q ELSE n
    <3>1. \A n \in Nat : c \in Kids(cs2)[n] => c \in Kids(cs1)[from(n)] /\ from(n) \in Nat
      BY <1>3, <1>15, <2>1
    <3>2. from(x) = from(y)
      BY <2>2, <3>1
    <3>3. {x, y} = {q, new}
      BY <3>2
    <3>4. c \in Range(lower) /\ c \in Range(upper)
      BY <2>1, <3>3
    <3> QED
      BY <1>15, <3>4
  <2>4. ASSUME NEW n \in Nat, NEW i \in DOMAIN cs2[n], NEW j \in DOMAIN cs2[n], cs2[n][i] = cs2[n][j]
        PROVE  i = j
    <3>1. CASE n = q
      BY <1>15, <1>24, <2>4, <3>1
    <3>2. CASE n = new
      BY <1>15, <1>24, <2>4, <3>2
    <3>3. CASE n # q /\ n # new
      BY <1>4, <1>24, <2>4, <3>3 DEF Forest
    <3> QED
      BY <3>1, <3>2, <3>3
  <2>5. \A n \in Nat : \A i, j \in DOMAIN cs2[n] : cs2[n][i] = cs2[n][j] => i = j
    BY <2>4
  <2> HIDE DEF cs2
  <2> QED
    BY <2>3, <2>5, ForestIs
<1>27. /\ heap'[q].children = lower /\ heap'[new].children = upper
       /\ ~heap'[q].isLeaf /\ ~heap'[new].isLeaf
       /\ heap'[q].parent = heap[q].parent /\ heap'[new].parent = heap[q].parent
       /\ \A n \in DOMAIN heap \ {q} :
            /\ heap'[n].children = heap[n].children /\ heap'[n].isLeaf = heap[n].isLeaf
            /\ heap'[n].parent = IF n \in Range(lower) THEN q
                                 ELSE IF n \in Range(upper) THEN new ELSE heap[n].parent
  BY <1>2, <1>17, <1>20, <1>23
<1>28. \A n \in DOMAIN heap \ {q} : \A x \in Range(heap[n].children) : x \notin Range(u)
  <2> SUFFICES ASSUME NEW n \in DOMAIN heap, n # q, NEW x \in Range(heap[n].children), x \in Range(u)
               PROVE  FALSE
    OBVIOUS
  <2>1. x # newChild /\ heap[x].parent = n
    BY <1>25
  <2>2. x \in Range(heap[q].children)
    BY <1>6, <2>1
  <2> QED
    BY <1>2, <1>25, <2>1, <2>2
<1>29. Linked(heap', root)
  <2>1. root \in DOMAIN heap' /\ heap'[root].parent = Null
    <3>1. root \notin Range(u)
      <4>1. root \notin Range(heap[q].children)
        BY <1>2, <1>4, <1>25 DEF Top
      <4> QED
        BY <1>4, <1>6, <4>1
    <3>2. root \notin Range(lower) /\ root \notin Range(upper)
      BY <1>15, <3>1
    <3> QED
      BY <1>1, <1>19, <1>23, <1>27, <3>2 DEF Linked
  <2>2. ASSUME NEW n \in DOMAIN heap', NEW x \in Range(heap'[n].children) PROVE heap'[x].parent = n
    <3>1. CASE n = q
      <4>1. x \in Range(lower) /\ x \in DOMAIN heap /\ x # q
        BY <1>15, <1>21, <1>27, <2>2, <3>1
      <4> QED
        BY <1>27, <3>1, <4>1
    <3>2. CASE n = new
      <4>1. x \in Range(upper) /\ x \in DOMAIN heap /\ x # q /\ x \notin Range(lower)
        BY <1>15, <1>21, <1>27, <2>2, <3>2
      <4> QED
        BY <1>27, <3>2, <4>1
    <3>3. CASE n # q /\ n # new
      <4>1. n \in DOMAIN heap /\ x \in Range(heap[n].children)
        BY <1>23, <1>27, <2>2, <3>3
      <4>2. x \notin Range(lower) /\ x \notin Range(upper)
        BY <1>15, <1>28, <3>3, <4>1
      <4>3. x \in DOMAIN heap /\ heap[x].parent = n
        BY <1>25, <4>1
      <4> QED
        BY <1>27, <4>2, <4>3
    <3> QED
      BY <3>1, <3>2, <3>3
  <2> QED
    BY <1>19, <1>23, <1>26, <2>1, <2>2, LinkedIs
<1>30. Levelled(heap', carry')
  <2>1. PICK level \in [Nat -> Nat] : Levels(heap, carry, level)
    BY <1>1 DEF Levelled
  <2> DEFINE level2 == [level EXCEPT ![new] = level[q]]
  <2>2. level2 \in [Nat -> Nat] /\ level2[new] = level[q] /\ level2[q] = level[q]
        /\ \A n \in DOMAIN heap : level2[n] = level[n]
    <3>1. level[q] \in Nat
      BY <1>3
    <3>2. level2 \in [Nat -> Nat] /\ level2[new] = level[q] /\ \A n \in Nat : n # new => level2[n] = level[n]
      BY <1>19, <3>1
    <3> HIDE DEF level2
    <3>3. \A n \in DOMAIN heap : n \in Nat /\ n # new
      BY <1>19
    <3> QED
      BY <1>2, <3>2, <3>3
  <2> HIDE DEF level2
  <2>3. \A x \in Range(u) : level[q] = level[x] + 1
    <3>1. level[newChild] = level[carry.left] /\ carry.left \in Range(heap[q].children)
      BY <1>1, <1>2, <2>1 DEF Levels, Range, newChild
    <3> QED
      BY <1>2, <1>6, <2>1, <3>1 DEF Levels
  <2>4. ASSUME NEW n \in DOMAIN heap', NEW x \in Range(heap'[n].children) PROVE level2[n] = level2[x] + 1
    <3>1. CASE n \in {q, new}
      <4>1. x \in Range(u)
        BY <1>15, <1>27, <2>4, <3>1
      <4>2. x \in DOMAIN heap
        BY <1>21, <4>1
      <4> QED
        BY <2>2, <2>3, <3>1, <4>1, <4>2
    <3>2. CASE n \notin {q, new}
      <4>1. n \in DOMAIN heap /\ x \in Range(heap[n].children)
        BY <1>23, <1>27, <2>4, <3>2
      <4>2. x \in DOMAIN heap
        BY <1>25, <4>1
      <4> QED
        BY <2>1, <2>2, <4>1, <4>2 DEF Levels
    <3> QED
      BY <3>1, <3>2
  <2>5. \A n \in DOMAIN heap' : heap'[n].isLeaf => level2[n] = 0
    BY <1>23, <1>27, <2>1, <2>2 DEF Levels
  <2>6. level2[carry'.left] = level2[carry'.right]
    BY <1>1, <2>2
  <2> QED
    BY <2>2, <2>4, <2>5, <2>6 DEF Levels, Levelled
<1>31. Fits(ks2, cs2)
  BY <1>23, <1>29, <1>30, HeapIsTree DEF Tree
<1>32. Top(cs1, new) /\ cs1[new] = <<>>
  <2>1. \A n \in Nat : new \notin Kids(cs1)[n]
    <3> SUFFICES ASSUME NEW n \in Nat, new \in Kids(cs1)[n] PROVE FALSE
      OBVIOUS
    <3>1. CASE n = q
      <4>1. new \in Range(u)
        BY <1>3, <1>10, <3>1 DEF Kids
      <4> QED
        BY <1>19, <1>21, <4>1
    <3>2. CASE n # q
      <4>1. new \in Kids(cs)[n]
        BY <1>10, <3>2 DEF Kids
      <4> QED
        BY <1>19, <4>1 DEF Top
    <3> QED
      BY <3>1, <3>2
  <2> QED
    BY <1>10, <1>19, <2>1 DEF Top
<1>33. /\ Routed(ks2, cs2, root) /\ Top(cs2, root)
       /\ Hangs(ks2, cs2, root, q, key, new)
       /\ Separates(ks2, cs2) /\ key \in LeafKeys(ks2, cs2, new)
  <2> DEFINE low == t[1]
  <2> HIDE DEF ks, cs, ks2, cs2
  <2>1. /\ key \in Range(ks1[q]) /\ low \in Range(ks1[q]) /\ low < key
        /\ Range(ks2[q]) \subseteq {x \in Range(ks1[q]) : x < key}
        /\ Range(ks2[new]) \subseteq {x \in Range(ks1[q]) : key <= x}
    BY <1>10, <1>14, <1>24
  <2>2. \A n \in Nat \ {q, new} : ks2[n] = ks1[n] /\ cs2[n] = cs1[n]
    BY <1>10, <1>24
  <2>3. /\ Kids(cs1)[q] = Kids(cs2)[q] \cup Kids(cs2)[new]
        /\ Kids(cs2)[q] = Range(lower) /\ Kids(cs2)[new] = Range(upper)
    BY <1>3, <1>10, <1>15, <1>19, <1>24 DEF Kids
  <2>4. lower # <<>> /\ upper # <<>> /\ u # <<>>
    <3>1. Len(lower) # 0 /\ Len(upper) # 0 /\ Len(u) # 0
      BY <1>6, <1>7, <1>15
    <3>2. Len(<<>>) = 0
      OBVIOUS
    <3> QED
      BY <3>1, <3>2
  <2>5. \A x \in Int : /\ Way(ks1, cs1, x)[q] = {u[Slot(t, x)]}
                       /\ Way(ks2, cs2, x)[q] = {lower[Slot(lowKeys, x)]}
                       /\ Way(ks2, cs2, x)[new] = {upper[Slot(upKeys, x)]}
    BY <1>3, <1>10, <1>19, <1>24, <2>4 DEF Way
  <2>6. \A x \in Int : x < key => /\ Way(ks2, cs2, x)[q] = Way(ks1, cs1, x)[q]
                                  /\ Way(ks1, cs1, x)[q] \cap Kids(cs2)[new] = {}
    <3> SUFFICES ASSUME NEW x \in Int, x < key
                 PROVE  /\ Way(ks2, cs2, x)[q] = Way(ks1, cs1, x)[q]
                        /\ Way(ks1, cs1, x)[q] \cap Kids(cs2)[new] = {}
      OBVIOUS
    <3>1. u[Slot(t, x)] = lower[Slot(lowKeys, x)] /\ u[Slot(t, x)] \in Range(lower)
      BY <1>15
    <3>2. Way(ks2, cs2, x)[q] = {lower[Slot(lowKeys, x)]} /\ Way(ks1, cs1, x)[q] = {u[Slot(t, x)]}
      BY <2>5
    <3>3. Kids(cs2)[new] = Range(upper) /\ Range(lower) \cap Range(upper) = {}
      BY <1>15, <2>3
    <3> QED
      BY ONLY <3>1, <3>2, <3>3
  <2>7. \A x \in Int : key <= x => /\ Way(ks2, cs2, x)[new] = Way(ks1, cs1, x)[q]
                                   /\ Way(ks1, cs1, x)[q] \cap Kids(cs2)[q] = {}
    <3> SUFFICES ASSUME NEW x \in Int, key <= x
                 PROVE  /\ Way(ks2, cs2, x)[new] = Way(ks1, cs1, x)[q]
                        /\ Way(ks1, cs1, x)[q] \cap Kids(cs2)[q] = {}
      OBVIOUS
    <3>1. u[Slot(t, x)] = upper[Slot(upKeys, x)] /\ u[Slot(t, x)] \in Range(upper)
      BY <1>15
    <3>2. Way(ks2, cs2, x)[new] = {upper[Slot(upKeys, x)]} /\ Way(ks1, cs1, x)[q] = {u[Slot(t, x)]}
      BY <2>5
    <3>3. Kids(cs2)[q] = Range(lower) /\ Range(lower) \cap Range(upper) = {}
      BY <1>15, <2>3
    <3> QED
      BY ONLY <3>1, <3>2, <3>3
  <2> HIDE DEF low
  <2>8. Separates(ks1, cs1)
    <3>1. Separates(ks, cs) /\ carry.key \in LeafKeys(ks, cs, newChild)
      BY <1>1 DEF TreeInv, Separated, ks, cs, newChild
    <3>2. LeftSlot \in DOMAIN cs[q]
      BY <1>2, <1>3
    <3> QED
      BY <1>2, <1>3, <1>4, <1>8, <1>9, <3>1, <3>2, AttachSeparates DEF Tree
  <2>9. /\ cs1[q] # <<>>
        /\ Pairs(ks2[q], cs2[q]) \subseteq Pairs(ks1[q], cs1[q])
        /\ Pairs(ks2[new], cs2[new]) \subseteq Pairs(ks1[q], cs1[q])
        /\ \E d \in Kids(cs2)[new] : <<key, d>> \in Pairs(ks1[q], cs1[q])
    BY <1>10, <1>24, <1>35, <2>3, <2>4
  <2>10. \A x \in Int : x < key => Way(ks1, cs1, x)[q] \cap Kids(cs2)[new] = {}
    BY <2>6
  <2>11. Separates(ks2, cs2) /\ key \in LeafKeys(ks2, cs2, new)
    BY <1>9, <1>19, <1>31, <1>32, <2>1, <2>2, <2>3, <2>8, <2>9, <2>10, SplitSeparates
  <2>12. Routed(ks2, cs2, root) /\ Top(cs2, root) /\ Hangs(ks2, cs2, root, q, key, new)
    BY <1>9, <1>19, <1>26, <1>31, <1>32, <2>1, <2>2, <2>3, <2>6, <2>7, SplitKeepsRoutes
  <2> QED
    BY <2>11, <2>12
<1>34. Pending(heap', root, carry')
  <2>1. carry' \in [left : DOMAIN heap', key : Keys, right : DOMAIN heap']
    BY <1>1, <1>2, <1>14, <1>23
  <2>2. carry'.left = q /\ carry'.right = new /\ carry'.key = key
    BY <1>1
  <2>3. heap'[new].parent = heap'[q].parent
    BY <1>27
  <2>4. q \in Below(cs2, root)
    <3>1. q \in Path(ks2, cs2, root, key) /\ key \in Int
      BY <1>33 DEF Hangs
    <3> QED
      BY <1>4, <1>31, <3>1, PathIsBelow
  <2> QED
    BY <1>33, <2>1, <2>2, <2>3, <2>4 DEF Pending
<1>36. Filled(heap', root, carry')
  <2>1. Filled(heap, root, carry)
    BY DEF TreeInv
  <2>2. Half(f[q]) /\ Half(node)
    <3>1. p = LeafSplitIndex
      BY DEF p, PromoteIndex, LeafSplitIndex
    <3>2. p >= ORDER - p - 1 /\ ORDER - p - 1 >= ORDER - p - 1
      BY <1>7
    <3> QED
      BY <1>14, <1>17, <3>1, <3>2 DEF Half
  <2>3. ASSUME NEW n \in DOMAIN heap, n # q, n # root PROVE Half(f[n])
    <3>1. Half(heap[n])
      BY <2>1, <2>3 DEF Filled
    <3> QED
      BY <1>20, <2>3, <3>1 DEF Half
  <2>4. \A n \in DOMAIN heap' \ {root} : Half(heap'[n])
    BY <1>23, <2>2, <2>3
  <2>5. Half(heap'[carry'.left])
    BY <1>1, <1>2, <1>23, <2>2
  <2> QED
    BY <2>4, <2>5 DEF Filled
<1>37. Separated(heap', carry')
  <2>1. carry'.right = new /\ carry'.key = key
    BY <1>1
  <2> QED
    BY <1>33, <2>1 DEF Separated, ks2, cs2
<1> QED
  BY <1>1, <1>23, <1>29, <1>30, <1>33, <1>34, <1>36, <1>37 DEF TreeInv, InOrder

(***************************************************************************)
(* The tree stays a tree.                                                  *)
(***************************************************************************)
LEMMA InitInv == Init => Inv
<1> SUFFICES ASSUME Init PROVE Inv
  OBVIOUS
<1> DEFINE node == Leaf(<<>>, <<>>, Null, Null)
<1>1. heap = <<node>> /\ root = 1 /\ carry = Idle /\ ret = 0 /\ failures = 0
  BY DEF Init, FirstLeaf
<1>2. /\ node \in Node /\ node.isLeaf /\ node.keys = <<>> /\ node.values = <<>>
      /\ node.children = <<>> /\ node.parent = Null /\ node.next = Null
  <2>1. <<>> \in Seq(Keys) /\ <<>> \in Seq(Values) /\ <<>> \in Seq(Nat) /\ Null \in Nat
    BY DEF Null
  <2> QED
    BY <2>1 DEF Leaf, Node
<1> HIDE DEF node
<1>3. Len(heap) = 1 /\ DOMAIN heap = {1} /\ heap[1] = node /\ heap \in Seq(Node)
  BY <1>1, <1>2
<1>4. Range(<<>>) = {} /\ Ascending(<<>>) /\ Len(<<>>) = 0
  BY DEF Range, Ascending
<1>5. Shaped(heap)
  <2>1. Sound(node, 1)
    BY <1>2, <1>4, HalfOfOrder DEF Sound, Null
  <2> QED
    BY <1>3, <2>1 DEF Shaped
<1>6. Linked(heap, root)
  BY <1>1, <1>2, <1>3 DEF Linked
<1>7. Levelled(heap, carry)
  <2> DEFINE level == [n \in Nat |-> 0]
  <2>1. Levels(heap, carry, level)
    BY <1>1, <1>2, <1>3, <1>4 DEF Levels
  <2> QED
    BY <2>1 DEF Levelled, Levels
<1>8. InOrder(heap, root)
  <2> DEFINE ks == KeysIn(heap)
             cs == KidsIn(heap)
  <2>1. Below(cs, root) \subseteq {1}
    BY <1>3, <1>5, <1>6, <1>7, HeapIsTree
  <2>2. ks[1] = <<>>
    BY <1>2, <1>3, <1>5, NodesIn
  <2> QED
    BY <1>4, <2>1, <2>2 DEF InOrder, Routed
<1>9. Pending(heap, root, carry)
  BY <1>1 DEF Pending
<1>10. Filled(heap, root, carry)
  BY <1>1, <1>3 DEF Filled
<1>11. Separated(heap, carry)
  <2>1. \A n \in Nat : KidsIn(heap)[n] = <<>>
    BY <1>2, <1>3 DEF KidsIn
  <2> QED
    BY <1>1, <2>1 DEF Separated, Separates
<1> QED
  BY <1>1, <1>5, <1>6, <1>7, <1>8, <1>9, <1>10, <1>11, FailuresAssumption DEF Inv, TreeInv

\* Giving up a climb leaves a tree.
LEMMA DroppedCarryKeeps ==
    ASSUME NEW h, NEW r, NEW c, TreeInv(h, r, c)
    PROVE  TreeInv(h, r, Idle)
<1>1. PICK level \in [Nat -> Nat] : Levels(h, c, level)
  BY DEF TreeInv, Levelled
<1>2. Levels(h, Idle, level)
  BY <1>1 DEF Levels
<1> QED
  BY <1>2 DEF TreeInv, Pending, Levelled, Filled, Separated

LEMMA StepKeepsInv ==
    ASSUME Inv, [Next]_vars
    PROVE  Inv'
<1>1. TreeInv(heap, root, carry) /\ ret \in {-1, 0, 1} /\ failures \in 0 .. MaxFailures
  BY DEF Inv
<1>2. ASSUME NEW k \in Keys, NEW v \in Values, InsertIntoLeaf(k, v)
      PROVE  Inv'
  <2>1. TreeInv(heap', root', carry')
    BY <1>1, <1>2, InsertIntoLeafKeeps
  <2> QED
    BY <1>1, <1>2, <2>1 DEF Inv, InsertIntoLeaf
<1>3. ASSUME NEW k \in Keys, NEW v \in Values, OverwriteValue(k, v)
      PROVE  Inv'
  <2>1. TreeInv(heap', root', carry')
    BY <1>1, <1>3, OverwriteKeeps
  <2> QED
    BY <1>1, <1>3, <2>1 DEF Inv, OverwriteValue
<1>4. ASSUME NEW k \in Keys, NEW v \in Values, SplitLeaf(k, v)
      PROVE  Inv'
  <2>1. TreeInv(heap', root', carry')
    BY <1>1, <1>4, SplitLeafKeeps
  <2> QED
    BY <1>1, <1>4, <2>1 DEF Inv, SplitLeaf
<1>5. ASSUME NEW k \in Keys, RefuseDuplicate(k)
      PROVE  Inv'
  BY <1>1, <1>5 DEF Inv, RefuseDuplicate
<1>6. ASSUME AllocFails
      PROVE  ret' \in {-1, 0, 1} /\ failures' \in 0 .. MaxFailures
  BY <1>1, <1>6, FailuresAssumption DEF AllocFails
<1>7. ASSUME NEW k \in Keys, LeafAllocFails(k)
      PROVE  Inv'
  BY <1>1, <1>6, <1>7 DEF Inv, LeafAllocFails
<1>8. CASE CreateNewRoot
  <2>1. TreeInv(heap', root', carry')
    BY <1>1, <1>8, CreateNewRootKeeps
  <2> QED
    BY <1>1, <1>8, <2>1 DEF Inv, CreateNewRoot
<1>9. CASE InsertIntoInternal
  <2>1. TreeInv(heap', root', carry')
    BY <1>1, <1>9, InsertIntoInternalKeeps
  <2> QED
    BY <1>1, <1>9, <2>1 DEF Inv, InsertIntoInternal
<1>10. CASE SplitInternal
  <2>1. TreeInv(heap', root', carry')
    BY <1>1, <1>10, SplitInternalKeeps
  <2> QED
    BY <1>1, <1>10, <2>1 DEF Inv, SplitInternal
<1>11. CASE ParentAllocFails
  <2>1. TreeInv(heap, root, Idle)
    BY <1>1, DroppedCarryKeeps
  <2> QED
    BY <1>6, <1>11, <2>1 DEF Inv, ParentAllocFails
<1>12. CASE UNCHANGED vars
  BY <1>1, <1>12 DEF Inv, vars
<1> QED
  BY <1>2, <1>3, <1>4, <1>5, <1>7, <1>8, <1>9, <1>10, <1>11, <1>12 DEF Next, Climb

\* In every state of every run the allocated nodes are well-formed, each linked
\* to its parent, all leaves at one level, and bptree_find_leaf comes to every
\* node below the root that has the key; a pending insert carries two trees
\* that fit side by side.  The inductive invariant of what follows.
THEOREM TreeInvariant == Spec => []Inv
<1>1. Init => Inv
  BY InitInv
<1>2. Inv /\ [Next]_vars => Inv'
  BY StepKeepsInv
<1> QED
  BY <1>1, <1>2, PTL DEF Spec

(***************************************************************************)
(* The properties.                                                         *)
(***************************************************************************)
LEMMA TypesHold == Inv => TypeOK
<1> SUFFICES ASSUME Inv PROVE TypeOK
  OBVIOUS
<1>1. /\ Shaped(heap) /\ Linked(heap, root) /\ Pending(heap, root, carry)
      /\ ret \in {-1, 0, 1} /\ failures \in 0 .. MaxFailures
  BY DEF Inv, TreeInv
<1>2. root \in DOMAIN heap /\ DOMAIN heap = 1 .. Len(heap) /\ Len(heap) \in Nat
  BY <1>1, NodesIn DEF Linked
<1>3. ASSUME NEW n \in DOMAIN heap
      PROVE  NodeShape(n)
  <2>1. /\ heap[n] \in Node /\ Sound(heap[n], Len(heap))
        /\ heap[n].children \in Seq(Nat) /\ Range(heap[n].children) \subseteq DOMAIN heap
    BY <1>1, NodesIn
  <2>2. heap[n].children \in Seq(DOMAIN heap)
    <3>1. /\ heap[n].children = [i \in 1 .. Len(heap[n].children) |-> heap[n].children[i]]
          /\ Len(heap[n].children) \in Nat /\ DOMAIN heap[n].children = 1 .. Len(heap[n].children)
      BY <2>1, LenProperties
    <3>2. \A i \in 1 .. Len(heap[n].children) : heap[n].children[i] \in DOMAIN heap
      BY <2>1, <3>1 DEF Range
    <3> QED
      BY <3>1, <3>2, SeqDef
  <2>3. DOMAIN heap[n] = {"isLeaf", "keys", "values", "children", "parent", "next"}
    BY <2>1 DEF Node
  <2>4. heap[n].isLeaf \in BOOLEAN /\ heap[n].keys \in Seq(Keys) /\ heap[n].values \in Seq(Values)
    BY <2>1 DEF Node
  <2> QED
    BY <2>1, <2>2, <2>3, <2>4 DEF NodeShape, Sound, Ptr
<1>4. carry = Idle \/ carry \in [left : DOMAIN heap, key : Keys, right : DOMAIN heap]
  BY <1>1 DEF Pending
<1> QED
  BY <1>1, <1>2, <1>3, <1>4 DEF TypeOK

\* Nodes are what the heap holds, and no C array of a node ever holds more than
\* its MAX_KEYS keys or MAX_CHILDREN children: the loops of
\* bptree_insert_into_leaf and bptree_insert_into_internal write one entry past
\* key_count, which is inside the array because a full node is split instead.
THEOREM TreeTypes == Spec => []TypeOK
BY TreeInvariant, TypesHold, PTL

\* The recursion over the nodes below is what Below says.
LEMMA NodesBelowIs ==
    ASSUME TreeInv(heap, root, carry), NEW m \in DOMAIN heap
    PROVE  NodesBelow[m] = Below(KidsIn(heap), m)
<1> DEFINE cs == KidsIn(heap)
           E == Kids(cs)
           kids(n) == Range(heap[n].children)
           equation(f) == [n \in DOMAIN heap |-> {n} \cup UNION {f[c] : c \in kids(n)}]
           below[n \in DOMAIN heap] == {n} \cup UNION {below[c] : c \in Range(heap[n].children)}
           w == [n \in DOMAIN heap |-> Reach(E, n)]
<1>1. /\ Shaped(heap) /\ DOMAIN heap \in SUBSET Nat /\ E \in Graph
      /\ \A n \in DOMAIN heap : E[n] = kids(n) /\ kids(n) \subseteq DOMAIN heap
  <2>1. Shaped(heap) /\ Linked(heap, root) /\ Levelled(heap, carry)
    BY DEF TreeInv
  <2>2. E \in Graph
    BY <2>1, HeapIsTree
  <2> QED
    BY <2>1, <2>2, NodesIn DEF Kids
<1> HIDE DEF E, kids
<1>2. \A n \in DOMAIN heap : w[n] = {n} \cup UNION {w[c] : c \in kids(n)}
  <2> SUFFICES ASSUME NEW n \in DOMAIN heap
               PROVE  w[n] = {n} \cup UNION {w[c] : c \in kids(n)}
    OBVIOUS
  <2>1. Reach(E, n) = {n} \cup UNION {Reach(E, c) : c \in E[n]}
    BY <1>1, ReachFirst
  <2>2. w[n] = Reach(E, n) /\ E[n] = kids(n) /\ \A c \in kids(n) : w[c] = Reach(E, c)
    BY <1>1
  <2> HIDE DEF w
  <2>3. {Reach(E, c) : c \in E[n]} = {w[c] : c \in kids(n)}
    BY <2>2
  <2> QED
    BY <2>1, <2>2, <2>3
<1>3. \E f : f = equation(f)
  <2>0. w = [n \in DOMAIN heap |-> w[n]]
    OBVIOUS
  <2> HIDE DEF w
  <2>1. w = equation(w)
    BY <1>2, <2>0
  <2> QED
    BY <2>1
<1>4. NodesBelow = below
  BY DEF NodesBelow
<1>5. below = CHOOSE f : f = equation(f)
  BY DEF kids
<1> HIDE DEF below
<1>6. below = equation(below)
  <2> HIDE DEF equation
  <2> QED
    BY Zenon, <1>3, <1>5
<1> DEFINE B == {n \in DOMAIN heap : below[n] # w[n]}
<1>7. B = {}
  <2> SUFFICES ASSUME B # {} PROVE FALSE
    OBVIOUS
  <2>1. PICK level \in [Nat -> Nat] : Levels(heap, carry, level)
    BY DEF TreeInv, Levelled
  <2>2. B \in SUBSET Nat
    BY <1>1
  <2> HIDE DEF B
  <2>3. PICK n \in B : \A x \in B : level[n] <= level[x]
    BY <2>2, LeastLevel
  <2>4. n \in DOMAIN heap /\ below[n] # w[n]
    BY <2>3 DEF B
  <2>5. \A c \in kids(n) : below[c] = w[c]
    <3> SUFFICES ASSUME NEW c \in kids(n), below[c] # w[c] PROVE FALSE
      OBVIOUS
    <3>1. c \in B
      BY <1>1, <2>4 DEF B
    <3>2. level[n] = level[c] + 1 /\ level[c] \in Nat
      BY <1>1, <2>1, <2>2, <2>4, <3>1 DEF Levels, kids
    <3> QED
      BY <2>3, <3>1, <3>2
  <2>6. below[n] = {n} \cup UNION {below[c] : c \in kids(n)}
    BY <1>6, <2>4
  <2>7. {below[c] : c \in kids(n)} = {w[c] : c \in kids(n)}
    BY <2>5
  <2> HIDE DEF w
  <2> QED
    BY <1>2, <2>4, <2>6, <2>7
<1> QED
  BY <1>4, <1>7 DEF Below, E

LEMMA ReachableIs ==
    ASSUME TreeInv(heap, root, carry)
    PROVE  Reachable = Below(KidsIn(heap), root) /\ Reachable \subseteq DOMAIN heap
<1>1. /\ Shaped(heap) /\ Linked(heap, root) /\ Levelled(heap, carry) /\ root \in DOMAIN heap
  BY DEF TreeInv, Linked
<1>2. Reachable = Below(KidsIn(heap), root)
  BY <1>1, NodesBelowIs DEF Reachable
<1> QED
  BY <1>1, <1>2, HeapIsTree

LEMMA ParentLinksHold == Inv => ParentLinks
<1> SUFFICES ASSUME Inv PROVE ParentLinks
  OBVIOUS
<1>1. /\ TreeInv(heap, root, carry) /\ Linked(heap, root) /\ Shaped(heap)
      /\ Pending(heap, root, carry)
  BY DEF Inv, TreeInv
<1>2. \A n \in DOMAIN heap : \A c \in Range(heap[n].children) : heap[c].parent = n
  BY <1>1 DEF Linked, Range
<1>3. heap[root].parent = Null /\ Reachable \subseteq DOMAIN heap
  BY <1>1, ReachableIs DEF Linked
<1>4. CASE carry # Idle
  <2>1. /\ carry.right \in DOMAIN heap /\ heap[carry.right].parent = Parent
    BY <1>1, <1>4 DEF Pending, Parent
  <2>2. Parent = Null => carry.left = root
    BY <1>1, <1>4, ParentIs
  <2>3. Parent # Null => carry.left \in Range(heap[Parent].children)
    BY <1>1, <1>4, ParentIs DEF Range
  <2> QED
    BY <1>2, <1>3, <2>1, <2>2, <2>3 DEF ParentLinks
<1> QED
  BY <1>2, <1>3, <1>4 DEF ParentLinks

\* Every node names its parent, below the root and in the piece a pending insert
\* carries, after any number of splits and failed allocations: the parent a climb
\* goes on with is the node that has left as a child, or none when left is root.
THEOREM TreeLinks == Spec => []ParentLinks
BY TreeInvariant, ParentLinksHold, PTL

\* The keys below a child are those between its separators.
LEMMA KeysOfChild ==
    ASSUME TreeInv(heap, root, carry), NEW n \in Reachable, ~heap[n].isLeaf,
           NEW i \in DOMAIN heap[n].children, NEW k \in KeysBelow(heap[n].children[i])
    PROVE  k \in Keys /\ Slot(heap[n].keys, k) = i
<1> DEFINE ks == KeysIn(heap)
           cs == KidsIn(heap)
           c == heap[n].children[i]
<1>1. /\ Shaped(heap) /\ Linked(heap, root) /\ Levelled(heap, carry) /\ Routed(ks, cs, root)
  BY DEF TreeInv, InOrder
<1>2. /\ Fits(ks, cs) /\ Forest(cs) /\ Top(cs, root) /\ Kids(cs) \in Graph /\ root \in Nat
      /\ Below(cs, root) \in SUBSET Nat /\ ClosedUnder(Kids(cs), Below(cs, root))
  <2>1. Fits(ks, cs) /\ Forest(cs) /\ Top(cs, root) /\ Kids(cs) \in Graph
    BY <1>1, HeapIsTree DEF Tree
  <2> QED
    BY <2>1, ReachBasics DEF Top, Below
<1>3. /\ n \in DOMAIN heap /\ n \in Below(cs, root) /\ n \in Nat
      /\ ks[n] = heap[n].keys /\ cs[n] = heap[n].children
      /\ c \in DOMAIN heap /\ c \in Kids(cs)[n] /\ c \in Nat
  <2>1. /\ n \in DOMAIN heap /\ n \in Below(cs, root)
    BY ReachableIs
  <2>2. /\ n \in Nat /\ ks[n] = heap[n].keys /\ cs[n] = heap[n].children
        /\ Range(heap[n].children) \subseteq DOMAIN heap
    BY <1>1, <2>1, NodesIn
  <2>3. c \in Range(heap[n].children)
    BY DEF Range
  <2> QED
    BY <1>1, <2>1, <2>2, <2>3, NodesIn DEF Kids
<1>4. PICK m \in Below(cs, c) : heap[m].isLeaf /\ k \in Range(heap[m].keys)
  BY <1>3, NodesBelowIs DEF KeysBelow, HeldBy
<1>5. m \in Below(cs, root)
  <2>1. c \in Below(cs, root)
    BY <1>2, <1>3 DEF ClosedUnder
  <2> QED
    BY <1>2, <1>4, <2>1, ReachTransitive DEF Below
<1>6. m \in DOMAIN heap /\ m \in Nat /\ ks[m] = heap[m].keys
  BY <1>1, <1>5, HeapIsTree, NodesIn
<1>7. m \in Path(ks, cs, root, k) /\ k \in Int /\ k \in Keys
  BY <1>1, <1>2, <1>4, <1>5, <1>6, KeysAreNumbers DEF Routed
<1> HIDE DEF c
<1>8. c \in Way(ks, cs, k)[n]
  BY <1>2, <1>3, <1>4, <1>7, TurnsToChild
<1>9. i \in DOMAIN cs[n] /\ cs[n][i] = c
  BY <1>3 DEF c
<1>10. Slot(ks[n], k) = i
  BY <1>2, <1>3, <1>7, <1>8, <1>9, SlotOfWay
<1> QED
  BY <1>3, <1>7, <1>10

LEMMA OrderHolds == Inv => Ordered
<1> SUFFICES ASSUME Inv, NEW n \in Reachable
             PROVE  /\ Ascending(heap[n].keys)
                    /\ ~heap[n].isLeaf =>
                         \A i \in DOMAIN heap[n].keys :
                           /\ \A k \in KeysBelow(heap[n].children[i]) : k < heap[n].keys[i]
                           /\ \A k \in KeysBelow(heap[n].children[i + 1]) : heap[n].keys[i] <= k
  BY DEF Ordered
<1>1. TreeInv(heap, root, carry) /\ Shaped(heap)
  BY DEF Inv, TreeInv
<1>2. /\ n \in DOMAIN heap /\ Sound(heap[n], Len(heap))
      /\ heap[n].keys \in Seq(Keys) /\ heap[n].children \in Seq(Nat)
  BY <1>1, ReachableIs, NodesIn
<1>3. Ascending(heap[n].keys)
  BY <1>2 DEF Sound
<1>4. ASSUME ~heap[n].isLeaf, NEW i \in DOMAIN heap[n].keys
      PROVE  /\ \A k \in KeysBelow(heap[n].children[i]) : k < heap[n].keys[i]
             /\ \A k \in KeysBelow(heap[n].children[i + 1]) : heap[n].keys[i] <= k
  <2>1. /\ Len(heap[n].keys) \in Nat /\ DOMAIN heap[n].keys = 1 .. Len(heap[n].keys)
        /\ DOMAIN heap[n].children = 1 .. Len(heap[n].keys) + 1
        /\ heap[n].keys \in Seq(Int)
    BY <1>2, <1>4, LenProperties, SeqMonotonic, KeysAssumption DEF Sound
  <2>2. i \in DOMAIN heap[n].children /\ i + 1 \in DOMAIN heap[n].children
    BY <2>1
  <2>3. ASSUME NEW k \in KeysBelow(heap[n].children[i]) PROVE k < heap[n].keys[i]
    <3>1. Slot(heap[n].keys, k) = i /\ k \in Int
      BY <1>1, <1>4, <2>2, KeysOfChild, KeysAssumption
    <3>2. Slot(heap[n].keys, k) <= Len(heap[n].keys) => k < heap[n].keys[Slot(heap[n].keys, k)]
      BY <2>1, <3>1, SlotIs
    <3> QED
      BY <2>1, <3>1, <3>2
  <2>4. ASSUME NEW k \in KeysBelow(heap[n].children[i + 1]) PROVE heap[n].keys[i] <= k
    <3>1. Slot(heap[n].keys, k) = i + 1 /\ k \in Int
      BY <1>1, <1>4, <2>2, KeysOfChild, KeysAssumption
    <3>2. \A j \in 1 .. Len(heap[n].keys) : j < Slot(heap[n].keys, k) => heap[n].keys[j] <= k
      BY <2>1, <3>1, SlotIs
    <3> QED
      BY <2>1, <3>1, <3>2
  <2> QED
    BY <2>3, <2>4
<1> QED
  BY <1>3, <1>4

\* In the tree below the root, while a split climbs and after one failed as much
\* as between calls, keys ascend in every node and each separator parts the keys
\* of the leaves on its left from those on its right: bptree_find_leaf ends in
\* the only leaf that may hold the key.
THEOREM TreeOrder == Spec => []Ordered
BY TreeInvariant, OrderHolds, PTL

\* The depth of a node is how many levels it is below the root.
LEMMA DepthIs ==
    ASSUME TreeInv(heap, root, carry), NEW level, Levels(heap, carry, level), NEW m \in Reachable
    PROVE  Depth[m] = level[root] - level[m]
<1> DEFINE cs == KidsIn(heap)
           up(n) == heap[n].parent
           equation(f) == [n \in Reachable |-> IF n = root THEN 0 ELSE 1 + f[up(n)]]
           depth[n \in Reachable] == IF n = root THEN 0 ELSE 1 + depth[heap[n].parent]
           w == [n \in Reachable |-> level[root] - level[n]]
           rank == [n \in Nat |-> IF n \in Reachable THEN level[root] - level[n] ELSE 0]
<1>1. /\ Shaped(heap) /\ Linked(heap, root) /\ Levelled(heap, carry) /\ root \in DOMAIN heap
      /\ Kids(cs) \in Graph /\ Reachable = Below(cs, root) /\ Reachable \subseteq DOMAIN heap
      /\ DOMAIN heap \in SUBSET Nat /\ level \in [Nat -> Nat]
  <2>1. Shaped(heap) /\ Linked(heap, root) /\ Levelled(heap, carry) /\ root \in DOMAIN heap
    BY DEF TreeInv, Linked
  <2> QED
    BY <2>1, HeapIsTree, ReachableIs, NodesIn DEF Levels
<1>2. \A n \in DOMAIN heap : \A x \in Kids(cs)[n] :
         x \in DOMAIN heap /\ up(x) = n /\ level[n] = level[x] + 1
  <2> SUFFICES ASSUME NEW n \in DOMAIN heap, NEW x \in Kids(cs)[n]
               PROVE  x \in DOMAIN heap /\ up(x) = n /\ level[n] = level[x] + 1
    OBVIOUS
  <2>1. x \in Range(heap[n].children) /\ x \in DOMAIN heap
    BY <1>1, NodesIn DEF Kids
  <2>2. PICK i \in DOMAIN heap[n].children : x = heap[n].children[i]
    BY <2>1 DEF Range
  <2> QED
    BY <1>1, <2>1, <2>2 DEF Linked, Levels
<1>3. root \in Reachable /\ ClosedUnder(Kids(cs), Reachable)
  BY <1>1, ReachBasics DEF Below
<1>4. ASSUME NEW n \in Reachable, n # root
      PROVE  up(n) \in Reachable /\ level[up(n)] = level[n] + 1
  <2>1. PICK y \in Reachable : n \in Kids(cs)[y]
    BY <1>1, <1>4, ReachLast DEF Below
  <2> QED
    BY <1>1, <1>2, <2>1
<1>5. ASSUME NEW n \in Reachable PROVE level[n] <= level[root] /\ level[n] \in Nat /\ level[root] \in Nat
  <2> DEFINE S == {x \in DOMAIN heap : level[x] <= level[root]}
  <2>1. S \in SUBSET Nat /\ root \in S
    BY <1>1
  <2>2. ClosedUnder(Kids(cs), S)
    <3> SUFFICES ASSUME NEW x \in S, NEW y \in Kids(cs)[x] PROVE y \in S
      BY DEF ClosedUnder
    <3>1. y \in DOMAIN heap /\ level[x] = level[y] + 1 /\ level[y] \in Nat /\ level[root] \in Nat
      BY <1>1, <1>2
    <3> QED
      BY <3>1
  <2> HIDE DEF S
  <2>3. n \in S
    BY <1>1, <2>1, <2>2, ReachLeast DEF Below
  <2> QED
    BY <1>1, <2>3 DEF S
<1> HIDE DEF up
<1>6. \A n \in Reachable : w[n] = IF n = root THEN 0 ELSE 1 + w[up(n)]
  <2> SUFFICES ASSUME NEW n \in Reachable PROVE w[n] = IF n = root THEN 0 ELSE 1 + w[up(n)]
    OBVIOUS
  <2>1. CASE n = root
    BY <1>5, <2>1
  <2>2. CASE n # root
    <3>1. w[up(n)] = level[root] - level[up(n)] /\ level[up(n)] = level[n] + 1
      BY <1>4, <2>2
    <3> QED
      BY <1>5, <2>2, <3>1
  <2> QED
    BY <2>1, <2>2
<1>7. \E f : f = equation(f)
  <2>0. w = [n \in Reachable |-> w[n]]
    OBVIOUS
  <2> HIDE DEF w
  <2>1. w = equation(w)
    BY <1>6, <2>0
  <2> QED
    BY <2>1
<1>8. Depth = depth
  BY DEF Depth
<1>9. depth = CHOOSE f : f = equation(f)
  BY DEF up
<1> HIDE DEF depth
<1>10. depth = equation(depth)
  BY <1>7, <1>9
<1>11. rank \in [Nat -> Nat]
  BY <1>5
<1> DEFINE B == {n \in Reachable : depth[n] # w[n]}
<1>12. B = {}
  <2> SUFFICES ASSUME B # {} PROVE FALSE
    OBVIOUS
  <2>1. B \in SUBSET Nat
    BY <1>1
  <2> HIDE DEF B, rank
  <2>2. PICK n \in B : \A x \in B : rank[n] <= rank[x]
    BY <1>11, <2>1, LeastLevel
  <2>3. n \in Reachable /\ depth[n] # w[n]
    BY <2>2 DEF B
  <2>4. n # root
    <3> HIDE DEF w
    <3> QED
      BY <1>6, <1>10, <2>3
  <2>5. up(n) \in Reachable /\ level[up(n)] = level[n] + 1
    BY <1>4, <2>3, <2>4
  <2>6. depth[n] = 1 + depth[up(n)]
    BY <1>10, <2>3, <2>4
  <2>7. w[n] = 1 + w[up(n)]
    BY <1>6, <2>3, <2>4
  <2>8. up(n) \in B
    BY <2>3, <2>5, <2>6, <2>7 DEF B
  <2>9. rank[n] = level[root] - level[n] /\ rank[up(n)] = level[root] - level[up(n)]
    BY <1>1, <2>3, <2>5 DEF rank
  <2>10. ~(rank[n] <= rank[up(n)])
    BY <1>5, <2>3, <2>5, <2>9
  <2> QED
    BY <2>2, <2>8, <2>10
<1> QED
  BY <1>8, <1>12

LEMMA BalancedHolds == TreeInv(heap, root, carry) => Balanced
<1> SUFFICES ASSUME TreeInv(heap, root, carry), NEW m \in LeavesReached, NEW n \in LeavesReached
             PROVE  Depth[m] = Depth[n]
  BY DEF Balanced
<1>1. PICK level \in [Nat -> Nat] : Levels(heap, carry, level)
  BY DEF TreeInv, Levelled
<1>2. m \in Reachable /\ n \in Reachable /\ heap[m].isLeaf /\ heap[n].isLeaf
  BY DEF LeavesReached
<1>3. level[m] = 0 /\ level[n] = 0
  BY <1>1, <1>2, ReachableIs DEF Levels
<1> QED
  BY <1>1, <1>2, <1>3, DepthIs

LEMMA HalfFullHolds == TreeInv(heap, root, carry) => HalfFull
<1> SUFFICES ASSUME TreeInv(heap, root, carry), NEW n \in Reachable \ {root}
             PROVE  Len(heap[n].keys) >= IF heap[n].isLeaf THEN ORDER \div 2
                                                           ELSE ORDER - (ORDER \div 2) - 1
  BY DEF HalfFull
<1>1. Half(heap[n])
  BY ReachableIs DEF TreeInv, Filled
<1>2. LeafSplitIndex = ORDER \div 2
  BY HalfOfOrder
<1> QED
  BY <1>1, <1>2 DEF Half

LEMMA KeysBelowAre ==
    ASSUME TreeInv(heap, root, carry), NEW m \in DOMAIN heap
    PROVE  /\ KeysBelow(m) = LeafKeys(KeysIn(heap), KidsIn(heap), m)
           /\ KeysBelow(m) = IF heap[m].isLeaf THEN Range(heap[m].keys)
                             ELSE UNION {KeysBelow(c) : c \in Range(heap[m].children)}
<1> DEFINE ks == KeysIn(heap)
           cs == KidsIn(heap)
<1>1. /\ Shaped(heap) /\ Linked(heap, root) /\ Levelled(heap, carry) /\ m \in Nat
      /\ Kids(cs) \in Graph /\ DOMAIN heap \in SUBSET Nat
      /\ Kids(cs)[m] = Range(heap[m].children) /\ Range(heap[m].children) \subseteq DOMAIN heap
  <2>1. Shaped(heap) /\ Linked(heap, root) /\ Levelled(heap, carry)
    BY DEF TreeInv
  <2>2. Kids(cs) \in Graph
    BY <2>1, HeapIsTree
  <2> QED
    BY <2>1, <2>2, NodesIn DEF Kids
<1>2. ASSUME NEW n \in DOMAIN heap
      PROVE  (heap[n].isLeaf <=> cs[n] = <<>>) /\ ks[n] = heap[n].keys
  <2>1. Sound(heap[n], Len(heap)) /\ ks[n] = heap[n].keys /\ cs[n] = heap[n].children /\ heap[n].isLeaf \in BOOLEAN
        /\ Len(heap[n].keys) \in Nat
    BY <1>1, NodesIn, LenProperties
  <2>2. ~heap[n].isLeaf => Len(cs[n]) # 0
    BY <2>1 DEF Sound
  <2> QED
    BY <2>1, <2>2 DEF Sound
<1>3. ClosedUnder(Kids(cs), DOMAIN heap)
  BY <1>1, NodesIn DEF ClosedUnder, Kids
<1>4. \A n \in DOMAIN heap : Below(cs, n) \subseteq DOMAIN heap /\ NodesBelow[n] = Below(cs, n)
  BY <1>1, <1>3, NodesBelowIs, ReachLeast DEF Below
<1>5. ASSUME NEW n \in DOMAIN heap
      PROVE  KeysBelow(n) = LeafKeys(ks, cs, n)
  <2> HIDE DEF ks, cs
  <2>1. {x \in NodesBelow[n] : heap[x].isLeaf} = {x \in Below(cs, n) : cs[x] = <<>>}
    BY <1>2, <1>4
  <2>2. {HeldBy(x) : x \in {y \in NodesBelow[n] : heap[y].isLeaf}}
          = {Range(ks[x]) : x \in {y \in Below(cs, n) : cs[y] = <<>>}}
    BY <1>2, <1>4, <2>1 DEF HeldBy
  <2> QED
    BY <2>2 DEF KeysBelow, LeafKeys
<1>6. Below(cs, m) = {m} \cup UNION {Below(cs, c) : c \in Range(heap[m].children)}
  BY <1>1, ReachFirst DEF Below
<1> HIDE DEF ks, cs
<1>7. CASE heap[m].isLeaf
  <2>1. Range(heap[m].children) = {}
    <3>1. heap[m].children = <<>>
      BY <1>1, <1>7, NodesIn DEF Sound
    <3> QED
      BY <3>1 DEF Range
  <2>2. {y \in NodesBelow[m] : heap[y].isLeaf} = {m}
    BY <1>4, <1>6, <1>7, <2>1
  <2>3. KeysBelow(m) = Range(heap[m].keys)
    BY <2>2 DEF KeysBelow, HeldBy
  <2> QED
    BY <1>5, <1>7, <2>3 DEF ks, cs
<1>8. CASE ~heap[m].isLeaf
  <2>1. ASSUME NEW k \in KeysBelow(m)
        PROVE  k \in UNION {KeysBelow(c) : c \in Range(heap[m].children)}
    <3>1. PICK x \in NodesBelow[m] : heap[x].isLeaf /\ k \in HeldBy(x)
      BY DEF KeysBelow
    <3>2. PICK c \in Range(heap[m].children) : x \in Below(cs, c)
      BY <1>4, <1>6, <1>8, <3>1
    <3>3. k \in KeysBelow(c)
      BY <1>1, <1>4, <3>1, <3>2 DEF KeysBelow
    <3> QED
      BY <3>3
  <2>2. ASSUME NEW c \in Range(heap[m].children), NEW k \in KeysBelow(c)
        PROVE  k \in KeysBelow(m)
    <3>1. PICK x \in NodesBelow[c] : heap[x].isLeaf /\ k \in HeldBy(x)
      BY DEF KeysBelow
    <3>2. x \in NodesBelow[m]
      BY <1>1, <1>4, <1>6, <3>1
    <3> QED
      BY <3>1, <3>2 DEF KeysBelow
  <2>3. KeysBelow(m) = UNION {KeysBelow(c) : c \in Range(heap[m].children)}
    BY <2>1, <2>2
  <2> QED
    BY <1>5, <1>8, <2>3 DEF ks, cs
<1> QED
  BY <1>7, <1>8 DEF ks, cs

\* The recursion to the leftmost leaf is well-defined.
LEMMA FirstKeyStep ==
    ASSUME TreeInv(heap, root, carry), NEW m \in DOMAIN heap
    PROVE  FirstKeyBelow[m] = IF heap[m].isLeaf THEN heap[m].keys[1]
                              ELSE FirstKeyBelow[heap[m].children[1]]
<1> DEFINE step(n) == heap[n].children[1]
           F == [n \in Nat |-> IF n \in DOMAIN heap /\ ~heap[n].isLeaf THEN {step(n)} ELSE {}]
           equation(f) == [n \in DOMAIN heap |-> IF heap[n].isLeaf THEN heap[n].keys[1] ELSE f[step(n)]]
           first[n \in DOMAIN heap] ==
               IF heap[n].isLeaf THEN heap[n].keys[1] ELSE first[heap[n].children[1]]
           leaves(n) == {x \in Reach(F, n) : heap[x].isLeaf}
           w == [n \in DOMAIN heap |-> heap[CHOOSE x : x \in leaves(n)].keys[1]]
<1>1. DOMAIN heap \in SUBSET Nat /\ Shaped(heap)
  BY NodesIn DEF TreeInv
<1>2. ASSUME NEW n \in DOMAIN heap, ~heap[n].isLeaf
      PROVE  step(n) \in DOMAIN heap
  <2>1. /\ heap[n].children \in Seq(Nat) /\ heap[n].keys \in Seq(Keys)
        /\ Len(heap[n].children) = Len(heap[n].keys) + 1
        /\ Range(heap[n].children) \subseteq DOMAIN heap
    BY <1>1, <1>2, NodesIn DEF Sound
  <2>2. Len(heap[n].keys) \in Nat /\ DOMAIN heap[n].children = 1 .. Len(heap[n].children)
    BY <2>1, LenProperties
  <2>3. 1 \in DOMAIN heap[n].children
    BY <2>1, <2>2
  <2> QED
    BY <2>1, <2>3 DEF Range
<1> HIDE DEF step
<1>3. /\ F \in Graph
      /\ \A n \in DOMAIN heap : F[n] = IF heap[n].isLeaf THEN {} ELSE {step(n)}
  BY <1>1, <1>2 DEF Graph
<1> HIDE DEF F
<1>4. ASSUME NEW n \in DOMAIN heap
      PROVE  w[n] = IF heap[n].isLeaf THEN heap[n].keys[1] ELSE w[step(n)]
  <2>1. Reach(F, n) = {n} \cup UNION {Reach(F, c) : c \in F[n]}
    BY <1>1, <1>3, ReachFirst
  <2>2. CASE heap[n].isLeaf
    <3>1. leaves(n) = {n}
      BY <1>3, <2>1, <2>2
    <3> QED
      BY <2>2, <3>1
  <2>3. CASE ~heap[n].isLeaf
    <3>1. Reach(F, n) = {n} \cup Reach(F, step(n)) /\ step(n) \in DOMAIN heap
      BY <1>2, <1>3, <2>1, <2>3
    <3>2. leaves(n) = leaves(step(n))
      BY <2>3, <3>1
    <3> HIDE DEF leaves
    <3>3. w[n] = w[step(n)]
      BY <3>1, <3>2
    <3> QED
      BY <2>3, <3>3
  <2> QED
    BY <2>2, <2>3
<1>5. \E f : f = equation(f)
  <2>0. w = [n \in DOMAIN heap |-> w[n]]
    OBVIOUS
  <2> HIDE DEF w
  <2>1. w = equation(w)
    BY <1>4, <2>0
  <2> QED
    BY <2>1
<1>6. FirstKeyBelow = first
  BY DEF FirstKeyBelow
<1>7. first = CHOOSE f : f = equation(f)
  BY DEF step
<1> HIDE DEF first
<1>8. first = equation(first)
  BY <1>5, <1>7
<1>9. first[m] = IF heap[m].isLeaf THEN heap[m].keys[1] ELSE first[step(m)]
  BY <1>8
<1> QED
  BY <1>6, <1>9 DEF step

\* The first key below a node is the least of the keys in its leaves.
FirstIsLeast(m) ==
    FirstKeyBelow[m] \in KeysBelow(m) /\ \A k \in KeysBelow(m) : FirstKeyBelow[m] <= k

LEMMA FirstKeyIs ==
    ASSUME TreeInv(heap, root, carry), NEW m \in Reachable, m # root
    PROVE  FirstIsLeast(m) /\ KeysBelow(m) \subseteq Keys
<1>1. PICK level \in [Nat -> Nat] : Levels(heap, carry, level)
  BY DEF TreeInv, Levelled
<1> DEFINE cs == KidsIn(heap)
           B == {n \in Reachable \ {root} : ~(FirstIsLeast(n) /\ KeysBelow(n) \subseteq Keys)}
<1>2. /\ Shaped(heap) /\ Filled(heap, root, carry) /\ Top(cs, root) /\ Kids(cs) \in Graph
      /\ Reachable = Below(cs, root) /\ Reachable \subseteq DOMAIN heap /\ DOMAIN heap \in SUBSET Nat
      /\ root \in Nat
  <2>1. Shaped(heap) /\ Linked(heap, root) /\ Levelled(heap, carry) /\ Filled(heap, root, carry)
    BY DEF TreeInv
  <2>2. Top(cs, root) /\ Kids(cs) \in Graph
    BY <2>1, HeapIsTree
  <2> QED
    BY <2>1, <2>2, ReachableIs, NodesIn DEF Top
<1>3. ClosedUnder(Kids(cs), Reachable)
  BY <1>2, ReachBasics DEF Below
<1>4. ASSUME NEW n \in B PROVE FALSE
  <2>1. B \in SUBSET Nat /\ B # {}
    BY <1>2
  <2> HIDE DEF B
  <2>2. PICK q \in B : \A x \in B : level[q] <= level[x]
    BY <2>1, LeastLevel
  <2>3. /\ q \in Reachable /\ q # root /\ q \in DOMAIN heap /\ q \in Nat
        /\ ~(FirstIsLeast(q) /\ KeysBelow(q) \subseteq Keys)
    BY <1>2, <2>2 DEF B
  <2>4. /\ Sound(heap[q], Len(heap)) /\ heap[q].keys \in Seq(Keys) /\ heap[q].keys \in Seq(Int)
        /\ Len(heap[q].keys) \in Nat /\ DOMAIN heap[q].keys = 1 .. Len(heap[q].keys)
        /\ heap[q].children \in Seq(Nat) /\ Range(heap[q].children) \subseteq DOMAIN heap
        /\ DOMAIN heap[q].children = 1 .. Len(heap[q].children)
        /\ Kids(cs)[q] = Range(heap[q].children) /\ heap[q].isLeaf \in BOOLEAN
    <3>1. /\ Sound(heap[q], Len(heap)) /\ heap[q].keys \in Seq(Keys)
          /\ heap[q].children \in Seq(Nat) /\ Range(heap[q].children) \subseteq DOMAIN heap
          /\ Kids(cs)[q] = Range(heap[q].children) /\ heap[q].isLeaf \in BOOLEAN
      BY <1>2, <2>3, NodesIn DEF Kids
    <3> QED
      BY <3>1, LenProperties, SeqMonotonic, KeysAssumption
  <2>5. CASE heap[q].isLeaf
    <3>1. KeysBelow(q) = Range(heap[q].keys) /\ FirstKeyBelow[q] = heap[q].keys[1]
      BY <2>3, <2>5, KeysBelowAre, FirstKeyStep
    <3>2. 1 <= Len(heap[q].keys)
      <4>1. Len(heap[q].keys) >= LeafSplitIndex
        BY <1>2, <2>3, <2>5 DEF Filled, Half
      <4>2. Len(heap[q].keys) \in Nat
        BY <2>4
      <4>3. LeafSplitIndex \in Nat /\ 1 <= LeafSplitIndex
        BY ONLY HalfOfOrder
      <4> QED
        BY ONLY <4>1, <4>2, <4>3
    <3>3. 1 \in DOMAIN heap[q].keys
      BY <2>4, <3>2
    <3>4. ASSUME NEW k \in Range(heap[q].keys) PROVE heap[q].keys[1] <= k /\ k \in Keys
      <4>1. PICK j \in DOMAIN heap[q].keys : k = heap[q].keys[j]
        BY DEF Range
      <4>2. k \in Keys /\ k \in Int /\ heap[q].keys[1] \in Int
        BY <2>4, <3>3, <4>1, ElementOfSeq
      <4>3. j = 1 \/ 1 < j
        BY <2>4
      <4>4. j = 1 \/ heap[q].keys[1] < k
        BY <2>4, <3>3, <4>1, <4>3 DEF Sound, Ascending
      <4> QED
        BY <4>1, <4>2, <4>4
    <3>5. heap[q].keys[1] \in Range(heap[q].keys)
      BY <3>3 DEF Range
    <3> QED
      BY <2>3, <3>1, <3>4, <3>5 DEF FirstIsLeast
  <2>6. CASE ~heap[q].isLeaf
    <3> DEFINE d == heap[q].children[1]
    <3>1. Len(heap[q].children) = Len(heap[q].keys) + 1 /\ 1 \in DOMAIN heap[q].children
      <4>1. Len(heap[q].children) = Len(heap[q].keys) + 1
        BY <2>4, <2>6 DEF Sound
      <4>2. Len(heap[q].keys) \in Nat /\ DOMAIN heap[q].children = 1 .. Len(heap[q].children)
        BY <2>4
      <4> HIDE DEF d
      <4> QED
        BY ONLY SMTT(30), <4>1, <4>2
    <3>2. /\ KeysBelow(q) = UNION {KeysBelow(c) : c \in Range(heap[q].children)}
          /\ FirstKeyBelow[q] = FirstKeyBelow[d]
      BY <2>3, <2>6, KeysBelowAre, FirstKeyStep
    <3>3. ASSUME NEW c \in Range(heap[q].children)
          PROVE  FirstIsLeast(c) /\ KeysBelow(c) \subseteq Keys
      <4>1. c \in Reachable
        BY <1>3, <2>3, <2>4 DEF ClosedUnder
      <4>2. c # root
        BY <1>2, <2>3, <2>4 DEF Top
      <4>3. level[q] = level[c] + 1 /\ level[c] \in Nat
        BY <1>1, <1>2, <2>3, <4>1 DEF Levels
      <4>4. c \notin B
        BY <2>2, <4>3
      <4> QED
        BY <4>1, <4>2, <4>4 DEF B
    <3>4. d \in Range(heap[q].children)
      BY <3>1 DEF Range
    <3>5. FirstKeyBelow[d] \in KeysBelow(d) /\ FirstKeyBelow[d] \in Int /\ FirstKeyBelow[q] \in KeysBelow(q)
      BY <3>2, <3>3, <3>4, KeysAssumption DEF FirstIsLeast
    <3>6. ASSUME NEW k \in KeysBelow(q) PROVE FirstKeyBelow[d] <= k
      <4>1. PICK i \in DOMAIN heap[q].children : k \in KeysBelow(heap[q].children[i])
        BY <3>2 DEF Range
      <4>2. CASE i = 1
        BY <3>3, <3>4, <4>1, <4>2 DEF FirstIsLeast
      <4>3. CASE i # 1
        <5>1. Slot(heap[q].keys, k) = i /\ k \in Int
          BY <2>3, <2>6, <4>1, KeysOfChild, KeysAssumption
        <5>2. Slot(heap[q].keys, FirstKeyBelow[d]) = 1
          BY <2>3, <2>6, <3>1, <3>5, KeysOfChild
        <5>3. 1 \in 1 .. Len(heap[q].keys) /\ 1 < i /\ 1 <= Len(heap[q].keys) /\ heap[q].keys[1] \in Int
          <6>1. i \in 1 .. Len(heap[q].keys) + 1
            BY <2>4, <3>1
          <6>2. 1 \in 1 .. Len(heap[q].keys) /\ 1 < i /\ 1 <= Len(heap[q].keys)
            <7>1. Len(heap[q].keys) \in Nat
              BY <2>4
            <7> DEFINE l == Len(heap[q].keys)
            <7>2. l \in Nat /\ i \in 1 .. l + 1
              BY <6>1, <7>1
            <7> HIDE DEF l
            <7>3. 1 < i
              BY <4>3, <7>2
            <7>4. 1 \in 1 .. l /\ 1 <= l
              BY <7>2, <7>3
            <7> QED
              BY <7>3, <7>4 DEF l
          <6> QED
            BY <2>4, <6>2, ElementOfSeq
        <5> HIDE DEF d
        <5>4. FirstKeyBelow[d] < heap[q].keys[1]
          BY <2>4, <3>5, <5>2, <5>3, SlotIs
        <5>5. heap[q].keys[1] <= k
          BY <2>4, <5>1, <5>3, SlotIs
        <5>6. FirstKeyBelow[d] \in Int /\ heap[q].keys[1] \in Int /\ k \in Int
          BY <3>5, <5>1, <5>3
        <5> QED
          BY ONLY <5>4, <5>5, <5>6
      <4> QED
        BY <4>2, <4>3
    <3>7. KeysBelow(q) \subseteq Keys
      BY <3>2, <3>3
    <3> QED
      BY <2>3, <3>2, <3>5, <3>6, <3>7 DEF FirstIsLeast
  <2> QED
    BY <2>5, <2>6
<1> QED
  BY <1>4

LEMMA SeparatorsHold == Inv => SeparatorsAreFirstKeys
<1> SUFFICES ASSUME Inv, NEW n \in Reachable, ~heap[n].isLeaf, NEW i \in DOMAIN heap[n].keys
             PROVE  heap[n].keys[i] = FirstKeyBelow[heap[n].children[i + 1]]
  BY DEF SeparatorsAreFirstKeys
<1> DEFINE cs == KidsIn(heap)
           ks == KeysIn(heap)
           c == heap[n].children[i + 1]
           key == heap[n].keys[i]
<1>1. /\ TreeInv(heap, root, carry) /\ Shaped(heap) /\ Linked(heap, root) /\ Levelled(heap, carry)
      /\ Separates(ks, cs)
  BY DEF Inv, TreeInv, Separated
<1>2. /\ Reachable = Below(cs, root) /\ n \in DOMAIN heap /\ n \in Nat /\ root \in Nat
      /\ Kids(cs) \in Graph /\ Top(cs, root) /\ Fits(ks, cs)
  BY <1>1, ReachableIs, HeapIsTree, NodesIn DEF Top, Tree
<1>3. /\ ks[n] = heap[n].keys /\ cs[n] = heap[n].children
      /\ Range(heap[n].children) \subseteq DOMAIN heap
      /\ Len(heap[n].children) = Len(heap[n].keys) + 1 /\ Len(heap[n].keys) \in Nat
      /\ DOMAIN heap[n].keys = 1 .. Len(heap[n].keys)
      /\ DOMAIN heap[n].children = 1 .. Len(heap[n].children)
      /\ heap[n].keys \in Seq(Int)
  <2>1. /\ ks[n] = heap[n].keys /\ cs[n] = heap[n].children
        /\ Range(heap[n].children) \subseteq DOMAIN heap
        /\ Len(heap[n].children) = Len(heap[n].keys) + 1
        /\ heap[n].keys \in Seq(Keys) /\ heap[n].children \in Seq(Nat)
    BY <1>1, <1>2, NodesIn DEF Sound
  <2> QED
    BY <2>1, LenProperties, SeqMonotonic, KeysAssumption
<1>4. i + 1 \in DOMAIN heap[n].children /\ cs[n] # <<>>
  BY <1>3
<1>5. c \in Kids(cs)[n] /\ c \in DOMAIN heap
  BY <1>2, <1>3, <1>4 DEF Kids, Range
<1>6. c \in Reachable /\ c # root
  <2>1. ClosedUnder(Kids(cs), Reachable)
    BY <1>2, ReachBasics DEF Below
  <2> QED
    BY <1>2, <1>5, <2>1 DEF ClosedUnder, Top
<1>7. key \in KeysBelow(c)
  <2>1. <<key, c>> \in Pairs(ks[n], cs[n])
    BY <1>3 DEF Pairs
  <2>2. \A p \in Pairs(ks[n], cs[n]) : p[1] \in LeafKeys(ks, cs, p[2])
    BY <1>1, <1>2, <1>4 DEF Separates
  <2> HIDE DEF key, c, ks, cs
  <2>3. <<key, c>>[1] = key /\ <<key, c>>[2] = c
    OBVIOUS
  <2>4. key \in LeafKeys(ks, cs, c)
    BY <2>1, <2>2, <2>3
  <2> QED
    BY <1>1, <1>5, <2>4, KeysBelowAre DEF ks, cs
<1>8. FirstKeyBelow[c] \in KeysBelow(c) /\ FirstKeyBelow[c] <= key /\ FirstKeyBelow[c] \in Int
  BY <1>1, <1>6, <1>7, FirstKeyIs, KeysAssumption DEF FirstIsLeast
<1>9. key <= FirstKeyBelow[c]
  BY <1>8, OrderHolds DEF Ordered
<1>10. key \in Int
  BY <1>3, ElementOfSeq
<1> QED
  BY <1>8, <1>9, <1>10

\* After any sequence of inserts, while a split climbs and after an allocation
\* failed half-way up, all leaves below the root are at one depth, every node but
\* the root is at least half full, and each separator is the first key of the
\* leaves behind it.
THEOREM TreeShape == Spec => []WellShaped
<1>1. Inv => WellShaped
  BY BalancedHolds, HalfFullHolds, SeparatorsHold DEF Inv, WellShaped
<1> QED
  BY <1>1, TreeInvariant, PTL
-----------------------------------------------------------------------------
(***************************************************************************)
(* The leaf list, and that the tree implements IdIndex.                    *)
(*                                                                         *)
(* What links the list to the tree is the search: while no allocation has  *)
(* failed every node is below the root (Complete), so that a search for a  *)
(* key of a leaf ends in that leaf (KeyIsFound), and the keys whose search *)
(* ends in one leaf are an interval (PathIsConvex).  A key that            *)
(* bptree_find_leaf sends to a leaf therefore belongs between the keys of  *)
(* its neighbours on the list (KeyFitsInLine), and the list stays in order.*)
(*                                                                         *)
(* The leaf steps are summed up by Puts and Splits, the steps of the climb *)
(* by SameLeaves; the list and the map are about these three only.         *)
(***************************************************************************)

(***************************************************************************)
(* Searches that end in leaves.                                            *)
(***************************************************************************)
\* A key between two that take one slot takes it too.
LEMMA SlotIsConvex ==
    ASSUME NEW keys \in Seq(Int), Ascending(keys), NEW a \in Int, NEW b \in Int, NEW c \in Int,
           a <= b, b <= c, Slot(keys, a) = Slot(keys, c)
    PROVE  Slot(keys, b) = Slot(keys, a)
<1> DEFINE i == Slot(keys, a)
<1>1. Len(keys) \in Nat /\ \A j \in 1 .. Len(keys) : keys[j] \in Int
  BY LenProperties, ElementOfSeq
<1>2. i \in 1 .. Len(keys) + 1 /\ \A j \in 1 .. Len(keys) : j < i => keys[j] <= a
  BY SlotIs
<1>3. i <= Len(keys) => c < keys[i]
  BY SlotIs
<1> HIDE DEF i
<1>4. i > 1 => keys[i - 1] <= b
  <2> SUFFICES ASSUME i > 1 PROVE keys[i - 1] <= b
    OBVIOUS
  <2>1. i - 1 \in 1 .. Len(keys) /\ i - 1 < i
    BY <1>1, <1>2
  <2>2. keys[i - 1] <= a /\ keys[i - 1] \in Int
    BY <1>1, <1>2, <2>1
  <2> QED
    BY <2>2
<1>5. i <= Len(keys) => b < keys[i]
  <2> SUFFICES ASSUME i <= Len(keys) PROVE b < keys[i]
    OBVIOUS
  <2>1. i \in 1 .. Len(keys)
    BY <1>1, <1>2
  <2>2. c < keys[i] /\ keys[i] \in Int
    BY <1>1, <1>3, <2>1
  <2> QED
    BY <2>2
<1>6. Slot(keys, b) = i
  BY <1>2, <1>4, <1>5, SlotIsUnique
<1> QED
  BY <1>6 DEF i

\* ... and so does its search visit what those of the two visit.
LEMMA PathIsConvex ==
    ASSUME NEW ks, NEW cs, Fits(ks, cs), Forest(cs), NEW m, Top(cs, m),
           NEW a \in Int, NEW b \in Int, NEW c \in Int, a <= b, b <= c,
           NEW x \in Path(ks, cs, m, a), x \in Path(ks, cs, m, c)
    PROVE  x \in Path(ks, cs, m, b)
<1> DEFINE S == {n \in Nat : n \in Path(ks, cs, m, c) => n \in Path(ks, cs, m, b)}
<1>1. /\ Kids(cs) \in Graph /\ m \in Nat
      /\ Way(ks, cs, a) \in Graph /\ Way(ks, cs, b) \in Graph /\ Way(ks, cs, c) \in Graph
      /\ \A n \in Nat : Way(ks, cs, a)[n] \subseteq Kids(cs)[n]
  BY TreeGraphs DEF Top
<1>2. m \in S /\ S \in SUBSET Nat
  BY <1>1, ReachBasics DEF Path
<1>3. ClosedUnder(Way(ks, cs, a), S)
  <2> SUFFICES ASSUME NEW n \in S, NEW y \in Way(ks, cs, a)[n], y \in Path(ks, cs, m, c)
               PROVE  y \in Path(ks, cs, m, b)
    BY <1>1 DEF ClosedUnder, Graph
  <2>1. n \in Nat /\ y \in Kids(cs)[n] /\ y \in Nat
    BY <1>1 DEF Graph
  <2>2. y \in Below(cs, y)
    BY <1>1, <2>1, ReachBasics DEF Below
  <2>3. n \in Path(ks, cs, m, c) /\ y \in Way(ks, cs, c)[n]
    BY <2>1, <2>2, TurnsToChild
  <2>4. n \in Path(ks, cs, m, b)
    BY <2>3
  <2>5. cs[n] # <<>> /\ cs[n][Slot(ks[n], a)] = y /\ cs[n][Slot(ks[n], c)] = y
    BY <2>1, <2>3 DEF Way
  <2>6. PICK i \in DOMAIN cs[n] : cs[n][i] = y
    BY <2>1 DEF Kids, Range
  <2>7. Slot(ks[n], a) = i /\ Slot(ks[n], c) = i
    BY <2>1, <2>3, <2>6, SlotOfWay
  <2>8. ks[n] \in Seq(Int) /\ Ascending(ks[n])
    BY <2>1, KeysAreNumbers DEF Fits
  <2>9. Slot(ks[n], b) = i
    BY <2>7, <2>8, SlotIsConvex
  <2>10. y \in Way(ks, cs, b)[n]
    BY <2>1, <2>6, <2>9, SlotOfWay
  <2> QED
    BY <1>1, <2>4, <2>10, ReachBasics DEF Path, ClosedUnder
<1>4. x \in S
  BY <1>1, <1>2, <1>3, ReachLeast DEF Path
<1> QED
  BY <1>4

\* A search ends in one leaf.
LEMMA OneLeafOnPath ==
    ASSUME NEW ks, NEW cs, Fits(ks, cs), NEW m \in Nat, NEW k \in Int,
           NEW x \in Path(ks, cs, m, k), NEW y \in Path(ks, cs, m, k), cs[x] = <<>>, cs[y] = <<>>
    PROVE  x = y
<1> DEFINE W == Way(ks, cs, k)
           S == {z \in Nat : y \in Reach(W, z)}
<1>1. W \in Graph /\ x \in Nat /\ y \in Nat /\ W[x] = {} /\ W[y] = {}
  <2>1. W \in Graph
    BY TreeGraphs
  <2>2. x \in Nat /\ y \in Nat
    BY <2>1, ReachBasics DEF Path
  <2> QED
    BY <2>1, <2>2 DEF Way
<1>2. \A n \in Nat : \A u, v \in W[n] : u = v
  BY DEF Way
<1> HIDE DEF W
<1>3. m \in S /\ S \in SUBSET Nat
  BY DEF Path, W
<1>4. ClosedUnder(W, S)
  <2> SUFFICES ASSUME NEW n \in S, NEW z \in W[n] PROVE z \in S
    BY DEF ClosedUnder
  <2>1. z \in Nat /\ n \in Nat
    BY <1>1 DEF Graph
  <2>2. y # n
    BY <1>1
  <2>3. Reach(W, n) = {n} \cup UNION {Reach(W, u) : u \in W[n]}
    BY <1>1, <2>1, ReachFirst
  <2>4. PICK u \in W[n] : y \in Reach(W, u)
    BY <2>2, <2>3
  <2>5. u = z
    BY <1>2, <2>1
  <2> QED
    BY <2>1, <2>4, <2>5
<1>5. x \in S
  BY <1>1, <1>3, <1>4, ReachLeast DEF Path, W
<1>6. Reach(W, x) = {x} \cup UNION {Reach(W, u) : u \in W[x]}
  BY <1>1, ReachFirst
<1> QED
  BY <1>1, <1>5, <1>6

(***************************************************************************)
(* Lists linked by position.                                               *)
(***************************************************************************)
\* A function that is a list from every position, when each step goes down.
LEMMA ListExists ==
    ASSUME NEW size \in Nat, NEW next, \A n \in 1 .. size : next[n] \in 0 .. size,
           NEW rank \in [Nat -> Nat], \A n \in 1 .. size : rank[next[n]] < rank[n]
    PROVE  \E f : f = [n \in 0 .. size |-> IF n = Null THEN <<>> ELSE <<n>> \o f[next[n]]]
<1> DEFINE P == 0 .. size
           item(f, n) == <<n>> \o f[next[n]]
           upTo(r) == \E f \in [P -> Seq(Nat)] :
                        f[0] = <<>> /\ \A n \in 1 .. size : rank[n] < r => f[n] = item(f, n)
           B == {r \in Nat : ~upTo(r)}
           below(m) == \E R \in Nat : \A n \in 0 .. m : rank[n] < R
           C == {m \in Nat : m <= size /\ ~below(m)}
<1>1. /\ P \in SUBSET Nat /\ 0 \in P /\ \A n \in 1 .. size : n \in P /\ n # 0 /\ next[n] \in P
      /\ \A n \in P : n = 0 \/ n \in 1 .. size
  OBVIOUS
<1>2. upTo(0)
  <2> DEFINE f == [n \in P |-> <<>>]
  <2>1. <<>> \in Seq(Nat)
    OBVIOUS
  <2>2. f \in [P -> Seq(Nat)] /\ f[0] = <<>>
    BY <1>1, <2>1
  <2>3. \A n \in 1 .. size : ~(rank[n] < 0)
    BY <1>1
  <2> HIDE DEF f
  <2> QED
    BY <2>2, <2>3
<1> HIDE DEF P
<1>3. ASSUME NEW r \in Nat, upTo(r) PROVE upTo(r + 1)
  <2>1. PICK f \in [P -> Seq(Nat)] :
          f[0] = <<>> /\ \A n \in 1 .. size : rank[n] < r => f[n] = item(f, n)
    BY <1>3
  <2> DEFINE g == [n \in P |-> IF n # 0 /\ rank[n] <= r THEN item(f, n) ELSE <<>>]
  <2>2. ASSUME NEW n \in 1 .. size PROVE item(f, n) \in Seq(Nat)
    <3>1. f[next[n]] \in Seq(Nat)
      BY <1>1
    <3>2. n \in Nat
      OBVIOUS
    <3>3. <<n>> \in Seq(Nat)
      BY <3>2
    <3> QED
      BY <3>1, <3>3
  <2>3. <<>> \in Seq(Nat)
    OBVIOUS
  <2>4. g \in [P -> Seq(Nat)] /\ g[0] = <<>>
    <3> HIDE DEF item
    <3> QED
      BY <1>1, <2>2, <2>3
  <2>5. \A n \in 1 .. size : rank[n] <= r => g[n] = item(f, n)
    <3> HIDE DEF item
    <3> QED
      BY <1>1
  <2> HIDE DEF g
  <2>6. ASSUME NEW n \in 1 .. size, rank[n] < r + 1 PROVE g[n] = item(g, n)
    <3>1. rank[n] \in Nat /\ rank[n] <= r
      BY <1>1, <2>6
    <3>2. g[n] = item(f, n)
      BY <2>5, <3>1
    <3>3. g[next[n]] = f[next[n]]
      <4>1. CASE next[n] = 0
        BY <2>1, <2>4, <4>1
      <4>2. CASE next[n] # 0
        <5>1. next[n] \in 1 .. size /\ next[n] \in Nat
          BY <1>1, <4>2
        <5>2. rank[next[n]] \in Nat /\ rank[next[n]] < r /\ rank[next[n]] <= r
          <6>1. rank[next[n]] \in Nat /\ rank[next[n]] < rank[n]
            BY <5>1
          <6> DEFINE a == rank[next[n]]
                     b == rank[n]
          <6>2. a \in Nat /\ a < b /\ b \in Nat /\ b <= r
            BY <3>1, <6>1
          <6> HIDE DEF a, b
          <6>3. a \in Nat /\ a < r /\ a <= r
            BY ONLY <6>2, r \in Nat
          <6> QED
            BY <6>3 DEF a
        <5>3. f[next[n]] = item(f, next[n]) /\ g[next[n]] = item(f, next[n])
          BY <2>1, <2>5, <5>1, <5>2
        <5> QED
          BY <5>3
      <4> QED
        BY <4>1, <4>2
    <3> QED
      BY <3>2, <3>3
  <2> QED
    BY <2>4, <2>6
<1> HIDE DEF upTo
<1>4. B = {}
  <2> SUFFICES ASSUME B # {} PROVE FALSE
    OBVIOUS
  <2>1. B \in SUBSET Nat
    OBVIOUS
  <2>2. PICK r \in B : \A x \in B : r <= x
    BY <2>1, LeastExists
  <2>3. r # 0
    BY <1>2, <2>2
  <2>4. r - 1 \in Nat /\ ~(r <= r - 1) /\ r - 1 + 1 = r
    BY <2>3
  <2>5. upTo(r - 1)
    BY <2>2, <2>4
  <2>6. upTo(r - 1 + 1)
    BY <1>3, <2>4, <2>5
  <2> QED
    BY <2>2, <2>4, <2>6
<1>5. C = {}
  <2> SUFFICES ASSUME C # {} PROVE FALSE
    OBVIOUS
  <2>1. C \in SUBSET Nat
    OBVIOUS
  <2>2. PICK m \in C : \A x \in C : m <= x
    BY <2>1, LeastExists
  <2>3. CASE m = 0
    <3>1. rank[0] + 1 \in Nat /\ \A n \in 0 .. 0 : rank[n] < rank[0] + 1
      <4>1. rank[0] \in Nat /\ \A n \in 0 .. 0 : n = 0
        OBVIOUS
      <4>2. rank[0] + 1 \in Nat /\ rank[0] < rank[0] + 1
        <5> DEFINE a == rank[0]
        <5>1. a \in Nat
          BY <4>1
        <5> HIDE DEF a
        <5>2. a + 1 \in Nat /\ a < a + 1
          BY ONLY <5>1
        <5> QED
          BY <5>2 DEF a
      <4> QED
        BY <4>1, <4>2
    <3>2. below(0)
      BY <3>1
    <3> QED
      BY <2>2, <2>3, <3>2
  <2>4. CASE m # 0
    <3>1. m - 1 \in Nat /\ m - 1 <= size /\ ~(m <= m - 1)
      BY <2>2, <2>4
    <3>2. below(m - 1)
      BY <2>2, <3>1
    <3>3. PICK R \in Nat : \A n \in 0 .. m - 1 : rank[n] < R
      BY <3>2
    <3>4. \A n \in Nat : rank[n] \in Nat
      OBVIOUS
    <3> DEFINE top == rank[m]
               T == R + top + 1
    <3>5. top \in Nat
      BY <2>2, <3>4
    <3> HIDE DEF top
    <3>6. T \in Nat /\ R <= T /\ top < T
      BY ONLY <3>5, R \in Nat
    <3> HIDE DEF T
    <3>7. ASSUME NEW n \in 0 .. m PROVE rank[n] < T
      <4>1. n \in 0 .. m - 1 \/ n = m
        BY <2>2
      <4>2. CASE n = m
        BY <3>6, <4>2 DEF top
      <4>3. CASE n # m
        <5> DEFINE x == rank[n]
        <5>1. x < R
          BY <3>3, <4>1, <4>3
        <5>2. x \in Nat
          <6>1. n \in Nat
            BY <2>2
          <6> QED
            BY <3>4, <6>1
        <5> HIDE DEF x
        <5>3. x < T
          BY ONLY <3>6, <5>1, <5>2, R \in Nat
        <5> QED
          BY <5>3 DEF x
      <4> QED
        BY <4>2, <4>3
    <3>8. below(m)
      BY <3>6, <3>7
    <3> QED
      BY <2>2, <3>8
  <2> QED
    BY <2>3, <2>4
<1> HIDE DEF below
<1>6. below(size)
  BY <1>5
<1>7. PICK R \in Nat : \A n \in 0 .. size : rank[n] < R
  BY <1>6 DEF below
<1>8. upTo(R)
  BY <1>4
<1>9. PICK f \in [P -> Seq(Nat)] :
          f[0] = <<>> /\ \A n \in 1 .. size : rank[n] < R => f[n] = item(f, n)
  BY <1>8 DEF upTo
<1>10. \A n \in P : f[n] = IF n = 0 THEN <<>> ELSE item(f, n)
  <2> HIDE DEF item
  <2> QED
    BY <1>1, <1>7, <1>9 DEF P
<1>11. f = [n \in P |-> IF n = 0 THEN <<>> ELSE item(f, n)]
  <2> HIDE DEF item
  <2> QED
    BY <1>10
<1> QED
  BY <1>11 DEF P, Null

(***************************************************************************)
(* The leaf list of a heap.                                                *)
(***************************************************************************)
LeavesOf(h) == {n \in DOMAIN h : h[n].isLeaf}

NextIn(h) == [n \in Nat |-> IF n \in DOMAIN h /\ h[n].next # Null THEN {h[n].next} ELSE {}]

\* What comes behind m.
After(h, m) == UNION {Reach(NextIn(h), c) : c \in NextIn(h)[m]}

\* Next pointers run out.
RunsOut(h) == \E rank \in [Nat -> Nat] : \A n \in DOMAIN h : rank[h[n].next] < rank[n]

\* Only leaves have a next pointer.
LeafNexts(h) == \A n \in DOMAIN h : ~h[n].isLeaf => h[n].next = Null

\* The list has all leaves and nothing else, and only a lone leaf may be empty.
Listed(h) ==
    /\ FirstLeaf \in DOMAIN h /\ RunsOut(h) /\ LeafNexts(h)
    /\ Reach(NextIn(h), FirstLeaf) = LeavesOf(h)
    /\ \A m, n \in LeavesOf(h) : m # n => Range(h[n].keys) # {}

\* t is s behind n.
IsCons(t, n, s) ==
    /\ t \in Seq(Nat) /\ Len(t) = Len(s) + 1 /\ t[1] = n
    /\ \A j \in 1 .. Len(s) : t[j + 1] = s[j]

LEMMA ConsIs ==
    ASSUME NEW n \in Nat, NEW s \in Seq(Nat)
    PROVE  IsCons(<<n>> \o s, n, s)
<1>1. <<n>> \in Seq(Nat) /\ Len(<<n>>) = 1 /\ <<n>>[1] = n /\ Len(s) \in Nat
  OBVIOUS
<1>2. /\ <<n>> \o s \in Seq(Nat) /\ Len(<<n>> \o s) = 1 + Len(s)
      /\ \A i \in 1 .. 1 + Len(s) : (<<n>> \o s)[i] = IF i <= 1 THEN <<n>>[i] ELSE s[i - 1]
  BY <1>1, ConcatProperties
<1> DEFINE t == <<n>> \o s
<1> HIDE DEF t
<1>3. t[1] = n
  BY <1>1, <1>2 DEF t
<1>4. ASSUME NEW j \in 1 .. Len(s) PROVE t[j + 1] = s[j]
  <2>1. j + 1 \in 1 .. 1 + Len(s) /\ ~(j + 1 <= 1) /\ j + 1 - 1 = j
    BY <1>1
  <2> QED
    BY <1>2, <2>1 DEF t
<1> QED
  BY <1>1, <1>2, <1>3, <1>4 DEF IsCons, t

LEMMA RangeOfCons ==
    ASSUME NEW n \in Nat, NEW s \in Seq(Nat), NEW t, IsCons(t, n, s)
    PROVE  Range(t) = {n} \cup Range(s)
<1>1. t \in Seq(Nat) /\ Len(t) = Len(s) + 1 /\ t[1] = n /\ \A j \in 1 .. Len(s) : t[j + 1] = s[j]
  BY DEF IsCons
<1>2. DOMAIN t = 1 .. Len(s) + 1 /\ DOMAIN s = 1 .. Len(s) /\ Len(s) \in Nat
  BY <1>1, LenProperties
<1>3. ASSUME NEW i \in 1 .. Len(s) + 1 PROVE t[i] \in {n} \cup Range(s)
  <2>1. CASE i = 1
    BY <1>1, <2>1
  <2>2. CASE i # 1
    <3>1. i - 1 \in 1 .. Len(s) /\ i - 1 + 1 = i
      BY <1>2, <2>2
    <3>2. t[i] = s[i - 1]
      BY <1>1, <3>1
    <3> QED
      BY <1>2, <3>1, <3>2 DEF Range
  <2> QED
    BY <2>1, <2>2
<1>4. ASSUME NEW j \in 1 .. Len(s) PROVE s[j] \in Range(t)
  <2>1. j + 1 \in 1 .. Len(s) + 1 /\ t[j + 1] = s[j]
    BY <1>1, <1>2
  <2> QED
    BY <1>2, <2>1 DEF Range
<1>5. n \in Range(t)
  <2>1. 1 \in 1 .. Len(s) + 1
    BY <1>2
  <2> QED
    BY <1>1, <1>2, <2>1 DEF Range
<1> QED
  BY <1>2, <1>3, <1>4, <1>5 DEF Range

LEMMA NextsIn ==
    ASSUME NEW h, Shaped(h)
    PROVE  /\ NextIn(h) \in Graph /\ DOMAIN h \in SUBSET Nat
           /\ \A n \in DOMAIN h : /\ h[n].next \in 0 .. Len(h)
                                  /\ h[n].next # Null => NextIn(h)[n] = {h[n].next}
                                  /\ h[n].next = Null => NextIn(h)[n] = {}
           /\ \A n \in Nat \ DOMAIN h : NextIn(h)[n] = {}
<1>1. /\ DOMAIN h \in SUBSET Nat
      /\ \A n \in DOMAIN h : h[n].next \in Nat /\ h[n].next \in 0 .. Len(h)
  BY NodesIn DEF Sound
<1> QED
  BY <1>1 DEF NextIn, Graph

\* The elements of s are those reached from n, each behind the ones before it.
Lists(s, n) ==
    /\ s \in Seq(Nat) /\ Range(s) = Reach(NextIn(heap), n)
    /\ \A i, j \in DOMAIN s : i < j => s[j] \in After(heap, s[i])

LEMMA ListStep ==
    ASSUME Shaped(heap), NEW n \in DOMAIN heap, NEW s,
           heap[n].next = Null => s = <<>>, heap[n].next # Null => Lists(s, heap[n].next)
    PROVE  Lists(<<n>> \o s, n)
<1> DEFINE E == NextIn(heap)
           m == heap[n].next
           t == <<n>> \o s
<1>1. E \in Graph /\ n \in Nat /\ (m # Null => E[n] = {m}) /\ (m = Null => E[n] = {})
  BY NextsIn
<1>2. s \in Seq(Nat) /\ Len(s) \in Nat /\ DOMAIN s = 1 .. Len(s)
  <2>1. <<>> \in Seq(Nat)
    OBVIOUS
  <2>2. s \in Seq(Nat)
    BY <2>1 DEF Lists
  <2> QED
    BY <2>2, LenProperties
<1>3. After(heap, n) = Range(s)
  <2>1. CASE m = Null
    <3>1. Range(<<>>) = {}
      BY DEF Range
    <3> QED
      BY <1>1, <2>1, <3>1 DEF After
  <2>2. CASE m # Null
    <3>1. Range(s) = Reach(E, m)
      BY <2>2 DEF Lists
    <3> QED
      BY <1>1, <2>2, <3>1 DEF After
  <2> QED
    BY <2>1, <2>2
<1>4. \A i, j \in DOMAIN s : i < j => s[j] \in After(heap, s[i])
  <2>1. CASE m = Null
    <3>1. DOMAIN <<>> = {}
      OBVIOUS
    <3> QED
      BY <2>1, <3>1
  <2>2. CASE m # Null
    BY <2>2 DEF Lists
  <2> QED
    BY <2>1, <2>2
<1>5. IsCons(t, n, s)
  BY <1>1, <1>2, ConsIs
<1> HIDE DEF t
<1>6. Range(t) = {n} \cup Range(s)
  BY <1>1, <1>2, <1>5, RangeOfCons
<1>7. Reach(E, n) = {n} \cup After(heap, n)
  BY <1>1, ReachFirst DEF After
<1>8. ASSUME NEW i \in DOMAIN t, NEW j \in DOMAIN t, i < j PROVE t[j] \in After(heap, t[i])
  <2>1. /\ t \in Seq(Nat) /\ Len(t) = Len(s) + 1 /\ t[1] = n
        /\ \A x \in 1 .. Len(s) : t[x + 1] = s[x]
    BY <1>5 DEF IsCons
  <2>2. DOMAIN t = 1 .. Len(s) + 1
    BY <1>2, <2>1, LenProperties
  <2>3. j - 1 \in 1 .. Len(s) /\ j - 1 + 1 = j
    BY <1>2, <1>8, <2>2
  <2>4. t[j] = s[j - 1]
    BY <2>1, <2>3
  <2>5. CASE i = 1
    <3>1. s[j - 1] \in Range(s)
      BY <1>2, <2>3 DEF Range
    <3> QED
      BY <1>3, <2>1, <2>4, <2>5, <3>1
  <2>6. CASE i # 1
    <3>1. i - 1 \in 1 .. Len(s) /\ i - 1 + 1 = i /\ i - 1 < j - 1
      BY <1>2, <1>8, <2>2, <2>6
    <3>2. t[i] = s[i - 1]
      BY <2>1, <3>1
    <3> DEFINE a == i - 1
               b == j - 1
    <3>3. a \in DOMAIN s /\ b \in DOMAIN s /\ a < b /\ t[i] = s[a] /\ t[j] = s[b]
      BY <1>2, <2>3, <2>4, <3>1, <3>2
    <3> HIDE DEF a, b
    <3> QED
      BY <1>4, <3>3
  <2> QED
    BY <2>5, <2>6
<1>9. t \in Seq(Nat)
  BY <1>5 DEF IsCons
<1> QED
  BY <1>3, <1>6, <1>7, <1>8, <1>9 DEF Lists, t

\* The leaf list is what the next pointers reach from the first leaf.
LEMMA ChainIs ==
    ASSUME Shaped(heap), RunsOut(heap), FirstLeaf \in DOMAIN heap
    PROVE  Lists(Chain, FirstLeaf)
<1> DEFINE size == Len(heap)
           next == [n \in DOMAIN heap |-> heap[n].next]
           from[n \in Ptr] == IF n = Null THEN <<>> ELSE <<n>> \o from[heap[n].next]
           equation(f) == [n \in Ptr |-> IF n = Null THEN <<>> ELSE <<n>> \o f[heap[n].next]]
<1>1. /\ size \in Nat /\ DOMAIN heap = 1 .. size /\ Ptr = 0 .. size
      /\ \A n \in 1 .. size : heap[n].next \in 0 .. size
  BY NodesIn, NextsIn DEF Ptr
<1>2. PICK rank \in [Nat -> Nat] : \A n \in DOMAIN heap : rank[heap[n].next] < rank[n]
  BY DEF RunsOut
<1>3. \A n \in 1 .. size : next[n] = heap[n].next
  BY <1>1
<1> HIDE DEF next
<1>4. \E f : f = equation(f)
  <2>1. /\ \A n \in 1 .. size : next[n] \in 0 .. size
        /\ \A n \in 1 .. size : rank[next[n]] < rank[n]
    BY <1>1, <1>2, <1>3
  <2> HIDE DEF size
  <2>2. PICK f : f = [n \in 0 .. size |-> IF n = Null THEN <<>> ELSE <<n>> \o f[next[n]]]
    BY <1>1, <2>1, ListExists
  <2>3. \A n \in 0 .. size : n # Null => next[n] = heap[n].next
    BY <1>1, <1>3 DEF Null
  <2>4. \A n \in 0 .. size : f[n] = IF n = Null THEN <<>> ELSE <<n>> \o f[heap[n].next]
    BY <2>2, <2>3
  <2>5. f = [n \in 0 .. size |-> f[n]]
    BY <2>2
  <2>6. f = equation(f)
    BY <1>1, <2>4, <2>5
  <2> QED
    BY <2>6
<1>5. from = CHOOSE f : f = equation(f)
  OBVIOUS
<1>6. Chain = from[FirstLeaf]
  BY DEF Chain
<1> HIDE DEF from
<1>7. from = equation(from)
  <2> HIDE DEF equation
  <2> QED
    BY Zenon, <1>4, <1>5
<1> DEFINE B == {n \in DOMAIN heap : ~Lists(from[n], n)}
<1>8. B = {}
  <2> SUFFICES ASSUME B # {} PROVE FALSE
    OBVIOUS
  <2>1. B \in SUBSET Nat
    BY <1>1
  <2> HIDE DEF B
  <2>2. PICK n \in B : \A x \in B : rank[n] <= rank[x]
    BY <2>1, LeastLevel
  <2>3. n \in DOMAIN heap /\ ~Lists(from[n], n)
    BY <2>2 DEF B
  <2> HIDE DEF size
  <2>4. n \in Ptr /\ n # Null /\ heap[n].next \in Ptr /\ n \in Nat /\ heap[n].next \in Nat
    <3>1. n \in 1 .. size
      BY <1>1, <2>3
    <3>2. heap[n].next \in 0 .. size
      BY <1>1, <3>1
    <3> QED
      BY <1>1, <3>1, <3>2 DEF Null
  <2>5. from[n] = <<n>> \o from[heap[n].next] /\ (heap[n].next = Null => from[heap[n].next] = <<>>)
    BY <1>7, <2>4
  <2>6. rank[heap[n].next] < rank[n] /\ rank[n] \in Nat /\ rank[heap[n].next] \in Nat
    <3>1. rank[n] \in Nat /\ rank[heap[n].next] \in Nat
      BY <2>4
    <3> QED
      BY <1>2, <2>3, <3>1
  <2>7. heap[n].next \notin B
    BY <2>2, <2>6
  <2>8. heap[n].next # Null => heap[n].next \in DOMAIN heap
    <3> DEFINE m == heap[n].next
    <3>1. m \in 0 .. size /\ DOMAIN heap = 1 .. size
      BY <1>1, <2>4
    <3> HIDE DEF m
    <3>2. m # 0 => m \in 1 .. size
      BY <1>1, <3>1
    <3> QED
      BY <3>1, <3>2 DEF m, Null
  <2>9. heap[n].next # Null => Lists(from[heap[n].next], heap[n].next)
    BY <2>7, <2>8 DEF B
  <2>10. Lists(<<n>> \o from[heap[n].next], n)
    BY <2>3, <2>5, <2>9, ListStep
  <2> QED
    BY <2>3, <2>5, <2>10
<1> QED
  BY <1>6, <1>8

(***************************************************************************)
(* The order of the list.                                                  *)
(***************************************************************************)
InLine(h) ==
    \A n \in LeavesOf(h) : \A x \in NextIn(h)[n] :
        \A k \in Range(h[n].keys), l \in Range(h[x].keys) : k < l

\* No node has been lost.
Seen(h, r, c) == Below(KidsIn(h), r) \cup IF c = Idle THEN {} ELSE Below(KidsIn(h), c.right)

Complete(h, r, c) == DOMAIN h \subseteq Seen(h, r, c)

LEMMA NextIsOther ==
    ASSUME NEW h, Shaped(h), Listed(h), NEW n \in LeavesOf(h), NEW x \in NextIn(h)[n]
    PROVE  x # n /\ x \in LeavesOf(h) /\ Range(h[n].keys) # {} /\ Range(h[x].keys) # {}
<1>1. n \in DOMAIN h /\ NextIn(h) \in Graph /\ NextIn(h)[n] = {h[n].next} /\ x = h[n].next
  BY NextsIn DEF LeavesOf
<1>2. PICK rank \in [Nat -> Nat] : \A y \in DOMAIN h : rank[h[y].next] < rank[y]
  BY DEF Listed, RunsOut
<1>3. x # n
  <2> SUFFICES ASSUME x = n PROVE FALSE
    OBVIOUS
  <2>1. rank[n] < rank[n] /\ rank[n] \in Nat
    BY <1>1, <1>2, NextsIn
  <2> DEFINE a == rank[n]
  <2>2. a < a /\ a \in Nat
    BY <2>1
  <2> HIDE DEF a
  <2> QED
    BY <2>2
<1>4. x \in LeavesOf(h)
  <2>1. FirstLeaf \in Nat /\ n \in Reach(NextIn(h), FirstLeaf)
    BY NextsIn DEF Listed
  <2> QED
    BY <1>1, <2>1, ReachBasics DEF ClosedUnder, Listed
<1> QED
  BY <1>3, <1>4 DEF Listed

LEMMA LeafKeysAre ==
    ASSUME NEW h, Shaped(h), NEW n \in LeavesOf(h)
    PROVE  /\ n \in DOMAIN h /\ n \in Nat /\ h[n].isLeaf /\ KidsIn(h)[n] = <<>>
           /\ KeysIn(h)[n] = h[n].keys /\ Range(h[n].keys) \subseteq Keys
           /\ Range(h[n].keys) \subseteq Int
<1>1. n \in DOMAIN h /\ h[n].isLeaf
  BY DEF LeavesOf
<1>2. /\ n \in Nat /\ Sound(h[n], Len(h)) /\ KeysIn(h)[n] = h[n].keys /\ KidsIn(h)[n] = h[n].children
      /\ h[n].keys \in Seq(Keys)
  BY <1>1, NodesIn
<1>3. Range(h[n].keys) \subseteq Keys
  BY <1>2, ElementOfSeq, LenProperties DEF Range
<1> QED
  BY <1>1, <1>2, <1>3, KeysAssumption DEF Sound

\* Keys grow along the list.
LEMMA KeysAfter ==
    ASSUME NEW h, Shaped(h), Listed(h), InLine(h), NEW m \in LeavesOf(h), NEW x \in After(h, m)
    PROVE  x \in LeavesOf(h) /\ \A k \in Range(h[m].keys), l \in Range(h[x].keys) : k < l
<1> DEFINE E == NextIn(h)
           S == {y \in LeavesOf(h) : \A k \in Range(h[m].keys), l \in Range(h[y].keys) : k < l}
<1>1. E \in Graph
  BY NextsIn
<1>2. PICK c \in E[m] : x \in Reach(E, c)
  BY DEF After
<1>3. S \in SUBSET Nat
  BY NextsIn DEF LeavesOf
<1>4. c \in S /\ c \in Nat
  BY <1>2, <1>3, NextIsOther DEF InLine
<1>5. ClosedUnder(E, S)
  <2> SUFFICES ASSUME NEW y \in S, NEW z \in E[y] PROVE z \in S
    BY DEF ClosedUnder
  <2>1. y \in LeavesOf(h) /\ \A k \in Range(h[m].keys), l \in Range(h[y].keys) : k < l
    OBVIOUS
  <2>2. z \in LeavesOf(h) /\ Range(h[y].keys) # {}
    BY <2>1, NextIsOther
  <2>3. ASSUME NEW k \in Range(h[m].keys), NEW l \in Range(h[z].keys) PROVE k < l
    <3>1. PICK j \in Range(h[y].keys) : TRUE
      BY <2>2
    <3>2. k < j /\ j < l
      BY <2>1, <3>1 DEF InLine
    <3>3. k \in Int /\ j \in Int /\ l \in Int
      BY <2>1, <2>2, LeafKeysAre
    <3> QED
      BY <3>2, <3>3
  <2> QED
    BY <2>2, <2>3
<1> HIDE DEF S
<1>6. x \in S
  BY <1>1, <1>2, <1>3, <1>4, <1>5, ReachLeast
<1> QED
  BY <1>6 DEF S

(***************************************************************************)
(* The leaf a search ends in, when no node has been lost.                  *)
(***************************************************************************)
LEMMA LeafOnPath ==
    ASSUME TreeInv(heap, root, carry), NEW k \in Int, NEW n \in LeavesOf(heap),
           n \in Path(KeysIn(heap), KidsIn(heap), root, k)
    PROVE  FindLeaf(k) = n
<1>1. Shaped(heap) /\ Linked(heap, root) /\ Levelled(heap, carry)
  BY DEF TreeInv
<1>2. Fits(KeysIn(heap), KidsIn(heap)) /\ root \in Nat
  BY <1>1, HeapIsTree DEF Tree, Top
<1>3. /\ FindLeaf(k) \in LeavesOf(heap)
      /\ FindLeaf(k) \in Path(KeysIn(heap), KidsIn(heap), root, k)
  BY FindLeafIs DEF LeavesOf
<1>4. KidsIn(heap)[n] = <<>> /\ KidsIn(heap)[FindLeaf(k)] = <<>>
  BY <1>1, <1>3, LeafKeysAre
<1> QED
  BY <1>2, <1>3, <1>4, OneLeafOnPath

LEMMA KeyIsFound ==
    ASSUME TreeInv(heap, root, carry), carry = Idle, Complete(heap, root, carry),
           NEW n \in LeavesOf(heap), NEW k \in Range(heap[n].keys)
    PROVE  /\ k \in Int /\ FindLeaf(k) = n
           /\ n \in Path(KeysIn(heap), KidsIn(heap), root, k)
<1>1. Shaped(heap) /\ Routed(KeysIn(heap), KidsIn(heap), root)
  BY DEF TreeInv, InOrder
<1>2. n \in DOMAIN heap /\ KeysIn(heap)[n] = heap[n].keys /\ k \in Int
  BY <1>1, LeafKeysAre
<1>3. n \in Below(KidsIn(heap), root)
  BY <1>2 DEF Complete, Seen
<1>4. n \in Path(KeysIn(heap), KidsIn(heap), root, k)
  BY <1>1, <1>2, <1>3 DEF Routed
<1> QED
  BY <1>2, <1>4, LeafOnPath

\* A key goes into the list where its order wants it.
LEMMA KeyFitsInLine ==
    ASSUME TreeInv(heap, root, carry), carry = Idle, Complete(heap, root, carry),
           Listed(heap), InLine(heap), NEW k \in Int, NEW leaf, leaf = FindLeaf(k)
    PROVE  /\ leaf \in LeavesOf(heap)
           /\ \A n \in LeavesOf(heap) \ {leaf} : k \notin Range(heap[n].keys)
           /\ \A p \in LeavesOf(heap) : leaf \in NextIn(heap)[p] =>
                \A j \in Range(heap[p].keys) : j < k
           /\ \A x \in NextIn(heap)[leaf] : \A l \in Range(heap[x].keys) : k < l
<1> DEFINE ks == KeysIn(heap)
           cs == KidsIn(heap)
<1>1. /\ Shaped(heap) /\ Fits(ks, cs) /\ Forest(cs) /\ Top(cs, root)
  <2>1. Shaped(heap) /\ Linked(heap, root) /\ Levelled(heap, carry)
    BY DEF TreeInv
  <2> QED
    BY <2>1, HeapIsTree DEF Tree
<1>2. leaf \in LeavesOf(heap) /\ leaf \in Path(ks, cs, root, k)
  BY FindLeafIs DEF LeavesOf
<1>3. \A n \in LeavesOf(heap) : \A j \in Range(heap[n].keys) :
         j \in Int /\ FindLeaf(j) = n /\ n \in Path(ks, cs, root, j)
  BY KeyIsFound
<1>4. ASSUME NEW a \in Int, NEW b \in Int, leaf \in Path(ks, cs, root, a), leaf \in Path(ks, cs, root, b),
             NEW j \in Int, a <= j, j <= b
      PROVE  FindLeaf(j) = leaf
  <2>1. leaf \in Path(ks, cs, root, j)
    BY <1>1, <1>4, PathIsConvex
  <2> QED
    BY <1>2, <2>1, LeafOnPath
<1> HIDE DEF ks, cs
<1>5. \A n \in LeavesOf(heap) \ {leaf} : k \notin Range(heap[n].keys)
  BY <1>3
<1>6. ASSUME NEW p \in LeavesOf(heap), leaf \in NextIn(heap)[p], NEW j \in Range(heap[p].keys)
      PROVE  j < k
  <2> SUFFICES ASSUME ~(j < k) PROVE FALSE
    OBVIOUS
  <2>1. leaf # p /\ Range(heap[leaf].keys) # {}
    BY <1>1, <1>6, NextIsOther
  <2>2. PICK l \in Range(heap[leaf].keys) : TRUE
    BY <2>1
  <2>3. j < l
    BY <1>6, <2>2 DEF InLine
  <2>4. j \in Int /\ FindLeaf(j) = p /\ l \in Int /\ leaf \in Path(ks, cs, root, l)
    BY <1>2, <1>3, <1>6, <2>2
  <2>5. k <= j /\ j <= l
    BY <2>3, <2>4
  <2>6. FindLeaf(j) = leaf
    BY <1>2, <1>4, <2>4, <2>5
  <2> QED
    BY <2>1, <2>4, <2>6
<1>7. ASSUME NEW x \in NextIn(heap)[leaf], NEW l \in Range(heap[x].keys)
      PROVE  k < l
  <2> SUFFICES ASSUME ~(k < l) PROVE FALSE
    OBVIOUS
  <2>1. x # leaf /\ x \in LeavesOf(heap) /\ Range(heap[leaf].keys) # {}
    BY <1>1, <1>2, <1>7, NextIsOther
  <2>2. PICK j \in Range(heap[leaf].keys) : TRUE
    BY <2>1
  <2>3. j < l
    BY <1>2, <1>7, <2>2 DEF InLine
  <2>4. j \in Int /\ leaf \in Path(ks, cs, root, j) /\ l \in Int /\ FindLeaf(l) = x
    BY <1>2, <1>3, <1>7, <2>1, <2>2
  <2>5. j <= l /\ l <= k
    BY <2>3, <2>4
  <2>6. FindLeaf(l) = leaf
    BY <1>2, <1>4, <2>4, <2>5
  <2> QED
    BY <2>1, <2>4, <2>6
<1> QED
  BY <1>2, <1>5, <1>6, <1>7

(***************************************************************************)
(* What the steps do to the leaves.                                        *)
(***************************************************************************)
Zipped(keys, values) == {<<keys[i], values[i]>> : i \in DOMAIN keys}
Held(node) == Zipped(node.keys, node.values)

\* The entries S, with v under k.
Stored(S, k, v) == {e \in S : e[1] # k} \cup {<<k, v>>}

\* A call changes parents and internal nodes only.
SameLeaves(h, h2) ==
    /\ DOMAIN h \subseteq DOMAIN h2
    /\ \A n \in DOMAIN h :
         /\ h2[n].isLeaf = h[n].isLeaf /\ h2[n].next = h[n].next
         /\ h[n].isLeaf => h2[n].keys = h[n].keys /\ h2[n].values = h[n].values
    /\ \A n \in DOMAIN h2 \ DOMAIN h : ~h2[n].isLeaf /\ h2[n].next = Null

\* It stores v under k in one leaf.
Puts(h, h2, leaf, k, v) ==
    /\ DOMAIN h2 = DOMAIN h /\ leaf \in LeavesOf(h)
    /\ \A n \in DOMAIN h \ {leaf} : h2[n] = h[n]
    /\ h2[leaf].isLeaf /\ h2[leaf].next = h[leaf].next
    /\ Range(h2[leaf].keys) = Range(h[leaf].keys) \cup {k}
    /\ Held(h2[leaf]) = Stored(Held(h[leaf]), k, v)

\* It does, and the upper part of the leaf goes to a new one.
Splits(h, h2, leaf, new, k, v) ==
    /\ new \in Nat \ (DOMAIN h \cup {Null}) /\ DOMAIN h2 = DOMAIN h \cup {new} /\ leaf \in LeavesOf(h)
    /\ \A n \in DOMAIN h \ {leaf} : h2[n] = h[n]
    /\ h2[leaf].isLeaf /\ h2[leaf].next = new
    /\ h2[new].isLeaf /\ h2[new].next = h[leaf].next
    /\ Range(h2[leaf].keys) # {} /\ Range(h2[new].keys) # {}
    /\ Range(h2[leaf].keys) \cup Range(h2[new].keys) = Range(h[leaf].keys) \cup {k}
    /\ \A i \in Range(h2[leaf].keys), j \in Range(h2[new].keys) : i < j
    /\ Held(h2[leaf]) \cup Held(h2[new]) = Stored(Held(h[leaf]), k, v)

LEMMA SameLeavesList ==
    ASSUME NEW h, NEW h2, Shaped(h), Shaped(h2), SameLeaves(h, h2)
    PROVE  LeavesOf(h2) = LeavesOf(h) /\ NextIn(h2) = NextIn(h)
<1>1. LeavesOf(h2) = LeavesOf(h)
  BY DEF SameLeaves, LeavesOf
<1>2. ASSUME NEW n \in Nat PROVE NextIn(h2)[n] = NextIn(h)[n]
  <2>1. CASE n \in DOMAIN h
    BY <2>1 DEF SameLeaves, NextIn
  <2>2. CASE n \notin DOMAIN h
    BY <2>2 DEF SameLeaves, NextIn
  <2> QED
    BY <2>1, <2>2
<1>3. DOMAIN NextIn(h2) = Nat /\ DOMAIN NextIn(h) = Nat
  BY DEF NextIn
<1>4. NextIn(h2) = [n \in Nat |-> NextIn(h2)[n]] /\ NextIn(h) = [n \in Nat |-> NextIn(h)[n]]
  BY DEF NextIn
<1> QED
  BY <1>1, <1>2, <1>4

LEMMA SameLeavesListed ==
    ASSUME NEW h, NEW h2, Shaped(h), Shaped(h2), SameLeaves(h, h2), Listed(h)
    PROVE  Listed(h2)
<1>1. LeavesOf(h2) = LeavesOf(h) /\ NextIn(h2) = NextIn(h)
  BY SameLeavesList
<1>2. PICK rank \in [Nat -> Nat] : \A n \in DOMAIN h : rank[h[n].next] < rank[n]
  BY DEF Listed, RunsOut
<1> DEFINE top == rank[0] + 1
           rank2 == [n \in Nat |-> IF n \in DOMAIN h \/ n = 0 THEN rank[n] ELSE top]
<1>3. rank[0] \in Nat
  OBVIOUS
<1>4. top \in Nat /\ rank[0] < top
  <2> DEFINE a == rank[0]
  <2>1. a \in Nat
    BY <1>3
  <2> HIDE DEF a
  <2> QED
    BY <2>1
<1> HIDE DEF top
<1>5. /\ rank2 \in [Nat -> Nat] /\ rank2[0] = rank[0]
      /\ \A n \in DOMAIN h : rank2[n] = rank[n]
      /\ \A n \in DOMAIN h2 \ DOMAIN h : n # 0 => rank2[n] = top
  <2>1. DOMAIN h \in SUBSET Nat /\ DOMAIN h2 \in SUBSET Nat
    BY NextsIn
  <2> QED
    BY <1>2, <1>4, <2>1
<1> HIDE DEF rank2
<1>6. \A n \in DOMAIN h2 : rank2[h2[n].next] < rank2[n]
  <2> SUFFICES ASSUME NEW n \in DOMAIN h2 PROVE rank2[h2[n].next] < rank2[n]
    OBVIOUS
  <2>1. CASE n \in DOMAIN h
    <3>1. h2[n].next = h[n].next /\ rank[h[n].next] < rank[n] /\ rank2[n] = rank[n]
      BY <1>2, <1>5, <2>1 DEF SameLeaves
    <3>2. h[n].next = 0 \/ h[n].next \in DOMAIN h
      <4>1. h[n].next \in 0 .. Len(h)
        BY <2>1, NextsIn
      <4>2. DOMAIN h = 1 .. Len(h) /\ Len(h) \in Nat
        BY NodesIn
      <4> DEFINE x == h[n].next
                 size == Len(h)
      <4>3. x \in 0 .. size /\ size \in Nat
        BY <4>1, <4>2
      <4> HIDE DEF x, size
      <4>4. x = 0 \/ x \in 1 .. size
        BY ONLY <4>3
      <4> QED
        BY <4>2, <4>4 DEF x, size
    <3>3. rank2[h[n].next] = rank[h[n].next]
      BY <1>5, <3>2
    <3> QED
      BY <3>1, <3>3
  <2>2. CASE n \notin DOMAIN h
    <3>1. h2[n].next = 0
      BY <2>2 DEF SameLeaves, Null
    <3>2. n # 0
      BY NodesIn
    <3> QED
      BY <1>4, <1>5, <2>2, <3>1, <3>2
  <2> QED
    BY <2>1, <2>2
<1>7. FirstLeaf \in DOMAIN h2
  BY DEF Listed, SameLeaves
<1>8. \A n \in LeavesOf(h) : h2[n].keys = h[n].keys
  BY DEF SameLeaves, LeavesOf
<1>9. LeafNexts(h2)
  BY DEF Listed, LeafNexts, SameLeaves
<1> QED
  BY <1>1, <1>5, <1>6, <1>7, <1>8, <1>9 DEF Listed, RunsOut

LEMMA SameLeavesInLine ==
    ASSUME NEW h, NEW h2, Shaped(h), Shaped(h2), SameLeaves(h, h2), Listed(h), InLine(h)
    PROVE  InLine(h2)
<1>1. LeavesOf(h2) = LeavesOf(h) /\ NextIn(h2) = NextIn(h)
  BY SameLeavesList
<1>2. \A n \in LeavesOf(h) : h2[n].keys = h[n].keys
  BY DEF SameLeaves, LeavesOf
<1>3. \A n \in LeavesOf(h) : \A x \in NextIn(h)[n] : x \in LeavesOf(h)
  BY NextIsOther
<1> QED
  BY <1>1, <1>2, <1>3 DEF InLine

LEMMA PutsList ==
    ASSUME NEW h, NEW h2, Shaped(h), Shaped(h2), NEW leaf, NEW k, NEW v, Puts(h, h2, leaf, k, v)
    PROVE  LeavesOf(h2) = LeavesOf(h) /\ NextIn(h2) = NextIn(h)
<1>1. \A n \in DOMAIN h : h2[n].isLeaf = h[n].isLeaf /\ h2[n].next = h[n].next
  <2>1. h[leaf].isLeaf = TRUE /\ h2[leaf].isLeaf = TRUE
    <3>1. h[leaf].isLeaf \in BOOLEAN /\ h2[leaf].isLeaf \in BOOLEAN
      BY NodesIn DEF Puts, LeavesOf
    <3> QED
      BY <3>1 DEF Puts, LeavesOf
  <2> QED
    BY <2>1 DEF Puts
<1>2. LeavesOf(h2) = LeavesOf(h)
  BY <1>1 DEF Puts, LeavesOf
<1>3. DOMAIN h2 = DOMAIN h
  BY DEF Puts
<1> QED
  BY <1>1, <1>2, <1>3 DEF NextIn

LEMMA PutsListed ==
    ASSUME NEW h, NEW h2, Shaped(h), Shaped(h2), NEW leaf, NEW k, NEW v, Puts(h, h2, leaf, k, v),
           Listed(h)
    PROVE  Listed(h2)
<1>1. LeavesOf(h2) = LeavesOf(h) /\ NextIn(h2) = NextIn(h) /\ DOMAIN h2 = DOMAIN h
  BY PutsList DEF Puts
<1>2. \A n \in DOMAIN h : h2[n].next = h[n].next
  BY DEF Puts
<1>3. RunsOut(h2)
  BY <1>1, <1>2 DEF Listed, RunsOut
<1>4. \A n \in LeavesOf(h) : Range(h[n].keys) # {} => Range(h2[n].keys) # {}
  BY DEF Puts, LeavesOf
<1>5. LeafNexts(h2)
  BY DEF Listed, LeafNexts, Puts
<1> QED
  BY <1>1, <1>3, <1>4, <1>5 DEF Listed

LEMMA PutsInLine ==
    ASSUME NEW h, NEW h2, Shaped(h), Shaped(h2), NEW leaf, NEW k, NEW v, Puts(h, h2, leaf, k, v),
           Listed(h), InLine(h),
           \A p \in LeavesOf(h) : leaf \in NextIn(h)[p] => \A j \in Range(h[p].keys) : j < k,
           \A x \in NextIn(h)[leaf] : \A l \in Range(h[x].keys) : k < l
    PROVE  InLine(h2)
<1>1. LeavesOf(h2) = LeavesOf(h) /\ NextIn(h2) = NextIn(h)
  BY PutsList
<1>2. /\ \A n \in LeavesOf(h) \ {leaf} : h2[n].keys = h[n].keys
      /\ Range(h2[leaf].keys) = Range(h[leaf].keys) \cup {k}
  BY DEF Puts, LeavesOf
<1> SUFFICES ASSUME NEW n \in LeavesOf(h), NEW x \in NextIn(h)[n],
                    NEW i \in Range(h2[n].keys), NEW j \in Range(h2[x].keys)
             PROVE  i < j
  BY <1>1 DEF InLine
<1>3. x # n /\ x \in LeavesOf(h)
  BY NextIsOther
<1>4. CASE n = leaf
  BY <1>2, <1>3, <1>4 DEF InLine
<1>5. CASE x = leaf
  BY <1>2, <1>3, <1>5 DEF InLine
<1>6. CASE n # leaf /\ x # leaf
  BY <1>2, <1>3, <1>6 DEF InLine
<1> QED
  BY <1>4, <1>5, <1>6

LEMMA SplitsList ==
    ASSUME NEW h, NEW h2, Shaped(h), Shaped(h2), NEW leaf, NEW new, NEW k, NEW v,
           Splits(h, h2, leaf, new, k, v)
    PROVE  /\ LeavesOf(h2) = LeavesOf(h) \cup {new} /\ new \notin LeavesOf(h)
           /\ NextIn(h2)[leaf] = {new} /\ NextIn(h2)[new] = NextIn(h)[leaf]
           /\ \A n \in Nat \ {leaf, new} : NextIn(h2)[n] = NextIn(h)[n]
<1>1. /\ leaf \in DOMAIN h /\ new \notin DOMAIN h /\ DOMAIN h2 = DOMAIN h \cup {new}
      /\ new \in Nat /\ new # Null /\ leaf \in Nat
      /\ h[leaf].isLeaf /\ h2[leaf].isLeaf /\ h2[new].isLeaf
      /\ h2[leaf].next = new /\ h2[new].next = h[leaf].next
  BY NodesIn DEF Splits, LeavesOf
<1>2. \A n \in DOMAIN h \ {leaf} : h2[n] = h[n]
  BY DEF Splits
<1>3. LeavesOf(h2) = LeavesOf(h) \cup {new} /\ new \notin LeavesOf(h)
  BY <1>1, <1>2 DEF LeavesOf
<1>4. NextIn(h2)[leaf] = {new} /\ NextIn(h2)[new] = NextIn(h)[leaf]
  BY <1>1 DEF NextIn
<1>5. \A n \in Nat \ {leaf, new} : NextIn(h2)[n] = NextIn(h)[n]
  BY <1>1, <1>2 DEF NextIn
<1> QED
  BY <1>3, <1>4, <1>5

LEMMA SplitsRunsOut ==
    ASSUME NEW h, NEW h2, Shaped(h), Shaped(h2), NEW leaf, NEW new, NEW k, NEW v,
           Splits(h, h2, leaf, new, k, v), RunsOut(h)
    PROVE  RunsOut(h2)
<1>1. /\ leaf \in DOMAIN h /\ new \notin DOMAIN h /\ DOMAIN h2 = DOMAIN h \cup {new}
      /\ new \in Nat /\ new # 0 /\ leaf # new
      /\ h2[leaf].next = new /\ h2[new].next = h[leaf].next
      /\ DOMAIN h \in SUBSET Nat
      /\ \A n \in DOMAIN h \ {leaf} : h2[n].next = h[n].next
  BY NextsIn DEF Splits, LeavesOf, Null
<1>2. \A n \in DOMAIN h : h[n].next \in Nat /\ h[n].next # new
  <2> SUFFICES ASSUME NEW n \in DOMAIN h PROVE h[n].next \in Nat /\ h[n].next # new
    OBVIOUS
  <2>1. h[n].next \in 0 .. Len(h) /\ DOMAIN h = 1 .. Len(h) /\ Len(h) \in Nat
    BY NodesIn, NextsIn
  <2> DEFINE m == h[n].next
  <2>2. m \in 0 .. Len(h)
    BY <2>1
  <2> HIDE DEF m
  <2>3. m \in Nat /\ (m = 0 \/ m \in DOMAIN h)
    BY <2>1, <2>2
  <2>4. m # new
    BY <1>1, <2>3
  <2> QED
    BY <2>3, <2>4 DEF m
<1>3. PICK rank \in [Nat -> Nat] : \A n \in DOMAIN h : rank[h[n].next] < rank[n]
  BY DEF RunsOut
<1> DEFINE low == 2 * rank[leaf]
           rank2 == [n \in Nat |-> IF n = new THEN low ELSE 2 * rank[n] + 1]
<1>4. \A n \in Nat : 2 * rank[n] + 1 \in Nat /\ 2 * rank[n] \in Nat
  <2> SUFFICES ASSUME NEW n \in Nat PROVE 2 * rank[n] + 1 \in Nat /\ 2 * rank[n] \in Nat
    OBVIOUS
  <2> DEFINE a == rank[n]
  <2>1. a \in Nat
    OBVIOUS
  <2> HIDE DEF a
  <2>2. 2 * a + 1 \in Nat /\ 2 * a \in Nat
    BY <2>1
  <2> QED
    BY <2>2 DEF a
<1>5. low \in Nat
  BY <1>1, <1>4
<1> HIDE DEF low
<1>6. /\ rank2 \in [Nat -> Nat] /\ rank2[new] = low
      /\ \A n \in Nat : n # new => rank2[n] = 2 * rank[n] + 1
  BY <1>1, <1>4, <1>5
<1> HIDE DEF rank2
<1>7. ASSUME NEW n \in DOMAIN h
      PROVE  2 * rank[h[n].next] + 1 < 2 * rank[n]
  <2> DEFINE a == rank[h[n].next]
             b == rank[n]
  <2>1. a \in Nat /\ b \in Nat /\ a < b
    BY <1>1, <1>2, <1>3
  <2> HIDE DEF a, b
  <2>2. 2 * a + 1 < 2 * b
    BY <2>1
  <2> QED
    BY <2>2 DEF a, b
<1>8. ASSUME NEW n \in DOMAIN h2 PROVE rank2[h2[n].next] < rank2[n]
  <2>1. CASE n = new
    <3>1. rank2[h2[n].next] = 2 * rank[h[leaf].next] + 1 /\ rank2[n] = 2 * rank[leaf]
      BY <1>1, <1>2, <1>6, <2>1 DEF low
    <3> QED
      BY <1>1, <1>7, <3>1
  <2>2. CASE n = leaf
    <3>1. rank2[h2[n].next] = 2 * rank[leaf] /\ rank2[n] = 2 * rank[leaf] + 1
      BY <1>1, <1>6, <2>2 DEF low
    <3> DEFINE a == 2 * rank[leaf]
    <3>2. a \in Nat
      BY <1>1, <1>4
    <3>3. rank2[h2[n].next] = a /\ rank2[n] = a + 1
      BY <3>1
    <3> HIDE DEF a
    <3> QED
      BY <3>2, <3>3
  <2>3. CASE n # new /\ n # leaf
    <3>1. n \in DOMAIN h /\ n \in Nat
      BY <1>1, <2>3
    <3>2. rank2[h2[n].next] = 2 * rank[h[n].next] + 1 /\ rank2[n] = 2 * rank[n] + 1
      BY <1>1, <1>2, <1>6, <2>3, <3>1
    <3> DEFINE a == 2 * rank[h[n].next] + 1
               b == 2 * rank[n]
    <3>3. a \in Nat /\ b \in Nat /\ a < b /\ rank2[h2[n].next] = a /\ rank2[n] = b + 1
      BY <1>2, <1>4, <1>7, <3>1, <3>2
    <3> HIDE DEF a, b
    <3> QED
      BY <3>3
  <2> QED
    BY <2>1, <2>2, <2>3
<1> QED
  BY <1>6, <1>8 DEF RunsOut

LEMMA SplitsListed ==
    ASSUME NEW h, NEW h2, Shaped(h), Shaped(h2), NEW leaf, NEW new, NEW k, NEW v,
           Splits(h, h2, leaf, new, k, v), Listed(h)
    PROVE  Listed(h2)
<1> DEFINE E == NextIn(h)
           F == NextIn(h2)
           R == Reach(E, FirstLeaf)
           T == Reach(F, FirstLeaf)
<1>1. E \in Graph /\ F \in Graph /\ FirstLeaf \in Nat
  BY NextsIn DEF Listed
<1>2. /\ LeavesOf(h2) = LeavesOf(h) \cup {new} /\ leaf \in LeavesOf(h) /\ new \in Nat
      /\ F[leaf] = {new} /\ F[new] = E[leaf] /\ \A n \in Nat \ {leaf, new} : F[n] = E[n]
  <2>1. leaf \in LeavesOf(h) /\ new \in Nat
    BY DEF Splits
  <2> QED
    BY <2>1, SplitsList
<1>3. E[new] = {}
  BY NextsIn DEF Splits
<1>4. R = LeavesOf(h)
  BY DEF Listed
<1>5. /\ R \in SUBSET Nat /\ FirstLeaf \in R /\ ClosedUnder(E, R)
      /\ T \in SUBSET Nat /\ FirstLeaf \in T /\ ClosedUnder(F, T)
  BY <1>1, ReachBasics
<1> HIDE DEF E, F, R, T
<1>6. T \subseteq R \cup {new}
  <2> DEFINE S == R \cup {new}
  <2>1. S \in SUBSET Nat /\ FirstLeaf \in S
    BY <1>2, <1>5
  <2>2. ClosedUnder(F, S)
    <3> SUFFICES ASSUME NEW x \in S PROVE F[x] \subseteq S
      BY DEF ClosedUnder
    <3> QED
      BY <1>2, <1>4, <1>5 DEF ClosedUnder
  <2> HIDE DEF S
  <2>3. T \subseteq S
    BY <1>1, <2>1, <2>2, ReachLeast DEF T
  <2> QED
    BY <2>3 DEF S
<1>7. R \subseteq T
  <2>1. ClosedUnder(E, T)
    <3> SUFFICES ASSUME NEW x \in T PROVE E[x] \subseteq T
      BY DEF ClosedUnder
    <3>1. CASE x = leaf
      BY <1>2, <1>5, <3>1 DEF ClosedUnder
    <3>2. CASE x = new
      BY <1>3, <3>2
    <3>3. CASE x # leaf /\ x # new
      BY <1>2, <1>5, <3>3 DEF ClosedUnder
    <3> QED
      BY <3>1, <3>2, <3>3
  <2> QED
    BY <1>1, <1>5, <2>1, ReachLeast DEF R
<1>8. new \in T
  BY <1>2, <1>4, <1>5, <1>7 DEF ClosedUnder
<1>9. T = LeavesOf(h2)
  BY <1>2, <1>4, <1>6, <1>7, <1>8
<1>10. \A m, n \in LeavesOf(h2) : m # n => Range(h2[n].keys) # {}
  <2> SUFFICES ASSUME NEW m \in LeavesOf(h2), NEW n \in LeavesOf(h2), m # n
               PROVE  Range(h2[n].keys) # {}
    OBVIOUS
  <2>1. CASE n = leaf \/ n = new
    BY <2>1 DEF Splits
  <2>2. CASE n # leaf /\ n # new
    <3>1. n \in LeavesOf(h) /\ h2[n] = h[n]
      BY <1>2, <2>2 DEF Splits, LeavesOf
    <3> QED
      BY <1>2, <2>2, <3>1 DEF Listed
  <2> QED
    BY <2>1, <2>2
<1>11. RunsOut(h2) /\ FirstLeaf \in DOMAIN h2
  <2>1. RunsOut(h) /\ FirstLeaf \in DOMAIN h
    BY DEF Listed
  <2>2. FirstLeaf \in DOMAIN h2
    BY <2>1 DEF Splits
  <2> QED
    BY <2>1, <2>2, SplitsRunsOut
<1>12. LeafNexts(h2)
  BY DEF Listed, LeafNexts, Splits
<1> QED
  BY <1>9, <1>10, <1>11, <1>12 DEF Listed, T, F

LEMMA SplitsInLine ==
    ASSUME NEW h, NEW h2, Shaped(h), Shaped(h2), NEW leaf, NEW new, NEW k, NEW v,
           Splits(h, h2, leaf, new, k, v), Listed(h), InLine(h),
           \A p \in LeavesOf(h) : leaf \in NextIn(h)[p] => \A j \in Range(h[p].keys) : j < k,
           \A x \in NextIn(h)[leaf] : \A l \in Range(h[x].keys) : k < l
    PROVE  InLine(h2)
<1> DEFINE E == NextIn(h)
           F == NextIn(h2)
<1>1. /\ LeavesOf(h2) = LeavesOf(h) \cup {new} /\ leaf \in LeavesOf(h) /\ new \notin LeavesOf(h)
      /\ F[leaf] = {new} /\ F[new] = E[leaf] /\ \A n \in Nat \ {leaf, new} : F[n] = E[n]
  <2>1. leaf \in LeavesOf(h) /\ new \in Nat
    BY DEF Splits
  <2> QED
    BY <2>1, SplitsList
<1>2. LeavesOf(h) \in SUBSET Nat
  BY NextsIn DEF LeavesOf
<1>3. \A n \in LeavesOf(h) : \A x \in E[n] : x # n /\ x \in LeavesOf(h)
  BY NextIsOther
<1> HIDE DEF E, F
<1>4. \A n \in LeavesOf(h) \ {leaf} : h2[n].keys = h[n].keys
  BY DEF Splits, LeavesOf
<1>5. \A i \in Range(h2[leaf].keys) \cup Range(h2[new].keys) : i \in Range(h[leaf].keys) \/ i = k
  BY DEF Splits
<1>6. \A n \in LeavesOf(h) : \A x \in E[n] : \A i \in Range(h[n].keys), j \in Range(h[x].keys) : i < j
  BY DEF InLine, E
<1>7. /\ \A p \in LeavesOf(h) : leaf \in E[p] => \A j \in Range(h[p].keys) : j < k
      /\ \A x \in E[leaf] : \A l \in Range(h[x].keys) : k < l
  BY DEF E
<1> SUFFICES ASSUME NEW n \in LeavesOf(h2), NEW x \in F[n],
                    NEW i \in Range(h2[n].keys), NEW j \in Range(h2[x].keys)
             PROVE  i < j
  BY DEF InLine, F
<1>8. CASE n = leaf
  BY <1>1, <1>8 DEF Splits
<1>9. CASE n = new
  <2>1. x \in E[leaf] /\ x \in LeavesOf(h) \ {leaf}
    BY <1>1, <1>3, <1>9
  <2>2. j \in Range(h[x].keys) /\ (i \in Range(h[leaf].keys) \/ i = k)
    BY <1>4, <1>5, <1>9, <2>1
  <2> QED
    BY <1>1, <1>6, <1>7, <2>1, <2>2
<1>10. CASE n # leaf /\ n # new
  <2>1. n \in LeavesOf(h) /\ x \in E[n] /\ x \in LeavesOf(h) /\ i \in Range(h[n].keys)
    BY <1>1, <1>2, <1>3, <1>4, <1>10
  <2>2. CASE x = leaf
    <3>1. j \in Range(h[leaf].keys) \/ j = k
      BY <1>5, <2>2
    <3> QED
      BY <1>6, <1>7, <2>1, <2>2, <3>1
  <2>3. CASE x # leaf
    BY <1>4, <1>6, <2>1, <2>3
  <2> QED
    BY <2>2, <2>3
<1> QED
  BY <1>8, <1>9, <1>10

(***************************************************************************)
(* Entries of a leaf.                                                      *)
(***************************************************************************)
LEMMA ZipInsertion ==
    ASSUME NEW keys \in Seq(Keys), NEW values \in Seq(Values), Len(values) = Len(keys),
           NEW t \in Seq(Keys), NEW u \in Seq(Values), NEW k \in Keys, NEW v \in Values,
           NEW slot \in 1 .. Len(keys) + 1, k \notin Range(keys),
           IsInsertion(t, keys, slot, k), IsInsertion(u, values, slot, v)
    PROVE  Zipped(t, u) = Stored(Zipped(keys, values), k, v)
<1>1. /\ DOMAIN keys = 1 .. Len(keys) /\ Len(keys) \in Nat /\ DOMAIN t = 1 .. Len(keys) + 1
      /\ t[slot] = k /\ u[slot] = v
  BY LenProperties DEF IsInsertion
<1>2. \A j \in 1 .. Len(keys) : j < slot => t[j] = keys[j] /\ u[j] = values[j]
  BY DEF IsInsertion
<1>3. \A j \in 1 .. Len(keys) : j >= slot => t[j + 1] = keys[j] /\ u[j + 1] = values[j]
  BY DEF IsInsertion
<1>4. ASSUME NEW i \in 1 .. Len(keys) + 1
      PROVE  <<t[i], u[i]>> \in {e \in Zipped(keys, values) : e[1] # k} \cup {<<k, v>>}
  <2>1. CASE i = slot
    BY <1>1, <2>1
  <2>2. CASE i # slot
    <3>1. PICK j \in 1 .. Len(keys) : t[i] = keys[j] /\ u[i] = values[j]
      <4>1. CASE i < slot
        <5>1. i \in 1 .. Len(keys)
          BY <1>1, <4>1
        <5> QED
          BY <1>2, <4>1, <5>1
      <4>2. CASE ~(i < slot)
        <5> DEFINE j == i - 1
        <5>1. j \in 1 .. Len(keys) /\ j >= slot /\ j + 1 = i
          BY <1>1, <2>2, <4>2
        <5> HIDE DEF j
        <5>2. t[i] = keys[j] /\ u[i] = values[j]
          BY <1>3, <5>1
        <5> QED
          BY <5>1, <5>2
      <4> QED
        BY <4>1, <4>2
    <3>2. keys[j] \in Range(keys) /\ keys[j] # k
      BY <1>1 DEF Range
    <3>3. <<keys[j], values[j]>> \in Zipped(keys, values) /\ <<keys[j], values[j]>>[1] # k
      BY <1>1, <3>2 DEF Zipped
    <3> QED
      BY <3>1, <3>3
  <2> QED
    BY <2>1, <2>2
<1>5. ASSUME NEW j \in 1 .. Len(keys) PROVE <<keys[j], values[j]>> \in Zipped(t, u)
  <2>1. CASE j < slot
    <3>1. j \in DOMAIN t /\ t[j] = keys[j] /\ u[j] = values[j]
      BY <1>1, <1>2, <2>1
    <3> QED
      BY <3>1 DEF Zipped
  <2>2. CASE ~(j < slot)
    <3> DEFINE i == j + 1
    <3>1. i \in DOMAIN t /\ t[i] = keys[j] /\ u[i] = values[j]
      BY <1>1, <1>3, <2>2
    <3> HIDE DEF i
    <3> QED
      BY <3>1 DEF Zipped
  <2> QED
    BY <2>1, <2>2
<1>6. <<k, v>> \in Zipped(t, u)
  <2>1. slot \in DOMAIN t
    BY <1>1
  <2> QED
    BY <1>1, <2>1 DEF Zipped
<1>7. Zipped(t, u) \subseteq {e \in Zipped(keys, values) : e[1] # k} \cup {<<k, v>>}
  <2> DEFINE S == {e \in Zipped(keys, values) : e[1] # k} \cup {<<k, v>>}
  <2>1. \A i \in DOMAIN t : <<t[i], u[i]>> \in S
    BY <1>1, <1>4
  <2> HIDE DEF S
  <2>2. Zipped(t, u) \subseteq S
    BY <2>1 DEF Zipped
  <2> QED
    BY <2>2 DEF S
<1>8. Zipped(keys, values) \subseteq Zipped(t, u)
  <2> DEFINE S == Zipped(t, u)
  <2>1. \A j \in DOMAIN keys : <<keys[j], values[j]>> \in S
    BY <1>1, <1>5
  <2> HIDE DEF S
  <2>2. Zipped(keys, values) \subseteq S
    BY <2>1 DEF Zipped
  <2> QED
    BY <2>2 DEF S
<1> QED
  BY <1>6, <1>7, <1>8 DEF Stored

\* u is values with v at slot.
IsOverwrite(u, values, slot, v) ==
    /\ DOMAIN u = DOMAIN values /\ u[slot] = v
    /\ \A i \in DOMAIN values : i # slot => u[i] = values[i]

LEMMA ZipOverwrite ==
    ASSUME NEW keys \in Seq(Keys), Ascending(keys), NEW values \in Seq(Values), Len(values) = Len(keys),
           NEW u, NEW k \in Keys, NEW v, NEW slot \in DOMAIN keys, keys[slot] = k,
           IsOverwrite(u, values, slot, v)
    PROVE  Zipped(keys, u) = Stored(Zipped(keys, values), k, v)
<1>1. \A i \in DOMAIN keys : keys[i] = k => i = slot
  <2> SUFFICES ASSUME NEW i \in DOMAIN keys, keys[i] = k, i # slot PROVE FALSE
    OBVIOUS
  <2>1. DOMAIN keys = 1 .. Len(keys) /\ Len(keys) \in Nat /\ k \in Int
    BY LenProperties, KeysAssumption
  <2>2. i < slot \/ slot < i
    BY <2>1
  <2>3. k < k
    BY <2>2 DEF Ascending
  <2> QED
    BY <2>1, <2>3
<1>2. /\ DOMAIN values = DOMAIN keys /\ u[slot] = v
      /\ \A i \in DOMAIN keys : i # slot => u[i] = values[i]
  BY LenProperties DEF IsOverwrite
<1> QED
  BY <1>1, <1>2 DEF Zipped, Stored

LEMMA ZipParts ==
    ASSUME NEW t \in Seq(Keys), NEW u \in Seq(Values), Len(u) = Len(t), NEW p \in Nat, p <= Len(t)
    PROVE  Zipped(SubSeq(t, 1, p), SubSeq(u, 1, p))
             \cup Zipped(SubSeq(t, p + 1, Len(t)), SubSeq(u, p + 1, Len(u))) = Zipped(t, u)
<1> DEFINE size == Len(t)
           a == p + 1
           t1 == SubSeq(t, 1, p)
           u1 == SubSeq(u, 1, p)
           t2 == SubSeq(t, a, size)
           u2 == SubSeq(u, a, size)
<1>1. size \in Nat /\ Len(u) = size /\ DOMAIN t = 1 .. size /\ a \in Nat \ {0} /\ a <= size + 1
  BY LenProperties
<1> HIDE DEF size, a
<1>2. /\ t1 \in Seq(Keys) /\ Len(t1) = p - 1 + 1 /\ \A j \in 1 .. p - 1 + 1 : t1[j] = t[1 + j - 1]
      /\ u1 \in Seq(Values) /\ Len(u1) = p - 1 + 1 /\ \A j \in 1 .. p - 1 + 1 : u1[j] = u[1 + j - 1]
  BY <1>1, PartOf DEF size
<1>3. /\ t2 \in Seq(Keys) /\ Len(t2) = size - a + 1 /\ \A j \in 1 .. size - a + 1 : t2[j] = t[a + j - 1]
      /\ u2 \in Seq(Values) /\ Len(u2) = size - a + 1 /\ \A j \in 1 .. size - a + 1 : u2[j] = u[a + j - 1]
  BY <1>1, PartOf DEF size
<1> HIDE DEF t1, u1, t2, u2
<1>4. DOMAIN t1 = 1 .. p /\ \A j \in 1 .. p : j \in DOMAIN t /\ t1[j] = t[j] /\ u1[j] = u[j]
  <2>1. DOMAIN t1 = 1 .. p
    BY <1>2, LenProperties
  <2>2. \A j \in 1 .. p : j \in 1 .. p - 1 + 1 /\ 1 + j - 1 = j /\ j \in DOMAIN t
    BY <1>1 DEF size
  <2> QED
    BY <1>2, <2>1, <2>2
<1>5. DOMAIN t2 = 1 .. size - p /\ \A j \in 1 .. size - p : p + j \in DOMAIN t /\ t2[j] = t[p + j] /\ u2[j] = u[p + j]
  <2>1. size - a + 1 = size - p
    BY <1>1 DEF a
  <2>2. DOMAIN t2 = 1 .. size - p
    BY <1>3, <2>1, LenProperties
  <2>3. \A j \in 1 .. size - p : j \in 1 .. size - a + 1 /\ a + j - 1 = p + j /\ p + j \in DOMAIN t
    BY <1>1, <2>1 DEF a
  <2> QED
    BY <1>3, <2>2, <2>3
<1>6. \A i \in DOMAIN t : i \in 1 .. p \/ (i - p \in 1 .. size - p /\ p + (i - p) = i)
  BY <1>1
<1>7. Zipped(t1, u1) \subseteq Zipped(t, u)
  BY <1>4 DEF Zipped
<1>8. Zipped(t2, u2) \subseteq Zipped(t, u)
  <2>1. \A j \in DOMAIN t2 : <<t2[j], u2[j]>> \in Zipped(t, u)
    BY <1>5 DEF Zipped
  <2> DEFINE S == Zipped(t, u)
  <2>2. \A j \in DOMAIN t2 : <<t2[j], u2[j]>> \in S
    BY <2>1
  <2> HIDE DEF S
  <2>3. Zipped(t2, u2) \subseteq S
    BY <2>2 DEF Zipped
  <2> QED
    BY <2>3 DEF S
<1>9. ASSUME NEW i \in DOMAIN t PROVE <<t[i], u[i]>> \in Zipped(t1, u1) \cup Zipped(t2, u2)
  <2>1. CASE i \in 1 .. p
    BY <1>4, <2>1 DEF Zipped
  <2>2. CASE i \notin 1 .. p
    <3> DEFINE j == i - p
    <3>1. j \in 1 .. size - p /\ p + j = i
      BY <1>6, <2>2
    <3> HIDE DEF j
    <3>2. j \in DOMAIN t2 /\ t2[j] = t[i] /\ u2[j] = u[i]
      BY <1>5, <3>1
    <3> QED
      BY <3>2 DEF Zipped
  <2> QED
    BY <2>1, <2>2
<1>10. Zipped(t, u) \subseteq Zipped(t1, u1) \cup Zipped(t2, u2)
  <2> DEFINE S == Zipped(t1, u1) \cup Zipped(t2, u2)
  <2>1. \A i \in DOMAIN t : <<t[i], u[i]>> \in S
    BY <1>9
  <2> HIDE DEF S
  <2>2. Zipped(t, u) \subseteq S
    BY <2>1 DEF Zipped
  <2> QED
    BY <2>2 DEF S
<1> QED
  BY <1>1, <1>7, <1>8, <1>10 DEF t1, u1, t2, u2, a, size

(***************************************************************************)
(* The steps on a leaf.                                                    *)
(***************************************************************************)
LEMMA HoldsIs ==
    ASSUME Shaped(heap), NEW n \in DOMAIN heap, NEW k \in Keys
    PROVE  /\ Holds(n, k) <=> k \in Range(heap[n].keys)
           /\ Holds(n, k) => KeySlot(n, k) \in DOMAIN heap[n].keys /\ heap[n].keys[KeySlot(n, k)] = k
<1> DEFINE keys == heap[n].keys
           slot == KeySlot(n, k)
<1>1. keys \in Seq(Keys) /\ Ascending(keys) /\ keys \in Seq(Int) /\ k \in Int
  BY NodesIn, SeqMonotonic, KeysAssumption DEF Sound
<1>2. slot = FirstSlot(keys, LAMBDA s : s >= k)
  BY DEF KeySlot
<1>3. Holds(n, k) <=> slot <= Len(keys) /\ keys[slot] = k
  BY DEF Holds
<1> HIDE DEF keys, slot
<1>4. /\ slot \in 1 .. Len(keys) + 1
      /\ slot <= Len(keys) => keys[slot] >= k
      /\ \A i \in 1 .. Len(keys) : i < slot => keys[i] < k
  BY <1>1, <1>2, KeySlotIs
<1>5. Len(keys) \in Nat /\ DOMAIN keys = 1 .. Len(keys) /\ \A i \in 1 .. Len(keys) : keys[i] \in Int
  BY <1>1, LenProperties, ElementOfSeq
<1>6. ASSUME NEW i \in DOMAIN keys, keys[i] = k PROVE slot \in DOMAIN keys /\ keys[slot] = k
  <2>1. ~(i < slot)
    <3> SUFFICES ASSUME i < slot PROVE FALSE
      OBVIOUS
    <3>1. keys[i] < k
      BY <1>4, <1>5
    <3> QED
      BY <1>1, <1>6, <3>1
  <2>2. slot \in 1 .. Len(keys) /\ (slot = i \/ slot < i)
    BY <1>4, <1>5, <2>1
  <2>3. keys[slot] >= k /\ keys[slot] \in Int
    BY <1>4, <1>5, <2>2
  <2>4. slot < i => keys[slot] < k
    BY <1>1, <1>5, <1>6, <2>2 DEF Ascending
  <2> QED
    BY <1>1, <1>5, <1>6, <2>2, <2>3, <2>4
<1>7. Holds(n, k) => slot \in DOMAIN keys /\ keys[slot] = k
  BY <1>3, <1>4, <1>5
<1>8. Holds(n, k) => k \in Range(keys)
  BY <1>7 DEF Range
<1>9. k \in Range(keys) => Holds(n, k)
  <2> SUFFICES ASSUME k \in Range(keys) PROVE Holds(n, k)
    OBVIOUS
  <2>1. PICK i \in DOMAIN keys : keys[i] = k
    BY DEF Range
  <2>2. slot \in DOMAIN keys /\ keys[slot] = k
    BY <1>6, <2>1
  <2> QED
    BY <1>3, <1>5, <2>2
<1> QED
  BY <1>7, <1>8, <1>9 DEF keys, slot

LEMMA InsertIntoLeafPuts ==
    ASSUME TreeInv(heap, root, carry), NEW k \in Keys, NEW v \in Values, InsertIntoLeaf(k, v)
    PROVE  Puts(heap, heap', FindLeaf(k), k, v)
<1> DEFINE leaf == FindLeaf(k)
           keys == heap[leaf].keys
           values == heap[leaf].values
           slot == KeySlot(leaf, k)
           t == InsertAt(keys, slot, k)
           u == InsertAt(values, slot, v)
<1>1. Shaped(heap) /\ k \in Int /\ leaf \in DOMAIN heap /\ heap[leaf].isLeaf
  BY KeysAssumption, FindLeafIs DEF TreeInv
<1>2. ~Holds(leaf, k) /\ heap' = [heap EXCEPT ![leaf].keys = t, ![leaf].values = u]
  BY DEF InsertIntoLeaf
<1> HIDE DEF leaf
<1>3. /\ heap[leaf] \in Node /\ keys \in Seq(Keys) /\ values \in Seq(Values)
      /\ Len(values) = Len(keys) /\ Ascending(keys) /\ k \notin Range(keys)
  BY <1>1, <1>2, NodesIn, HoldsIs DEF Sound
<1>4. /\ slot \in 1 .. Len(keys) + 1 /\ t \in Seq(Keys) /\ IsInsertion(t, keys, slot, k)
  <2>1. slot = FirstSlot(keys, LAMBDA s : s >= k)
    BY DEF KeySlot
  <2>2. ~(slot <= Len(keys) /\ keys[slot] = k)
    BY <1>2 DEF Holds
  <2> HIDE DEF slot, keys
  <2> QED
    BY <1>3, <2>1, <2>2, NewKeyGoesIn
<1> HIDE DEF slot
<1>5. u \in Seq(Values) /\ IsInsertion(u, values, slot, v)
  BY <1>3, <1>4, InsertAtIs
<1> HIDE DEF t, u
<1>6. Zipped(t, u) = Stored(Zipped(keys, values), k, v)
  <2> HIDE DEF keys, values
  <2> QED
    BY <1>3, <1>4, <1>5, ZipInsertion
<1>7. Range(t) = Range(keys) \cup {k}
  BY <1>4 DEF IsInsertion
<1>8. /\ heap'[leaf].keys = t /\ heap'[leaf].values = u
      /\ heap'[leaf].isLeaf = heap[leaf].isLeaf /\ heap'[leaf].next = heap[leaf].next
      /\ \A n \in DOMAIN heap \ {leaf} : heap'[n] = heap[n]
      /\ DOMAIN heap' = DOMAIN heap
  BY <1>1, <1>2, <1>3 DEF Node
<1>9. Held(heap'[leaf]) = Stored(Held(heap[leaf]), k, v)
  BY <1>6, <1>8 DEF Held
<1> QED
  BY <1>1, <1>7, <1>8, <1>9 DEF Puts, leaf, LeavesOf

LEMMA OverwritePuts ==
    ASSUME TreeInv(heap, root, carry), NEW k \in Keys, NEW v \in Values, OverwriteValue(k, v)
    PROVE  Puts(heap, heap', FindLeaf(k), k, v)
<1> DEFINE leaf == FindLeaf(k)
           keys == heap[leaf].keys
           values == heap[leaf].values
           slot == KeySlot(leaf, k)
           u == [values EXCEPT ![slot] = v]
<1>1. Shaped(heap) /\ k \in Int /\ leaf \in DOMAIN heap /\ heap[leaf].isLeaf
  BY KeysAssumption, FindLeafIs DEF TreeInv
<1>2. Holds(leaf, k) /\ heap' = [heap EXCEPT ![leaf].values[slot] = v]
  BY DEF OverwriteValue
<1> HIDE DEF leaf
<1>3. /\ heap[leaf] \in Node /\ keys \in Seq(Keys) /\ values \in Seq(Values)
      /\ Len(values) = Len(keys) /\ Ascending(keys)
      /\ k \in Range(keys) /\ slot \in DOMAIN keys /\ keys[slot] = k
  BY <1>1, <1>2, NodesIn, HoldsIs DEF Sound
<1>4. heap' = [heap EXCEPT ![leaf].values = u]
  BY <1>2
<1> HIDE DEF slot
<1>5. DOMAIN values = DOMAIN keys
  BY <1>3, LenProperties
<1>6. IsOverwrite(u, values, slot, v)
  BY <1>3, <1>5 DEF IsOverwrite
<1> HIDE DEF u
<1>7. Zipped(keys, u) = Stored(Zipped(keys, values), k, v)
  <2> HIDE DEF keys, values
  <2> QED
    BY <1>3, <1>6, ZipOverwrite
<1>8. /\ heap'[leaf].keys = keys /\ heap'[leaf].values = u
      /\ heap'[leaf].isLeaf = heap[leaf].isLeaf /\ heap'[leaf].next = heap[leaf].next
      /\ \A n \in DOMAIN heap \ {leaf} : heap'[n] = heap[n]
      /\ DOMAIN heap' = DOMAIN heap
  BY <1>1, <1>3, <1>4 DEF Node
<1>9. Held(heap'[leaf]) = Stored(Held(heap[leaf]), k, v)
  BY <1>7, <1>8 DEF Held
<1> QED
  BY <1>1, <1>3, <1>8, <1>9 DEF Puts, leaf, LeavesOf

LEMMA SplitLeafSplits ==
    ASSUME TreeInv(heap, root, carry), NEW k \in Keys, NEW v \in Values, SplitLeaf(k, v)
    PROVE  /\ Splits(heap, heap', FindLeaf(k), Len(heap) + 1, k, v)
           /\ carry'.right = Len(heap) + 1 /\ carry' # Idle /\ root' = root
           /\ KidsIn(heap') = KidsIn(heap)
<1> DEFINE leaf == FindLeaf(k)
           keys == heap[leaf].keys
           values == heap[leaf].values
           slot == KeySlot(leaf, k)
           t == InsertAt(keys, slot, k)
           u == InsertAt(values, slot, v)
           S == LeafSplitIndex
           w == S + 1
           new == Len(heap) + 1
           f == [heap EXCEPT ![leaf].keys = SubSeq(t, 1, S),
                             ![leaf].values = SubSeq(u, 1, S),
                             ![leaf].next = new]
           upper == UpperLeaf(leaf, t, u)
<1>1. Shaped(heap) /\ k \in Int /\ leaf \in DOMAIN heap /\ heap[leaf].isLeaf
  BY KeysAssumption, FindLeafIs DEF TreeInv
<1>2. /\ ~Holds(leaf, k) /\ ~HasRoom(leaf) /\ root' = root /\ heap' = Append(f, upper)
      /\ carry'.right = new /\ carry'.left = leaf
  BY DEF SplitLeaf
<1> HIDE DEF leaf
<1>3. /\ heap[leaf] \in Node /\ keys \in Seq(Keys) /\ values \in Seq(Values) /\ Sound(heap[leaf], Len(heap))
      /\ Len(values) = Len(keys) /\ Ascending(keys) /\ k \notin Range(keys) /\ heap \in Seq(Node)
      /\ heap[leaf].children = <<>>
  BY <1>1, <1>2, NodesIn, HoldsIs DEF Sound, Shaped
<1>4. /\ slot \in 1 .. Len(keys) + 1 /\ t \in Seq(Keys) /\ Ascending(t) /\ IsInsertion(t, keys, slot, k)
  <2>1. slot = FirstSlot(keys, LAMBDA s : s >= k)
    BY DEF KeySlot
  <2>2. ~(slot <= Len(keys) /\ keys[slot] = k)
    BY <1>2 DEF Holds
  <2> HIDE DEF slot, keys
  <2> QED
    BY <1>3, <2>1, <2>2, NewKeyGoesIn
<1> HIDE DEF slot
<1>5. u \in Seq(Values) /\ IsInsertion(u, values, slot, v)
  BY <1>3, <1>4, InsertAtIs
<1> HIDE DEF t, u, S
<1>6. Zipped(t, u) = Stored(Zipped(keys, values), k, v)
  <2> HIDE DEF keys, values
  <2> QED
    BY <1>3, <1>4, <1>5, ZipInsertion
<1>7. /\ Len(t) = ORDER /\ Len(u) = ORDER /\ Range(t) = Range(keys) \cup {k}
      /\ S \in Nat /\ 1 <= S /\ S + 2 <= ORDER /\ ORDER \in Nat
  <2>1. Len(t) = Len(keys) + 1 /\ Len(u) = Len(keys) + 1 /\ Range(t) = Range(keys) \cup {k}
    BY <1>3, <1>4, <1>5 DEF IsInsertion
  <2>2. Len(keys) = MaxKeys
    <3>1. ~(Len(keys) < MaxKeys) /\ Len(keys) <= MaxKeys /\ Len(keys) \in Nat
      BY <1>2, <1>3, LenProperties DEF HasRoom, Sound
    <3> QED
      BY <3>1, HalfOfOrder
  <2> QED
    BY <2>1, <2>2, HalfOfOrder DEF S
<1> DEFINE t1 == SubSeq(t, 1, S)
           t2 == SubSeq(t, w, Len(t))
           u1 == SubSeq(u, 1, S)
           u2 == SubSeq(u, w, Len(u))
<1>8. /\ t1 \in Seq(Keys) /\ t2 \in Seq(Keys) /\ Len(t1) = S
      /\ Range(t1) \subseteq {x \in Range(t) : x < t[w]}
      /\ Range(t2) \subseteq {x \in Range(t) : t[w] <= x}
      /\ t[w] \in Range(t2) /\ t[w] \in Keys
      /\ {x \in Range(t) : x < t[w]} \subseteq Range(t1)
      /\ t[1] \in Range(t) /\ t[1] < t[w]
  <2>1. w \in {S + 1, S + 2} /\ w <= Len(t) + 1 /\ S + 1 <= Len(t)
    BY <1>7
  <2>2. IsHalving(t, S, S + 1)
    BY <1>4, <1>7, <2>1, Halves
  <2> QED
    BY <2>2 DEF IsHalving
<1>9. /\ Range(t) \subseteq Int /\ t[w] \in Int
  BY <1>4, <1>8, KeysAssumption, LenProperties, ElementOfSeq DEF Range
<1>10. {x \in Range(t) : t[w] <= x} \subseteq Range(t2)
  <2> DEFINE size == Len(t)
  <2>1. DOMAIN t = 1 .. size /\ size \in Nat /\ w \in 1 .. size /\ w \in Nat \ {0} /\ w <= size + 1
    BY <1>4, <1>7, LenProperties
  <2> HIDE DEF size, w
  <2>2. RangeIs(SubSeq(t, w, size), t, w, size)
    BY <1>4, <2>1, RangeOfPart DEF size
  <2> SUFFICES ASSUME NEW i \in DOMAIN t, t[w] <= t[i] PROVE t[i] \in Range(SubSeq(t, w, size))
    BY DEF Range, size
  <2>3. ~(i < w)
    <3> SUFFICES ASSUME i < w PROVE FALSE
      OBVIOUS
    <3>1. t[i] < t[w] /\ t[i] \in Int
      BY <1>4, <1>9, <2>1 DEF Ascending, Range
    <3> QED
      BY <1>9, <3>1
  <2>4. i \in w .. size
    BY <2>1, <2>3
  <2> QED
    BY <2>2, <2>4 DEF RangeIs
<1>11. /\ Range(t1) \cup Range(t2) = Range(keys) \cup {k}
       /\ Range(t1) # {} /\ Range(t2) # {}
       /\ \A i \in Range(t1), j \in Range(t2) : i < j
  <2>1. \A x \in Range(t) : x < t[w] \/ t[w] <= x
    BY <1>9
  <2>2. \A i \in Range(t1), j \in Range(t2) : i < j
    <3> SUFFICES ASSUME NEW i \in Range(t1), NEW j \in Range(t2) PROVE i < j
      OBVIOUS
    <3>1. i < t[w] /\ t[w] <= j /\ i \in Int /\ j \in Int
      BY <1>8, <1>9
    <3> QED
      BY <1>9, <3>1
  <2>3. t[1] \in Range(t1)
    BY <1>8
  <2> HIDE DEF t1, t2, w
  <2> QED
    BY <1>7, <1>8, <1>10, <2>1, <2>2, <2>3
<1>12. Zipped(t1, u1) \cup Zipped(t2, u2) = Zipped(t, u)
  <2>1. t \in Seq(Keys) /\ u \in Seq(Values) /\ Len(u) = Len(t) /\ S <= Len(t) /\ S \in Nat
    BY <1>4, <1>5, <1>7
  <2> QED
    BY ONLY <2>1, ZipParts
<1>13. /\ DOMAIN f = DOMAIN heap /\ f = [i \in DOMAIN f |-> f[i]]
       /\ \A n \in DOMAIN heap \ {leaf} : f[n] = heap[n]
       /\ f[leaf] = [heap[leaf] EXCEPT !.keys = t1, !.values = u1, !.next = new]
  BY <1>1
<1>14. /\ f[leaf].isLeaf = heap[leaf].isLeaf /\ f[leaf].keys = t1 /\ f[leaf].values = u1
       /\ f[leaf].next = new /\ f[leaf].children = <<>>
  <2> HIDE DEF t1, u1, new, f
  <2>1. /\ f[leaf].isLeaf = heap[leaf].isLeaf /\ f[leaf].keys = t1 /\ f[leaf].values = u1
        /\ f[leaf].next = new /\ f[leaf].children = heap[leaf].children
    BY <1>3, <1>13 DEF Node
  <2> QED
    BY <1>3, <2>1
<1>15. /\ upper.isLeaf /\ upper.keys = t2 /\ upper.values = u2 /\ upper.next = heap[leaf].next
       /\ upper.children = <<>>
  BY DEF UpperLeaf, Leaf, S
<1> HIDE DEF f, upper, t1, t2, u1, u2
<1>16. Len(heap) \in Nat /\ DOMAIN heap = 1 .. Len(heap)
  BY <1>1, NodesIn
<1>17. f \in Seq(Node) /\ Len(f) = Len(heap)
  <2>0. new \in Nat
    BY <1>16
  <2> HIDE DEF new
  <2>1. f[leaf] \in Node
    <3>1. u1 \in Seq(Values)
      BY <1>5, <1>7, PartOf DEF u1
    <3> QED
      BY <1>3, <1>8, <1>13, <2>0, <3>1 DEF Node
  <2>2. \A i \in DOMAIN heap : f[i] \in Node
    BY <1>1, <1>13, <2>1, NodesIn
  <2> QED
    BY <1>3, <1>13, <2>2, SeqLike
<1>18. /\ DOMAIN heap' = DOMAIN heap \cup {new} /\ heap'[new] = upper
       /\ \A n \in DOMAIN heap : heap'[n] = f[n]
  BY <1>2, <1>13, <1>16, <1>17
<1>19. new \in Nat /\ new \notin DOMAIN heap /\ new # Null
  BY <1>16 DEF Null
<1> HIDE DEF new
<1>20. /\ \A n \in DOMAIN heap \ {leaf} : heap'[n] = heap[n]
       /\ heap'[leaf].isLeaf = heap[leaf].isLeaf /\ heap'[leaf].keys = t1 /\ heap'[leaf].values = u1
       /\ heap'[leaf].next = new /\ heap'[leaf].children = <<>>
       /\ heap'[new].isLeaf /\ heap'[new].keys = t2 /\ heap'[new].values = u2
       /\ heap'[new].next = heap[leaf].next /\ heap'[new].children = <<>>
  BY <1>1, <1>13, <1>14, <1>15, <1>18
<1>21. Held(heap'[leaf]) \cup Held(heap'[new]) = Stored(Held(heap[leaf]), k, v)
  BY <1>6, <1>12, <1>20 DEF Held
<1>22. Splits(heap, heap', leaf, new, k, v)
  BY <1>1, <1>11, <1>18, <1>19, <1>20, <1>21 DEF Splits, LeavesOf
<1>23. carry' # Idle
  BY <1>2, <1>19 DEF Idle
<1>24. KidsIn(heap') = KidsIn(heap)
  <2>1. \A n \in Nat : (IF n \in DOMAIN heap' THEN heap'[n].children ELSE <<>>)
                         = (IF n \in DOMAIN heap THEN heap[n].children ELSE <<>>)
    BY <1>3, <1>18, <1>19, <1>20
  <2> QED
    BY <2>1 DEF KidsIn
<1> QED
  BY <1>2, <1>22, <1>23, <1>24 DEF leaf, new

(***************************************************************************)
(* The climb.                                                              *)
(***************************************************************************)
\* Steps that keep what is seen, and see what they add, lose nothing.
LEMMA StaysComplete ==
    ASSUME NEW h, NEW r \in Nat, NEW c, c # Idle => c.right \in Nat, Complete(h, r, c),
           Kids(KidsIn(h)) \in Graph,
           NEW S \in SUBSET Nat, r \in S, c # Idle => c.right \in S,
           \A n \in S : Kids(KidsIn(h))[n] \subseteq S
    PROVE  DOMAIN h \subseteq S
<1> DEFINE E == Kids(KidsIn(h))
<1>1. ClosedUnder(E, S)
  BY DEF ClosedUnder
<1>2. Below(KidsIn(h), r) \subseteq S
  BY <1>1, ReachLeast DEF Below
<1>3. c # Idle => Below(KidsIn(h), c.right) \subseteq S
  <2> SUFFICES ASSUME c # Idle PROVE Below(KidsIn(h), c.right) \subseteq S
    OBVIOUS
  <2> DEFINE d == c.right
  <2>1. d \in S /\ d \in Nat
    OBVIOUS
  <2> HIDE DEF d
  <2>2. Reach(E, d) \subseteq S
    BY <1>1, <2>1, ReachLeast
  <2> QED
    BY <2>2 DEF d, Below
<1> QED
  BY <1>2, <1>3 DEF Complete, Seen

LEMMA SeenIs ==
    ASSUME NEW h, NEW r \in Nat, NEW c, c # Idle => c.right \in Nat, Kids(KidsIn(h)) \in Graph
    PROVE  /\ Seen(h, r, c) \in SUBSET Nat /\ r \in Seen(h, r, c)
           /\ c # Idle => c.right \in Seen(h, r, c)
           /\ \A n \in Seen(h, r, c) : Kids(KidsIn(h))[n] \subseteq Seen(h, r, c)
<1> DEFINE E == Kids(KidsIn(h))
           A == Below(KidsIn(h), r)
           B == Below(KidsIn(h), c.right)
<1>1. A \in SUBSET Nat /\ r \in A /\ \A n \in A : E[n] \subseteq A
  BY ReachBasics DEF Below, ClosedUnder
<1>2. c # Idle => B \in SUBSET Nat /\ c.right \in B /\ \A n \in B : E[n] \subseteq B
  <2> SUFFICES ASSUME c # Idle PROVE B \in SUBSET Nat /\ c.right \in B /\ \A n \in B : E[n] \subseteq B
    OBVIOUS
  <2> DEFINE d == c.right
  <2>1. d \in Nat
    OBVIOUS
  <2> HIDE DEF d
  <2>2. Reach(E, d) \in SUBSET Nat /\ d \in Reach(E, d) /\ ClosedUnder(E, Reach(E, d))
    BY <2>1, ReachBasics
  <2> QED
    BY <2>2 DEF d, Below, ClosedUnder
<1>3. Seen(h, r, c) = A \cup IF c = Idle THEN {} ELSE B
  BY DEF Seen
<1> HIDE DEF A, B, E
<1>4. CASE c = Idle
  BY <1>1, <1>3, <1>4 DEF E
<1>5. CASE c # Idle
  BY <1>1, <1>2, <1>3, <1>5 DEF E
<1> QED
  BY <1>4, <1>5

\* What the numbers of a tree are.
LEMMA TreeNumbers ==
    ASSUME NEW h, NEW r, NEW c, TreeInv(h, r, c)
    PROVE  /\ Shaped(h) /\ r \in Nat /\ (c # Idle => c.right \in Nat) /\ Kids(KidsIn(h)) \in Graph
           /\ \A n \in DOMAIN h : Kids(KidsIn(h))[n] = Range(h[n].children)
           /\ \A n \in Nat \ DOMAIN h : Kids(KidsIn(h))[n] = {}
<1>1. Shaped(h) /\ Linked(h, r) /\ Levelled(h, c) /\ Pending(h, r, c)
  BY DEF TreeInv
<1>2. r \in Nat /\ Kids(KidsIn(h)) \in Graph
  BY <1>1, HeapIsTree DEF Top
<1>3. c # Idle => c.right \in Nat
  <2> SUFFICES ASSUME c # Idle PROVE c.right \in Nat
    OBVIOUS
  <2>1. c.right \in DOMAIN h
    BY <1>1 DEF Pending
  <2> QED
    BY <1>1, <2>1, NodesIn
<1>4. DOMAIN h \in SUBSET Nat /\ \A n \in DOMAIN h : KidsIn(h)[n] = h[n].children
  BY <1>1, NodesIn
<1>5. \A n \in Nat \ DOMAIN h : KidsIn(h)[n] = <<>>
  BY <1>1, NodesIn
<1>6. Range(<<>>) = {}
  BY DEF Range
<1> QED
  BY <1>1, <1>2, <1>3, <1>4, <1>5, <1>6 DEF Kids

LEMMA PutsCompletes ==
    ASSUME NEW h, NEW h2, Shaped(h), Shaped(h2), NEW leaf, NEW k, NEW v, Puts(h, h2, leaf, k, v),
           NEW r, Complete(h, r, Idle)
    PROVE  Complete(h2, r, Idle)
<1>1. DOMAIN h2 = DOMAIN h /\ leaf \in DOMAIN h /\ h[leaf].isLeaf /\ h2[leaf].isLeaf
  BY DEF Puts, LeavesOf
<1>2. h[leaf].children = <<>> /\ h2[leaf].children = <<>>
  BY <1>1, NodesIn DEF Sound
<1>3. \A n \in DOMAIN h : h2[n].children = h[n].children
  BY <1>2 DEF Puts
<1>4. KidsIn(h2) = KidsIn(h)
  BY <1>1, <1>3 DEF KidsIn
<1> QED
  BY <1>1, <1>4 DEF Complete, Seen

LEMMA SplitLeafCompletes ==
    ASSUME TreeInv(heap, root, carry), NEW k \in Keys, NEW v \in Values, SplitLeaf(k, v),
           Complete(heap, root, carry)
    PROVE  Complete(heap', root', carry')
<1> DEFINE new == Len(heap) + 1
<1>1. /\ Splits(heap, heap', FindLeaf(k), new, k, v)
      /\ carry'.right = new /\ carry' # Idle /\ root' = root
      /\ KidsIn(heap') = KidsIn(heap)
  BY SplitLeafSplits
<1>2. carry = Idle
  BY DEF SplitLeaf
<1>3. DOMAIN heap' = DOMAIN heap \cup {new} /\ new \in Nat
  BY <1>1 DEF Splits
<1>4. Kids(KidsIn(heap)) \in Graph
  BY TreeNumbers
<1> HIDE DEF new
<1>5. new \in Below(KidsIn(heap), new)
  BY <1>3, <1>4, ReachBasics DEF Below
<1>6. Seen(heap', root', carry') = Below(KidsIn(heap), root) \cup Below(KidsIn(heap), new)
  BY <1>1 DEF Seen
<1>7. Seen(heap, root, carry) = Below(KidsIn(heap), root)
  BY <1>2 DEF Seen
<1> QED
  BY <1>3, <1>5, <1>6, <1>7 DEF Complete

LEMMA InsertIntoInternalList ==
    ASSUME TreeInv(heap, root, carry), TreeInv(heap', root', carry'), InsertIntoInternal
    PROVE  /\ SameLeaves(heap, heap')
           /\ Complete(heap, root, carry) => Complete(heap', root', carry')
<1> DEFINE q == Parent
           right == carry.right
           t == InsertAt(heap[q].keys, LeftSlot, carry.key)
           p == LeftSlot + 1
           u == InsertAt(heap[q].children, p, right)
           S == Seen(heap', root', carry')
<1>1. /\ Shaped(heap) /\ carry # Idle /\ q # Null
      /\ heap' = [heap EXCEPT ![q].keys = t, ![q].children = u, ![right].parent = q]
      /\ root' = root /\ carry' = Idle
  BY DEF TreeInv, InsertIntoInternal
<1>2. /\ q \in DOMAIN heap /\ right \in DOMAIN heap /\ q \in Below(KidsIn(heap), root)
      /\ ~heap[q].isLeaf /\ LeftSlot \in DOMAIN heap[q].children
  BY <1>1, ParentIs
<1>3. /\ heap[q] \in Node /\ heap[q].children \in Seq(Nat) /\ right \in Nat /\ heap[right] \in Node
      /\ DOMAIN heap[q].children = 1 .. Len(heap[q].children) /\ Len(heap[q].children) \in Nat
  <2>1. /\ heap[q] \in Node /\ heap[q].children \in Seq(Nat) /\ right \in Nat /\ heap[right] \in Node
    BY <1>1, <1>2, NodesIn
  <2> QED
    BY <2>1, LenProperties
<1>4. Range(u) = Range(heap[q].children) \cup {right}
  <2>1. p \in 1 .. Len(heap[q].children) + 1
    BY <1>2, <1>3
  <2> HIDE DEF p
  <2>2. IsInsertion(u, heap[q].children, p, right)
    BY <1>3, <2>1, InsertAtIs
  <2> QED
    BY <2>2 DEF IsInsertion
<1>5. right # q
  <2>1. /\ Shaped(heap) /\ Linked(heap, root) /\ Levelled(heap, carry)
        /\ Hangs(KeysIn(heap), KidsIn(heap), root, carry.left, carry.key, right)
    BY <1>1 DEF TreeInv, Pending
  <2>2. Top(KidsIn(heap), right) /\ right # root
    BY <2>1 DEF Hangs
  <2>3. Top(KidsIn(heap), root) /\ Kids(KidsIn(heap)) \in Graph /\ Forest(KidsIn(heap))
    BY <2>1, HeapIsTree DEF Tree
  <2>4. right \in Below(KidsIn(heap), right)
    BY <1>3, <2>3, ReachBasics DEF Below
  <2> QED
    BY <1>2, <2>2, <2>3, <2>4, TreesAreApart
<1> HIDE DEF q, right, t, u, p
<1>6. /\ heap'[q] = [heap[q] EXCEPT !.keys = t, !.children = u]
      /\ heap'[right] = [heap[right] EXCEPT !.parent = q]
      /\ \A n \in DOMAIN heap \ {q, right} : heap'[n] = heap[n]
      /\ DOMAIN heap' = DOMAIN heap
  BY <1>1, <1>2, <1>5
<1>7. /\ heap'[q].isLeaf = heap[q].isLeaf /\ heap'[q].next = heap[q].next /\ heap'[q].children = u
      /\ heap'[right].isLeaf = heap[right].isLeaf /\ heap'[right].next = heap[right].next
      /\ heap'[right].keys = heap[right].keys /\ heap'[right].values = heap[right].values
      /\ heap'[right].children = heap[right].children
  BY <1>3, <1>6 DEF Node
<1>8. SameLeaves(heap, heap')
  BY <1>2, <1>6, <1>7 DEF SameLeaves
<1>9. /\ root \in Nat /\ (carry # Idle => carry.right \in Nat) /\ Kids(KidsIn(heap)) \in Graph
      /\ Kids(KidsIn(heap))[q] = Range(heap[q].children)
      /\ \A n \in DOMAIN heap : Kids(KidsIn(heap))[n] = Range(heap[n].children)
      /\ \A n \in Nat \ DOMAIN heap : Kids(KidsIn(heap))[n] = {}
  BY <1>2, TreeNumbers
<1>10. /\ root' \in Nat /\ (carry' # Idle => carry'.right \in Nat) /\ Kids(KidsIn(heap')) \in Graph
       /\ \A n \in DOMAIN heap' : Kids(KidsIn(heap'))[n] = Range(heap'[n].children)
  BY TreeNumbers
<1>11. /\ S \in SUBSET Nat /\ root' \in S /\ \A n \in S : Kids(KidsIn(heap'))[n] \subseteq S
  BY <1>10, SeenIs
<1> HIDE DEF S
<1>12. \A n \in Nat : Kids(KidsIn(heap))[n] \subseteq Kids(KidsIn(heap'))[n]
  <2> SUFFICES ASSUME NEW n \in Nat PROVE Kids(KidsIn(heap))[n] \subseteq Kids(KidsIn(heap'))[n]
    OBVIOUS
  <2>1. CASE n \notin DOMAIN heap
    BY <1>9, <2>1
  <2>2. CASE n \in DOMAIN heap
    <3>1. Range(heap[n].children) \subseteq Range(heap'[n].children)
      BY <1>4, <1>6, <1>7, <2>2
    <3> QED
      BY <1>6, <1>9, <1>10, <2>2, <3>1
  <2> QED
    BY <2>1, <2>2
<1>13. \A n \in S : Kids(KidsIn(heap))[n] \subseteq S
  BY <1>11, <1>12
<1>14. right \in S
  <2>1. ClosedUnder(Kids(KidsIn(heap)), S)
    BY <1>13 DEF ClosedUnder
  <2>2. q \in S
    BY <1>1, <1>2, <1>9, <1>11, <2>1, ReachLeast DEF Below
  <2>3. right \in Kids(KidsIn(heap'))[q]
    <3>1. q \in DOMAIN heap' /\ heap'[q].children = u
      BY <1>2, <1>6, <1>7
    <3>2. Kids(KidsIn(heap'))[q] = Range(u)
      BY <1>10, <3>1
    <3> QED
      BY <1>4, <3>2
  <2> QED
    BY <1>11, <2>2, <2>3
<1>15. Complete(heap, root, carry) => Complete(heap', root', carry')
  <2> SUFFICES ASSUME Complete(heap, root, carry) PROVE Complete(heap', root', carry')
    OBVIOUS
  <2>1. DOMAIN heap \subseteq S
    BY <1>1, <1>9, <1>11, <1>13, <1>14, StaysComplete DEF right
  <2> QED
    BY <1>6, <2>1 DEF Complete, S
<1> QED
  BY <1>8, <1>15

LEMMA CreateNewRootList ==
    ASSUME TreeInv(heap, root, carry), TreeInv(heap', root', carry'), CreateNewRoot
    PROVE  /\ SameLeaves(heap, heap')
           /\ Complete(heap, root, carry) => Complete(heap', root', carry')
<1> DEFINE left == carry.left
           right == carry.right
           new == Len(heap) + 1
           f == [heap EXCEPT ![left].parent = new, ![right].parent = new]
           top == Internal(<<carry.key>>, <<left, right>>, Null)
           S == Seen(heap', root', carry')
<1>1. /\ Shaped(heap) /\ carry # Idle /\ Parent = Null
      /\ heap' = Append(f, top) /\ root' = new /\ carry' = Idle
      /\ heap \in Seq(Node)
  BY DEF TreeInv, CreateNewRoot, Shaped
<1>2. left \in DOMAIN heap /\ right \in DOMAIN heap /\ left = root
  BY <1>1, ParentIs
<1>3. /\ Len(heap) \in Nat /\ DOMAIN heap = 1 .. Len(heap)
      /\ \A n \in DOMAIN heap : heap[n] \in Node
  BY <1>1, NodesIn
<1>4. new \in Nat /\ new \notin DOMAIN heap
  BY <1>3
<1>5. /\ DOMAIN f = DOMAIN heap /\ f = [i \in DOMAIN f |-> f[i]]
      /\ \A n \in DOMAIN heap : f[n] = heap[n] \/ f[n] = [heap[n] EXCEPT !.parent = new]
  BY <1>2
<1> HIDE DEF f, new
<1>6. \A n \in DOMAIN heap :
        /\ f[n] \in Node /\ f[n].isLeaf = heap[n].isLeaf /\ f[n].next = heap[n].next
        /\ f[n].keys = heap[n].keys /\ f[n].values = heap[n].values /\ f[n].children = heap[n].children
  BY <1>3, <1>4, <1>5 DEF Node
<1>7. f \in Seq(Node) /\ Len(f) = Len(heap)
  BY <1>1, <1>5, <1>6, SeqLike
<1>8. ~top.isLeaf /\ top.next = Null /\ top.children = <<left, right>>
  BY DEF Internal
<1> HIDE DEF top
<1>9. /\ DOMAIN heap' = DOMAIN heap \cup {new} /\ heap'[new] = top
      /\ \A n \in DOMAIN heap : heap'[n] = f[n]
  BY <1>1, <1>3, <1>5, <1>7 DEF new
<1>10. SameLeaves(heap, heap')
  BY <1>4, <1>6, <1>8, <1>9 DEF SameLeaves
<1>11. /\ root \in Nat /\ (carry # Idle => carry.right \in Nat) /\ Kids(KidsIn(heap)) \in Graph
       /\ \A n \in DOMAIN heap : Kids(KidsIn(heap))[n] = Range(heap[n].children)
       /\ \A n \in Nat \ DOMAIN heap : Kids(KidsIn(heap))[n] = {}
  BY TreeNumbers
<1>12. /\ root' \in Nat /\ (carry' # Idle => carry'.right \in Nat) /\ Kids(KidsIn(heap')) \in Graph
       /\ \A n \in DOMAIN heap' : Kids(KidsIn(heap'))[n] = Range(heap'[n].children)
  BY TreeNumbers
<1>13. /\ S \in SUBSET Nat /\ root' \in S /\ \A n \in S : Kids(KidsIn(heap'))[n] \subseteq S
  BY <1>12, SeenIs
<1> HIDE DEF S
<1>14. \A n \in S : Kids(KidsIn(heap))[n] \subseteq S
  <2> SUFFICES ASSUME NEW n \in S PROVE Kids(KidsIn(heap))[n] \subseteq S
    OBVIOUS
  <2>1. CASE n \notin DOMAIN heap
    BY <1>11, <1>13, <2>1
  <2>2. CASE n \in DOMAIN heap
    <3>1. Range(heap'[n].children) = Range(heap[n].children) /\ n \in DOMAIN heap'
      BY <1>6, <1>9, <2>2
    <3> QED
      BY <1>11, <1>12, <1>13, <2>2, <3>1
  <2> QED
    BY <2>1, <2>2
<1>15. left \in S /\ right \in S
  <2>1. Range(<<left, right>>) = {left, right}
    <3>1. DOMAIN <<left, right>> = {1, 2}
      OBVIOUS
    <3> QED
      BY <3>1 DEF Range
  <2>2. Kids(KidsIn(heap'))[new] = {left, right}
    BY <1>8, <1>9, <1>12, <2>1
  <2> QED
    BY <1>1, <1>13, <2>2
<1>16. Complete(heap, root, carry) => Complete(heap', root', carry')
  <2> SUFFICES ASSUME Complete(heap, root, carry) PROVE Complete(heap', root', carry')
    OBVIOUS
  <2>1. DOMAIN heap \subseteq S
    BY <1>1, <1>2, <1>11, <1>13, <1>14, <1>15, StaysComplete
  <2> QED
    BY <1>1, <1>9, <1>13, <2>1 DEF Complete, S
<1> QED
  BY <1>10, <1>16

LEMMA SplitInternalList ==
    ASSUME TreeInv(heap, root, carry), TreeInv(heap', root', carry'), Listed(heap), SplitInternal
    PROVE  /\ SameLeaves(heap, heap')
           /\ Complete(heap, root, carry) => Complete(heap', root', carry')
<1> DEFINE q == Parent
           p == PromoteIndex
           right == carry.right
           t == InsertAt(heap[q].keys, LeftSlot, carry.key)
           r == LeftSlot + 1
           u == InsertAt(heap[q].children, r, right)
           new == Len(heap) + 1
           lower == SubSeq(u, 1, p + 1)
           upper == SubSeq(u, p + 2, Len(u))
           lowKeys == SubSeq(t, 1, p)
           upKeys == SubSeq(t, p + 2, Len(t))
           low == Internal(lowKeys, lower, heap[q].parent)
           node == Internal(upKeys, upper, heap[q].parent)
           owner(n) == OwnerAfterSplit(n, lower, upper, new)
           f == [n \in DOMAIN heap |-> IF n = q THEN low ELSE [heap[n] EXCEPT !.parent = owner(n)]]
           S == Seen(heap', root', carry')
<1>1. /\ Shaped(heap) /\ carry # Idle /\ q # Null /\ ~HasRoom(q)
      /\ heap' = Append(f, node) /\ root' = root
      /\ carry'.left = q /\ carry'.right = new
      /\ heap \in Seq(Node)
  BY DEF TreeInv, SplitInternal, CarryUp, Shaped
<1>2. /\ q \in DOMAIN heap /\ right \in DOMAIN heap /\ q \in Below(KidsIn(heap), root)
      /\ carry.key \in Keys
      /\ ~heap[q].isLeaf /\ LeftSlot \in DOMAIN heap[q].children
  BY <1>1, ParentIs
<1>3. /\ heap[q] \in Node /\ heap[q].keys \in Seq(Keys) /\ heap[q].children \in Seq(Nat) /\ right \in Nat
      /\ DOMAIN heap[q].children = 1 .. Len(heap[q].children) /\ Len(heap[q].children) \in Nat
      /\ Len(heap[q].children) = ORDER
      /\ Len(heap) \in Nat /\ DOMAIN heap = 1 .. Len(heap)
      /\ \A n \in DOMAIN heap : heap[n] \in Node
  <2>1. /\ heap[q] \in Node /\ heap[q].keys \in Seq(Keys) /\ heap[q].children \in Seq(Nat) /\ right \in Nat
        /\ Len(heap) \in Nat /\ DOMAIN heap = 1 .. Len(heap) /\ Sound(heap[q], Len(heap))
        /\ \A n \in DOMAIN heap : heap[n] \in Node
    BY <1>1, <1>2, NodesIn
  <2>2. Len(heap[q].keys) \in Nat /\ Len(heap[q].keys) <= MaxKeys /\ ~(Len(heap[q].keys) < MaxKeys)
    BY <1>1, <2>1, LenProperties DEF Sound, HasRoom
  <2>3. Len(heap[q].children) = Len(heap[q].keys) + 1
    BY <1>2, <2>1 DEF Sound
  <2>4. Len(heap[q].children) = ORDER
    BY <2>2, <2>3, HalfOfOrder
  <2> QED
    BY <2>1, <2>4, LenProperties
<1>4. u \in Seq(Nat) /\ Len(u) = ORDER + 1 /\ Range(u) = Range(heap[q].children) \cup {right}
  <2>1. r \in 1 .. Len(heap[q].children) + 1
    BY <1>2, <1>3
  <2> HIDE DEF r
  <2>2. u \in Seq(Nat) /\ IsInsertion(u, heap[q].children, r, right)
    BY <1>3, <2>1, InsertAtIs
  <2> QED
    BY <1>3, <2>2 DEF IsInsertion
<1>5. t \in Seq(Keys) /\ Len(t) = ORDER
  <2>1. DOMAIN heap[q].keys = 1 .. Len(heap[q].keys) /\ Len(heap[q].keys) \in Nat
    BY <1>3, LenProperties
  <2>2. Len(heap[q].children) = Len(heap[q].keys) + 1
    BY <1>1, <1>2, NodesIn DEF Sound
  <2>3. LeftSlot \in 1 .. Len(heap[q].keys) + 1
    BY <1>2, <1>3, <2>2
  <2>4. t \in Seq(Keys) /\ IsInsertion(t, heap[q].keys, LeftSlot, carry.key)
    BY <1>2, <1>3, <2>3, InsertAtIs
  <2> QED
    BY <1>3, <2>2, <2>4 DEF IsInsertion
<1>6. p \in Nat /\ 1 <= p /\ p + 2 <= ORDER /\ ORDER \in Nat
  BY HalfOfOrder
<1> HIDE DEF t, u, r, p
<1>7. lower \in Seq(Nat) /\ upper \in Seq(Nat) /\ Range(u) = Range(lower) \cup Range(upper)
  <2> DEFINE a == p + 1
             b == p + 2
             size == Len(u)
  <2>1. a \in Nat \ {0} /\ b \in Nat \ {0} /\ 1 <= a + 1 /\ a <= size /\ b <= size + 1 /\ size \in Nat /\ b = a + 1
        /\ DOMAIN u = 1 .. size
    BY <1>4, <1>6, LenProperties
  <2> HIDE DEF a, b, size
  <2>2. /\ SubSeq(u, 1, a) \in Seq(Nat) /\ SubSeq(u, b, size) \in Seq(Nat)
    BY <1>4, <2>1, PartOf DEF size
  <2>3. RangeIs(SubSeq(u, 1, a), u, 1, a) /\ RangeIs(SubSeq(u, b, size), u, b, size)
    BY <1>4, <2>1, RangeOfPart DEF size
  <2>4. \A i : i \in 1 .. size <=> (i \in 1 .. a \/ i \in b .. size)
    BY <2>1
  <2>5. Range(u) = {u[i] : i \in 1 .. size}
    BY <2>1 DEF Range
  <2>6. Range(u) = Range(SubSeq(u, 1, a)) \cup Range(SubSeq(u, b, size))
    BY <2>3, <2>4, <2>5 DEF RangeIs
  <2> QED
    BY <2>2, <2>6 DEF a, b, size
<1>8. lowKeys \in Seq(Keys)
  BY <1>5, <1>6, PartOf
<1>9. new \in Nat /\ new \notin DOMAIN heap
  BY <1>3
<1> HIDE DEF lower, upper, lowKeys, upKeys, new
<1>10. \A n \in DOMAIN heap : owner(n) \in Nat
  <2>1. \A n \in DOMAIN heap : heap[n].parent \in Nat
    BY <1>1, NodesIn
  <2>2. q \in Nat
    BY <1>2, <1>3
  <2> QED
    BY <1>9, <2>1, <2>2 DEF OwnerAfterSplit, q
<1>11. /\ low \in Node /\ ~low.isLeaf /\ low.next = Null /\ low.children = lower
       /\ ~node.isLeaf /\ node.next = Null /\ node.children = upper
  <2>1. <<>> \in Seq(Values) /\ heap[q].parent \in Nat
    BY <1>1, <1>2, NodesIn
  <2> QED
    BY <1>7, <1>8, <2>1 DEF Node, Internal, Null
<1> HIDE DEF low, node, owner, q
<1>12. /\ DOMAIN f = DOMAIN heap /\ f = [i \in DOMAIN f |-> f[i]] /\ f[q] = low
       /\ \A n \in DOMAIN heap \ {q} : f[n] = [heap[n] EXCEPT !.parent = owner(n)]
  BY <1>2
<1> HIDE DEF f
<1>13. ASSUME NEW n \in DOMAIN heap, n # q
       PROVE  /\ f[n] \in Node /\ f[n].isLeaf = heap[n].isLeaf /\ f[n].next = heap[n].next
              /\ f[n].keys = heap[n].keys /\ f[n].values = heap[n].values
              /\ f[n].children = heap[n].children
  <2>1. f[n] = [heap[n] EXCEPT !.parent = owner(n)] /\ heap[n] \in Node /\ owner(n) \in Nat
    BY <1>3, <1>10, <1>12, <1>13
  <2> QED
    BY <2>1 DEF Node
<1>14. f \in Seq(Node) /\ Len(f) = Len(heap)
  <2>1. \A n \in DOMAIN heap : f[n] \in Node
    BY <1>11, <1>12, <1>13
  <2> QED
    BY <1>1, <1>12, <2>1, SeqLike
<1>15. /\ DOMAIN heap' = DOMAIN heap \cup {new} /\ heap'[new] = node
       /\ \A n \in DOMAIN heap : heap'[n] = f[n]
  BY <1>1, <1>3, <1>12, <1>14 DEF new
<1>16. heap[q].isLeaf = FALSE /\ low.isLeaf = FALSE /\ heap[q].next = Null
  <2>1. heap[q].next = Null
    BY <1>2 DEF Listed, LeafNexts
  <2>2. heap[q].isLeaf \in BOOLEAN /\ low.isLeaf \in BOOLEAN
    BY <1>3, <1>11 DEF Node
  <2> QED
    BY <1>2, <1>11, <2>1, <2>2
<1>17. SameLeaves(heap, heap')
  <2>1. ASSUME NEW n \in DOMAIN heap
        PROVE  /\ heap'[n].isLeaf = heap[n].isLeaf /\ heap'[n].next = heap[n].next
               /\ heap[n].isLeaf => heap'[n].keys = heap[n].keys /\ heap'[n].values = heap[n].values
    <3>1. CASE n = q
      BY <1>11, <1>12, <1>15, <1>16, <3>1
    <3>2. CASE n # q
      BY <1>13, <1>15, <3>2
    <3> QED
      BY <3>1, <3>2
  <2>2. \A n \in DOMAIN heap' \ DOMAIN heap : ~heap'[n].isLeaf /\ heap'[n].next = Null
    BY <1>11, <1>15
  <2> QED
    BY <1>15, <2>1, <2>2 DEF SameLeaves
<1>18. /\ root \in Nat /\ (carry # Idle => carry.right \in Nat) /\ Kids(KidsIn(heap)) \in Graph
       /\ \A n \in DOMAIN heap : Kids(KidsIn(heap))[n] = Range(heap[n].children)
       /\ \A n \in Nat \ DOMAIN heap : Kids(KidsIn(heap))[n] = {}
  BY TreeNumbers
<1>19. /\ root' \in Nat /\ (carry' # Idle => carry'.right \in Nat) /\ Kids(KidsIn(heap')) \in Graph
       /\ \A n \in DOMAIN heap' : Kids(KidsIn(heap'))[n] = Range(heap'[n].children)
  BY TreeNumbers
<1>20. carry' # Idle
  BY <1>1, <1>9, <1>2, <1>3 DEF Idle, Null, new
<1>21. /\ S \in SUBSET Nat /\ root' \in S /\ carry'.right \in S
       /\ \A n \in S : Kids(KidsIn(heap'))[n] \subseteq S
  BY <1>19, <1>20, SeenIs
<1> HIDE DEF S
<1>22. new \in S
  BY <1>1, <1>21
<1>23. Range(upper) \subseteq S
  <2>1. Kids(KidsIn(heap'))[new] = Range(upper)
    BY <1>11, <1>15, <1>19
  <2> QED
    BY <1>21, <1>22, <2>1
<1>24. q \in S => Range(lower) \subseteq S
  <2>1. q \in DOMAIN heap' /\ heap'[q].children = lower
    BY <1>2, <1>11, <1>12, <1>15
  <2>2. Kids(KidsIn(heap'))[q] = Range(lower)
    BY <1>19, <2>1
  <2> QED
    BY <1>21, <2>2
<1>25. \A n \in S : Kids(KidsIn(heap))[n] \subseteq S
  <2> SUFFICES ASSUME NEW n \in S PROVE Kids(KidsIn(heap))[n] \subseteq S
    OBVIOUS
  <2>1. CASE n \notin DOMAIN heap
    BY <1>18, <1>21, <2>1
  <2>2. CASE n = q
    <3>1. Kids(KidsIn(heap))[n] = Range(heap[q].children)
      BY <1>2, <1>18, <2>2
    <3> QED
      BY <1>4, <1>7, <1>23, <1>24, <2>2, <3>1
  <2>3. CASE n \in DOMAIN heap /\ n # q
    <3>1. heap'[n].children = heap[n].children /\ n \in DOMAIN heap'
      BY <1>13, <1>15, <2>3
    <3>2. Kids(KidsIn(heap'))[n] = Kids(KidsIn(heap))[n]
      BY <1>18, <1>19, <2>3, <3>1
    <3> QED
      BY <1>21, <3>2
  <2> QED
    BY <2>1, <2>2, <2>3
<1>26. q \in S
  <2>1. ClosedUnder(Kids(KidsIn(heap)), S)
    BY <1>25 DEF ClosedUnder
  <2> QED
    BY <1>1, <1>2, <1>18, <1>21, <2>1, ReachLeast DEF Below
<1>27. right \in S
  BY <1>4, <1>7, <1>23, <1>24, <1>26
<1>28. Complete(heap, root, carry) => Complete(heap', root', carry')
  <2> SUFFICES ASSUME Complete(heap, root, carry) PROVE Complete(heap', root', carry')
    OBVIOUS
  <2>1. DOMAIN heap \subseteq S
    BY <1>1, <1>18, <1>21, <1>25, <1>27, StaysComplete
  <2> QED
    BY <1>15, <1>22, <2>1 DEF Complete, S
<1> QED
  BY <1>17, <1>28

(***************************************************************************)
(* The leaf list in every state.                                           *)
(***************************************************************************)
Whole(h, r, c) == InLine(h) /\ Complete(h, r, c)

ListInv ==
    /\ Inv /\ Listed(heap)
    /\ failures = 0 => Whole(heap, root, carry)

LEMMA InitListInv == Init => ListInv
<1> SUFFICES ASSUME Init PROVE ListInv
  OBVIOUS
<1> DEFINE node == Leaf(<<>>, <<>>, Null, Null)
           E == NextIn(heap)
           rank == [n \in Nat |-> n]
<1>1. heap = <<node>> /\ root = 1 /\ carry = Idle
  BY DEF Init, FirstLeaf
<1>2. node.isLeaf /\ node.keys = <<>> /\ node.next = 0 /\ node.children = <<>>
  BY DEF Leaf, Null
<1>3. Inv /\ Shaped(heap)
  BY InitInv DEF Inv, TreeInv
<1> HIDE DEF node
<1>4. DOMAIN heap = {1} /\ heap[1] = node
  BY <1>1
<1>5. E \in Graph /\ E[1] = {}
  BY <1>2, <1>3, <1>4, NextsIn DEF Null
<1>6. LeavesOf(heap) = {1}
  BY <1>2, <1>4 DEF LeavesOf
<1>7. Reach(E, 1) = {1}
  BY <1>5, ReachFirst
<1>8. RunsOut(heap)
  <2>1. rank \in [Nat -> Nat] /\ \A n \in DOMAIN heap : rank[heap[n].next] < rank[n]
    BY <1>2, <1>4
  <2> QED
    BY <2>1 DEF RunsOut
<1>9. LeafNexts(heap)
  BY <1>2, <1>4 DEF LeafNexts
<1> HIDE DEF E
<1>10. Listed(heap)
  BY <1>4, <1>6, <1>7, <1>8, <1>9 DEF Listed, FirstLeaf, E
<1>11. InLine(heap)
  BY <1>5, <1>6 DEF InLine, E
<1>12. Complete(heap, root, carry)
  <2>1. 1 \in Nat /\ Kids(KidsIn(heap)) \in Graph
    BY <1>3, TreeNumbers DEF Inv
  <2>2. 1 \in Below(KidsIn(heap), 1)
    BY <2>1, ReachBasics DEF Below
  <2> QED
    BY <1>1, <1>4, <2>2 DEF Complete, Seen
<1> QED
  BY <1>3, <1>10, <1>11, <1>12 DEF ListInv, Whole

\* A stored key leaves the list whole.
LEMMA PutsWhole ==
    ASSUME TreeInv(heap, root, carry), TreeInv(heap', root', carry'), carry = Idle, Listed(heap),
           Whole(heap, root, carry), NEW k \in Keys, NEW v, Puts(heap, heap', FindLeaf(k), k, v),
           root' = root, carry' = Idle
    PROVE  Whole(heap', root', carry')
<1>1. /\ Shaped(heap) /\ Shaped(heap') /\ k \in Int
      /\ InLine(heap) /\ Complete(heap, root, carry)
  BY KeysAssumption DEF TreeInv, Whole
<1> DEFINE leaf == FindLeaf(k)
<1>2. /\ \A p \in LeavesOf(heap) : leaf \in NextIn(heap)[p] => \A j \in Range(heap[p].keys) : j < k
      /\ \A x \in NextIn(heap)[leaf] : \A l \in Range(heap[x].keys) : k < l
  BY <1>1, KeyFitsInLine
<1> HIDE DEF leaf
<1>3. InLine(heap')
  BY <1>1, <1>2, PutsInLine DEF leaf
<1>4. Complete(heap', root', carry')
  BY <1>1, PutsCompletes
<1> QED
  BY <1>3, <1>4 DEF Whole

LEMMA SplitsWhole ==
    ASSUME TreeInv(heap, root, carry), TreeInv(heap', root', carry'), Listed(heap),
           Whole(heap, root, carry), NEW k \in Keys, NEW v \in Values, SplitLeaf(k, v)
    PROVE  Whole(heap', root', carry')
<1>1. /\ Shaped(heap) /\ Shaped(heap') /\ k \in Int /\ carry = Idle
      /\ InLine(heap) /\ Complete(heap, root, carry)
  BY KeysAssumption DEF TreeInv, Whole, SplitLeaf
<1> DEFINE leaf == FindLeaf(k)
           new == Len(heap) + 1
<1>2. /\ \A p \in LeavesOf(heap) : leaf \in NextIn(heap)[p] => \A j \in Range(heap[p].keys) : j < k
      /\ \A x \in NextIn(heap)[leaf] : \A l \in Range(heap[x].keys) : k < l
  BY <1>1, KeyFitsInLine
<1>3. Splits(heap, heap', leaf, new, k, v)
  BY SplitLeafSplits
<1> HIDE DEF leaf, new
<1>4. InLine(heap')
  BY <1>1, <1>2, <1>3, SplitsInLine
<1>5. Complete(heap', root', carry')
  BY <1>1, SplitLeafCompletes
<1> QED
  BY <1>4, <1>5 DEF Whole

\* A step of the climb leaves the leaves alone.
LEMMA ClimbKeepsList ==
    ASSUME Inv, Inv', Listed(heap), CreateNewRoot \/ InsertIntoInternal \/ SplitInternal
    PROVE  SameLeaves(heap, heap') /\ (Complete(heap, root, carry) => Complete(heap', root', carry'))
<1>1. TreeInv(heap, root, carry) /\ TreeInv(heap', root', carry')
  BY DEF Inv
<1>2. CASE CreateNewRoot
  BY <1>1, <1>2, CreateNewRootList
<1>3. CASE InsertIntoInternal
  BY <1>1, <1>3, InsertIntoInternalList
<1>4. CASE SplitInternal
  BY <1>1, <1>4, SplitInternalList
<1> QED
  BY <1>2, <1>3, <1>4

LEMMA StepKeepsListInv ==
    ASSUME ListInv, [Next]_vars
    PROVE  ListInv'
<1>1. /\ Inv /\ Inv' /\ Listed(heap) /\ (failures = 0 => Whole(heap, root, carry))
      /\ TreeInv(heap, root, carry) /\ TreeInv(heap', root', carry')
      /\ Shaped(heap) /\ Shaped(heap') /\ failures \in Nat
  <2>1. Inv /\ Listed(heap) /\ (failures = 0 => Whole(heap, root, carry))
    BY DEF ListInv
  <2>2. Inv'
    BY <2>1, StepKeepsInv
  <2>3. TreeInv(heap, root, carry) /\ TreeInv(heap', root', carry') /\ failures \in Nat
    BY <2>1, <2>2 DEF Inv
  <2> QED
    BY <2>1, <2>2, <2>3 DEF TreeInv
<1>2. ASSUME NEW k \in Keys, NEW v \in Values, Puts(heap, heap', FindLeaf(k), k, v), carry = Idle,
             UNCHANGED <<root, carry, failures>>
      PROVE  ListInv'
  <2>1. Listed(heap')
    BY <1>1, <1>2, PutsListed
  <2>2. ASSUME failures' = 0 PROVE Whole(heap', root', carry')
    BY <1>1, <1>2, <2>2, PutsWhole
  <2> QED
    BY <1>1, <2>1, <2>2 DEF ListInv
<1>3. ASSUME NEW k \in Keys, NEW v \in Values, InsertIntoLeaf(k, v)
      PROVE  ListInv'
  <2>1. carry = Idle /\ UNCHANGED <<root, carry, failures>>
    BY <1>3 DEF InsertIntoLeaf
  <2>2. Puts(heap, heap', FindLeaf(k), k, v)
    BY <1>1, <1>3, InsertIntoLeafPuts
  <2> QED
    BY <1>2, <2>1, <2>2
<1>4. ASSUME NEW k \in Keys, NEW v \in Values, OverwriteValue(k, v)
      PROVE  ListInv'
  <2>1. carry = Idle /\ UNCHANGED <<root, carry, failures>>
    BY <1>4 DEF OverwriteValue
  <2>2. Puts(heap, heap', FindLeaf(k), k, v)
    BY <1>1, <1>4, OverwritePuts
  <2> QED
    BY <1>2, <2>1, <2>2
<1>5. ASSUME NEW k \in Keys, NEW v \in Values, SplitLeaf(k, v)
      PROVE  ListInv'
  <2>1. Splits(heap, heap', FindLeaf(k), Len(heap) + 1, k, v)
    BY <1>1, <1>5, SplitLeafSplits
  <2>2. Listed(heap')
    BY <1>1, <2>1, SplitsListed
  <2>3. failures' = failures
    BY <1>5 DEF SplitLeaf
  <2>4. ASSUME failures' = 0 PROVE Whole(heap', root', carry')
    BY <1>1, <1>5, <2>3, <2>4, SplitsWhole
  <2> QED
    BY <1>1, <2>2, <2>4 DEF ListInv
<1>6. CASE CreateNewRoot \/ InsertIntoInternal \/ SplitInternal
  <2>1. SameLeaves(heap, heap') /\ (Complete(heap, root, carry) => Complete(heap', root', carry'))
    BY <1>1, <1>6, ClimbKeepsList
  <2>2. failures' = failures
    BY <1>6 DEF CreateNewRoot, InsertIntoInternal, SplitInternal
  <2>3. Listed(heap')
    BY <1>1, <2>1, SameLeavesListed
  <2>4. InLine(heap) => InLine(heap')
    BY <1>1, <2>1, SameLeavesInLine
  <2>5. failures' = 0 => Whole(heap', root', carry')
    BY <1>1, <2>1, <2>2, <2>4 DEF Whole
  <2> QED
    BY <1>1, <2>3, <2>5 DEF ListInv
<1>7. CASE heap' = heap /\ failures' = failures + 1
  BY <1>1, <1>7 DEF ListInv
<1>8. CASE UNCHANGED <<heap, root, carry, failures>>
  BY <1>1, <1>8 DEF ListInv
<1>9. ASSUME NEW k \in Keys, RefuseDuplicate(k)
      PROVE  ListInv'
  BY <1>8, <1>9 DEF RefuseDuplicate
<1>10. ASSUME NEW k \in Keys, LeafAllocFails(k)
      PROVE  ListInv'
  BY <1>7, <1>10 DEF LeafAllocFails, AllocFails
<1>11. CASE ParentAllocFails
  BY <1>7, <1>11 DEF ParentAllocFails, AllocFails
<1>12. CASE UNCHANGED vars
  BY <1>8, <1>12 DEF vars
<1> QED
  BY <1>3, <1>4, <1>5, <1>6, <1>9, <1>10, <1>11, <1>12 DEF Next, Climb

\* In every state the leaf list has every leaf allocated and nothing else, and it
\* ends.  While no allocation has failed its keys also grow along it, and every
\* node allocated is below the root or in the piece a pending insert carries.
\* The inductive invariant of what follows.
THEOREM LeafListInvariant == Spec => []ListInv
<1>1. Init => ListInv
  BY InitListInv
<1>2. ListInv /\ [Next]_vars => ListInv'
  BY StepKeepsListInv
<1> QED
  BY <1>1, <1>2, PTL DEF Spec

(***************************************************************************)
(* The properties.                                                         *)
(***************************************************************************)
LEMMA ChainHasLeaves ==
    ASSUME ListInv
    PROVE  /\ Lists(Chain, FirstLeaf) /\ Range(Chain) = LeavesOf(heap)
           /\ TreeInv(heap, root, carry) /\ Shaped(heap) /\ Listed(heap)
<1>1. TreeInv(heap, root, carry) /\ Shaped(heap) /\ Listed(heap)
  BY DEF ListInv, Inv, TreeInv
<1>2. Lists(Chain, FirstLeaf)
  BY <1>1, ChainIs DEF Listed
<1> QED
  BY <1>1, <1>2 DEF Lists, Listed

LEMMA NothingLostHolds == ListInv => NothingLost
<1> SUFFICES ASSUME ListInv, carry = Idle, failures = 0
             PROVE  ChainIsTree /\ NothingLeaked
  BY DEF NothingLost
<1>1. /\ Lists(Chain, FirstLeaf) /\ Range(Chain) = LeavesOf(heap)
      /\ TreeInv(heap, root, carry) /\ Shaped(heap) /\ Listed(heap)
  BY ChainHasLeaves
<1>2. InLine(heap) /\ Complete(heap, root, carry)
  BY DEF ListInv, Whole
<1>3. Reachable = DOMAIN heap
  BY <1>1, <1>2, ReachableIs DEF Complete, Seen
<1>4. LeavesReached = LeavesOf(heap)
  BY <1>3 DEF LeavesReached, LeavesOf
<1>5. ASSUME NEW i \in DOMAIN Chain, NEW j \in DOMAIN Chain, i < j,
             NEW k \in HeldBy(Chain[i]), NEW l \in HeldBy(Chain[j])
      PROVE  k < l
  <2>1. Chain[i] \in LeavesOf(heap) /\ Chain[j] \in After(heap, Chain[i])
    BY <1>1, <1>5 DEF Lists, Range
  <2> QED
    BY <1>1, <1>2, <2>1, KeysAfter DEF HeldBy
<1>6. ChainIsTree
  BY <1>1, <1>4, <1>5 DEF ChainIsTree
<1> QED
  BY <1>3, <1>6 DEF NothingLeaked

\* Between two calls, as long as no allocation has failed, bptree_first_leaf and
\* the next pointers lead through exactly the leaves of the tree, in the order
\* of their keys, and bptree_destroy reaches every node allocated.
THEOREM NothingIsLost == Spec => []NothingLost
BY LeafListInvariant, NothingLostHolds, PTL

\* What is in the leaves.
Entries(h) == UNION {Held(h[n]) : n \in LeavesOf(h)}
KeysOf(h) == UNION {Range(h[n].keys) : n \in LeavesOf(h)}

LEMMA KeysHeldAre ==
    ASSUME ListInv
    PROVE  KeysHeld = KeysOf(heap) /\ ChainEntries = Entries(heap)
<1>1. Range(Chain) = LeavesOf(heap)
  BY ChainHasLeaves
<1>2. KeysHeld = KeysOf(heap)
  BY <1>1 DEF KeysHeld, KeysOf, HeldBy
<1>3. ChainEntries = Entries(heap)
  BY <1>1 DEF ChainEntries, Entries, Held, Zipped
<1> QED
  BY <1>2, <1>3

LEMMA SearchAgreesHolds == ListInv => SearchAgrees
<1> SUFFICES ASSUME ListInv, carry = Idle
             PROVE  /\ \A k \in Keys : \A v \in Search(k) : <<k, v>> \in Entries(heap)
                    /\ failures = 0 => \A e \in Entries(heap) : Search(e[1]) = {e[2]}
  BY KeysHeldAre DEF SearchAgrees
<1>1. TreeInv(heap, root, carry) /\ Shaped(heap) /\ Listed(heap)
  BY ChainHasLeaves
<1>2. ASSUME NEW k \in Keys, NEW v \in Search(k)
      PROVE  <<k, v>> \in Entries(heap)
  <2> DEFINE n == FindLeaf(k)
  <2>1. n \in LeavesOf(heap)
    BY <1>1, FindLeafIs, KeysAssumption DEF LeavesOf
  <2>2. PICK i \in DOMAIN heap[n].keys : heap[n].keys[i] = k /\ v = heap[n].values[i]
    BY <1>2 DEF Search
  <2> HIDE DEF n
  <2>3. <<k, v>> \in Held(heap[n])
    BY <2>2 DEF Held, Zipped
  <2> QED
    BY <2>1, <2>3 DEF Entries
<1>3. ASSUME failures = 0, NEW e \in Entries(heap)
      PROVE  Search(e[1]) = {e[2]}
  <2>1. PICK n \in LeavesOf(heap) : e \in Held(heap[n])
    BY <1>3 DEF Entries
  <2>2. PICK i \in DOMAIN heap[n].keys : e = <<heap[n].keys[i], heap[n].values[i]>>
    BY <2>1 DEF Held, Zipped
  <2> DEFINE k == heap[n].keys[i]
  <2>3. e[1] = k /\ e[2] = heap[n].values[i] /\ k \in Range(heap[n].keys)
    BY <2>2 DEF Range
  <2>4. FindLeaf(k) = n
    BY <1>1, <1>3, <2>3, KeyIsFound DEF ListInv, Whole
  <2>5. \A j \in DOMAIN heap[n].keys : heap[n].keys[j] = k => j = i
    <3>1. n \in DOMAIN heap
      BY DEF LeavesOf
    <3>2. heap[n].keys \in Seq(Keys) /\ Ascending(heap[n].keys)
      BY <1>1, <3>1, NodesIn DEF Sound
    <3> SUFFICES ASSUME NEW j \in DOMAIN heap[n].keys, heap[n].keys[j] = k, j # i PROVE FALSE
      OBVIOUS
    <3> DEFINE keys == heap[n].keys
    <3>3. /\ keys \in Seq(Keys) /\ Ascending(keys) /\ keys[i] = keys[j] /\ i # j
          /\ i \in DOMAIN keys /\ j \in DOMAIN keys
      BY <3>2
    <3> HIDE DEF keys
    <3>4. DOMAIN keys = 1 .. Len(keys) /\ Len(keys) \in Nat
      BY <3>3, LenProperties
    <3>5. keys[i] \in Int
      BY <3>3, <3>4, ElementOfSeq, KeysAssumption
    <3>6. keys[i] < keys[j] \/ keys[j] < keys[i]
      BY <3>3, <3>4 DEF Ascending
    <3> QED
      BY <3>3, <3>5, <3>6
  <2> HIDE DEF k
  <2>6. Search(k) = {heap[n].values[j] : j \in {x \in DOMAIN heap[n].keys : heap[n].keys[x] = k}}
    BY <2>4 DEF Search
  <2>7. {x \in DOMAIN heap[n].keys : heap[n].keys[x] = k} = {i}
    BY <2>5 DEF k
  <2> QED
    BY <2>3, <2>6, <2>7
<1> QED
  BY <1>2, <1>3

\* bptree_search finds nothing that is not in the leaf list; while no allocation
\* has failed it finds every entry of the list, the one value stored for the key.
THEOREM SearchesAgree == Spec => []SearchAgrees
BY LeafListInvariant, SearchAgreesHolds, PTL

\* A step stores one entry or none.
StoresOne(h, h2, k, v) ==
    \/ Puts(h, h2, FindLeaf(k), k, v)
    \/ Splits(h, h2, FindLeaf(k), Len(h) + 1, k, v)

LEMMA LeafStepStores ==
    ASSUME TreeInv(heap, root, carry), NEW k \in Keys, NEW v \in Values,
           InsertIntoLeaf(k, v) \/ OverwriteValue(k, v) \/ SplitLeaf(k, v)
    PROVE  StoresOne(heap, heap', k, v)
<1>1. CASE InsertIntoLeaf(k, v)
  BY <1>1, InsertIntoLeafPuts DEF StoresOne
<1>2. CASE OverwriteValue(k, v)
  BY <1>2, OverwritePuts DEF StoresOne
<1>3. CASE SplitLeaf(k, v)
  BY <1>3, SplitLeafSplits DEF StoresOne
<1> QED
  BY <1>1, <1>2, <1>3

LEMMA StepStores ==
    ASSUME ListInv, Next
    PROVE  \/ \E k \in Keys, v \in Values : StoresOne(heap, heap', k, v)
           \/ SameLeaves(heap, heap')
           \/ heap' = heap
<1>1. Inv /\ Inv' /\ Listed(heap) /\ TreeInv(heap, root, carry)
  BY StepKeepsInv DEF ListInv, Inv
<1>2. CASE CreateNewRoot \/ InsertIntoInternal \/ SplitInternal
  BY <1>1, <1>2, ClimbKeepsList
<1>3. ASSUME NEW k \in Keys, RefuseDuplicate(k) \/ LeafAllocFails(k)
      PROVE  heap' = heap
  BY <1>3 DEF RefuseDuplicate, LeafAllocFails
<1>4. CASE ParentAllocFails
  BY <1>4 DEF ParentAllocFails
<1> QED
  BY <1>1, <1>2, <1>3, <1>4, LeafStepStores DEF Next, Climb

LEMMA StepKeepsKeys ==
    ASSUME ListInv, Next
    PROVE  KeysOf(heap) \subseteq KeysOf(heap')
<1>1. Shaped(heap) /\ Shaped(heap')
  BY StepKeepsInv DEF ListInv, Inv, TreeInv
<1> SUFFICES ASSUME NEW n \in LeavesOf(heap), NEW j \in Range(heap[n].keys)
             PROVE  \E m \in LeavesOf(heap') : j \in Range(heap'[m].keys)
  BY DEF KeysOf
<1>2. n \in DOMAIN heap
  BY DEF LeavesOf
<1>3. CASE heap' = heap
  BY <1>3
<1>4. CASE SameLeaves(heap, heap')
  <2>1. n \in LeavesOf(heap') /\ heap'[n].keys = heap[n].keys
    BY <1>2, <1>4 DEF SameLeaves, LeavesOf
  <2> QED
    BY <2>1
<1>5. ASSUME NEW leaf, NEW k, NEW v, Puts(heap, heap', leaf, k, v)
      PROVE  \E m \in LeavesOf(heap') : j \in Range(heap'[m].keys)
  <2>1. LeavesOf(heap') = LeavesOf(heap)
    BY <1>1, <1>5, PutsList
  <2>2. j \in Range(heap'[n].keys)
    BY <1>2, <1>5 DEF Puts
  <2> QED
    BY <2>1, <2>2
<1>6. ASSUME NEW leaf, NEW new, NEW k, NEW v, Splits(heap, heap', leaf, new, k, v)
      PROVE  \E m \in LeavesOf(heap') : j \in Range(heap'[m].keys)
  <2>1. LeavesOf(heap') = LeavesOf(heap) \cup {new}
    BY <1>1, <1>6, SplitsList
  <2>2. CASE n = leaf
    <3>1. j \in Range(heap'[leaf].keys) \cup Range(heap'[new].keys)
      BY <1>6, <2>2 DEF Splits
    <3> QED
      BY <2>1, <2>2, <3>1
  <2>3. CASE n # leaf
    <3>1. heap'[n] = heap[n]
      BY <1>2, <1>6, <2>3 DEF Splits
    <3> QED
      BY <2>1, <3>1
  <2> QED
    BY <2>2, <2>3
<1> QED
  BY <1>3, <1>4, <1>5, <1>6, StepStores DEF StoresOne

\* A key stays on the leaf list once it is there, also when a call runs out of
\* memory half-way up.
THEOREM KeysStay == Spec => ChainKeepsKeys
<1>1. ListInv => KeysHeld = KeysOf(heap)
  BY KeysHeldAre
<1>2. ListInv' => (KeysHeld = KeysOf(heap))'
  BY <1>1, PTL
<1>3. (KeysHeld = KeysOf(heap))' => KeysHeld' = KeysOf(heap')
  BY DEF KeysOf
<1>4. ListInv /\ ListInv' /\ [Next]_vars => [KeysHeld \subseteq KeysHeld']_heap
  <2> SUFFICES ASSUME ListInv, ListInv', [Next]_vars, heap' # heap
               PROVE  KeysHeld \subseteq KeysHeld'
    OBVIOUS
  <2>1. Next
    BY DEF vars
  <2> QED
    BY <1>1, <1>2, <1>3, <2>1, StepKeepsKeys
<1> QED
  BY <1>4, LeafListInvariant, PTL DEF Spec, ChainKeepsKeys

(***************************************************************************)
(* The map the tree implements.                                            *)
(***************************************************************************)
\* f takes what S pairs.
IsMapOf(f, S) ==
    /\ DOMAIN f = {e[1] : e \in S} /\ f = [k \in DOMAIN f |-> f[k]]
    /\ \A e \in S : f[e[1]] = e[2]

\* f, but v under k.
Updated(f, k, v) == [x \in DOMAIN f \cup {k} |-> IF x = k THEN v ELSE f[x]]

LEMMA MapIsOne ==
    ASSUME NEW f, NEW g, NEW S, IsMapOf(f, S), IsMapOf(g, S)
    PROVE  f = g
<1>1. DOMAIN f = DOMAIN g /\ \A k \in DOMAIN f : f[k] = g[k]
  BY DEF IsMapOf
<1>2. f = [k \in DOMAIN f |-> f[k]] /\ g = [k \in DOMAIN g |-> g[k]]
  BY DEF IsMapOf
<1> QED
  BY <1>1, <1>2

LEMMA MapOfStored ==
    ASSUME NEW f, NEW g, NEW S, NEW k, NEW v, IsMapOf(f, S), IsMapOf(g, Stored(S, k, v))
    PROVE  g = Updated(f, k, v)
<1>1. <<k, v>> \in Stored(S, k, v) /\ <<k, v>>[1] = k /\ <<k, v>>[2] = v
  BY DEF Stored
<1>2. g[k] = v /\ k \in DOMAIN g
  BY <1>1 DEF IsMapOf
<1>3. \A e \in S : e[1] # k => e \in Stored(S, k, v)
  BY DEF Stored
<1>4. \A e \in Stored(S, k, v) : e = <<k, v>> \/ e \in S
  BY DEF Stored
<1>5. DOMAIN g = DOMAIN f \cup {k}
  BY <1>1, <1>2, <1>3, <1>4 DEF IsMapOf
<1>6. \A x \in DOMAIN f : x # k => g[x] = f[x]
  BY <1>3 DEF IsMapOf
<1>7. g = [x \in DOMAIN g |-> g[x]]
  BY DEF IsMapOf
<1> QED
  BY <1>2, <1>5, <1>6, <1>7 DEF Updated

\* No key is in two leaves.
LEMMA KeyInOneLeaf ==
    ASSUME ListInv, InLine(heap), NEW m \in LeavesOf(heap), NEW n \in LeavesOf(heap),
           NEW k \in Range(heap[m].keys), k \in Range(heap[n].keys)
    PROVE  m = n
<1>1. /\ Lists(Chain, FirstLeaf) /\ Range(Chain) = LeavesOf(heap)
      /\ Shaped(heap) /\ Listed(heap)
  BY ChainHasLeaves
<1>2. PICK i \in DOMAIN Chain : m = Chain[i]
  BY <1>1 DEF Range
<1>3. PICK j \in DOMAIN Chain : n = Chain[j]
  BY <1>1 DEF Range
<1>4. DOMAIN Chain = 1 .. Len(Chain) /\ Len(Chain) \in Nat
  BY <1>1, LenProperties DEF Lists
<1>5. k \in Int /\ ~(k < k)
  BY <1>1, LeafKeysAre
<1>6. ~(i < j)
  <2> SUFFICES ASSUME i < j PROVE FALSE
    OBVIOUS
  <2>1. n \in After(heap, m)
    BY <1>1, <1>2, <1>3 DEF Lists
  <2> QED
    BY <1>1, <1>5, <2>1, KeysAfter
<1>7. ~(j < i)
  <2> SUFFICES ASSUME j < i PROVE FALSE
    OBVIOUS
  <2>1. m \in After(heap, n)
    BY <1>1, <1>2, <1>3 DEF Lists
  <2> QED
    BY <1>1, <1>5, <2>1, KeysAfter
<1> QED
  BY <1>2, <1>3, <1>4, <1>6, <1>7

\* No key is in a leaf twice.
LEMMA KeyOnce ==
    ASSUME NEW keys \in Seq(Keys), Ascending(keys), NEW i \in DOMAIN keys, NEW j \in DOMAIN keys,
           keys[i] = keys[j]
    PROVE  i = j
<1>1. DOMAIN keys = 1 .. Len(keys) /\ Len(keys) \in Nat
  BY LenProperties
<1>2. keys[i] \in Int
  BY <1>1, ElementOfSeq, KeysAssumption
<1>3. ~(i < j) /\ ~(j < i)
  BY <1>2 DEF Ascending
<1> QED
  BY <1>1, <1>3

LEMMA IndexIs == ListInv /\ InLine(heap) => IsMapOf(IndexMap, Entries(heap))
<1> SUFFICES ASSUME ListInv, InLine(heap) PROVE IsMapOf(IndexMap, Entries(heap))
  OBVIOUS
<1> DEFINE leafOf(k) == CHOOSE n \in Range(Chain) : k \in HeldBy(n)
           valueIn(n, k) == heap[n].values[CHOOSE i \in DOMAIN heap[n].keys : heap[n].keys[i] = k]
<1>1. IndexMap = [k \in KeysHeld |-> valueIn(leafOf(k), k)]
  BY DEF IndexMap
<1>2. Range(Chain) = LeavesOf(heap) /\ Shaped(heap) /\ KeysHeld = KeysOf(heap)
  BY ChainHasLeaves, KeysHeldAre
<1>3. ASSUME NEW n \in LeavesOf(heap), NEW i \in DOMAIN heap[n].keys
      PROVE  /\ heap[n].keys[i] \in KeysHeld
             /\ valueIn(leafOf(heap[n].keys[i]), heap[n].keys[i]) = heap[n].values[i]
  <2> DEFINE keys == heap[n].keys
             k == keys[i]
  <2>1. k \in Range(keys) /\ k \in HeldBy(n)
    BY DEF Range, HeldBy
  <2>2. k \in KeysHeld
    BY <1>2, <2>1 DEF KeysHeld
  <2>3. leafOf(k) = n
    <3>1. \E m \in Range(Chain) : k \in HeldBy(m)
      BY <1>2, <2>1
    <3>2. leafOf(k) \in LeavesOf(heap) /\ k \in HeldBy(leafOf(k))
      BY <1>2, <3>1
    <3> HIDE DEF leafOf, k, keys
    <3> QED
      BY <2>1, <3>2, KeyInOneLeaf DEF HeldBy, keys
  <2>4. keys \in Seq(Keys) /\ Ascending(keys)
    <3>1. n \in DOMAIN heap
      BY DEF LeavesOf
    <3> QED
      BY <1>2, <3>1, NodesIn DEF Sound
  <2> DEFINE at == CHOOSE x \in DOMAIN keys : keys[x] = k
  <2>5. at \in DOMAIN keys /\ keys[at] = k
    OBVIOUS
  <2>6. at = i
    <3> HIDE DEF at, keys
    <3> QED
      BY <2>4, <2>5, KeyOnce DEF keys
  <2>7. valueIn(n, k) = heap[n].values[i]
    BY <2>6
  <2> HIDE DEF leafOf, valueIn
  <2> QED
    BY <2>2, <2>3, <2>7
<1> HIDE DEF leafOf, valueIn
<1>4. ASSUME NEW e \in Entries(heap)
      PROVE  e[1] \in KeysHeld /\ IndexMap[e[1]] = e[2]
  <2>1. PICK n \in LeavesOf(heap) : e \in Held(heap[n])
    BY DEF Entries
  <2>2. PICK i \in DOMAIN heap[n].keys : e = <<heap[n].keys[i], heap[n].values[i]>>
    BY <2>1 DEF Held, Zipped
  <2>3. e[1] = heap[n].keys[i] /\ e[2] = heap[n].values[i]
    BY <2>2
  <2> QED
    BY <1>1, <1>3, <2>3
<1>5. ASSUME NEW k \in KeysHeld
      PROVE  \E e \in Entries(heap) : e[1] = k
  <2>1. PICK n \in LeavesOf(heap) : k \in Range(heap[n].keys)
    BY <1>2 DEF KeysOf
  <2>2. PICK i \in DOMAIN heap[n].keys : k = heap[n].keys[i]
    BY <2>1 DEF Range
  <2> DEFINE e == <<heap[n].keys[i], heap[n].values[i]>>
  <2>3. e \in Held(heap[n]) /\ e[1] = k
    BY <2>2 DEF Held, Zipped
  <2> HIDE DEF e
  <2> QED
    BY <2>3 DEF Entries
<1>6. DOMAIN IndexMap = KeysHeld /\ IndexMap = [k \in DOMAIN IndexMap |-> IndexMap[k]]
  <2> DEFINE f == [k \in KeysHeld |-> valueIn(leafOf(k), k)]
  <2>1. DOMAIN f = KeysHeld /\ f = [k \in DOMAIN f |-> f[k]]
    OBVIOUS
  <2> HIDE DEF f
  <2> QED
    BY <1>1, <2>1 DEF f
<1>7. KeysHeld = {e[1] : e \in Entries(heap)}
  BY <1>4, <1>5
<1> QED
  BY <1>4, <1>6, <1>7 DEF IsMapOf

(***************************************************************************)
(* What the steps do to it.                                                *)
(***************************************************************************)
LEMMA ZipKeys ==
    ASSUME NEW h, NEW n, NEW e \in Held(h[n])
    PROVE  e[1] \in Range(h[n].keys)
BY DEF Held, Zipped, Range

LEMMA PutsEntries ==
    ASSUME NEW h, NEW h2, Shaped(h), Shaped(h2), NEW leaf, NEW k, NEW v, Puts(h, h2, leaf, k, v),
           \A n \in LeavesOf(h) \ {leaf} : k \notin Range(h[n].keys)
    PROVE  Entries(h2) = Stored(Entries(h), k, v)
<1>1. LeavesOf(h2) = LeavesOf(h) /\ leaf \in LeavesOf(h)
  BY PutsList DEF Puts
<1>2. /\ \A n \in LeavesOf(h) \ {leaf} : Held(h2[n]) = Held(h[n])
      /\ Held(h2[leaf]) = Stored(Held(h[leaf]), k, v)
  BY DEF Puts, LeavesOf
<1>3. \A n \in LeavesOf(h) \ {leaf} : \A e \in Held(h[n]) : e[1] # k
  BY ZipKeys
<1>4. Held(h2[leaf]) = {e \in Held(h[leaf]) : e[1] # k} \cup {<<k, v>>}
  BY <1>2 DEF Stored
<1> QED
  BY <1>1, <1>2, <1>3, <1>4 DEF Entries, Stored

LEMMA SplitsEntries ==
    ASSUME NEW h, NEW h2, Shaped(h), Shaped(h2), NEW leaf, NEW new, NEW k, NEW v,
           Splits(h, h2, leaf, new, k, v),
           \A n \in LeavesOf(h) \ {leaf} : k \notin Range(h[n].keys)
    PROVE  Entries(h2) = Stored(Entries(h), k, v)
<1>1. LeavesOf(h2) = LeavesOf(h) \cup {new} /\ new \notin LeavesOf(h)
  BY SplitsList
<1>2. /\ \A n \in LeavesOf(h) \ {leaf} : Held(h2[n]) = Held(h[n])
      /\ Held(h2[leaf]) \cup Held(h2[new]) = Stored(Held(h[leaf]), k, v)
      /\ leaf \in LeavesOf(h)
  BY DEF Splits, LeavesOf
<1>3. \A n \in LeavesOf(h) \ {leaf} : \A e \in Held(h[n]) : e[1] # k
  BY ZipKeys
<1>4. Held(h2[leaf]) \cup Held(h2[new]) = {e \in Held(h[leaf]) : e[1] # k} \cup {<<k, v>>}
  BY <1>2 DEF Stored
<1>5. Entries(h2) \subseteq Stored(Entries(h), k, v)
  BY <1>1, <1>2, <1>3, <1>4 DEF Entries, Stored
<1>6. Stored(Entries(h), k, v) \subseteq Entries(h2)
  <2> SUFFICES ASSUME NEW e \in Stored(Entries(h), k, v) PROVE \E n \in LeavesOf(h2) : e \in Held(h2[n])
    BY DEF Entries
  <2>1. CASE e = <<k, v>>
    BY <1>1, <1>2, <1>4, <2>1
  <2>2. CASE e # <<k, v>>
    <3>1. e[1] # k /\ \E n \in LeavesOf(h) : e \in Held(h[n])
      BY <2>2 DEF Stored, Entries
    <3>2. PICK n \in LeavesOf(h) : e \in Held(h[n])
      BY <3>1
    <3>3. CASE n = leaf
      BY <1>1, <1>2, <1>4, <3>1, <3>2, <3>3
    <3>4. CASE n # leaf
      BY <1>1, <1>2, <3>2, <3>4
    <3> QED
      BY <3>3, <3>4
  <2> QED
    BY <2>1, <2>2
<1> QED
  BY <1>5, <1>6

LEMMA SameLeavesEntries ==
    ASSUME NEW h, NEW h2, Shaped(h), Shaped(h2), SameLeaves(h, h2)
    PROVE  Entries(h2) = Entries(h)
<1>1. LeavesOf(h2) = LeavesOf(h)
  BY SameLeavesList
<1>2. \A n \in LeavesOf(h) : Held(h2[n]) = Held(h[n])
  BY DEF SameLeaves, LeavesOf, Held
<1> QED
  BY <1>1, <1>2 DEF Entries

\* What the list has after a step that does not lose memory above a leaf.
LEMMA StoredEntries ==
    ASSUME ListInv, ListInv', InLine(heap), Complete(heap, root, carry), carry = Idle,
           NEW k \in Keys, NEW v \in Values, StoresOne(heap, heap', k, v)
    PROVE  Entries(heap') = Stored(Entries(heap), k, v)
<1>1. TreeInv(heap, root, carry) /\ Shaped(heap) /\ Shaped(heap') /\ Listed(heap) /\ k \in Int
  BY KeysAssumption DEF ListInv, Inv, TreeInv
<1> DEFINE leaf == FindLeaf(k)
           new == Len(heap) + 1
<1>2. \A n \in LeavesOf(heap) \ {leaf} : k \notin Range(heap[n].keys)
  BY <1>1, KeyFitsInLine
<1>3. Puts(heap, heap', leaf, k, v) \/ Splits(heap, heap', leaf, new, k, v)
  BY DEF StoresOne
<1> HIDE DEF leaf, new
<1> QED
  BY <1>1, <1>2, <1>3, PutsEntries, SplitsEntries

LEMMA InitIndex == Init => Index!Init
<1> SUFFICES ASSUME Init PROVE Index!Init
  OBVIOUS
<1> DEFINE node == Leaf(<<>>, <<>>, Null, Null)
<1>1. heap = <<node>> /\ carry = Idle /\ ret = 0
  BY DEF Init
<1>2. node.isLeaf /\ node.keys = <<>> /\ node.values = <<>>
  BY DEF Leaf
<1> HIDE DEF node
<1>3. ListInv /\ failures = 0
  BY InitListInv DEF Init
<1>4. IsMapOf(IndexMap, Entries(heap))
  BY <1>3, IndexIs DEF ListInv, Whole
<1>5. Entries(heap) = {}
  <2>1. DOMAIN heap = {1} /\ heap[1] = node
    BY <1>1
  <2>2. Held(node) = {}
    BY <1>2 DEF Held, Zipped
  <2> QED
    BY <2>1, <2>2 DEF Entries, LeavesOf
<1>6. IsMapOf(<<>>, {})
  <2>1. DOMAIN <<>> = {} /\ <<>> = [k \in {} |-> <<>>[k]]
    OBVIOUS
  <2> QED
    BY <2>1 DEF IsMapOf
<1>7. IndexMap = <<>>
  BY <1>4, <1>5, <1>6, MapIsOne
<1> QED
  BY <1>1, <1>7 DEF Index!Init

\* A step of the tree is a step of the map or changes nothing of it.
LEMMA StepOfIndex ==
    ASSUME ListInv, ListInv', Next, failures = 0, ~FailsAboveLeaf,
           InLine(heap') => IsMapOf(IndexMap', Entries(heap'))
    PROVE  UNCHANGED Index!vars \/ Index!Next
<1> DEFINE f == IndexMap
           g == IndexMap'
           r == IF carry = Idle THEN ret ELSE 0
           s == IF carry' = Idle THEN ret' ELSE 0
<1>1. /\ InLine(heap) /\ Complete(heap, root, carry) /\ IsMapOf(f, Entries(heap))
      /\ Inv /\ Inv' /\ Listed(heap) /\ Shaped(heap) /\ Shaped(heap')
      /\ TreeInv(heap, root, carry)
  BY IndexIs DEF ListInv, Whole, Inv, TreeInv
<1>2. (failures' = 0 \/ heap' = heap) => IsMapOf(g, Entries(heap'))
  BY <1>1 DEF ListInv, Whole
<1>3. /\ UNCHANGED Index!vars <=> g = f /\ s = r
      /\ \A k \in Keys, v \in Values : Index!Insert(k, v) => Index!Next
      /\ \A k \in Keys : Index!RefuseDuplicate(k) => Index!Next
      /\ Index!OutOfMemory => Index!Next
      /\ \A k \in Keys, v \in Values :
           s = 0 /\ g = Updated(f, k, v) => Index!Insert(k, v)
      /\ \A k \in Keys : s = 1 /\ k \in DOMAIN f /\ g = f => Index!RefuseDuplicate(k)
      /\ s = -1 /\ g = f => Index!OutOfMemory
  BY DEF Index!vars, Index!Next, Index!Insert, Index!RefuseDuplicate, Index!OutOfMemory, Updated
<1> HIDE DEF f, g
<1>4. heap' = heap => g = f
  BY <1>1, <1>2, MapIsOne
<1>5. ASSUME NEW k \in Keys, NEW v \in Values,
             InsertIntoLeaf(k, v) \/ OverwriteValue(k, v) \/ SplitLeaf(k, v)
      PROVE  Index!Insert(k, v)
  <2>1. carry = Idle /\ failures' = 0
    BY <1>5 DEF InsertIntoLeaf, OverwriteValue, SplitLeaf
  <2>2. s = 0
    <3>1. CASE InsertIntoLeaf(k, v) \/ OverwriteValue(k, v)
      BY <3>1 DEF InsertIntoLeaf, OverwriteValue
    <3>2. CASE SplitLeaf(k, v)
      BY <1>1, <3>2, SplitLeafSplits
    <3> QED
      BY <1>5, <3>1, <3>2
  <2>3. StoresOne(heap, heap', k, v)
    BY <1>1, <1>5, LeafStepStores
  <2>4. Entries(heap') = Stored(Entries(heap), k, v)
    BY <1>1, <2>1, <2>3, StoredEntries
  <2>5. g = Updated(f, k, v)
    <3>1. IsMapOf(g, Stored(Entries(heap), k, v))
      BY <1>2, <2>1, <2>4
    <3> QED
      BY <1>1, <3>1, MapOfStored
  <2> HIDE DEF s
  <2> QED
    BY <1>3, <2>2, <2>5
<1>6. ASSUME NEW k \in Keys, RefuseDuplicate(k)
      PROVE  Index!RefuseDuplicate(k)
  <2>1. heap' = heap /\ s = 1 /\ Holds(FindLeaf(k), k)
    BY <1>6 DEF RefuseDuplicate
  <2> DEFINE n == FindLeaf(k)
  <2>2. n \in LeavesOf(heap) /\ n \in DOMAIN heap /\ Holds(n, k)
    BY <1>1, <2>1, FindLeafIs, KeysAssumption DEF LeavesOf
  <2> HIDE DEF n
  <2>3. KeySlot(n, k) \in DOMAIN heap[n].keys /\ heap[n].keys[KeySlot(n, k)] = k
    BY <1>1, <2>2, HoldsIs
  <2>4. PICK i \in DOMAIN heap[n].keys : heap[n].keys[i] = k
    BY <2>3
  <2> DEFINE e == <<heap[n].keys[i], heap[n].values[i]>>
  <2>5. e \in Held(heap[n]) /\ e[1] = k
    BY <2>4 DEF Held, Zipped
  <2> HIDE DEF e
  <2>6. k \in DOMAIN f
    BY <1>1, <2>2, <2>5 DEF Entries, IsMapOf
  <2> HIDE DEF s
  <2> QED
    BY <1>3, <1>4, <2>1, <2>6
<1>7. ASSUME NEW k \in Keys, LeafAllocFails(k)
      PROVE  Index!OutOfMemory
  <2>1. heap' = heap /\ s = -1
    BY <1>7 DEF LeafAllocFails, AllocFails
  <2> HIDE DEF s
  <2> QED
    BY <1>3, <1>4, <2>1
<1>8. CASE CreateNewRoot \/ InsertIntoInternal \/ SplitInternal
  <2>1. SameLeaves(heap, heap')
    BY <1>1, <1>8, ClimbKeepsList
  <2>2. failures' = 0 /\ carry # Idle
    BY <1>8 DEF CreateNewRoot, InsertIntoInternal, SplitInternal
  <2>3. g = f
    <3>1. Entries(heap') = Entries(heap)
      BY <1>1, <2>1, SameLeavesEntries
    <3> QED
      BY <1>1, <1>2, <2>2, <3>1, MapIsOne
  <2>4. s = r
    <3>1. carry' = Idle => ret' = 0
      <4>1. CASE CreateNewRoot \/ InsertIntoInternal
        BY <4>1 DEF CreateNewRoot, InsertIntoInternal
      <4>2. CASE SplitInternal
        <5>1. carry'.left = Parent /\ Parent # Null
          BY <4>2 DEF SplitInternal, CarryUp
        <5>2. Idle.left = Null
          BY DEF Idle
        <5> QED
          BY <5>1, <5>2
      <4> QED
        BY <1>8, <4>1, <4>2
    <3> QED
      BY <2>2, <3>1
  <2> HIDE DEF s, r
  <2> QED
    BY <1>3, <2>3, <2>4
<1>9. CASE ParentAllocFails
  <2>1. failures' = 1 /\ carry # Idle
    BY <1>9 DEF ParentAllocFails, AllocFails
  <2> QED
    BY <2>1 DEF FailsAboveLeaf
<1> QED
  BY <1>3, <1>5, <1>6, <1>7, <1>8, <1>9 DEF Next, Climb

\* The leaf list is the map that bptree.h promises: bptree_insert stores a value
\* under its key when the leaf changes and the rest of the split changes nothing
\* any more, bptree_insert_unique answers 1 for a key that is there and no other,
\* and a call that gets no memory for a leaf leaves everything as it was.  True
\* up to the first allocation that fails above a leaf.
THEOREM TreeImplementsIdIndex == Spec => ImplementsIdIndex
<1> DEFINE IsIndex == InLine(heap) => IsMapOf(IndexMap, Entries(heap))
           Step == failures = 0 /\ ~FailsAboveLeaf => UNCHANGED Index!vars \/ Index!Next
<1>1. ListInv => IsIndex
  BY IndexIs
<1>2. ListInv /\ ListInv' /\ IsIndex' /\ [Next]_vars => [Step]_vars
  <2> SUFFICES ASSUME ListInv, ListInv', IsIndex', Next, failures = 0, ~FailsAboveLeaf
               PROVE  UNCHANGED Index!vars \/ Index!Next
    OBVIOUS
  <2>1. InLine(heap') => IsMapOf(IndexMap', Entries(heap'))
    BY DEF InLine, LeavesOf, NextIn, IsMapOf, Entries, Held, Zipped
  <2> QED
    BY <2>1, StepOfIndex
<1> HIDE DEF IsIndex, Step
<1>3. Spec => [][Step]_vars
  BY <1>1, <1>2, LeafListInvariant, PTL DEF Spec
<1>4. Init => Index!Init
  BY InitIndex
<1>5. Spec => Index!Init
  BY <1>4, PTL DEF Spec
<1> QED
  BY <1>3, <1>5, PTL DEF ImplementsIdIndex, Step
=============================================================================
