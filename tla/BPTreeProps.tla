----------------------------- MODULE BPTreeProps -----------------------------
(***************************************************************************)
(* What makes the tree of BPTree correct.  Most of it is what              *)
(* test/test_structure.c:99-200 asserts of a few hand-made trees.         *)
(***************************************************************************)
EXTENDS BPTree

\* The leaf list, from first_leaf along the next pointers.
Chain ==
    LET from[n \in Ptr] == IF n = Null THEN <<>> ELSE <<n>> \o from[heap[n].next]
    IN  from[FirstLeaf]

HeldBy(n) == Range(heap[n].keys)
KeysHeld == UNION {HeldBy(n) : n \in Range(Chain)}

\* A node and all nodes under it, and the keys of the leaves among them.
NodesBelow ==
    LET below[n \in DOMAIN heap] ==
            {n} \cup UNION {below[c] : c \in Range(heap[n].children)}
    IN  below

KeysBelow(n) == UNION {HeldBy(m) : m \in {x \in NodesBelow[n] : heap[x].isLeaf}}

\* Every node reached from the root: what bptree_destroy frees.
Reachable == NodesBelow[root]

LeavesReached == {n \in Reachable : heap[n].isLeaf}

Depth ==
    LET depth[n \in Reachable] == IF n = root THEN 0 ELSE 1 + depth[heap[n].parent]
    IN  depth

\* The first key of the leftmost leaf (test/test_structure.c:79-97).
FirstKeyBelow ==
    LET first[n \in DOMAIN heap] ==
            IF heap[n].isLeaf THEN heap[n].keys[1] ELSE first[heap[n].children[1]]
    IN  first

Ascending(keys) == \A i, j \in DOMAIN keys : i < j => keys[i] < keys[j]

(***************************************************************************)
(* Types, and the capacity of the C arrays: no node ever holds more than   *)
(* BPTREE_MAX_KEYS keys, a leaf has one value per key, an internal node    *)
(* one child more than it has keys (src/bptree.h:16-21, the loops of       *)
(* bptree_insert_into_leaf and bptree_insert_into_internal write one past  *)
(* key_count).                                                             *)
(***************************************************************************)
NodeShape(n) ==
    /\ DOMAIN heap[n] = {"isLeaf", "keys", "values", "children", "parent", "next"}
    /\ heap[n].isLeaf \in BOOLEAN
    /\ heap[n].keys \in Seq(Keys)
    /\ heap[n].values \in Seq(Values)
    /\ heap[n].children \in Seq(DOMAIN heap)
    /\ heap[n].parent \in Ptr
    /\ heap[n].next \in Ptr
    /\ Len(heap[n].keys) <= MaxKeys
    /\ heap[n].isLeaf => Len(heap[n].values) = Len(heap[n].keys)
    /\ ~heap[n].isLeaf => Len(heap[n].children) = Len(heap[n].keys) + 1

TypeOK ==
    /\ Len(heap) >= 1
    /\ \A n \in DOMAIN heap : NodeShape(n)
    /\ root \in DOMAIN heap
    /\ carry = Idle \/ carry \in [left : DOMAIN heap, key : Keys, right : DOMAIN heap]
    /\ ret \in {-1, 0, 1}
    /\ failures \in 0 .. MaxFailures

(***************************************************************************)
(* Order: keys ascend in every node, and a separator is the first key of   *)
(* the subtree on its right, so bptree_find_leaf ends in the one leaf that *)
(* may hold the key (test/test_structure.c:99-106, 140-142).  It holds in  *)
(* the tree below the root even while a split climbs and after one failed. *)
(***************************************************************************)
Ordered ==
    \A n \in Reachable :
        /\ Ascending(heap[n].keys)
        /\ ~heap[n].isLeaf =>
             \A i \in DOMAIN heap[n].keys :
               /\ \A k \in KeysBelow(heap[n].children[i]) : k < heap[n].keys[i]
               /\ \A k \in KeysBelow(heap[n].children[i + 1]) : heap[n].keys[i] <= k

(***************************************************************************)
(* Parent pointers are the inverse of the child pointers, in the whole     *)
(* reachable tree and in the piece a climb carries: the next climb starts  *)
(* from them (bptree.c:239-251).  When a climb is under way the new right  *)
(* node already names the parent it is not a child of yet.                 *)
(***************************************************************************)
ParentLinks ==
    /\ heap[root].parent = Null
    /\ \A n \in Reachable : \A c \in Range(heap[n].children) : heap[c].parent = n
    /\ carry # Idle =>
         /\ heap[carry.right].parent = Parent
         /\ \A c \in Range(heap[carry.right].children) : heap[c].parent = carry.right
         /\ Parent # Null => carry.left \in Range(heap[Parent].children)
         /\ Parent = Null => carry.left = root

(***************************************************************************)
(* The tree below the root is well shaped: all leaves at one depth         *)
(* (test/test_structure.c:123-128), both halves of every split usable, so  *)
(* that no node but the root is ever below half full (bptree.c:159, 218),  *)
(* and each separator the first key behind it                              *)
(* (test/test_structure.c:140-142).  A climb under way, or one that an     *)
(* allocation has ended, leaves it so.                                     *)
(***************************************************************************)
Balanced == \A m, n \in LeavesReached : Depth[m] = Depth[n]

HalfFull ==
    \A n \in Reachable \ {root} :
        Len(heap[n].keys) >= IF heap[n].isLeaf THEN ORDER \div 2
                                               ELSE ORDER - (ORDER \div 2) - 1

SeparatorsAreFirstKeys ==
    \A n \in Reachable : ~heap[n].isLeaf =>
        \A i \in DOMAIN heap[n].keys :
          heap[n].keys[i] = FirstKeyBelow[heap[n].children[i + 1]]

WellShaped == Balanced /\ HalfFull /\ SeparatorsAreFirstKeys

(***************************************************************************)
(* As long as no allocation has failed, the leaf list has between two      *)
(* calls exactly the leaves of the tree, in the order of their keys        *)
(* (test/test_structure.c:155-195), and no allocated node has been lost    *)
(* (bptree_destroy frees what it reaches: src/bptree.c:284-299).           *)
(***************************************************************************)
ChainIsTree ==
    /\ Range(Chain) = LeavesReached
    /\ \A i, j \in DOMAIN Chain : i < j =>
         \A k \in HeldBy(Chain[i]), l \in HeldBy(Chain[j]) : k < l

NothingLeaked == Reachable = DOMAIN heap

NothingLost == carry = Idle /\ failures = 0 => ChainIsTree /\ NothingLeaked

(***************************************************************************)
(* bptree_search finds every entry of the leaf list, the last value stored *)
(* for its key; after a failed allocation it may miss entries, but never   *)
(* finds one that is not in the list.                                      *)
(***************************************************************************)
ChainEntries ==
    UNION {{<<heap[n].keys[i], heap[n].values[i]>> : i \in DOMAIN heap[n].keys} :
             n \in Range(Chain)}

SearchAgrees ==
    carry = Idle =>
        /\ \A k \in Keys : \A v \in Search(k) : <<k, v>> \in ChainEntries
        /\ failures = 0 => \A e \in ChainEntries : Search(e[1]) = {e[2]}

(***************************************************************************)
(* An entry never drops off the leaf list, not even in a call that runs    *)
(* out of memory half-way up: the leaf was relinked before the parent was  *)
(* touched (bptree.c:178-180).                                             *)
(***************************************************************************)
ChainKeepsKeys == [][KeysHeld \subseteq KeysHeld']_heap

\* A split that has started ends (the root is reached after finitely many
\* levels), so that the next call finds the tree whole.
ClimbEnds == carry # Idle ~> carry = Idle

(***************************************************************************)
(* The map the tree implements.  A key enters it when its leaf changes;    *)
(* the code has the return value a few levels later.                       *)
(***************************************************************************)
IndexMap ==
    LET leafOf(k) == CHOOSE n \in Range(Chain) : k \in HeldBy(n)
        valueIn(n, k) == heap[n].values[CHOOSE i \in DOMAIN heap[n].keys : heap[n].keys[i] = k]
    IN  [k \in KeysHeld |-> valueIn(leafOf(k), k)]

Index == INSTANCE IdIndex
           WITH index <- IndexMap, ret <- IF carry = Idle THEN ret ELSE 0

\* Until an allocation fails above a leaf; from then on the map is not the one
\* that was promised.
FailsAboveLeaf == failures' > failures /\ carry # Idle

ImplementsIdIndex ==
    /\ Index!Init
    /\ [][failures = 0 /\ ~FailsAboveLeaf => UNCHANGED Index!vars \/ Index!Next]_vars
=============================================================================
