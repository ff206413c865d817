------------------------------- MODULE BPTree -------------------------------
(***************************************************************************)
(* The B+ tree of src/bptree.c as a heap of linked nodes.                  *)
(*                                                                         *)
(* A node is an entry of `heap' and a pointer is its position, so that     *)
(* bptree_create_node is an Append and NULL is 0.  The first key_count     *)
(* slots of the C arrays keys[], values[] and children[] are sequences.    *)
(*                                                                         *)
(* An insert that splits a leaf is a sequence of steps, one per level it   *)
(* climbs: bptree_insert_into_parent is entered with (left, key, right),   *)
(* held in `carry'.  Between two steps an allocation may fail, which is    *)
(* why the steps are apart: no other call runs in between.                 *)
(***************************************************************************)
EXTENDS Integers, Sequences, SequencesExt

CONSTANTS
    ORDER,          \* BPTREE_ORDER
    Keys,           \* the keys callers use, a set of integers
    Values,         \* the values callers store
    MaxFailures     \* how often calloc may return NULL (bounds the failures)

ASSUME OrderAssumption == ORDER \in Nat /\ ORDER >= 3
ASSUME KeysAssumption == Keys \subseteq Int
ASSUME FailuresAssumption == MaxFailures \in Nat

MaxKeys == ORDER - 1        \* BPTREE_MAX_KEYS
Null == 0
FirstLeaf == 1              \* tree->first_leaf: only bptree_create sets it

VARIABLES
    heap,       \* every node allocated so far
    root,       \* tree->root
    carry,      \* arguments of the pending bptree_insert_into_parent, or Idle
    ret,        \* what the last finished call returned
    failures    \* allocations refused so far

vars == <<heap, root, carry, ret, failures>>

Ptr == 0 .. Len(heap)

Idle == [left |-> Null, key |-> 0, right |-> Null]

(***************************************************************************)
(* Nodes.                                                                  *)
(***************************************************************************)
Leaf(keys, values, parent, next) ==
    [isLeaf |-> TRUE, keys |-> keys, values |-> values, children |-> <<>>,
     parent |-> parent, next |-> next]

Internal(keys, children, parent) ==
    [isLeaf |-> FALSE, keys |-> keys, values |-> <<>>, children |-> children,
     parent |-> parent, next |-> Null]

\* The position a scan of `keys' stops at: the first one that passes, or one
\* past the end.
FirstSlot(keys, Stop(_)) ==
    LET hits == {i \in DOMAIN keys : Stop(keys[i])}
    IN  IF hits = {} THEN Len(keys) + 1 ELSE Min(hits)

\* bptree_find_leaf: go down past every separator that is not above k.
\* (Mutant: a separator equal to k is not passed.)
ChildSlotOfEqual(n, k) == FirstSlot(heap[n].keys, LAMBDA s : k <= s)
ChildSlot(n, k) == FirstSlot(heap[n].keys, LAMBDA s : k < s)

FindLeaf(k) ==
    LET descend[n \in DOMAIN heap] ==
            IF heap[n].isLeaf THEN n
                              ELSE descend[heap[n].children[ChildSlot(n, k)]]
    IN  descend[root]

\* bptree_find_key_index: where k is, or where it belongs.
KeySlot(n, k) == FirstSlot(heap[n].keys, LAMBDA s : s >= k)

Holds(n, k) ==
    /\ KeySlot(n, k) <= Len(heap[n].keys)
    /\ heap[n].keys[KeySlot(n, k)] = k

\* There is a free slot in keys[].  (Mutant: one too many is allowed.)
HasRoomOffByOne(n) == Len(heap[n].keys) <= MaxKeys
HasRoom(n) == Len(heap[n].keys) < MaxKeys

\* bptree_search: the value found, as a set that is empty for NULL.
Search(k) ==
    LET n == FindLeaf(k)
    IN  {heap[n].values[i] : i \in {j \in DOMAIN heap[n].keys : heap[n].keys[j] = k}}

\* bptree_create_node returns NULL and the call returns -1 at once.
AllocFails ==
    /\ failures < MaxFailures
    /\ failures' = failures + 1
    /\ ret' = -1

Init ==
    /\ heap = << Leaf(<<>>, <<>>, Null, Null) >>
    /\ root = FirstLeaf
    /\ carry = Idle
    /\ ret = 0
    /\ failures = 0

(***************************************************************************)
(* The part of an insert that works on the leaf.                           *)
(***************************************************************************)
InsertIntoLeaf(k, v) ==
    LET leaf == FindLeaf(k)
        slot == KeySlot(leaf, k)
    IN  /\ carry = Idle
        /\ ~Holds(leaf, k)
        /\ HasRoom(leaf)
        /\ heap' = [heap EXCEPT ![leaf].keys = InsertAt(@, slot, k),
                                ![leaf].values = InsertAt(@, slot, v)]
        /\ ret' = 0
        /\ UNCHANGED <<root, carry, failures>>

\* bptree_insert on a key that is there.
OverwriteValue(k, v) ==
    LET leaf == FindLeaf(k)
    IN  /\ carry = Idle
        /\ Holds(leaf, k)
        /\ heap' = [heap EXCEPT ![leaf].values[KeySlot(leaf, k)] = v]
        /\ ret' = 0
        /\ UNCHANGED <<root, carry, failures>>

\* bptree_insert_unique on a key that is there.
RefuseDuplicate(k) ==
    /\ carry = Idle
    /\ Holds(FindLeaf(k), k)
    /\ ret' = 1
    /\ UNCHANGED <<heap, root, carry, failures>>

LeafSplitIndex == (MaxKeys + 1) \div 2

\* The new leaf, chained in behind the old one.  (Mutant: it ends the chain.)
UpperLeafUnchained(leaf, keys, values) ==
    Leaf(SubSeq(keys, LeafSplitIndex + 1, Len(keys)),
         SubSeq(values, LeafSplitIndex + 1, Len(values)),
         heap[leaf].parent, Null)
UpperLeaf(leaf, keys, values) ==
    Leaf(SubSeq(keys, LeafSplitIndex + 1, Len(keys)),
         SubSeq(values, LeafSplitIndex + 1, Len(values)),
         heap[leaf].parent, heap[leaf].next)

\* The key that goes up is the first of the new leaf.  (Mutant: the last of the
\* old one.)
LeafSeparatorTooLow(keys) == keys[LeafSplitIndex]
LeafSeparator(keys) == keys[LeafSplitIndex + 1]

\* bptree_split_leaf: the upper half moves to a new leaf that is chained in
\* before the parent knows of it.
SplitLeaf(k, v) ==
    LET leaf   == FindLeaf(k)
        slot   == KeySlot(leaf, k)
        keys   == InsertAt(heap[leaf].keys, slot, k)
        values == InsertAt(heap[leaf].values, slot, v)
        new    == Len(heap) + 1
    IN  /\ carry = Idle
        /\ ~Holds(leaf, k)
        /\ ~HasRoom(leaf)
        /\ heap' = Append([heap EXCEPT
                             ![leaf].keys = SubSeq(keys, 1, LeafSplitIndex),
                             ![leaf].values = SubSeq(values, 1, LeafSplitIndex),
                             ![leaf].next = new],
                          UpperLeaf(leaf, keys, values))
        /\ carry' = [left |-> leaf, key |-> LeafSeparator(keys), right |-> new]
        /\ UNCHANGED <<root, ret, failures>>

(***************************************************************************)
(* bptree_insert_into_parent, one step per level.                          *)
(***************************************************************************)
\* (Mutant: above an internal node no parent is looked for.)
ParentOfLeafOnly ==
    IF heap[carry.left].isLeaf THEN heap[carry.left].parent ELSE Null
Parent == heap[carry.left].parent

\* bptree_find_child_slot.  (Mutant: the new child always goes in first.)
LeftSlotAtFront == 1
LeftSlot == FirstSlot(heap[Parent].children, LAMBDA c : c = carry.left)

CreateNewRoot ==
    LET new == Len(heap) + 1
    IN  /\ carry # Idle
        /\ Parent = Null
        /\ heap' = Append([heap EXCEPT ![carry.left].parent = new,
                                       ![carry.right].parent = new],
                          Internal(<<carry.key>>, <<carry.left, carry.right>>, Null))
        /\ root' = new
        /\ carry' = Idle
        /\ ret' = 0
        /\ UNCHANGED failures

InsertIntoInternal ==
    /\ carry # Idle
    /\ Parent # Null
    /\ HasRoom(Parent)
    /\ heap' = [heap EXCEPT
                  ![Parent].keys = InsertAt(@, LeftSlot, carry.key),
                  ![Parent].children = InsertAt(@, LeftSlot + 1, carry.right),
                  ![carry.right].parent = Parent]
    /\ carry' = Idle
    /\ ret' = 0
    /\ UNCHANGED <<root, failures>>

PromoteIndex == (MaxKeys + 1) \div 2        \* total_keys / 2

\* Whose child a node is after the split.  (Mutant: nobody is told.)
OwnerUnchanged(n, lower, upper, new) == heap[n].parent
OwnerAfterSplit(n, lower, upper, new) ==
    CASE n \in Range(lower) -> Parent
      [] n \in Range(upper) -> new
      [] OTHER              -> heap[n].parent

\* What goes up one level.  (Mutant: the new node goes in beside the old child.)
CarryUpBesideChild(key, new) == [left |-> carry.left, key |-> key, right |-> new]
CarryUp(key, new) == [left |-> Parent, key |-> key, right |-> new]

\* bptree_split_internal: the middle key goes up, and every child is told
\* which half it is in.
SplitInternal ==
    LET keys     == InsertAt(heap[Parent].keys, LeftSlot, carry.key)
        children == InsertAt(heap[Parent].children, LeftSlot + 1, carry.right)
        new      == Len(heap) + 1
        lower    == SubSeq(children, 1, PromoteIndex + 1)
        upper    == SubSeq(children, PromoteIndex + 2, Len(children))
        right    == Internal(SubSeq(keys, PromoteIndex + 2, Len(keys)),
                             upper, heap[Parent].parent)
    IN  /\ carry # Idle
        /\ Parent # Null
        /\ ~HasRoom(Parent)
        /\ heap' = Append([n \in DOMAIN heap |->
                             IF n = Parent
                             THEN Internal(SubSeq(keys, 1, PromoteIndex), lower,
                                           heap[Parent].parent)
                             ELSE [heap[n] EXCEPT
                                     !.parent = OwnerAfterSplit(n, lower, upper, new)]],
                          right)
        /\ carry' = CarryUp(keys[PromoteIndex + 1], new)
        /\ UNCHANGED <<root, ret, failures>>

(***************************************************************************)
(* Out of memory.  Before the leaf split nothing has changed; later the    *)
(* levels below have, and stay as they are.                                *)
(***************************************************************************)
LeafAllocFails(k) ==
    LET leaf == FindLeaf(k)
    IN  /\ carry = Idle
        /\ ~Holds(leaf, k)
        /\ ~HasRoom(leaf)
        /\ AllocFails
        /\ UNCHANGED <<heap, root, carry>>

\* (Mutant: the new leaf is unlinked again, and its keys with it.)
ParentAllocFailsUndone ==
    /\ carry # Idle
    /\ Parent # Null => ~HasRoom(Parent)
    /\ AllocFails
    /\ carry' = Idle
    /\ heap' = [heap EXCEPT ![carry.left].next = heap[carry.right].next]
    /\ UNCHANGED root

ParentAllocFails ==
    /\ carry # Idle
    /\ Parent # Null => ~HasRoom(Parent)
    /\ AllocFails
    /\ carry' = Idle
    /\ UNCHANGED <<heap, root>>

\* (Mutant: a full parent is tried again and again.)
ClimbRetries ==
    \/ CreateNewRoot
    \/ InsertIntoInternal
    \/ carry # Idle /\ UNCHANGED vars

Climb == CreateNewRoot \/ InsertIntoInternal \/ SplitInternal \/ ParentAllocFails

Next ==
    \/ \E k \in Keys, v \in Values :
         InsertIntoLeaf(k, v) \/ OverwriteValue(k, v) \/ SplitLeaf(k, v)
    \/ \E k \in Keys : RefuseDuplicate(k) \/ LeafAllocFails(k)
    \/ Climb

Spec == Init /\ [][Next]_vars

\* A call that has started keeps running: the climb is a loop in C.
FairSpec == Spec /\ WF_vars(Climb)
=============================================================================
