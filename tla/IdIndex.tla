------------------------------ MODULE IdIndex ------------------------------
(***************************************************************************)
(* What src/bptree.h promises its callers: a partial map from int keys to  *)
(* values.  bptree_insert overwrites, bptree_insert_unique refuses a key   *)
(* that is there, and a call that cannot get memory returns -1 and leaves  *)
(* the map as it was.                                                      *)
(***************************************************************************)
EXTENDS Integers

CONSTANTS Keys, Values

VARIABLES
    index,      \* the map: a function whose domain is the set of keys held
    ret         \* return value of the last call: 0, 1 (duplicate) or -1

vars == <<index, ret>>

Init ==
    /\ index = <<>>
    /\ ret = 0

\* bptree_insert on any key, bptree_insert_unique on a new one.
Insert(k, v) ==
    /\ ret' = 0
    /\ index' = [x \in DOMAIN index \cup {k} |-> IF x = k THEN v ELSE index[x]]

RefuseDuplicate(k) ==
    /\ ret' = 1
    /\ k \in DOMAIN index
    /\ UNCHANGED index

OutOfMemory ==
    /\ ret' = -1
    /\ UNCHANGED index

Next ==
    \/ \E k \in Keys, v \in Values : Insert(k, v)
    \/ \E k \in Keys : RefuseDuplicate(k)
    \/ OutOfMemory

Spec == Init /\ [][Next]_vars
=============================================================================
