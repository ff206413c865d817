------------------------------ MODULE MCBPTree ------------------------------
(***************************************************************************)
(* The instance of BPTree for TLC: every order of insertion until the tree *)
(* holds FreeKeys keys; from then on, each time, the smallest or the       *)
(* largest key not yet in it, so that ascending and descending growth mix. *)
(***************************************************************************)
EXTENDS BPTreeProps

CONSTANT FreeKeys

Absent == Keys \ KeysHeld

Candidates ==
    IF Cardinality(KeysHeld) < FreeKeys \/ Absent = {} THEN Absent
    ELSE {Min(Absent), Max(Absent)}

\* The smallest key is also overwritten and refused; the others have one value.
Again == Min(Keys)
ValuesFor(k) == IF k = Again THEN Values ELSE {CHOOSE v \in Values : TRUE}

MixedNext ==
    \/ \E k \in Candidates :
         \/ \E v \in ValuesFor(k) : InsertIntoLeaf(k, v) \/ SplitLeaf(k, v)
         \/ LeafAllocFails(k)
    \/ \E v \in Values : OverwriteValue(Again, v)
    \/ RefuseDuplicate(Again)
    \/ Climb

MixedSpec == Init /\ [][MixedNext]_vars /\ WF_vars(Climb)
=============================================================================
