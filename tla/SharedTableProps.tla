-------------------------- MODULE SharedTableProps --------------------------
(***************************************************************************)
(* What requests that overlap can and cannot do to each other's rows.      *)
(***************************************************************************)
EXTENDS SharedTable

Inserters == Inserts \cup Range(Stored)

TypeOK ==
    /\ path \in [{"table", "temp"} -> DOMAIN data \cup {NoFile}]
    /\ path["table"] = path["temp"] => path["table"] = NoFile
    /\ pc \in [Requests -> Steps]
    /\ \A i \in DOMAIN data : \A n \in DOMAIN data[i] :
        data[i][n].id \in Nat \ {0} /\ data[i][n].by \in Inserters
    /\ outcome \in [Requests -> {"none", "done", "failed", "killed"}]

Current == IF path["table"] = NoFile THEN <<>> ELSE data[path["table"]]

Copies(q, in) == Cardinality({n \in DOMAIN in : in[n].by = q})

Begun(r) == pc[r] # "idle"
Running(r) == Begun(r) /\ outcome[r] = "none"

\* Neither was answered before the other began.
Overlap(p, q) ==
    /\ p # q /\ {p, q} \subseteq Requests
    /\ Begun(p) /\ Begun(q)
    /\ p \notin before[q] /\ q \notin before[p]

Answered(q) == q \in Requests => outcome[q] = "done"
AnsweredBefore(q, r) == Answered(q) /\ (q \in Requests => q \in before[r])

\* Nothing that storage.c leaves to chance concerns the row of q: no rewrite
\* overlaps its INSERT or another rewrite, and none was killed between its
\* remove(table_path) and its rename.
Undisturbed(q) ==
    /\ \A d \in Deletes : ~Overlap(q, d) /\ ~(outcome[d] = "killed" /\ pc[d] = "rename")
    /\ \A d, e \in Deletes : ~Overlap(d, e)

Unmatched(q) == \A d \in Deletes : Begun(d) => q \notin Matching[d]

(***************************************************************************)
(* Once no rewrite is running: an answered row that no DELETE matches is   *)
(* there, once, and one that was refused is not, unless a rewrite          *)
(* overlapped its INSERT or another rewrite, or died in the gap.  Requests *)
(* that only INSERT and SELECT therefore never lose or repeat a row,       *)
(* whatever they overlap and whichever of them time out: O_APPEND.         *)
(***************************************************************************)
LostOnlyByOverlap ==
    (\A d \in Deletes : ~Running(d)) =>
        \A q \in Inserters : Undisturbed(q) =>
            /\ Answered(q) /\ Unmatched(q) => Copies(q, Current) = 1
            /\ Copies(q, Current) <= 1
            /\ q \in Requests /\ outcome[q] = "failed" => Copies(q, Current) = 0

(***************************************************************************)
(* A row inserted before an answered DELETE that matches it stays deleted, *)
(* unless another rewrite overlapped that DELETE.                          *)
(***************************************************************************)
DeletedStaysDeleted ==
    \A d \in Deletes : \A q \in Matching[d] :
        /\ outcome[d] = "done" /\ AnsweredBefore(q, d)
        /\ \A e \in Deletes : ~Overlap(d, e)
        => Copies(q, Current) = 0

(***************************************************************************)
(* A SELECT that overlaps no rewrite returns every row answered before it  *)
(* began, once, under the same condition; a table whose ids repeat is      *)
(* still read, by the scan.                                                *)
(***************************************************************************)
SelectSeesAnswered ==
    \A s \in Selects :
        outcome[s] = "done" /\ (\A d \in Deletes : ~Overlap(s, d)) =>
            \A q \in Inserters :
                AnsweredBefore(q, s) /\ Unmatched(q) /\ Undisturbed(q) => Copies(q, rows[s]) = 1

(***************************************************************************)
(* Two rows of the table have the same generated id only if their INSERTs  *)
(* overlapped, or a rewrite disturbed one of them.                         *)
(***************************************************************************)
SameIdOnlyByOverlap ==
    \A m, n \in DOMAIN Current :
        m # n /\ Current[m].id = Current[n].id =>
            LET p == Current[m].by  q == Current[n].by
            IN  Overlap(p, q) \/ ~Undisturbed(p) \/ ~Undisturbed(q)

(***************************************************************************)
(* docs/QA_REPORT_AUTO.md:103 reports that requests sent at the same time  *)
(* are all processed normally.                                             *)
(***************************************************************************)
SimultaneousRequestsSucceed == \A r \in Requests : outcome[r] # "failed"
=============================================================================
