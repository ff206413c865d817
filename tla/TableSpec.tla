------------------------------ MODULE TableSpec ------------------------------
(***************************************************************************)
(* What the storage layer promises one process about one table: every      *)
(* statement acts on a plain sequence of rows, as if there were neither    *)
(* index nor cache nor buffer, and a reply is computed from that sequence. *)
(* A statement may fail, and then has no effect.  A killed process loses   *)
(* at most the newest rows, those beyond `durable'.                        *)
(***************************************************************************)
EXTENDS TableRows

VARIABLES
    kind,       \* type of the id column: "INT", "VARCHAR", or "none" (no table)
    contents,   \* the rows, in file order
    durable,    \* how many of them a crash cannot take away
    reply       \* what the last statement told its caller

vars == <<kind, contents, durable, reply>>

Init ==
    /\ kind = "none"
    /\ contents = <<>>
    /\ durable = 0
    /\ reply = Error

\* Rows may reach the disk at any time.
Syncs == durable' \in durable .. Len(contents')

Create(k) ==
    /\ kind' = k
    /\ contents' = <<>>
    /\ durable' = 0
    /\ reply' = Done("CREATE")

\* A CREATE that fails takes the old schema with it.
CreateFails ==
    /\ kind' = "none"
    /\ reply' = Error
    /\ UNCHANGED contents
    /\ Syncs

\* A torn last record swallows the next one.
EndsTorn == contents # <<>> /\ Last(contents) = Torn

\* An INT id is an int that no row has; a generated one is above all others.
Insert(r, auto) ==
    /\ kind # "none"
    /\ kind = "INT" => /\ Readable(contents)
                       /\ IsIntKey(r.id)
                       /\ r.id \notin IdsOf(contents)
    /\ auto => kind = "INT" /\ \A i \in IdsOf(contents) : i < r.id
    /\ contents' \in {Append(contents, r)} \cup Joined(contents, EndsTorn, <<r>>)
    /\ reply' = Done("INSERT")
    /\ UNCHANGED kind
    /\ Syncs

Rewrite(rows) ==
    /\ kind # "none"
    /\ Readable(contents)
    /\ contents' = rows
    /\ durable' = Len(rows)
    /\ reply' = Done("REWRITE")
    /\ UNCHANGED kind

Delete(w) == Rewrite(Kept(w, contents))
Update(w, c) == Rewrite(Updated(w, c, contents))

Select(w) ==
    /\ kind # "none"
    /\ Readable(contents)
    /\ reply' = Answer(w, Selected(w, contents))
    /\ UNCHANGED <<kind, contents>>
    /\ Syncs

\* storage_bulk_begin and storage_bulk_end are invisible but for the reply.
Accept ==
    /\ reply' = Done("BULK")
    /\ UNCHANGED <<kind, contents>>
    /\ Syncs

Fail ==
    /\ reply' = Error
    /\ UNCHANGED <<kind, contents>>
    /\ Syncs

\* Buffered rows are written out, nobody is told.
Sync ==
    /\ UNCHANGED <<kind, contents, reply>>
    /\ Syncs

\* A write error: the failed row, and rows not yet durable, may be lost.
LoseTail(n, torn) ==
    /\ n \in durable .. Len(contents)
    /\ contents' = SubSeq(contents, 1, n) \o IF torn THEN <<Torn>> ELSE <<>>
    /\ reply' = Error
    /\ UNCHANGED kind
    /\ Syncs

\* Killed while it ran CREATE, the old rows may be found under a new schema.
CrashInCreate(k) ==
    /\ kind' = k
    /\ reply' = Error
    /\ UNCHANGED contents
    /\ Syncs

Next ==
    \/ \E k \in {"INT", "VARCHAR"} : Create(k) \/ CrashInCreate(k)
    \/ CreateFails
    \/ \E i \in Ids \cup 1 .. MaxInt, v \in Vals, auto \in BOOLEAN :
         Insert([id |-> i, val |-> v], auto)
    \/ \E w \in Where : Delete(w) \/ Select(w)
    \/ \E w \in Where, c \in SetClause : Update(w, c)
    \/ Accept
    \/ Fail
    \/ Sync
    \/ \E n \in 0 .. Len(contents), torn \in BOOLEAN : LoseTail(n, torn)

Spec == Init /\ [][Next]_vars
=============================================================================
