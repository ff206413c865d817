-------------------------- MODULE TableStorageProps --------------------------
(***************************************************************************)
(* What makes the cache, the append buffer and the rewrites of             *)
(* TableStorage correct.                                                   *)
(***************************************************************************)
EXTENDS TableStorage

Buffered == IF stream.st = "open" THEN stream.buf ELSE <<>>

\* The table as the process means it: what is in the file, then what is still
\* in the append buffer.
Contents == FileRows \o Buffered

CacheType(c) ==
    /\ DOMAIN c = {"ready", "rows", "index", "nextId"}
    /\ c.ready \in BOOLEAN
    /\ c.rows \in Seq(Row)
    /\ c.index \in [DOMAIN c.index -> Nat \ {0}]
    /\ c.nextId \in Int

Statements == {"CREATE", "INSERT", "SELECT", "REWRITE", "BULK", "failed"}
ReplyType == [st : Statements, where : Where, rows : Seq(Row)]

TypeOK ==
    /\ kind \in {"none", "INT", "VARCHAR"}
    /\ table \in Seq(Record) \cup {NoFile}
    /\ cut \in BOOLEAN
    /\ temp \in Seq(Record) \cup {NoFile}
    /\ CacheType(cache)
    /\ stream \in [st : {"closed", "open", "orphan"}, buf : Seq(Row)]
    /\ bulk \in [open : BOOLEAN, kind : {"none", "INT", "VARCHAR"}, cache : BOOLEAN]
    /\ pc \in {"idle", "rewritten", "removed"}
    /\ reply \in ReplyType

(***************************************************************************)
(* The cache is the table: its rows are the file plus the buffer, in file  *)
(* order, whatever statements, failures and rebuilds came before.  Every   *)
(* SELECT of an INT-id table is answered from them.                        *)
(***************************************************************************)
CacheRowsAreContents ==
    cache.ready /\ pc # "removed" => cache.rows = Contents

(***************************************************************************)
(* The id index: one entry per row, and it leads to the row with that id.  *)
(* WHERE id = k (the indexed path) and any other WHERE (a scan) therefore  *)
(* see the same table.                                                     *)
(***************************************************************************)
Indexes(c) ==
    /\ DOMAIN c.index = IdsOf(c.rows)
    /\ \A p \in DOMAIN c.rows : /\ IsIntKey(c.rows[p].id)
                                /\ c.index[c.rows[p].id] = p

IndexFindsEveryRow == cache.ready => Indexes(cache)

(***************************************************************************)
(* next_id is above every id of the table and not above INT_MAX + 1: a     *)
(* generated id is never one in use, and at INT_MAX the table stops        *)
(* accepting generated ids instead of wrapping round (storage.c:2697).     *)
(***************************************************************************)
Fresh(c) ==
    /\ c.nextId \in 1 .. MaxInt + 1
    /\ \A i \in DOMAIN c.index : i < c.nextId

NextIdIsFresh == cache.ready => Fresh(cache)

(***************************************************************************)
(* The TableBulkContext keeps a pointer to the cache and a copy of the     *)
(* schema: while it is open the cache it points to has not been freed and  *)
(* the schema file still says the same (storage.c:54-60).                  *)
(***************************************************************************)
BulkContextIsLive ==
    bulk.open => /\ bulk.kind = kind
                 /\ bulk.cache = cache.ready

(***************************************************************************)
(* Between statements append_fp never writes to a file that has been       *)
(* replaced: rows buffered there would be acknowledged and lost.  Without  *)
(* rename failures only.                                                   *)
(***************************************************************************)
NoOrphanedAppend ==
    pc = "idle" => stream.st # "orphan"

\* A rewrite works on the whole table: nothing is left in the append buffer
\* when the file is read, or it would be appended to the replaced file.
RewriteSeesAllRows ==
    pc # "idle" => stream.buf = <<>>

(***************************************************************************)
(* The strengthening of the invariants above that every step preserves,    *)
(* whatever the faults: a cache that is not ready is as if reset, it is    *)
(* only ready for an INT id, append_fp belongs to a ready cache and to a   *)
(* file that exists, and a bulk context has a cache exactly for an INT id. *)
(***************************************************************************)
CacheGood(c) ==
    /\ CacheType(c)
    /\ c.ready => Indexes(c) /\ Fresh(c)
    /\ ~c.ready => c = NoCache

StreamGood(s, c) ==
    /\ s \in [st : {"closed", "open", "orphan"}, buf : Seq(Row)]
    /\ s.st = "closed" => s.buf = <<>>
    /\ s.st # "closed" => c.ready
    /\ s.st = "open" => table # NoFile

\* A line without newline is a line.
CutGood == cut => table # NoFile /\ table # <<>>

CacheInv ==
    /\ TypeOK
    /\ CutGood
    /\ CacheGood(cache)
    /\ cache.ready => kind = "INT"
    /\ StreamGood(stream, cache)
    /\ BulkContextIsLive
    /\ bulk.open => bulk.kind # "none" /\ (bulk.cache <=> bulk.kind = "INT")

\* A cut line does not parse, so no cache is built from it.
CutIsTorn == cut => table # <<>> /\ Last(table) = Torn

\* Where no rename fails and no cut line parses, moreover: only a file being
\* replaced is an orphan.
CoherenceInv ==
    /\ CacheInv
    /\ CutIsTorn
    /\ CacheRowsAreContents
    /\ stream.st = "orphan" => pc = "removed"

(***************************************************************************)
(* The comment of append_csv_row (storage.c:990): it stores one row at the *)
(* end of the file.  (Behind a line that an earlier failure left without   *)
(* its newline it does not, and reports success.)                          *)
(***************************************************************************)
AppendAddsARow ==
    [][\A id \in Ids, v \in Vals :
         InsertUncached(id, v) => table' = Append(FileRows, [id |-> id, val |-> v])]_vars

(***************************************************************************)
(* Whatever fails or is killed, only a CREATE and the replacement of the   *)
(* file touch a line that is complete: the damage of a cut append is       *)
(* confined to the last line of the file.                                  *)
(***************************************************************************)
CompleteLines == IF cut THEN Front(FileRows) ELSE FileRows

WholeLinesStay ==
    [][\/ IsPrefix(CompleteLines, FileRows')
       \/ pc = "rewritten" /\ table' = NoFile
       \/ pc = "removed" /\ table' = temp
       \/ \E k \in {"INT", "VARCHAR"} : Create(k)]_vars

(***************************************************************************)
(* The mapping to TableSpec.  From RemoveTable on the new contents are     *)
(* what the temp file holds, and the DELETE or UPDATE can only succeed.    *)
(***************************************************************************)
SpecContents == IF pc = "removed" THEN temp ELSE Contents
SpecDurable == IF pc = "removed" THEN Len(temp) ELSE Len(FileRows)
SpecReply == IF pc = "removed" THEN Done("REWRITE") ELSE reply

Abstract == INSTANCE TableSpec
              WITH contents <- SpecContents, durable <- SpecDurable, reply <- SpecReply

(***************************************************************************)
(* Every statement does to the plain sequence of rows what TableSpec says, *)
(* and a killed process loses no row that had reached the file.            *)
(***************************************************************************)
ImplementsTableSpec == Abstract!Spec
=============================================================================
