---------------------------- MODULE TableStorage ----------------------------
(***************************************************************************)
(* The statements of src/storage.c on one table, in one process at a time. *)
(*                                                                         *)
(* On disk: the schema file (`kind'), the table file and the temp file of  *)
(* a rewrite.  In the process: the TableIndexCache with its rows, id index *)
(* and next_id, the append_fp of the cache with the rows still in its      *)
(* stdio buffer, and the TableBulkContext.  DELETE and UPDATE take three   *)
(* steps, since the process can be killed between them; every other        *)
(* statement is one.                                                       *)
(***************************************************************************)
EXTENDS TableRows

CONSTANTS
    MaxRows,    \* bound: no INSERT into a table with this many rows
    NoFile,     \* "the file does not exist"
    Faults      \* which of AllFaults the environment commits

AllFaults == {"open",       \* fopen for writing, or mkdir, fails
              "write",      \* writing a row fails
              "cut",        \* ... or a kill cuts one where it still parses
              "flush",      \* fflush and fclose lose rows, unnoticed
              "remove",     \* remove(table_path) fails
              "rename",     \* rename(temp_path, table_path) fails
              "kill",       \* the process is killed
              "kill_gap"}   \* ... between that remove and that rename

ASSUME FaultsAssumption == Faults \subseteq AllFaults
ASSUME MaxRowsAssumption == MaxRows \in Nat
ASSUME NoFileAssumption == NoFile \notin Seq(Record)

VARIABLES
    kind,       \* type of the id column in the schema file, "none" if no schema loads
    table,      \* records of the table file, or NoFile
    cut,        \* the last line of the table file has no newline
    temp,       \* records of the temp file, or NoFile
    cache,      \* the table's TableIndexCache
    stream,     \* its append_fp and the rows fwrite has buffered in it
    bulk,       \* the TableBulkContext
    pc,         \* how far a DELETE or UPDATE has come
    reply       \* outcome of the last statement

disk == <<kind, table, cut, temp>>
memory == <<cache, stream, bulk, pc>>
vars == <<kind, table, cut, temp, cache, stream, bulk, pc, reply>>

NoCache == [ready |-> FALSE, rows |-> <<>>, index |-> <<>>, nextId |-> 1]
Closed == [st |-> "closed", buf |-> <<>>]
NoBulk == [open |-> FALSE, kind |-> "none", cache |-> FALSE]

\* The file can be opened and read to its end.
Loads(file) == file # NoFile /\ Readable(file)

FileRows == IF table = NoFile THEN <<>> ELSE table

Init ==
    /\ kind = "none"
    /\ table = NoFile
    /\ cut = FALSE
    /\ temp = NoFile
    /\ cache = NoCache
    /\ stream = Closed
    /\ bulk = NoBulk
    /\ pc = "idle"
    /\ reply = Error

(***************************************************************************)
(* The append stream.  Rows written to an orphan go to an unlinked file.   *)
(***************************************************************************)
\* How many buffered rows a flush writes.  (Mutant: the flush is forgotten.)
FlushForgotten == {0}
FlushCounts == IF "flush" \in Faults THEN 0 .. Len(stream.buf) ELSE {Len(stream.buf)}

\* The flushed rows start on the last line if that has none; the cache was built
\* from a file that parsed, so that line then has two cells too many.
\* (Mutant: fopen with "w" in place of "a".)
AppendedFromStart(new) == IF new = <<>> THEN FileRows ELSE new
Appended(new) ==
    IF cut /\ new # <<>> THEN Front(FileRows) \o <<Torn>> \o Tail(new) ELSE FileRows \o new

FileAfterFlush(n) ==
    IF stream.st = "open" THEN Appended(SubSeq(stream.buf, 1, n)) ELSE table

CutAfterFlush(n) == cut /\ (stream.st = "open" => n = 0)

Flush(n) ==
    /\ table' = FileAfterFlush(n)
    /\ cut' = CutAfterFlush(n)

\* What may reach the file of a row when writing it is cut short.
Pieces(r) == {Torn} \cup IF "cut" \in Faults THEN Shortened(r) ELSE {}

\* Of `rows' the first n reached the file, and perhaps a part of the next.
FlushCutShort(rows, n) ==
    \/ /\ table' \in Joined(FileRows, cut, SubSeq(rows, 1, n))
       /\ cut' = (cut /\ n = 0)
    \/ /\ n < Len(rows)
       /\ \E piece \in Pieces(rows[n + 1]) :
            table' \in Joined(FileRows, cut, Append(SubSeq(rows, 1, n), piece))
       /\ cut' = TRUE

StreamAfterFlush(n) ==
    [stream EXCEPT !.buf = IF stream.st = "open"
                           THEN SubSeq(@, n + 1, Len(@)) ELSE <<>>]

\* invalidate_table_index_cache.  (Mutant: it does not find the cache.)
DropCacheMissed == UNCHANGED <<cache, stream>>
DropCache ==
    /\ cache' = NoCache
    /\ stream' = Closed

\* invalidate_table_bulk_context.  (Mutant: it does not find the context.)
DropBulkMissed == UNCHANGED bulk
DropBulk == bulk' = NoBulk

(***************************************************************************)
(* build_table_index_cache: the rows, the position of each id, next_id.    *)
(***************************************************************************)
\* (Mutant: bptree_insert in place of bptree_insert_unique.)
IndexableTwice(records) ==
    /\ Readable(records)
    /\ \A p \in DOMAIN records : IsIntKey(records[p].id)

Indexable(records) ==
    /\ Readable(records)
    /\ \A p \in DOMAIN records : IsIntKey(records[p].id)
    /\ \A p, q \in DOMAIN records : records[p].id = records[q].id => p = q

NextIdAfter(rows) == Max({1} \cup {i + 1 : i \in IdsOf(rows)})

CacheOf(rows) ==
    [ready |-> TRUE,
     rows |-> rows,
     index |-> [i \in IdsOf(rows) |-> CHOOSE p \in DOMAIN rows : rows[p].id = i],
     nextId |-> NextIdAfter(rows)]

\* ensure_table_index_cache, for the INT schema; NoCache if it fails.
CacheKept == cache.ready /\ table # NoFile

EnsuredCache ==
    IF CacheKept THEN cache
    ELSE IF kind = "INT" /\ Indexable(FileRows) THEN CacheOf(FileRows)
    ELSE NoCache

EnsuredStream == IF CacheKept THEN stream ELSE Closed

\* cache_insert_row.  (Mutants: the index points one row too early; next_id
\* moves only when it is passed.)
CacheInsertOneEarly(c, r) ==
    [c EXCEPT !.rows = Append(@, r),
              !.index = [i \in DOMAIN @ \cup {r.id} |->
                           IF i = r.id THEN Len(c.rows) ELSE @[i]],
              !.nextId = IF r.id >= @ THEN r.id + 1 ELSE @]

CacheInsertKeepsNext(c, r) ==
    [c EXCEPT !.rows = Append(@, r),
              !.index = [i \in DOMAIN @ \cup {r.id} |->
                           IF i = r.id THEN Len(c.rows) + 1 ELSE @[i]],
              !.nextId = IF r.id > @ THEN r.id + 1 ELSE @]

CacheInsert(c, r) ==
    [c EXCEPT !.rows = Append(@, r),
              !.index = [i \in DOMAIN @ \cup {r.id} |->
                           IF i = r.id THEN Len(c.rows) + 1 ELSE @[i]],
              !.nextId = IF r.id >= @ THEN r.id + 1 ELSE @]

Lookup(c, i) == IF i \in DOMAIN c.index THEN << c.rows[c.index[i]] >> ELSE <<>>

(***************************************************************************)
(* storage_insert.  A bulk context answers for schema and cache.           *)
(***************************************************************************)
InsertKind == IF bulk.open THEN bulk.kind ELSE kind
InsertCache == IF bulk.open THEN cache ELSE EnsuredCache
InsertStream == IF bulk.open THEN stream ELSE EnsuredStream

RoomLeft ==
    /\ Len(FileRows) + Len(InsertStream.buf) < MaxRows
    /\ Len(InsertCache.rows) < MaxRows

\* build_insert_row: the id cell, explicit or generated.
IdCell(id, auto) == IF auto THEN InsertCache.nextId ELSE id

Insertable(id, auto) ==
    /\ InsertCache.ready
    /\ IsIntKey(IdCell(id, auto))
    /\ IdCell(id, auto) \notin DOMAIN InsertCache.index

NewRow(id, auto, v) == [id |-> IdCell(id, auto), val |-> v]

InsertRejected(id, auto) ==
    /\ pc = "idle"
    /\ CASE InsertKind = "INT"     -> ~Insertable(id, auto)
         [] InsertKind = "VARCHAR" -> auto
         [] OTHER                  -> TRUE
    /\ cache' = InsertCache
    /\ stream' = InsertStream
    /\ reply' = Error
    /\ UNCHANGED <<disk, bulk, pc>>

InsertCached(id, auto, v) ==
    LET row == NewRow(id, auto, v)
    IN  /\ pc = "idle"
        /\ InsertKind = "INT"
        /\ RoomLeft
        /\ Insertable(id, auto)
        /\ cache' = CacheInsert(InsertCache, row)
        /\ stream' = [st |-> IF InsertStream.st = "closed" THEN "open" ELSE InsertStream.st,
                      buf |-> Append(InsertStream.buf, row)]
        /\ table' = IF InsertStream.st = "closed" THEN FileRows ELSE table
        /\ reply' = Done("INSERT")
        /\ UNCHANGED <<kind, cut, temp, bulk, pc>>

\* No INT id column: append_csv_row opens, writes and closes the file.
InsertUncached(id, v) ==
    /\ pc = "idle"
    /\ InsertKind = "VARCHAR"
    /\ RoomLeft
    /\ table' \in Joined(FileRows, cut, << [id |-> id, val |-> v] >>)
    /\ cut' = FALSE
    /\ reply' = Done("INSERT")
    /\ UNCHANGED <<kind, temp, memory>>

\* The row is in the cache when the append fails: cache and bulk are dropped.
\* (Mutant: the cache stays.)
CacheStays == DropBulk /\ UNCHANGED <<cache, stream>>
DropBoth == DropBulk /\ DropCache

InsertAppendFails(id, auto, v) ==
    /\ pc = "idle"
    /\ InsertKind = "INT"
    /\ RoomLeft
    /\ Insertable(id, auto)
    /\ \/ /\ "open" \in Faults
          /\ InsertStream.st = "closed"
          /\ UNCHANGED <<table, cut>>
       \/ /\ "write" \in Faults
          /\ InsertStream.st = "orphan"
          /\ UNCHANGED <<table, cut>>
       \/ /\ "write" \in Faults
          /\ InsertStream.st # "orphan"
          /\ LET rows == Append(InsertStream.buf, NewRow(id, auto, v))
             IN  \E n \in 0 .. Len(InsertStream.buf) : FlushCutShort(rows, n)
    /\ DropBoth
    /\ reply' = Error
    /\ UNCHANGED <<kind, temp, pc>>

UncachedAppendFails(id, v) ==
    /\ pc = "idle"
    /\ InsertKind = "VARCHAR"
    /\ RoomLeft
    /\ \/ "open" \in Faults /\ UNCHANGED <<table, cut>>
       \/ "write" \in Faults /\ FlushCutShort(<< [id |-> id, val |-> v] >>, 0)
    /\ reply' = Error
    /\ UNCHANGED <<kind, temp, memory>>

(***************************************************************************)
(* storage_select_result.                                                  *)
(***************************************************************************)
\* parse_exact_id_lookup
IsIdLookup(w) == w.col = "id" /\ IsIntKey(w.to)

CacheAnswers == table # NoFile /\ EnsuredCache.ready

SelectCached(w) ==
    /\ pc = "idle"
    /\ kind # "none"
    /\ w # Unknown
    /\ CacheAnswers
    /\ reply' = Answer(w, IF IsIdLookup(w) THEN Lookup(EnsuredCache, w.to)
                                           ELSE Selected(w, EnsuredCache.rows))
    /\ cache' = EnsuredCache
    /\ stream' = EnsuredStream
    /\ UNCHANGED <<disk, bulk, pc>>

SelectFromFile(w) ==
    /\ pc = "idle"
    /\ kind # "none"
    /\ w # Unknown
    /\ ~CacheAnswers
    /\ reply' = IF Loads(table) THEN Answer(w, Selected(w, table)) ELSE Error
    /\ stream' = StreamAfterFlush(Len(stream.buf))
    /\ UNCHANGED <<disk, cache, bulk, pc>>

SelectRejected(w) ==
    /\ pc = "idle"
    /\ kind = "none" \/ w = Unknown
    /\ reply' = Error
    /\ UNCHANGED <<disk, memory>>

(***************************************************************************)
(* storage_delete and storage_update: flush, copy to the temp file, remove *)
(* the table file, rename.  Removing is the SET clause of a DELETE.        *)
(***************************************************************************)
Removing == All
Rewritten(w, c, rows) == IF c = Removing THEN Kept(w, rows) ELSE Updated(w, c, rows)

\* remove(temp_path), then the copy.  (Mutant: a temp file left by a killed
\* process is appended to.)
TempAppended(w, c, file) ==
    (IF temp = NoFile THEN <<>> ELSE temp) \o Rewritten(w, c, file)
NewTemp(w, c, file) == Rewritten(w, c, file)

BeginRewrite(w, c) ==
    \E n \in FlushCounts :
      LET file == FileAfterFlush(n)
      IN  /\ pc = "idle"
          /\ kind # "none"
          /\ w # Unknown
          /\ Loads(file)
          /\ Flush(n)
          /\ stream' = StreamAfterFlush(n)
          /\ temp' = NewTemp(w, c, file)
          /\ pc' = "rewritten"
          /\ reply' = Error          \* status is -1 until the rename
          /\ UNCHANGED <<kind, cache, bulk>>

\* The temp file of an earlier attempt goes first, whatever happens next.
RewriteFails(w) ==
    \E n \in FlushCounts :
      LET file    == FileAfterFlush(n)
          invalid == kind = "none" \/ w = Unknown
      IN  /\ pc = "idle"
          /\ \/ invalid
             \/ ~Loads(file)
             \/ {"open", "write"} \cap Faults # {}
          /\ Flush(n)
          /\ stream' = StreamAfterFlush(n)
          /\ temp' = IF invalid THEN temp ELSE NoFile
          /\ reply' = Error
          /\ UNCHANGED <<kind, cache, bulk, pc>>

RemoveTable ==
    /\ pc = "rewritten"
    /\ table' = NoFile
    /\ cut' = FALSE
    /\ stream' = [stream EXCEPT !.st = IF @ = "open" THEN "orphan" ELSE @]
    /\ pc' = "removed"
    /\ UNCHANGED <<kind, temp, cache, bulk, reply>>

RenameTemp ==
    /\ pc = "removed"
    /\ table' = temp
    /\ temp' = NoFile
    /\ cut' = FALSE
    /\ DropBulk
    /\ DropCache
    /\ pc' = "idle"
    /\ reply' = Done("REWRITE")
    /\ UNCHANGED kind

\* replace_table_file fails: the temp file is removed, the cache stays.
ReplaceFails ==
    /\ \/ (pc = "rewritten" /\ "remove" \in Faults)
       \/ (pc = "removed" /\ "rename" \in Faults)
    /\ temp' = NoFile
    /\ pc' = "idle"
    /\ reply' = Error
    /\ UNCHANGED <<kind, table, cut, cache, stream, bulk>>

(***************************************************************************)
(* storage_create.                                                         *)
(***************************************************************************)
Create(k) ==
    /\ pc = "idle"
    /\ kind' = k
    /\ table' = <<>>
    /\ cut' = FALSE
    /\ DropBulk
    /\ DropCache
    /\ reply' = Done("CREATE")
    /\ UNCHANGED <<temp, pc>>

\* A column definition without a type, say: the schema file is removed.
CreateFails ==
    /\ pc = "idle"
    /\ kind' \in {"none"} \cup IF "open" \in Faults THEN {kind} ELSE {}
    /\ \E n \in FlushCounts : Flush(n)
    /\ DropBulk
    /\ DropCache
    /\ reply' = Error
    /\ UNCHANGED <<temp, pc>>

(***************************************************************************)
(* storage_bulk_begin, storage_bulk_end.                                   *)
(***************************************************************************)
BulkBegin ==
    LET ok == kind = "VARCHAR" \/ EnsuredCache.ready
    IN  /\ pc = "idle"
        /\ cache' = EnsuredCache
        /\ stream' = EnsuredStream
        /\ bulk' = IF ok THEN [open |-> TRUE, kind |-> kind, cache |-> kind = "INT"]
                         ELSE NoBulk
        /\ reply' = IF ok THEN Done("BULK") ELSE Error
        /\ UNCHANGED <<disk, pc>>

BulkEnd ==
    /\ pc = "idle"
    /\ \E n \in FlushCounts :
         /\ Flush(n)
         /\ stream' = StreamAfterFlush(n)
    /\ DropBulk
    /\ reply' = Done("BULK")
    /\ UNCHANGED <<kind, temp, cache, pc>>

(***************************************************************************)
(* The process ends and another one starts.                                *)
(***************************************************************************)
ForgetAll ==
    /\ cache' = NoCache
    /\ stream' = Closed
    /\ bulk' = NoBulk
    /\ pc' = "idle"

\* exit() flushes what stdio holds.
Exit ==
    /\ pc = "idle"
    /\ \E n \in FlushCounts : Flush(n)
    /\ ForgetAll
    /\ UNCHANGED <<kind, temp, reply>>

\* Killed: of the buffered rows any number, the last one cut, is in the file.
Kill ==
    /\ IF pc = "removed" THEN "kill_gap" \in Faults ELSE "kill" \in Faults
    /\ IF stream.st = "open"
       THEN \E n \in 0 .. Len(stream.buf) : FlushCutShort(stream.buf, n)
       ELSE UNCHANGED <<table, cut>>
    /\ ForgetAll
    /\ reply' = Error
    /\ UNCHANGED <<kind, temp>>

\* Killed in storage_create, before it truncates the table file.
KillInCreate(k) ==
    /\ pc = "idle"
    /\ "kill" \in Faults
    /\ kind' \in {k, "none"}
    /\ Flush(Len(stream.buf))
    /\ ForgetAll
    /\ reply' = Error
    /\ UNCHANGED temp

Insert ==
    \/ \E id \in Ids, auto \in BOOLEAN :
         \/ InsertRejected(id, auto)
         \/ \E v \in Vals : InsertCached(id, auto, v) \/ InsertAppendFails(id, auto, v)
    \/ \E id \in Ids, v \in Vals : InsertUncached(id, v) \/ UncachedAppendFails(id, v)

Next ==
    \/ Insert
    \/ \E w \in Where : SelectCached(w) \/ SelectFromFile(w) \/ SelectRejected(w)
    \/ \E w \in Where, c \in SetClause \cup {Removing} : BeginRewrite(w, c)
    \/ \E w \in Where : RewriteFails(w)
    \/ RemoveTable
    \/ RenameTemp
    \/ ReplaceFails
    \/ \E k \in {"INT", "VARCHAR"} : Create(k) \/ KillInCreate(k)
    \/ CreateFails
    \/ BulkBegin
    \/ BulkEnd
    \/ Exit
    \/ Kill

Spec == Init /\ [][Next]_vars
=============================================================================
