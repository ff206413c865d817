---------------------------- MODULE SharedTable ----------------------------
(***************************************************************************)
(* One table under the requests of server.py.                              *)
(*                                                                         *)
(* ThreadingHTTPServer answers every POST /query in a thread of its own,   *)
(* and run_sqlparser starts a process for it and kills it after 5 s.  The  *)
(* processes share nothing but the files, and src/storage.c takes no lock: *)
(* this module has one step per file operation of a request of one INSERT, *)
(* DELETE (an UPDATE takes the same steps) or SELECT on a table whose id   *)
(* is generated.                                                           *)
(*                                                                         *)
(* A row is its id and the request that inserted it.  Files are shorter    *)
(* than a stdio buffer, so that one read and one write move them whole,    *)
(* and rows are equally long.                                              *)
(***************************************************************************)
EXTENDS Positions, Functions, FiniteSetsExt

CONSTANTS
    Inserts, Deletes, Selects,  \* the requests
    Mixes,      \* the sets of requests that arrive together
    Slow,       \* requests that may take more than 5 s
    Stored,     \* the inserters of the rows the table starts with, in order
    Matching,   \* Matching[d]: those whose rows DELETE d matches
    NoFile      \* no inode: the path does not exist

Requests == Inserts \cup Deletes \cup Selects

\* One process runs one statement.
ASSUME RequestsAssumption ==
    Inserts \cap Deletes = {} /\ Inserts \cap Selects = {} /\ Deletes \cap Selects = {}

\* The stored rows were inserted by nobody who is still to come.
ASSUME StoredAssumption ==
    /\ Stored \in Seq(Range(Stored))
    /\ IsInjective(Stored)
    /\ Range(Stored) \cap Requests = {}

\* "first" is the inode of the file the table starts with.
ASSUME NoFileAssumption == "first" \notin Requests /\ NoFile \notin Requests \cup {"first"}

VARIABLES
    asked,      \* the requests that arrive
    path,       \* the inodes "table" and "temp" lead to
    data,       \* the rows in each inode; a request creates at most one
    pc,         \* what each request does next
    opened,     \* the inode it has opened for reading
    written,    \* ... and for writing
    rows,       \* the rows it holds
    outcome,    \* how it was answered
    before      \* history: the requests answered before it began

vars == <<asked, path, data, pc, opened, written, rows, outcome, before>>

Steps == {"idle", "clear", "source", "temp", "copy", "write", "remove", "rename", "undo",
          "look", "build", "open", "load", "scan", "read", "append", "flush", "exit"}

Row(id, r) == [id |-> id, by |-> r]

Init ==
    /\ asked \in Mixes
    /\ path = [table |-> "first", temp |-> NoFile]
    /\ data = [i \in Requests \cup {"first"} |->
                IF i = "first" THEN [n \in DOMAIN Stored |-> Row(n, Stored[n])] ELSE <<>>]
    /\ pc = [r \in Requests |-> "idle"]
    /\ opened = [r \in Requests |-> NoFile]
    /\ written = [r \in Requests |-> NoFile]
    /\ rows = [r \in Requests |-> <<>>]
    /\ outcome = [r \in Requests |-> "none"]
    /\ before = [r \in Requests |-> {}]

\* A request that was answered stays where its process ended.
At(r, step) == pc[r] = step /\ outcome[r] = "none"

Goto(r, step) == pc' = [pc EXCEPT ![r] = step]

\* The process ends and run_sqlparser returns.
Ends(r, how) == outcome' = [outcome EXCEPT ![r] = how] /\ UNCHANGED pc

Files == <<path, data>>
Handles == <<opened, written, rows>>

Begin(r) ==
    /\ r \in asked
    /\ At(r, "idle")
    /\ Goto(r, IF r \in Deletes THEN "clear" ELSE IF r \in Inserts THEN "build" ELSE "look")
    /\ before' = [before EXCEPT ![r] = {q \in Requests : outcome[q] # "none"}]
    /\ UNCHANGED <<Files, Handles, outcome>>

(***************************************************************************)
(* SELECT first asks whether the table exists; if not it scans the file.   *)
(***************************************************************************)
Look(r) ==
    /\ At(r, "look")
    /\ Goto(r, IF path["table"] = NoFile THEN "scan" ELSE "build")
    /\ UNCHANGED <<Files, Handles, outcome, before>>

\* build_table_index_cache: no file means an empty table.
Build(r) ==
    /\ At(r, "build")
    /\ Goto(r, IF path["table"] # NoFile THEN "open"
               ELSE IF r \in Inserts THEN "append" ELSE "exit")
    /\ UNCHANGED <<Files, Handles, outcome, before>>

OpensTable(r, next) ==
    /\ opened' = [opened EXCEPT ![r] = path["table"]]
    /\ Goto(r, next)
    /\ UNCHANGED outcome

\* The cache cannot be built: INSERT fails, SELECT scans the file.
NoIndex(r) ==
    IF r \in Inserts THEN Ends(r, "failed")
    ELSE Goto(r, "scan") /\ UNCHANGED outcome

\* load_table_rows: fopen, then the reading.
OpenForIndex(r) ==
    /\ At(r, "open")
    /\ IF path["table"] = NoFile THEN NoIndex(r) /\ UNCHANGED opened ELSE OpensTable(r, "load")
    /\ UNCHANGED <<Files, written, rows, before>>

\* bptree_insert_unique accepts every id.
Indexable(loaded) == IsInjective([n \in DOMAIN loaded |-> loaded[n].id])

Load(r) ==
    /\ At(r, "load")
    /\ IF Indexable(data[opened[r]])
       THEN /\ rows' = [rows EXCEPT ![r] = data[opened[r]]]
            /\ Goto(r, IF r \in Inserts THEN "append" ELSE "exit")
            /\ UNCHANGED outcome
       ELSE NoIndex(r) /\ UNCHANGED rows
    /\ UNCHANGED <<Files, opened, written, before>>

OpenForScan(r) ==
    /\ At(r, "scan")
    /\ IF path["table"] = NoFile THEN Ends(r, "failed") /\ UNCHANGED opened
       ELSE OpensTable(r, "read")
    /\ UNCHANGED <<Files, written, rows, before>>

Read(r) ==
    /\ At(r, "read")
    /\ rows' = [rows EXCEPT ![r] = data[opened[r]]]
    /\ Goto(r, "exit")
    /\ UNCHANGED <<Files, opened, written, outcome, before>>

(***************************************************************************)
(* INSERT: fopen with "a" creates the file; the row stays in the stdio     *)
(* buffer until the process exits, and is then appended.                   *)
(***************************************************************************)
\* (Mutant: the number of rows plus one.)
NextIdByCount(loaded) == Len(loaded) + 1
NextId(loaded) == Max({1} \cup {loaded[n].id + 1 : n \in DOMAIN loaded})

OpenAppend(r) ==
    LET inode == IF path["table"] = NoFile THEN r ELSE path["table"]
    IN  /\ At(r, "append")
        /\ path' = [path EXCEPT !["table"] = inode]
        /\ written' = [written EXCEPT ![r] = inode]
        /\ rows' = [rows EXCEPT ![r] = <<Row(NextId(@), r)>>]
        /\ Goto(r, "flush")
        /\ UNCHANGED <<data, opened, outcome, before>>

\* (Mutant: fopen with "r+", which writes at the start.)
AppendedAtStart(old, new) == new \o SubSeq(old, Len(new) + 1, Len(old))
Appended(old, new) == old \o new

Flush(r) ==
    /\ At(r, "flush")
    /\ data' = [data EXCEPT ![written[r]] = Appended(@, rows[r])]
    /\ Goto(r, "exit")
    /\ UNCHANGED <<path, Handles, outcome, before>>

(***************************************************************************)
(* DELETE: delete_rows_from_table and replace_table_file.                  *)
(***************************************************************************)
Clear(r) ==
    /\ At(r, "clear")
    /\ path' = [path EXCEPT !["temp"] = NoFile]
    /\ Goto(r, "source")
    /\ UNCHANGED <<data, Handles, outcome, before>>

OpenSource(r) ==
    /\ At(r, "source")
    /\ IF path["table"] = NoFile THEN Ends(r, "failed") /\ UNCHANGED opened
       ELSE OpensTable(r, "temp")
    /\ UNCHANGED <<Files, written, rows, before>>

\* fopen with "w" empties a temp file it finds.
OpenTemp(r) ==
    LET inode == IF path["temp"] = NoFile THEN r ELSE path["temp"]
    IN  /\ At(r, "temp")
        /\ path' = [path EXCEPT !["temp"] = inode]
        /\ data' = [data EXCEPT ![inode] = <<>>]
        /\ written' = [written EXCEPT ![r] = inode]
        /\ Goto(r, "copy")
        /\ UNCHANGED <<opened, rows, outcome, before>>

\* (Mutants: the rows that match; every row.)
Matched(r, source) == AtPositions(source, {n \in DOMAIN source : source[n].by \in Matching[r]})
KeepsAll(r, source) == source
Kept(r, source) == AtPositions(source, {n \in DOMAIN source : source[n].by \notin Matching[r]})

Copy(r) ==
    /\ At(r, "copy")
    /\ rows' = [rows EXCEPT ![r] = Kept(r, data[opened[r]])]
    /\ Goto(r, "write")
    /\ UNCHANGED <<Files, opened, written, outcome, before>>

\* fclose(temp_fp) writes from the start of the file, over what others wrote.
WriteTemp(r) ==
    /\ At(r, "write")
    /\ data' = [data EXCEPT ![written[r]] = rows[r] \o SubSeq(@, Len(rows[r]) + 1, Len(@))]
    /\ Goto(r, "remove")
    /\ UNCHANGED <<path, Handles, outcome, before>>

RemoveTable(r) ==
    /\ At(r, "remove")
    /\ Goto(r, IF path["table"] = NoFile THEN "undo" ELSE "rename")
    /\ path' = [path EXCEPT !["table"] = NoFile]
    /\ UNCHANGED <<data, Handles, outcome, before>>

\* (Mutant: a copy in place of a rename.)
Copied(paths) == [table |-> paths["temp"], temp |-> paths["temp"]]
Renamed(paths) == [table |-> paths["temp"], temp |-> NoFile]

RenameTemp(r) ==
    /\ At(r, "rename")
    /\ IF path["temp"] = NoFile THEN Goto(r, "undo") /\ UNCHANGED path
       ELSE Goto(r, "exit") /\ path' = Renamed(path)
    /\ UNCHANGED <<data, Handles, outcome, before>>

\* cleanup: remove(temp_path), whoever made that file.
Undo(r) ==
    /\ At(r, "undo")
    /\ path' = [path EXCEPT !["temp"] = NoFile]
    /\ Ends(r, "failed")
    /\ UNCHANGED <<data, Handles, before>>

(***************************************************************************)
(* The end of a process: its own, or the timeout's.                        *)
(***************************************************************************)
Exit(r) ==
    /\ At(r, "exit")
    /\ Ends(r, "done")
    /\ UNCHANGED <<Files, Handles, before>>

Kill(r) ==
    /\ r \in Slow
    /\ pc[r] # "idle" /\ outcome[r] = "none"
    /\ Ends(r, "killed")
    /\ UNCHANGED <<Files, Handles, before>>

Step(r) ==
    \/ Begin(r) \/ Look(r) \/ Build(r) \/ OpenForIndex(r) \/ Load(r) \/ OpenForScan(r) \/ Read(r)
    \/ OpenAppend(r) \/ Flush(r)
    \/ Clear(r) \/ OpenSource(r) \/ OpenTemp(r) \/ Copy(r) \/ WriteTemp(r)
    \/ RemoveTable(r) \/ RenameTemp(r) \/ Undo(r)
    \/ Exit(r)

Next == (\E r \in Requests : Step(r) \/ Kill(r)) /\ UNCHANGED asked

Spec == Init /\ [][Next]_vars
=============================================================================
