# Verification of the B+ tree SQL processor

TLA+ specifications of the program in this repository: a small SQL processor
(`sqlparser`) that keeps each table in a CSV file, indexes INT id columns with an
in-memory B+ tree, and is driven from the command line or by `server.py`.
Paths below are relative to the repository root; `storage.c:1018` is line 1018 of
`src/storage.c`.

Check a module with `tlc -config <cfg> <module>` and the proofs with `tlapm` on the
modules whose names end in `Proof` or `Lemmas`. `PROJECT.json` lists the runs, the source lines of
every definition (`map`), the mutants that show each property can fail, the
hazards, the findings and the theorems.

## 1. Inventory

| component | state it keeps | operations | interacts with |
|---|---|---|---|
| **B+ tree** `bptree.c`, `bptree.h` | heap of nodes: keys, values, children, parent and next pointers; root; first_leaf | create, search, insert (overwrites), insert_unique (refuses), destroy | owned by a TableIndexCache; values are pointers to cached rows |
| **Storage statements** `storage.c:194-645` | nothing of their own; they work on the files and the caches | create, insert, select, delete, update, bulk_begin, bulk_end | called by the executor, the tests and the benchmarks |
| **Index cache** `storage.c:40-62, 2377-2906` | per table: rows in file order, id index, next_id, append_fp and its 1 MB stdio buffer | ensure (keep or rebuild), insert row, look up, flush, invalidate | is a copy of the table file; kept right by every statement |
| **Bulk context** `storage.c:52-62` | raw pointer to a cache, copy of the schema and path | begin, end, invalidate | shortcut of INSERT past schema and cache lookup |
| **Rewrite** `storage.c:1220-1415, 1960-1971` | temp file | copy, remove table file, rename | DELETE and UPDATE; drops cache and bulk context at the end |
| **CSV records** `storage.c:1018-1111, 1420-1660` | none | read a record, parse, write | every path to a table file |
| **WHERE, ORDER BY, LIMIT, aggregates** `storage.c:1669-1955, 2908-3556` | a RowSet | evaluate, sort, project, aggregate | SELECT, DELETE, UPDATE |
| **Table paths** `storage.c:728-834` | none | nested path, then legacy path | every statement |
| **Tokenizer, parser** `parser.c` | token array | parse_sql | fills a ParsedSQL; what does not parse is left out of it |
| **Splitter, executor** `main.c:125-155`, `executor.c` | quote state | cut at `;`, dispatch | ignores the status of every statement |
| **HTTP bridge** `server.py` | none across requests | one process per request, 5 s timeout, attribute output lines | ThreadingHTTPServer: processes run side by side on one set of files |
| printers, benchmarks, SQL processor, web page | none that statements depend on | | |

What is hard here:

* three copies of one table (file, append buffer, cached rows) and a fourth view
  of it (the id index), changed by different statements, some of which fail
  half-way;
* pointers that outlive what they point to: `append_fp` after the file was
  replaced, the bulk context after its cache was freed, tree values after their
  row was freed;
* files changed in two steps (`remove`, then `rename`; a row and then its
  newline) by a process that can be killed in between, by `server.py` after 5 s
  at the latest;
* allocation failures in the middle of a B+ tree split;
* several processes on the same files without a lock.

The full list, each at its line and with the properties that cover it, is under
`hazards` in `PROJECT.json`.

What makes each component correct:

* *B+ tree*: it is a map; keys ascend and separators route to the right leaf; all
  leaves at one depth; parent pointers inverse to child pointers; the leaf list is
  the leaves of the tree; nothing leaked, nothing lost.
* *Storage, cache, bulk context, rewrite*: statements act as on a plain sequence
  of rows; the cache is file plus buffer; the index finds every cached row;
  generated ids are fresh; no stale pointer; a crash loses at most rows that had
  not reached the file.
* *CSV*: reading back what was written gives the same cells; a record that was
  cut is either refused or recognised.
* *WHERE etc.*: the clause evaluator agrees with the boolean reading of the
  clause, AND before OR as the tests have it (`agent.md` plans otherwise, see Findings); sort is a permutation in the order asked for (an exchange sort: rows that
  compare equal may change places); LIMIT keeps the first rows; aggregates are
  over everything the WHERE accepts.
* *Paths, parser, splitter, bridge*: the same table name leads to the same files
  in every statement; no clause is silently widened; splitter and tokenizer agree
  on where a statement ends; a row of output belongs to its own statement;
  concurrent requests do not lose acknowledged rows.

## 2. Modules

| module | models | role |
|---|---|---|
| `IdIndex` | the contract of `bptree.h` | abstract specification: a map |
| `BPTree` | `bptree.c` | the tree, one action per way an insert can go, one step per level of a split |
| `BPTreeProps` | | invariants, action property, liveness, refinement mapping to `IdIndex` |
| `MCBPTree` | | instance; `MixedSpec` restricts the insertion orders of the larger trees |
| `BPTreeProof` | | theorems: node capacity, parent pointers, the order of the keys, balance, half-full nodes; the leaf list and the refinement of `IdIndex` |
| `TableRows` | rows, WHERE/SET clauses, records of a file | the data the table modules share |
| `TableSpec` | what a table promises one process | abstract specification: a sequence of rows, the first `durable` of which survive a crash |
| `TableStorage` | `storage_*` on one table with file, cache, buffer, bulk context, faults | the detailed specification |
| `TableStorageProps`, `MCTableStorage` | | invariants and their inductive strengthenings, refinement mapping to `TableSpec`; instance |
| `TableStorageProof` | | theorems: the cache, the buffer and the bulk context; what every statement promises its caller, the refinement of `TableSpec` |
| `Positions`, `PositionLemmas` | picking rows out of a table by position, as every scan of `storage.c` does | one operator the row modules share; lemmas that several proofs share |
| `RowQuery` | WHERE, AND/OR chain, sort, LIMIT, projection, aggregates of `storage.c` | one step per clause evaluated, per pair compared and per row that MIN or MAX scans |
| `LikeMatch` | `like_match` | the matcher as a function, and the definition of LIKE it is checked and proved against |
| `RowQueryProps`, `MCRowQuery` | | what a statement means; instance |
| `RowQueryProof` | | theorems: the chain of clauses and the sort; the rows an answer is made of; LIKE |
| `SqlParser` | `parse_sql` of `parser.c` on a token list | one step per turn of a loop |
| `SqlText` | `tokenize` of `parser.c` | a function from a text to its tokens and comments |
| `SqlRoundTrip` | `sql_format.c` between two runs of the parser | composes `SqlParser` and `SqlText` |
| `SqlParserProps`, `MCSqlParser` | | what a ParsedSQL promises; instances |
| `StatementStream` | the splitter of `main.c`, and its twin in `sql_processor.c` | one step per character; composes with `SqlText` |
| `StatementStreamProps` | | splitter against tokenizer |
| `SqlProof` | | theorems about `SqlParser` and about `StatementStream` with `SqlText` |
| `QueryBridge` | the output of `sqlparser --json` and `run_sqlparser` of `server.py` | the process and the reader of its lines |
| `QueryBridgeProps`, `QueryBridgeProof` | | which statement a line is credited to; theorems |
| `ScriptRun`, `MCScriptRun` | one request from the text of its file to its answer | composes `StatementStream` and `QueryBridge`; instance of both |
| `SharedTable` | the processes of overlapping requests on one table's files | one step per file operation of a request |
| `SharedTableProps`, `MCSharedTable`, `SharedTableProof` | | what overlap can and cannot do; instance; theorems |
| `CsvFile`, `MCCsvFile` | writer, reader and parser of table files | character by character, cut appends included |
| `CsvFileProof` | | theorems: what is written is read, and what a cut can do |

How they stand on each other: `QueryBridge` is one request, whose process splits its
file (`StatementStream`; `ScriptRun` has the two together), tokenizes (`SqlText`), parses (`SqlParser`) and runs each
statement on a table (`TableStorage`), which reads its file as `CsvFile` says, picks and
orders rows as `RowQuery` says, and looks ids up in an index that `BPTree` is shown to
implement. `SharedTable` sets several such processes side by side. A module takes of
the one below what its properties tell apart: `TableStorage` uses `IdIndex`'s map and one
comparison for WHERE, `SharedTable` one statement per request.

### BPTree and the code

`heap` is the sequence of all nodes allocated, a pointer is a position in it and
NULL is 0, so `calloc` is `Append` and pointer equality is equality of numbers.
`keys`, `values` and `children` are the first `key_count` (or `key_count + 1`)
slots of the C arrays; `InsertAt` stands for the shifting loops. An insert is
`InsertIntoLeaf`, `OverwriteValue`, `RefuseDuplicate` or `SplitLeaf`; after a split
`carry` holds the arguments of the pending `bptree_insert_into_parent`, and each
further step (`CreateNewRoot`, `InsertIntoInternal`, `SplitInternal`) is one
level of the climb. The steps of a climb are apart because an allocation may
fail at each of them (`LeafAllocFails`, `ParentAllocFails`) after the levels
below were changed; no other call runs between them, which is why every call
needs `carry = Idle`. `bptree_insert` and `bptree_insert_unique` differ only in
`OverwriteValue` against `RefuseDuplicate` and share the rest.
`bptree_destroy` frees what it reaches: it is covered by `NothingLeaked`, a part of
`NothingLost`.

### TableStorage and the code

`kind` stands for the schema file (it loads with an INT id, with another id, or
not at all), `table` and `temp` for the two CSV files as sequences of records,
`cut` for a last line of the table file that has no newline. `cache` is the
TableIndexCache; its `index` is the map that `BPTree` is shown to implement.
`stream` is `append_fp` with the rows still in its buffer: `closed`, `open`, or
`orphan` when the file it was opened on has been removed or replaced. `bulk` is
the TableBulkContext: its pointer is modelled by whether it expects a live cache.

`reply` is what the last statement told its caller: which kind it was, or that it
failed, and for a SELECT its condition and its rows.

Each statement is one action per outcome. DELETE and UPDATE are
`BeginRewrite` (flush, read, write the temp file), `RemoveTable`, `RenameTemp`:
the process may be killed after each, and both file operations may fail
(`ReplaceFails`). Everything else a statement does (schema load, cache rebuild,
invalidation, flush) is part of its action. `Exit` is a normal end of the
process, which flushes stdio; after it or after `Kill` the next process starts
with an empty cache on the same files.

The table has an id column and one other column with bare values; one comparison
stands for any WHERE tree. A record cut before its comma does not parse (`Torn`);
cut later it still does, with a shorter value; a record written behind a cut one
continues its line (`Joined`, `Merged`). That this is what cut lines turn into is
`CutIsConfined` of `CsvFile`, which has the quotes. A flush that fails is modelled at whole rows.

`Faults` says what the environment may do:

| fault | meaning |
|---|---|
| `open` | `fopen` for writing or `mkdir` fails |
| `write` | writing a row fails, after any part of the buffer and of the row was written |
| `cut` | with `write` or `kill`: the part that was written may parse |
| `flush` | `fflush`/`fclose` write only some of the rows; the code does not look (storage.c:2542) |
| `remove`, `rename` | that call of `replace_table_file` fails |
| `kill` | the process is killed at any step but between remove and rename |
| `kill_gap` | ... or there, when neither the table file nor a cache has the rows |

### RowQuery and the code

The state is the loops' own: `stage` is the function that runs (`check` the checks
ahead of the rows, `where` the row loop with `row_matches_delete`
in it, `sort` the exchange sort, `package` LIMIT, projection and aggregates, `scan` the loop
over the rows for MIN and MAX with its counter `next` and the row `best` so far), `row` and
`clause` the loop counters, `group` and `matched` the two flags that carry the
open AND group and the groups behind it, `i` and `j` those of `sort_selection`. A
cell is a text, a sequence of characters, of which the code can tell a number, a place in the order
of strcmp and the patterns it matches: the constants `Numbers` and `Rank`, and the
function `Matches` of `LikeMatch`.
Left out: what is written to stderr, overflow of a SUM (a C `long`), the rounding of AVG and of a SUM of
`double`s (the numbers are exact here, so that their order cannot matter), the
255-character buffers of literals and the one an aggregate's value is
cut to (storage.c:3518), and that the sort (and no condition) takes quotes
off a cell.

### SqlParser, SqlText, SqlRoundTrip and the code

`pc` names the loop or the clause `parse_sql` is in, `pos` the cursor, `sql` the
ParsedSQL. `peek` returns `Null` at the end, and every early return of the C code is a
branch to `done` or to the next clause with what was read so far. `tokenize` is the
recursive function `Tokens`; a token is its text, the quotes gone, as in the code.
In a text, a word that is not spelled out (`Words`) counts as one letter.
`SqlRoundTrip` adds `PrintFormat`: what the first parse made is written as one text, with quotes where
`emit_value` decides so, cut into tokens and parsed again. Names that do not
fit the struct's buffers are left out.

`emit_value` decides by the characters of the value alone, and for some values it decides wrongly: `2,1` begins
with a digit and is printed without quotes (sql_format.c:40), so that it reads back as three tokens;
`+1` too, and the tokenizer has no use for `+`; `it's` is printed as `'it's'` (sql_format.c:46), whose second
quote ends the text and whose third opens one that takes in the rest of the statement. A name is printed as it
is, whatever it holds. For such a statement the round trip that sql_format.c:11-12 calls a proof fails, and
`FormatParsesBack` says which statements are left by its precondition `Printable`: names are words or
operators, values printed without quotes are words, values printed in quotes hold none. Values and names of
all these kinds are among the texts of `MCSqlParser`, and without any of the conditions the property
is violated there.

### StatementStream, QueryBridge, ScriptRun and the code

`StatementStream` walks the file as `run_statements` does; its specification is `SplitSpec`, so that
one module can speak of it and of the parser's. `QueryBridge` has the process's
actions (`ProcessStmt`, one per statement: print the card, then run it; `ProcessExits`) and
the bridge's (`Timeout` kills the process; `ReadLine` is one turn of the loop over the
lines of stdout; `Answer`). A line is who printed it, where in the result it stands and how
`json.loads` reads it. The bridge looks at the last only; the first two tell apart lines that
read alike, so that a card can be shown to have its own lines.

`QueryBridge` starts with the statements of its file, as many as there are; `ScriptRun` has the text of the file.
A step of the splitter (`Scan`) is taken while the process runs and has worked through what was cut off so far, as
`run_statements` calls `process_stmt` in its loop; a statement that is cut off is one more of `file`, and what it
comes to (`Meanings`) depends on its tokens: whether it begins with a keyword, and whether a newline
in a text may reach its card. The process ends at the end of the text only, but may be killed at any step. What is
printed, read and answered does not depend on when a statement joins `file`, so the answers are those `QueryBridge`
gives on the file as it is in the end.

### SharedTable and the code

`path` is the directory: which inode `table` and `temp` lead to, `data` the rows in
each inode, so that a process that has a file open keeps it when it is replaced or removed.
A request walks through `pc`: an INSERT looks, builds its cache from the file, opens for
append, writes at exit; a DELETE clears temp, opens both files, copies, writes,
removes and renames; a SELECT loads or scans. Any of `Slow` may be killed at any step.
`before` is a history variable: who had been answered when a request began.

### CsvFile and the code

`Field` is `write_csv_field`. The three loops that read are functions of the number of turns:
`RecordTurn` is one turn of `read_csv_record` (with `fgetc` and `ungetc` as a place `at` in the file, and
`in_quotes` as `quoted`), `ParseTurn` one of `parse_csv_record` (`in_quotes` and `just_closed_quote` as the mode), and
`LoadTurn` one of `load_table_rows`, which calls both. A turn that
has ended changes nothing, so as many turns as there are characters (one more for the end of a
record) are enough. `WriteRow` appends a row, behind a cut one too, and `CutRow` a part of one.

## 3. Runs

| run | instance | shows |
|---|---|---|
| `tree` | order 3, 9 keys, 2 values, 1 failed allocation | types and array capacity; order, parent pointers, balance and half-full nodes; leaf list equals the leaves of the tree, nothing leaked; search finds what is stored; the tree implements `IdIndex` until an allocation fails above a leaf, and what holds after that; a split ends |
| `table` | ids 1..3, INT_MAX 2, 2 values, 2 rows; `open`, `write`, `remove`, `kill` | cache, next_id, bulk context and buffer agree; every statement does what `TableSpec` says; a kill loses only rows that had not reached the file |
| `table_worst` | 3 rows, every fault | the index finds every cached row and no other; no complete line is touched by anything but a rewrite or a CREATE |
| `query` | all chains of up to 3 clauses on up to 2 rows; sorts of up to 4 rows; LIKE of texts and patterns of up to 4 characters | the loops compute what the statement means |
| `parser` | statements of all kinds, complete and cut at every token; WHERE chains of up to 4 conditions | links fit conditions; conditions are the tokens behind WHERE; `--format` output of printable texts parses back; the parser ends |
| `script` | every file of up to 5 characters that splitter or tokenizer tells apart, 6 without blanks; scripts of up to 3 statements with up to 2 result lines each; a timeout at any step | splitter and tokenizer agree when no comment holds `;` or a quote; a card carries its own result; every request is answered |
| `shared` | 3 INSERTs, 2 DELETEs, 1 SELECT in mixes of up to 4, two of which may time out; 2 rows stored | when rows can get lost, come back or share an id, and that they cannot otherwise |
| `csv` | rows of two cells out of ten, two lines, one of which may be cut | reading back; what a cut line can turn into |
| `append_glued`, `query_planned`, `parser_widen`, `shared_same` | | the findings below |

Bounds. *Tree*: the smallest order the code allows is 3; nine keys give height four,
so leaf splits, internal splits into a parent with room and into a full one, and a
new root all occur. Every order of insertion is tried up to `FreeKeys` keys, then
the smallest or largest absent key comes next, so that ascending and descending growth
mix. The code's order of 64 differs in node size only. One failed allocation reaches
each kind of half-done split. *Table*: two or three rows let a duplicate id, a row before
and a row behind the one a statement touches, and a partial flush occur; `MaxInt = 2` puts
INT_MAX within reach of generated ids and `Ids` reaches beyond it. `MaxRows` bounds
INSERTs only. *Query*: three clauses are the least with a group that ends, one that begins and
one that does both; the cells make the order of numbers and of texts differ
(9 < 10, "10" < "9") and include one that does not parse. *Parser*: a bug of a loop shows at
the first token it cannot use, so each loop is fed every short list of the tokens it tests.
*Script*: with three statements a result has a card before and one behind it; two lines are the least that can be
credited to different cards.
*Shared*: three INSERTs are the least for a row that is lost between two that are kept; two
DELETEs share the temp file. *Csv*: the alphabet has each character the codec tells apart, and
the cells the pairs that meet at its look-aheads. The instances are small enough to be run without
symmetry.

Fairness. `BPTree`: weak fairness of `Climb` alone, the recursion inside one C call, which
runs on once it is started. `SqlParser` and `SqlRoundTrip`: weak fairness of a
step of the parser, for the same reason (and of the printing between two of its runs). `QueryBridge` and `ScriptRun`: weak fairness of reading a line,
of answering and of `Timeout`, which are the bridge's own; none of the process, which
may hang, so the answer is owed to `subprocess.run`'s timeout (server.py:210). Nothing
is assumed about which statements are issued; the other modules claim no liveness.

Deadlock is checked but for two modules that really stop: `SharedTable` when every request is over,
and `CsvFile` when the bound on its rows is reached.

### Refinement mappings

`BPTree` implements `IdIndex` with the entries of the leaf list as the map: an entry
appears when its leaf changes, the return value a few levels later. `ImplementsIdIndex`
demands this of every step until an allocation fails above a leaf; from then on the
tree is not that map any more (an entry is in the list and no search finds it), and
`Ordered`, `ParentLinks`, `WellShaped`, `SearchAgrees` and `ChainKeepsKeys` say what is left.
`TableStorage` implements `TableSpec` with *file plus buffer* as the contents and the
number of records in the file as `durable`; between remove and rename the contents are the
temp file. `kill_gap`, `rename`, `flush` and `cut` break this promise and are left out of
that run, which is the point of naming them: with them acknowledged rows
are lost, and only `WholeLinesStay` remains, with the invariants that `CacheInv` implies, of which
`table_worst` checks `IndexFindsEveryRow`. `WholeLinesStay` exempts the replacement of the file, and
`LostOnlyByOverlap` a rewrite that was killed between remove and rename: they say where rows can be lost, and
do not deny that they are.

### Findings

* `append_glued`: an append that fails half-way leaves a line without newline;
  `append_csv_row` then writes the next row on that line and returns 0, against its
  comment (storage.c:990). The line parses as another row, or the table can no longer
  be read.
* `query_planned`: two points in which storage.c answers otherwise than `agent.md` plans. A chain that mixes AND
  and OR is to be evaluated from left to right, without grouping (agent.md:159); the code lets AND bind tighter
  (storage.c:1690), and tests/test_storage_delete.c:596-619 expects that. An aggregate is to be computed over
  the rows that passed WHERE, ORDER BY and LIMIT (agent.md:122); the code never looks at LIMIT there
  (storage.c:3537). `ChainMeansReading`, `SelectionIsMatching` and `AggregatesOverMatching` follow the code. In the run
  COUNT(*) of two rows under *a* OR *b* AND *c* with *a* true, *b* and *c* false, and LIMIT 1 answers 2: both parts of
  `AnswersAsPlanned` (`SelectsFromLeft`, `CountsWithinLimit`) are false of that answer.
* `parser_widen`: a DELETE or UPDATE whose WHERE cannot be completed, or stands behind a token
  the parser does not expect, is handed over with `where_count == 0` and without a
  message; types.h:142 says that this stands for no WHERE.
* `shared_same`: two INSERTs that arrive together take the same generated id; the index can
  then not be built and every later INSERT fails. docs/QA_REPORT_AUTO.md:103 reports
  simultaneous requests as processed normally.

Seen while modelling, without a run of their own: the comment at storage.c:253 says the append
is already over when the cache is dropped, in the branch taken exactly when it failed
(the behaviour is right). The splitter does not know comments (main.c:138) and the
tokenizer does (parser.c:98), which is why `SplitsBetweenTokens` needs
`HarmlessComments`. A newline or tab in a text passes json_out.c:49 as it is, so its card is
two lines or none that `json.loads` takes, which is why `CardsAreStatements` needs
`Readable`. sql_format.c:11-12 promises that what it prints parses back, without a word on the texts for which it
does not (`2,1`, `+1`, `it's`: sql_format.c:40, 46), which is why `FormatParsesBack` needs `Printable`.

## 4. Proofs

Eight modules hold theorems. Each uses the assumptions named in the modules it is about, and
no others. An invariant was an `INVARIANT` of the module's run before it was proved, but for `CsvInv` and `SplitInv`.

### BPTreeProof

For every `ORDER` from 3 on, any keys and values, and any number of failed allocations, wherever they
strike:

| theorem | says |
|---|---|
| `TreeInvariant` | `Inv` is invariant |
| `TreeTypes` | `TypeOK`: no C array of a node is filled beyond its capacity |
| `TreeLinks` | `ParentLinks`: parent pointers are the inverse of child pointers, also in the piece a climb carries |
| `TreeOrder` | `Ordered`: each separator divides the keys below it |
| `TreeShape` | `WellShaped`: leaves at one depth, no node but the root less than half full, each separator the first key behind it |

The model's recursive functions are replaced by sets. What is below a node is the least set that has it and is
closed under an edge relation (`Reach`); the path of a search is the same with one edge per node (`Way`).
That the recursive functions mean these sets (`FindLeafIs`, `NodesBelowIs`) needs no induction:
leaves are at level 0 and a node one level above its children (`Levels`), so that of the nodes
where they differ there would be a lowest one, and there is none.
`Ordered` is not inductive, as a split hangs a node at a place that is known only one step
later. The invariant says instead that every key is on the path of its own search
(`Routed`), and of a climb under way that the searches for the keys of the new node pass through its left
brother and lie beyond the carried key (`Hangs`). `InsertKeepsRoutes`, `SplitKeepsRoutes`, `AttachKeepsRoutes` and
`RaiseKeepsRoutes` are about any sequences of keys and children; the actions are instances of them.
For the shape it says further that every node but the root has half its keys, and the one that has just split
too, root or not (`Filled`: it is no longer the root when the climb ends there), and that every separator is a
key of a leaf behind it, as the carried key is of one below the new node (`Separated`). A split moves both the leaf's
key and the pairs of separator and child, so `SplitSeparates` follows each key to the half the search for it ends in. With
`Ordered`, a separator is then the least key behind it, which `FirstKeyIs` shows to be the first key
of the leftmost leaf, as test/test_structure.c:140-142 has it.

On top of these, under the same assumptions:

| theorem | says |
|---|---|
| `LeafListInvariant` | `ListInv` is invariant |
| `NothingIsLost` | `NothingLost`: between two calls, as long as no allocation has failed, the leaf list has the leaves of the tree in key order, and every node allocated is below the root |
| `SearchesAgree` | `SearchAgrees`: a search finds nothing that is not on the list, and as long as no allocation has failed everything that is |
| `KeysStay` | `ChainKeepsKeys`: no step takes a key off the list, whatever fails |
| `TreeImplementsIdIndex` | `ImplementsIdIndex`: every step up to the first allocation that fails above a leaf is a step of `IdIndex` or changes nothing of it |

`ListInv` adds two things to the invariant of the tree. In every state the list has exactly the leaves
allocated and ends (`Listed`; that it ends is stated by numbers that fall along the next pointers, from which
`ChainIs` gets the recursive `Chain`). While no allocation has failed, keys grow from a leaf to the
next (`InLine`) and every node is below the root or in the piece a climb carries (`Complete`). The difficult
step is that a new key belongs where `bptree_find_leaf` puts it: the list knows nothing of the tree. With `Complete`
a search for any key of a leaf ends in that leaf (`KeyIsFound`), and the keys whose
searches pass through a node are an interval (`PathIsConvex`); were a key of the next leaf not
above the new one, its own search would end in the leaf of the new one (`KeyFitsInLine`).
The actions are then summed up by what they do to the leaves: store an entry in one (`Puts`), store it and
divide the leaf (`Splits`), or nothing (`SameLeaves`), and the list, its order and the map are about these.
For the refinement, the entries of the leaves change as a map does when a value is stored (`Stored`), since no other leaf has
the key, and `IndexMap` is that map (`IndexIs`), since no key is in two leaves.
`Complete` cannot be had without the condition: an allocation that fails above a leaf leaves nodes that no
search reaches.

### TableStorageProof

It proves, for every `Ids`, `Vals`, `MaxInt`, `MaxRows`:

| theorem | assumes | says |
|---|---|---|
| `CacheInvariant` | | `CacheInv` is invariant, under every set of faults |
| `TypeCorrect`, `IndexCorrect`, `GeneratedIdsAreFresh`, `BulkContextStaysLive` | | its consequences, each a property of the runs |
| `CoherenceInvariant` | no `rename`, no `cut` | `CoherenceInv` is invariant |
| `CacheCoherent`, `NoOrphans` | no `rename`, no `cut` | cache = file plus buffer; no append to a replaced file |
| `RewritesSeeAllRows` | no `flush` | a rewrite starts with an empty buffer |

`IndexFindsEveryRow` is not inductive: a step that keeps a cache which is not
*ready* could later find it half filled, and one that appends through an open
stream could do so without a cache. `CacheInv` therefore adds that a cache that is
not ready is as if reset, that it is only ready for an INT id, that a
stream that is not closed belongs to a ready cache and an open one to a file that exists, that
the bulk context agrees with schema and cache, and that a cut last line is there.
`CacheRowsAreContents` needs on top that only a file being replaced has an orphan
stream and that a cut line does not parse (`CutIsTorn`): a cache that exists was
then built from a file without one, so an append starts on a line of its own.
There is one lemma per action; `RankIsOnto` and `AtPositionsType` carry the types of
what WHERE selects, `NextIdAfterBounds` the bounds of a rebuilt next_id,
`FlushKeepsContents` the flush, `JoinedEndsTorn` the cut append.

What the statements promise, on top of `CacheInv`:

| theorem | assumes | says |
|---|---|---|
| `CompleteLinesStay` | | `WholeLinesStay`, under every set of faults: only CREATE and the replacement of the file touch a line that is complete |
| `RefinementInvariant` | `NoLoss` | the invariants the refinement needs hold together |
| `StatementsImplementSpec` | `NoLoss` | `ImplementsTableSpec`: every behaviour of `TableStorage` is one of `TableSpec` |

`NoLoss` excludes `rename`, `cut`, `flush` and `kill_gap`, each of which takes rows away that were
acknowledged: a failed rename leaves no table file, a flush that the code does not check
drops the end of the buffer, a cut line swallows the row written behind it, and a
process killed between remove and rename leaves the rows in a file nobody reads.
With `open`, `write`, `remove` and `kill` the promise stands.

The contents of the abstract table come from the temp file while a rewrite runs, so
the step that renames it is only a stutter if temp then holds what the statement was to
write. `CacheInv` does not say so; `RewriteInv` does (a begun rewrite has in temp the
`Rewritten` table; behind `remove`, temp is the only copy of the rows). The initial states map to
initial ones; each action is then a step of one of `TableSpec`'s statements, a crash that keeps
the first `durable` rows, or leaves contents and `durable` alone.

### PositionLemmas

What `AtPositions(seq, positions)` returns: a sequence over the same elements
(`AtPositionsType`), of as many elements as there are positions, the element of rank *n* at place
*n* (`AtPositionsPlaces`), and one more at its end when a larger position is added
(`AtPositionsAppend`). The ranks are a bijection (`RankIsOnto`), which rests on a finite set of
numbers having a greatest one (`MaxIsGreatest`); the library's induction on finite
sets carries both.

Loops are functions of the turn: what holds after no turn and is kept by every turn holds after all
of them (`UpTo`, by the greatest number up to which it holds), and a function that is given turn by turn exists
(`Iterates`). `FlattenRuns` is the first use: `FlattenSeq` as a concatenation that grows by one piece a turn.

### RowQueryProof

For every schema, set of cells, table and statement:

| theorem | says |
|---|---|
| `QueryInvariant` | `IInv` is invariant |
| `QueryTypeCorrect` | loop variables stay in their ranges |
| `ChainsMeanTheirReading` | for chains of any length, the two flags compute the reading in which AND binds tighter |
| `SortPrefixIsFinal` | while the exchange sort runs, what stands before `i` is final |
| `SortSorts` | a selection whose cells parse ends up in the order asked for |

`ChainMeansReading` says of `matched` only what it is good for at the end of a chain. To be
inductive it needs the value in the middle: `matched` holds exactly if a group that
has ended holds (`ChainInv`), which `GroupBegins`, `GroupGrows` and `GroupRestarts` carry
over one clause and `ChainEnds` turns into the reading. The sort needs that the rows
selected are rows of the table (so that their cells parse), that nothing between `i` and `j`
belongs before `i`, and that an exchange keeps both (`ComparePairKeepsInv`, which rests on
`KeyOrders`: differences of parsed cells are a total preorder).

The second half of the module is about the rows an answer is made of:

| theorem | says |
|---|---|
| `AnswerInvariant` | `AInv` is invariant |
| `WalkIsAllOrNothing` | `AllOrNothing`: a statement whose WHERE cannot be evaluated on some row answers, and removes, nothing |
| `SelectsTheMatching` | `SelectionIsMatching`: the walk selects the rows WHERE accepts, in the table's order |
| `SortRearranges` | `SortKeepsRows`: ORDER BY neither drops nor doubles a row |
| `LimitIsPrefix` | `LimitKeepsFirst`: as many rows as LIMIT says, and no row left out belongs before one that is kept |
| `AggregatesTheMatching` | `AggregatesOverMatching`: COUNT counts the accepted rows, MIN and MAX return a cell of one of them that none beats, and SUM and AVG are what adding up the accepted rows in the table's order gives |

`AInv` has six parts. `EvaluatedInv`: every clause was evaluated on every row
behind `row`, so that a walk that reaches the end has failed nowhere. `SelectedInv`: the selection is what
WHERE accepts of the rows walked; a row that is taken extends it at its end
(`AtPositionsAppend`, with `ChainMeansReading` for the decision). `RowsInv`: selection and
accepted rows are each other's rearrangement; `SortKeepsRows` says this with counts, a step of the sort keeps it as a
bijection of places composed with the exchange. `TotalInv`: where every selected cell of a column is a number,
their total is that of the accepted rows, at any moment of the sort. `TotalAdds` unfolds the loop of SUM into its partial
sums, and `ExchangeKeepsTotal` compares those before and after an exchange: they differ between the two places only,
all by the same amount. `ScanInv`: `best` is a place that none before
`next` beats, which only follows when the column's cells parse (`Comparable`). `ResultInv`: the answer, once
packaged, in terms of the selection. The constants are constrained by `NumbersAssumption`, `RankAssumption`,
`TablesAssumption`, `QueriesAssumption` and `CellsAssumption`: a cell parses to an integer or does not, strcmp is a
linear order, a row has a cell per column, a statement names its columns freely, and a cell is a sequence of characters.

The third part is `LikesAreCuttings`: `LikeIsCutting` for every text and every pattern. `Matches` is the recursion
of `like_match` as a function from a place of the pattern to the places of the text from which the rest of it
matches. The argument has two halves. Cutting solves the equation of that recursion (`CuttingMatches`): at the
pattern's end only the text's end is left (`CuttableAtTheEnd`), a character takes a piece and leaves the rest
(`CuttableSteps`), and a run of % does what one % does (`PercentsSkip`, by the greatest place up to which it is so).
And the equation has one solution (`OneMatch`): at the last place of the pattern where two of them
differ, they agree on everything behind it, and so there too. So the function is the cutting (`MatchesIsReads`).
In the module's states it needs that the columns of a WHERE are known once the walk starts (`ColumnsKnown`).

### SharedTableProof

For any number of requests, inserts, deletes and selects, every table they start on and every set of
requests that may be killed:

| theorem | says |
|---|---|
| `SharedInvariant` | `IInv` is invariant |
| `SharedTypes` | `TypeOK` |
| `RowsAreKept` | `LostOnlyByOverlap`: once no rewrite runs, an answered row that no DELETE matches is there once, unless a rewrite overlapped it or another, or was killed in the gap |
| `DeletionsStay` | `DeletedStaysDeleted`: a row an answered DELETE matched stays away, unless another rewrite overlapped that one |
| `SelectsSee` | `SelectSeesAnswered`: a SELECT that overlaps no rewrite returns once every row answered before it began |
| `IdsDiffer` | `SameIdOnlyByOverlap`: two rows share an id only if their INSERTs overlapped or a rewrite disturbed one of them |

The properties are about a table at rest, and a rewrite takes eight steps to replace it. The invariant
follows the rows through them: a rewrite that no other overlaps owns temp (`RewriteInv`), what it
has read, written and renamed has no row it deletes that was answered before it began (`CleanInv`), the
file that is the table or will be has each row it should have once (`ContentInv`), and what an INSERT
has loaded, or a SELECT has read, includes the rows answered before (`InsertInv`, `SelectInv`).
All rest on which inodes a request can have touched (`InodeInv`): a file that a request creates
is its own until it is renamed, so a write through a stream opened earlier goes to a file
that only that request, or nobody, still has as the table.
The last three parts suppose what the properties suppose (`Sequential`: no two rewrites
overlapped, none was killed in the gap) and speak of requests that overlap no rewrite (`Apart`); overlap
only ever grows, so a step that breaks either leaves nothing to show. The
assumptions are `RequestsAssumption`, `StoredAssumption` (the first rows have ids of their own)
and `NoFileAssumption`.

### SqlProof

For every set of token lists, and for every set of files:

| theorem | says |
|---|---|
| `ParserInvariant` | `IInv` is invariant |
| `CursorStaysInList` | the cursor stays in the list or one behind it |
| `LinksFitConditions` | one link less than conditions, however the WHERE breaks off |
| `ConditionsAreTheTokens` | the conditions are the tokens behind a WHERE, in their places |
| `StreamSplitsBetweenTokens` | `SplitsBetweenTokens`: the tokens of the statements are the tokens of the file, if no comment holds a quote or a semicolon |

*The parser.* `LinksFit` is broken inside `parse_where`, where a link is read before its condition, so the
invariant follows the clauses: before WHERE the three fields are empty (`Before`), in its loop
the cursor is four tokens a condition behind the WHERE and there are as many
links as conditions (`InLoop`), behind it perhaps one less (`BehindLoop`), and
`LinksAreCut` shows that the last step restores the promise. `PositionStep` has
every other step of the parser.

*The splitter.* Its promise speaks of the end of a file. `SplitInv` says of every character before that
the pieces cut off so far, with the tokens from the start of the current statement, are the tokens of the
file (`NothingLost`), and that the splitter is at an element of the tokenizer or inside one (`AtAnElement`), where an
element is a word, an operator, a quoted text, a blank or a comment. Inside a quoted text it knows the quote;
inside any other element there is neither a quote nor a semicolon (`NothingInside`: this is what harmless
comments are needed for), so it meets both only where an element starts. Hence a cut is at the start of one.
`CutTokens` then says that the tokens of a text cut at a place its tokenizer comes to (`Chain`) are the tokens
of the first part and the tokens from there on. It rests on `ElementOfPart`, which says that an element of the text that ends
inside a part is the same element of the part: the look-aheads of `tokenize` (`--`, `<=`, the end of a
word or of a quoted text) do not see the cut. `BlankTokens` and `LastTokens` do the same for what is left at the
end, also inside an open quote. The two functions of `SqlText` run from a place to a later one; `TokensFromIs` and `CommentsFromIs`
show that they exist (`Backwards`, from the end of the text).
`SplitInv` speaks of a chain that exists, so TLC does not evaluate it; its run checks the promise.
The assumptions are `SourcesAssumption`: a file is a sequence of characters, and `WordsAssumption`: a word that
counts as a letter is no separator, operator or quote.

### QueryBridgeProof

For files of any length and results of any length:

| theorem | says |
|---|---|
| `BridgeInvariant` | `BridgeInv` is invariant |
| `CardsAreTheStatements` | `CardsAreStatements`: if every line reads as what it is, the cards of an answer are the statements that parsed, in order, each with the lines of its own result but the blank ones |

`CardsAreStatements` speaks of the end of a request. `BridgeInv` says where in stdout the output of each statement
lies (`Layout`: it starts behind the outputs before it, the card first) and that cards and pending lines
are those of the lines read so far (`Collected`: a card for each statement whose first line is
read, the last of them still without the lines that are pending). `LineIsOf` finds the statement a line is
of; a first line closes the card before it, all of whose lines are then read
(`FlushedAre`), and any other is appended to the pending lines of its own statement (`ResultLineIsRead`).
`AtPositionsAppend` carries cards and lines.

### CsvFileProof

For cells of any characters, any number of columns and rows, and cuts anywhere (`ValuesAssumption`: cells
are sequences of characters, each of which TLA+ has as a string):

| theorem | says |
|---|---|
| `CsvInvariant` | `CsvInv` is invariant |
| `WrittenIsRead` | `WhatIsWrittenIsRead`: `load_table_rows` reads back the rows `write_csv_row` wrote |
| `CutsAreConfined` | `CutIsConfined`: if a file with a cut line is read at all, the rows before the cut are as they were, no line is read as two, and a cut record at the end is a row whose last cell is shorter |

What the loops compute is not a matter of induction over data here: the state after n turns is a function of n,
and what holds after no turn and is kept by every turn holds after all of them (`Iterates` and `UpTo`,
above). What there is to keep is the work.

*Records.* `Inside` says of every place of a text whether the quotes up to it leave the reader
inside quotes: each quote changes it, doubled or not. `read_csv_record` follows it, so a record ends at the first line
end outside of quotes (`RecordStops`). A field passes a reader on outside of quotes and a row's line ends once (`FieldPasses`,
`BodyPasses`), since `write_csv_field` quotes both kinds of line end: with `QuotedForNewline`, the mutant, it would not.

*Fields.* `FieldPlaces` says where each character of a cell stands in what was written, doubled quotes and the
quotes around it included. `FieldTurns` then shows that a turn of `parse_csv_record` takes the next
character of the cell, and `LineTurns` that the turns take cell after cell, for a whole line and for any first part
of one. In a part of a line the parser may meet the end inside a cell, inside quotes (the line is
refused) or between two halves of a doubled quote, which it takes for the end of the cell.

*The file.* Neither promise is inductive, as each speaks of what a reader returns. `CsvInv` says what the file
is: `Segmented`, records that each end with a line end outside of quotes and have no other, of which all
but the one that was cut are as they were written; or `Broken`, when the cut was inside quotes. Then the file ends
inside quotes for good, since a line that is written behind has an even number of them, and `load_table_rows`
fails. `WriteKeeps` is the step that joins a line to a cut one: the two are one record, whatever it holds.
As `CsvInv` is about functions that exist, TLC does not evaluate it; it was the two promises that runs checked.

### Model-checked only

`FormatParsesBack` with its precondition: that it holds of every printable statement needs what the parser makes
of every list of tokens, clause by clause, of which the theorems above have the WHERE only; for the texts of
`MCSqlParser` the run shows it. `SplitsBetweenTokens` and `CardsAreStatements` are proved of `SplitSpec` and of the
`Spec` of `QueryBridge`, and checked of `ScriptRun`, which composes them.
And liveness (`ClimbEnds`, `ParseEnds`, `EveryRequestIsAnswered`), which is beyond the prover
with `ENABLED`.

## 5. Not modelled, and the plan

In order:

1. `CacheIndex`: the cache rows with the tree of `BPTree` and its allocation
   failures (storage.c:2661 frees a row the tree may still point to).
2. Two spellings of one table name, which share a cache but not a file (storage.c:2429).
3. `TablePaths`: nested and legacy path per statement (storage.c:501-586, 728-834).
4. `InsertRow`: the row an INSERT builds from its column list and its values
   (`build_insert_row`, storage.c:924-988, 2732-2808). executor.c:38 hands over the
   number of values, so that `INSERT INTO t (name, age, id) VALUES ('a', 30)` is
   taken, with a generated id.
5. The fixed buffers of ParsedSQL and of literals.
6. Proofs: `FormatParsesBack` of every printable statement, from what each clause of the parser makes of its tokens.

Left out for good: the AST printer, the trees and timings of `benchmark.c`, the SQL
processor's demo (its splitter is the one of `StatementStream`), the benchmark endpoints of `server.py`
and the web page, which hold no state that statements depend on; the contents of error messages;
`errno`; reading and writing of arguments and options.
