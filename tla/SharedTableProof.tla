-------------------------- MODULE SharedTableProof --------------------------
(***************************************************************************)
(* Proofs that the properties of SharedTableProps hold for any number of   *)
(* requests.                                                               *)
(*                                                                         *)
(* The properties speak of the table when no rewrite runs; a rewrite takes *)
(* eight steps to replace it, so the invariant says what the files, and    *)
(* the rows in a process's memory, hold on the way:                        *)
(*   RewriteInv  a rewrite that no other overlaps has its own temp file,   *)
(*   CleanInv    what it has read, written and renamed has no row it       *)
(*               deletes that was answered before it began,                *)
(*   ContentInv  the file that is the table, or will be, is Good: it has   *)
(*               each row it should have once, with ids of its own,        *)
(*   InsertInv   the ids an INSERT has loaded include those of all rows    *)
(*               answered before it began,                                 *)
(*   SelectInv   and so do the rows a SELECT has read.                     *)
(* The last three suppose that no two rewrites have overlapped and none    *)
(* was killed in the gap (Sequential), and speak only of requests that     *)
(* overlap no rewrite (Apart).                                             *)
(***************************************************************************)
EXTENDS SharedTableProps, PositionLemmas

Inode == Requests \cup {"first"}
FileRow == [id : Nat \ {0}, by : Inserters]

DeleteSteps == {"clear", "source", "temp", "copy", "write", "remove", "rename", "undo"}
InsertSteps == {"build", "open", "load", "append", "flush"}
SelectSteps == {"look", "build", "open", "load", "scan", "read"}

\* Types of the variables.
TypeInv ==
    /\ path \in [{"table", "temp"} -> Inode \cup {NoFile}]
    /\ data \in [Inode -> Seq(FileRow)]
    /\ pc \in [Requests -> Steps]
    /\ opened \in [Requests -> Inode \cup {NoFile}]
    /\ written \in [Requests -> Inode \cup {NoFile}]
    /\ rows \in [Requests -> Seq(FileRow)]
    /\ outcome \in [Requests -> {"none", "done", "failed", "killed"}]
    /\ before \in [Requests -> SUBSET Requests]

\* A request takes the steps of its statement, with the files they need open.
InStep(r) ==
    /\ r \in Inserts => pc[r] \in InsertSteps \cup {"idle", "exit"}
    /\ r \in Deletes => pc[r] \in DeleteSteps \cup {"idle", "exit"}
    /\ r \in Selects => pc[r] \in SelectSteps \cup {"idle", "exit"}
    /\ pc[r] \in {"load", "read", "temp", "copy"} => opened[r] # NoFile
    /\ pc[r] \in {"flush", "copy", "write"} => written[r] # NoFile
    /\ pc[r] = "flush" => rows[r] = <<rows[r][1]>> /\ rows[r][1].by = r
    /\ pc[r] = "idle" => outcome[r] = "none"
    /\ outcome[r] = "done" => pc[r] = "exit"
    /\ outcome[r] = "failed" => pc[r] # "exit"

StepsInv == \A r \in Requests : InStep(r)

\* What a request remembers as answered was answered.
HistoryInv ==
    \A r \in Requests : before[r] \subseteq {q \in Requests : outcome[q] # "none"}

\* A request may have made a file; the inode of any other is still unused.
Created(r) == pc[r] \in {"flush", "copy", "write", "remove", "rename", "undo", "exit"}

Unused(x) ==
    /\ data[x] = <<>>
    /\ x # path["table"] /\ x # path["temp"]
    /\ \A q \in Requests : opened[q] # x /\ written[q] # x

InodeInv ==
    /\ path["table"] = path["temp"] => path["table"] = NoFile
    /\ \A i \in Inserts : written[i] # NoFile => written[i] # path["temp"]
    /\ \A x \in Requests : ~Created(x) \/ x \in Selects => Unused(x)

\* No rewrite overlaps d; no rewrite overlaps q; no two rewrites overlapped
\* and none was killed between remove and rename.
Alone(d) == \A e \in Deletes : ~Overlap(d, e)
Apart(q) == \A d \in Deletes : ~Overlap(q, d)
Sequential ==
    /\ \A d \in Deletes : Alone(d)
    /\ \A d \in Deletes : ~(outcome[d] = "killed" /\ pc[d] = "rename")

Absent(q, s) == \A n \in DOMAIN s : s[n].by # q
AtMostOnce(q, s) == \A m, n \in DOMAIN s : s[m].by = q /\ s[n].by = q => m = n

\* A rewrite that no other one overlaps has a temp file of its own.
OwnTemp(d) ==
    /\ pc[d] \in {"source", "temp"} => path["temp"] = NoFile
    /\ pc[d] \in {"copy", "write", "remove", "rename"} =>
        path["temp"] = written[d] /\ written[d] # NoFile
    /\ pc[d] \in {"copy", "write"} => data[written[d]] = <<>>

RewriteInv == \A d \in Deletes : Running(d) /\ Alone(d) => OwnTemp(d)

Earlier(q, r) == q \in Requests => q \in before[r]

\* No file a path leads to, or a rewrite reads, has a row of q.
NowhereLeft(q) ==
    /\ \A p \in {"table", "temp"} : path[p] # NoFile => Absent(q, data[path[p]])
    /\ \A e \in Deletes : Running(e) =>
        /\ pc[e] \in {"temp", "copy"} => Absent(q, data[opened[e]])
        /\ pc[e] = "write" => Absent(q, rows[e])

\* What DELETE d has in hand has no row of q, and once it is over no file has.
Removed(q, d) ==
    /\ Running(d) /\ pc[d] = "write" => Absent(q, rows[d])
    /\ Running(d) /\ pc[d] \in {"remove", "rename"} => Absent(q, data[path["temp"]])
    /\ pc[d] = "exit" => NowhereLeft(q)

CleanInv ==
    \A d \in Deletes : Begun(d) /\ Alone(d) =>
        \A q \in Matching[d] : Earlier(q, d) => Removed(q, d)

\* The row of q is in a file.
Landed(q) == q \in Inserts => pc[q] = "exit"

Held(q, s) ==
    /\ AtMostOnce(q, s)
    /\ ~Landed(q) => Absent(q, s)
    /\ Landed(q) /\ Unmatched(q) => ~Absent(q, s)

\* The rows of undisturbed INSERTs are there as they should be, each with an
\* id of its own unless two INSERTs overlapped.
Good(s) ==
    /\ \A q \in Inserters : Apart(q) => Held(q, s)
    /\ \A m, n \in DOMAIN s :
        m # n /\ Apart(s[m].by) /\ Apart(s[n].by) /\ ~Overlap(s[m].by, s[n].by) => s[m].id # s[n].id

\* The file that is the table, or will be after the rename.
Renaming == \E d \in Deletes : Running(d) /\ pc[d] = "rename"
Home == IF Renaming THEN path["temp"] ELSE path["table"]

\* Every row is of a request that a rewrite overlaps.
Disturbed(s) == \A n \in DOMAIN s : ~Apart(s[n].by)

\* A rewrite with no other beside it has what the table will have.
Rewriting(d) ==
    /\ pc[d] # "undo"
    /\ pc[d] \in {"temp", "copy"} => opened[d] = path["table"]
    /\ pc[d] = "write" => Good(rows[d])
    /\ pc[d] = "remove" => Good(data[path["temp"]])
    /\ pc[d] = "rename" /\ path["table"] # NoFile => Disturbed(data[path["table"]])

ContentInv ==
    Sequential =>
        /\ Home # NoFile
        /\ Good(data[Home])
        /\ \A d \in Deletes : Running(d) => Rewriting(d)

\* The id an INSERT chooses is above those of the rows answered before it.
Choosing(i) ==
    /\ pc[i] = "load" => opened[i] = path["table"]
    /\ pc[i] = "flush" => written[i] = path["table"]
    /\ \A n \in DOMAIN data[path["table"]] :
         LET row == data[path["table"]][n]
         IN  Apart(row.by) /\ Earlier(row.by, i) =>
               /\ pc[i] = "append" => \E m \in DOMAIN rows[i] : rows[i][m].id = row.id
               /\ pc[i] = "flush" => row.id < rows[i][1].id

InsertInv == Sequential => \A i \in Inserts : Running(i) /\ Apart(i) => Choosing(i)

\* A SELECT has read the rows answered before it.
Sees(s) ==
    \A q \in Inserters : Apart(q) /\ Unmatched(q) /\ Landed(q) /\ Earlier(q, s) =>
        AtMostOnce(q, rows[s]) /\ ~Absent(q, rows[s])

SelectInv ==
    Sequential => \A s \in Selects : Begun(s) /\ Apart(s) =>
        /\ Running(s) /\ pc[s] \in {"load", "read"} => opened[s] = path["table"]
        /\ pc[s] = "exit" => Sees(s)

-----------------------------------------------------------------------------
LEMMA Requested ==
    /\ Requests = Inserts \cup Deletes \cup Selects
    /\ Inserts \cap Deletes = {} /\ Inserts \cap Selects = {} /\ Deletes \cap Selects = {}
    /\ Inode = Requests \cup {"first"} /\ "first" \notin Requests /\ NoFile \notin Inode
    /\ Inserts \subseteq Inserters
BY RequestsAssumption, NoFileAssumption DEF Requests, Inode, Inserters

LEMMA KeptIsPart ==
    ASSUME NEW D, NEW source \in Seq(D), NEW d
    PROVE  Kept(d, source) \in Seq(D)
BY AtPositionsType DEF Kept

LEMMA RowsOf ==
    ASSUME NEW s \in Seq(FileRow)
    PROVE  /\ DOMAIN s = 1 .. Len(s) /\ Len(s) \in Nat
           /\ \A n \in DOMAIN s : s[n] \in FileRow
BY LenProperties, ElementOfSeq

LEMMA NextIdIsGreater ==
    ASSUME NEW s \in Seq(FileRow)
    PROVE  /\ NextId(s) \in Nat \ {0}
           /\ \A n \in DOMAIN s : s[n].id < NextId(s)
<1> DEFINE above == {s[n].id + 1 : n \in DOMAIN s}
<1>1. DOMAIN s = 1 .. Len(s) /\ Len(s) \in Nat /\ \A n \in DOMAIN s : s[n].id \in Nat \ {0}
  BY RowsOf DEF FileRow
<1>2. IsFiniteSet(DOMAIN s)
  BY <1>1, FS_Interval
<1>3. IsFiniteSet(above)
  <2> DEFINE f == [n \in DOMAIN s |-> s[n].id + 1]
  <2>1. f \in Surjection(DOMAIN s, above)
    BY DEF Surjection
  <2> HIDE DEF f, above
  <2> QED
    BY <1>2, <2>1, FS_Surjection
<1>4. IsFiniteSet(above \cup {1}) /\ above \cup {1} = {1} \cup above
  BY <1>3, FS_AddElement
<1>5. {1} \cup above \in SUBSET Int /\ {1} \cup above # {}
  BY <1>1
<1>6. Max({1} \cup above) \in {1} \cup above /\ \A x \in {1} \cup above : x <= Max({1} \cup above)
  BY <1>4, <1>5, MaxIsGreatest
<1>7. NextId(s) = Max({1} \cup above)
  BY DEF NextId
<1>8. \A n \in DOMAIN s : s[n].id + 1 \in above
  OBVIOUS
<1> HIDE DEF above
<1> DEFINE next == NextId(s)
<1>9. next \in Int /\ 1 <= next /\ \A x \in above : x <= next
  BY <1>5, <1>6, <1>7
<1> HIDE DEF next
<1>10. \A n \in DOMAIN s : s[n].id < next
  BY <1>1, <1>8, <1>9
<1> QED
  BY <1>9, <1>10 DEF next

LEMMA OneRow ==
    ASSUME NEW r \in Inserts, NEW id \in Nat \ {0}
    PROVE  <<Row(id, r)>> \in Seq(FileRow)
BY Requested DEF Row, FileRow

LEMMA OverwriteType ==
    ASSUME NEW new \in Seq(FileRow), NEW old \in Seq(FileRow)
    PROVE  /\ new \o SubSeq(old, Len(new) + 1, Len(old)) \in Seq(FileRow)
           /\ old = <<>> => new \o SubSeq(old, Len(new) + 1, Len(old)) = new
           /\ \A q : Absent(q, new) /\ Absent(q, old) =>
                Absent(q, new \o SubSeq(old, Len(new) + 1, Len(old)))
<1> DEFINE tail == SubSeq(old, Len(new) + 1, Len(old))
<1>1. Len(new) \in Nat /\ Len(old) \in Nat /\ DOMAIN old = 1 .. Len(old) /\ DOMAIN new = 1 .. Len(new)
  BY RowsOf
<1>2. \A i \in Len(new) + 1 .. Len(old) : old[i] \in FileRow /\ i \in DOMAIN old
  BY <1>1, ElementOfSeq
<1>3. /\ tail \in Seq(FileRow)
      /\ Len(tail) = IF Len(new) + 1 <= Len(old) THEN Len(old) - (Len(new) + 1) + 1 ELSE 0
      /\ \A i \in 1 .. Len(old) - (Len(new) + 1) + 1 : tail[i] = old[Len(new) + 1 + i - 1]
  BY <1>1, <1>2, SubSeqProperties
<1>4. /\ new \o tail \in Seq(FileRow)
      /\ Len(new \o tail) = Len(new) + Len(tail)
      /\ \A i \in 1 .. Len(new) + Len(tail) :
           (new \o tail)[i] = IF i <= Len(new) THEN new[i] ELSE tail[i - Len(new)]
  BY <1>3, ConcatProperties
<1>5. old = <<>> => new \o tail = new
  <2> SUFFICES ASSUME old = <<>> PROVE new \o tail = new
    OBVIOUS
  <2>1. Len(old) = 0
    BY EmptySeq
  <2>2. tail = <<>>
    BY <1>1, <2>1, SubSeqEmpty
  <2> QED
    BY <2>2, ConcatEmptySeq
<1> HIDE DEF tail
<1>6. ASSUME NEW q, Absent(q, new), Absent(q, old) PROVE Absent(q, new \o tail)
  <2> SUFFICES ASSUME NEW n \in DOMAIN (new \o tail) PROVE (new \o tail)[n].by # q
    BY DEF Absent
  <2>1. n \in 1 .. Len(new) + Len(tail) /\ Len(tail) \in Nat
    BY <1>3, <1>4, RowsOf
  <2>2. CASE n <= Len(new)
    BY <1>1, <1>4, <1>6, <2>1, <2>2 DEF Absent
  <2>3. CASE n > Len(new)
    <3>1. n - Len(new) \in 1 .. Len(tail)
      BY <1>1, <2>1, <2>3
    <3>2. Len(new) + 1 <= Len(old) /\ Len(tail) = Len(old) - Len(new)
      <4>1. Len(tail) = IF Len(new) + 1 <= Len(old) THEN Len(old) - (Len(new) + 1) + 1 ELSE 0
        BY <1>3
      <4>2. Len(tail) # 0
        BY <2>1, <2>3, <3>1
      <4>3. Len(new) + 1 <= Len(old)
        BY <4>1, <4>2
      <4>4. Len(tail) = Len(old) - (Len(new) + 1) + 1
        BY <4>1, <4>3
      <4> QED
        BY <1>1, <4>3, <4>4
    <3>3. n \in DOMAIN old /\ n - Len(new) \in 1 .. Len(old) - (Len(new) + 1) + 1
      BY <1>1, <2>1, <2>3, <3>1, <3>2
    <3>4. tail[n - Len(new)] = old[Len(new) + 1 + (n - Len(new)) - 1]
      BY <1>3, <3>3
    <3>5. Len(new) + 1 + (n - Len(new)) - 1 = n
      BY <1>1, <2>1
    <3>6. tail[n - Len(new)] = old[n] /\ n \in DOMAIN old
      BY <3>3, <3>4, <3>5
    <3> QED
      BY <1>1, <1>4, <1>6, <2>1, <2>3, <3>6 DEF Absent
  <2> QED
    BY <1>1, <2>1, <2>2, <2>3
<1> QED
  BY <1>4, <1>5, <1>6 DEF tail

LEMMA StoredRows ==
    LET first == [n \in DOMAIN Stored |-> Row(n, Stored[n])]
    IN  first \in Seq(FileRow)
<1>1. Len(Stored) \in Nat /\ DOMAIN Stored = 1 .. Len(Stored)
  BY StoredAssumption, LenProperties
<1>2. \A n \in DOMAIN Stored : Stored[n] \in Inserters
  BY DEF Inserters, Range
<1>3. \A n \in DOMAIN Stored : Row(n, Stored[n]) \in FileRow
  BY <1>1, <1>2 DEF Row, FileRow
<1> QED
  BY <1>1, <1>3, SeqDef

LEMMA InitTypes == Init => TypeInv
<1> SUFFICES ASSUME Init PROVE TypeInv
  OBVIOUS
<1> DEFINE first == [n \in DOMAIN Stored |-> Row(n, Stored[n])]
<1>1. first \in Seq(FileRow) /\ <<>> \in Seq(FileRow)
  BY StoredRows
<1>2. data = [i \in Inode |-> IF i = "first" THEN first ELSE <<>>]
  BY DEF Init, Inode
<1> HIDE DEF first
<1>3. data \in [Inode -> Seq(FileRow)]
  BY <1>1, <1>2
<1> QED
  BY <1>1, <1>3 DEF Init, TypeInv, Inode, Steps

LEMMA InitSteps == Init => StepsInv /\ HistoryInv /\ InodeInv
BY Requested DEF Init, StepsInv, InStep, HistoryInv, InodeInv, Inode, Unused, Created

LEMMA TypeStep ==
    ASSUME TypeInv, StepsInv, NEW r \in Requests, Step(r) \/ Kill(r)
    PROVE  TypeInv'
<1> USE DEF TypeInv, At, Goto, Ends, Files, Handles
<1>0. path["table"] \in Inode \cup {NoFile} /\ path["temp"] \in Inode \cup {NoFile} /\ r \in Inode
  BY DEF Inode
<1>1. CASE Begin(r)
  BY <1>1 DEF Begin, Steps
<1>2. CASE Look(r)
  BY <1>2 DEF Look, Steps
<1>3. CASE Build(r)
  BY <1>3 DEF Build, Steps
<1>4. CASE OpenForIndex(r)
  <2>1. CASE path["table"] = NoFile
    BY <1>0, <1>4, <2>1 DEF OpenForIndex, NoIndex, OpensTable, Steps
  <2>2. CASE ~(path["table"] = NoFile)
    BY <1>0, <1>4, <2>2 DEF OpenForIndex, NoIndex, OpensTable, Steps
  <2> QED
    BY <2>1, <2>2
<1>5. CASE Load(r)
  <2>1. data[opened[r]] \in Seq(FileRow)
    BY <1>5 DEF Load, StepsInv, InStep
  <2>2. /\ UNCHANGED <<path, data, opened, written, before>>
        /\ \/ rows' = [rows EXCEPT ![r] = data[opened[r]]]
           \/ rows' = rows
        /\ \/ outcome' = [outcome EXCEPT ![r] = "failed"] /\ pc' = pc
           \/ outcome' = outcome /\ \E step \in Steps : pc' = [pc EXCEPT ![r] = step]
    BY <1>5 DEF Load, NoIndex, Steps
  <2> QED
    BY <2>1, <2>2
<1>6. CASE OpenForScan(r)
  <2>1. CASE path["table"] = NoFile
    BY <1>0, <1>6, <2>1 DEF OpenForScan, OpensTable, Steps
  <2>2. CASE ~(path["table"] = NoFile)
    BY <1>0, <1>6, <2>2 DEF OpenForScan, OpensTable, Steps
  <2> QED
    BY <2>1, <2>2
<1>7. CASE Read(r)
  BY <1>7 DEF Read, StepsInv, InStep, Steps
<1>8. CASE OpenAppend(r)
  <2> DEFINE inode == IF path["table"] = NoFile THEN r ELSE path["table"]
             line == <<Row(NextId(rows[r]), r)>>
  <2>1. inode \in Inode \cup {NoFile}
    BY <1>0
  <2>2. r \in Inserts
    BY <1>8, Requested DEF OpenAppend, StepsInv, InStep, DeleteSteps, SelectSteps
  <2>3. line \in Seq(FileRow)
    BY <2>2, NextIdIsGreater, OneRow
  <2>4. /\ path' = [path EXCEPT !["table"] = inode]
        /\ written' = [written EXCEPT ![r] = inode]
        /\ rows' = [rows EXCEPT ![r] = line]
        /\ pc' = [pc EXCEPT ![r] = "flush"]
        /\ UNCHANGED <<data, opened, outcome, before>>
    BY <1>8 DEF OpenAppend
  <2> HIDE DEF inode, line
  <2> QED
    BY <2>1, <2>3, <2>4 DEF Steps
<1>9. CASE Flush(r)
  BY <1>9, ConcatProperties DEF Flush, Appended, StepsInv, InStep, Steps
<1>10. CASE Clear(r)
  BY <1>10 DEF Clear, Steps
<1>11. CASE OpenSource(r)
  <2>1. CASE path["table"] = NoFile
    BY <1>0, <1>11, <2>1 DEF OpenSource, OpensTable, Steps
  <2>2. CASE ~(path["table"] = NoFile)
    BY <1>0, <1>11, <2>2 DEF OpenSource, OpensTable, Steps
  <2> QED
    BY <2>1, <2>2
<1>12. CASE OpenTemp(r)
  BY <1>0, <1>12 DEF OpenTemp, Steps
<1>13. CASE Copy(r)
  BY <1>13, KeptIsPart DEF Copy, StepsInv, InStep, Steps
<1>14. CASE WriteTemp(r)
  BY <1>14, OverwriteType DEF WriteTemp, StepsInv, InStep, Steps
<1>15. CASE RemoveTable(r)
  BY <1>15 DEF RemoveTable, Steps
<1>16. CASE RenameTemp(r)
  <2>1. Renamed(path) \in [{"table", "temp"} -> Inode \cup {NoFile}]
    BY <1>0 DEF Renamed
  <2>2. /\ path' = Renamed(path) \/ path' = path
        /\ \E step \in Steps : pc' = [pc EXCEPT ![r] = step]
        /\ UNCHANGED <<data, opened, written, rows, outcome, before>>
    BY <1>16 DEF RenameTemp, Steps
  <2> HIDE DEF Renamed
  <2> QED
    BY <2>1, <2>2
<1>17. CASE Undo(r)
  BY <1>17 DEF Undo
<1>18. CASE Exit(r)
  BY <1>18 DEF Exit
<1>19. CASE Kill(r)
  BY <1>19 DEF Kill
<1> QED
  BY <1>1, <1>2, <1>3, <1>4, <1>5, <1>6, <1>7, <1>8, <1>9, <1>10, <1>11, <1>12, <1>13, <1>14,
     <1>15, <1>16, <1>17, <1>18, <1>19 DEF Step

\* A step changes nothing that belongs to another request.
LEMMA OnlyItsOwn ==
    ASSUME TypeInv, NEW r \in Requests, Step(r) \/ Kill(r), NEW q \in Requests, q # r
    PROVE  /\ pc'[q] = pc[q] /\ outcome'[q] = outcome[q] /\ before'[q] = before[q]
           /\ opened'[q] = opened[q] /\ written'[q] = written[q] /\ rows'[q] = rows[q]
<1> USE DEF TypeInv, At, Goto, Ends, Files, Handles
<1>1. CASE Begin(r) \/ Look(r) \/ Build(r)
  BY <1>1 DEF Begin, Look, Build
<1>2. CASE OpenForIndex(r) \/ Load(r) \/ OpenForScan(r) \/ Read(r)
  BY <1>2 DEF OpenForIndex, Load, OpenForScan, Read, NoIndex, OpensTable
<1>3. CASE OpenAppend(r) \/ Flush(r)
  BY <1>3 DEF OpenAppend, Flush
<1>4. CASE Clear(r) \/ OpenSource(r) \/ OpenTemp(r)
  BY <1>4 DEF Clear, OpenSource, OpenTemp, OpensTable
<1>5. CASE Copy(r) \/ WriteTemp(r) \/ RemoveTable(r) \/ RenameTemp(r)
  BY <1>5 DEF Copy, WriteTemp, RemoveTable, RenameTemp
<1>6. CASE Undo(r) \/ Exit(r) \/ Kill(r)
  BY <1>6 DEF Undo, Exit, Kill
<1> QED
  BY <1>1, <1>2, <1>3, <1>4, <1>5, <1>6 DEF Step

LEMMA StepsStep ==
    ASSUME TypeInv, StepsInv, NEW r \in Requests, Step(r) \/ Kill(r)
    PROVE  StepsInv'
<1> USE DEF TypeInv, At, Goto, Ends, Files, Handles
<1>0. InStep(r) /\ path["table"] \in Inode \cup {NoFile} /\ path["temp"] \in Inode \cup {NoFile}
  BY DEF StepsInv
<1>a. r \in Inode /\ r # NoFile
  BY Requested
<1> SUFFICES InStep(r)'
  <2>1. \A q \in Requests : q # r => InStep(q)'
    <3> SUFFICES ASSUME NEW q \in Requests, q # r PROVE InStep(q)'
      OBVIOUS
    <3> QED
      BY OnlyItsOwn DEF StepsInv, InStep
  <2> QED
    BY <2>1 DEF StepsInv
<1> USE DEF InStep, InsertSteps, DeleteSteps, SelectSteps
<1>1. CASE Begin(r)
  BY <1>0, <1>1, Requested DEF Begin
<1>2. CASE Look(r)
  BY <1>0, <1>2, Requested DEF Look
<1>3. CASE Build(r)
  BY <1>0, <1>3, Requested DEF Build
<1>4. CASE OpenForIndex(r)
  BY <1>0, <1>4, Requested DEF OpenForIndex, NoIndex, OpensTable
<1>5. CASE Load(r)
  BY <1>0, <1>5, Requested DEF Load, NoIndex
<1>6. CASE OpenForScan(r)
  BY <1>0, <1>6, Requested DEF OpenForScan, OpensTable
<1>7. CASE Read(r)
  BY <1>0, <1>7, Requested DEF Read
<1>8. CASE OpenAppend(r)
  BY <1>0, <1>a, <1>8, Requested DEF OpenAppend, Row
<1>9. CASE Flush(r)
  BY <1>0, <1>9, Requested DEF Flush
<1>10. CASE Clear(r)
  BY <1>0, <1>10, Requested DEF Clear
<1>11. CASE OpenSource(r)
  BY <1>0, <1>11, Requested DEF OpenSource, OpensTable
<1>12. CASE OpenTemp(r)
  BY <1>0, <1>a, <1>12, Requested DEF OpenTemp
<1>13. CASE Copy(r)
  BY <1>0, <1>13, Requested DEF Copy
<1>14. CASE WriteTemp(r)
  BY <1>0, <1>14, Requested DEF WriteTemp
<1>15. CASE RemoveTable(r)
  BY <1>0, <1>15, Requested DEF RemoveTable
<1>16. CASE RenameTemp(r)
  BY <1>0, <1>16, Requested DEF RenameTemp
<1>17. CASE Undo(r)
  BY <1>0, <1>17, Requested DEF Undo
<1>18. CASE Exit(r)
  BY <1>0, <1>18, Requested DEF Exit
<1>19. CASE Kill(r)
  BY <1>0, <1>19, Requested DEF Kill
<1> QED
  BY <1>1, <1>2, <1>3, <1>4, <1>5, <1>6, <1>7, <1>8, <1>9, <1>10, <1>11, <1>12, <1>13, <1>14,
     <1>15, <1>16, <1>17, <1>18, <1>19 DEF Step

LEMMA HistoryStep ==
    ASSUME TypeInv, StepsInv, HistoryInv, NEW r \in Requests, Step(r) \/ Kill(r)
    PROVE  HistoryInv'
<1> USE DEF TypeInv, At, Goto, Ends, Files, Handles, HistoryInv
<1>1. CASE Begin(r)
  BY <1>1 DEF Begin
<1>2. CASE ~Begin(r)
  <2>1. before' = before
    BY <1>2 DEF Step, Kill, Look, Build, OpenForIndex, Load, OpenForScan, Read, OpenAppend, Flush,
                Clear, OpenSource, OpenTemp, Copy, WriteTemp, RemoveTable, RenameTemp, Undo, Exit
  <2>2. outcome[r] = "none"
    BY <1>2 DEF Step, Kill, Look, Build, OpenForIndex, Load, OpenForScan, Read, OpenAppend, Flush,
                Clear, OpenSource, OpenTemp, Copy, WriteTemp, RemoveTable, RenameTemp, Undo, Exit
  <2>3. \A q \in Requests : outcome[q] # "none" => outcome'[q] # "none"
    BY <2>2, OnlyItsOwn
  <2> QED
    BY <2>1, <2>3
<1> QED
  BY <1>1, <1>2

LEMMA InodeStep ==
    ASSUME TypeInv, StepsInv, InodeInv, NEW r \in Requests, Step(r) \/ Kill(r)
    PROVE  InodeInv'
<1> USE DEF At, Goto, Ends, Files, Handles
<1>0. InStep(r) /\ path["table"] \in Inode \cup {NoFile} /\ path["temp"] \in Inode \cup {NoFile}
  BY DEF StepsInv, TypeInv
<1>a. r \in Inode /\ r # NoFile
  BY Requested
<1>b. ASSUME UNCHANGED <<path, data, written>>,
             opened' = opened \/ opened' = [opened EXCEPT ![r] = path["table"]],
             \A x \in Requests : Created(x) => Created(x)'
      PROVE  InodeInv'
  <2>1. ASSUME NEW x \in Requests, ~Created(x)' \/ x \in Selects PROVE Unused(x)'
    <3>1. Unused(x)
      BY <1>b, <2>1 DEF InodeInv
    <3>2. \A q \in Requests : opened'[q] # x
      BY <1>b, <3>1 DEF Unused, TypeInv
    <3> QED
      BY <1>b, <3>1, <3>2 DEF Unused
  <2> QED
    BY <1>b, <2>1 DEF InodeInv
<1>c. ASSUME NEW step, pc' = pc \/ pc' = [pc EXCEPT ![r] = step],
             pc[r] \notin {"flush", "copy", "write", "remove", "rename", "undo", "exit"}
      PROVE  \A x \in Requests : Created(x) => Created(x)'
  BY <1>c DEF Created, TypeInv
<1>1. CASE Begin(r)
  BY <1>1, <1>b, <1>c DEF Begin
<1>2. CASE Look(r)
  BY <1>2, <1>b, <1>c DEF Look
<1>3. CASE Build(r)
  BY <1>3, <1>b, <1>c DEF Build
<1>4. CASE OpenForIndex(r)
  <2>1. /\ pc[r] = "open" /\ UNCHANGED <<path, data, written>>
        /\ opened' = opened \/ opened' = [opened EXCEPT ![r] = path["table"]]
    BY <1>4 DEF OpenForIndex, NoIndex, OpensTable
  <2>2. \E step : pc' = pc \/ pc' = [pc EXCEPT ![r] = step]
    BY <1>4 DEF OpenForIndex, NoIndex, OpensTable
  <2> QED
    BY <2>1, <2>2, <1>b, <1>c
<1>5. CASE Load(r)
  <2>1. pc[r] = "load" /\ UNCHANGED <<path, data, opened, written>>
    BY <1>5 DEF Load
  <2>2. \E step : pc' = pc \/ pc' = [pc EXCEPT ![r] = step]
    BY <1>5 DEF Load, NoIndex
  <2> QED
    BY <2>1, <2>2, <1>b, <1>c
<1>6. CASE OpenForScan(r)
  <2>1. /\ pc[r] = "scan" /\ UNCHANGED <<path, data, written>>
        /\ opened' = opened \/ opened' = [opened EXCEPT ![r] = path["table"]]
    BY <1>6 DEF OpenForScan, OpensTable
  <2>2. \E step : pc' = pc \/ pc' = [pc EXCEPT ![r] = step]
    BY <1>6 DEF OpenForScan, OpensTable
  <2> QED
    BY <2>1, <2>2, <1>b, <1>c
<1>7. CASE Read(r)
  BY <1>7, <1>b, <1>c DEF Read
<1>11. CASE OpenSource(r)
  <2>1. /\ pc[r] = "source" /\ UNCHANGED <<path, data, written>>
        /\ opened' = opened \/ opened' = [opened EXCEPT ![r] = path["table"]]
    BY <1>11 DEF OpenSource, OpensTable
  <2>2. \E step : pc' = pc \/ pc' = [pc EXCEPT ![r] = step]
    BY <1>11 DEF OpenSource, OpensTable
  <2> QED
    BY <2>1, <2>2, <1>b, <1>c
<1>18. CASE Exit(r) \/ Kill(r)
  <2>1. UNCHANGED <<path, data, written, opened, pc>>
    BY <1>18 DEF Exit, Kill
  <2>2. \A x \in Requests : Created(x) => Created(x)'
    BY <2>1 DEF Created
  <2> QED
    BY <2>1, <2>2, <1>b
<1> USE DEF InStep, InsertSteps, DeleteSteps, SelectSteps, InodeInv, TypeInv, Created, Unused
<1>8. CASE OpenAppend(r)
  <2>1. r \notin Selects /\ pc[r] = "append"
    BY <1>0, <1>8, Requested DEF OpenAppend
  <2>2. PICK inode : inode = IF path["table"] = NoFile THEN r ELSE path["table"]
    OBVIOUS
  <2>3. /\ path' = [path EXCEPT !["table"] = inode] /\ written' = [written EXCEPT ![r] = inode]
        /\ pc' = [pc EXCEPT ![r] = "flush"] /\ UNCHANGED <<data, opened>>
    BY <1>8, <2>2 DEF OpenAppend
  <2>4. inode \in Inode /\ inode # path["temp"]
    <3>1. CASE path["table"] = NoFile
      BY <1>a, <2>1, <2>2, <3>1
    <3>2. CASE path["table"] # NoFile
      BY <1>0, <2>2, <3>2
    <3> QED
      BY <3>1, <3>2
  <2>5. path'["table"] = inode /\ path'["temp"] = path["temp"]
    BY <2>3
  <2>6. \A x \in Requests : ~Created(x)' \/ x \in Selects => Unused(x)'
    <3> SUFFICES ASSUME NEW x \in Requests, ~Created(x)' \/ x \in Selects PROVE Unused(x)'
      OBVIOUS
    <3>1. x # r
      BY <2>1, <2>3
    <3>2. Unused(x)
      BY <2>3, <3>1
    <3>3. x # inode
      BY <2>2, <3>1, <3>2
    <3>4. \A q \in Requests : opened'[q] # x /\ written'[q] # x
      BY <2>3, <3>2, <3>3
    <3> QED
      BY <2>3, <2>5, <3>2, <3>3, <3>4
  <2>7. \A q \in Inserts : written'[q] # NoFile => written'[q] # path'["temp"]
    BY <2>3, <2>4, <2>5, Requested
  <2> QED
    BY <2>4, <2>5, <2>6, <2>7
<1>9. CASE Flush(r)
  BY <1>0, <1>9, Requested DEF Flush
<1>10. CASE Clear(r)
  BY <1>0, <1>10, Requested DEF Clear
<1>12. CASE OpenTemp(r)
  <2>1. r \in Deletes /\ r \notin Inserts /\ r \notin Selects /\ pc[r] = "temp"
    BY <1>0, <1>12, Requested DEF OpenTemp
  <2>2. PICK inode : inode = IF path["temp"] = NoFile THEN r ELSE path["temp"]
    OBVIOUS
  <2>3. /\ path' = [path EXCEPT !["temp"] = inode] /\ data' = [data EXCEPT ![inode] = <<>>]
        /\ written' = [written EXCEPT ![r] = inode] /\ pc' = [pc EXCEPT ![r] = "copy"] /\ opened' = opened
    BY <1>12, <2>2 DEF OpenTemp
  <2>4. /\ inode \in Inode /\ inode # NoFile /\ inode # path["table"]
        /\ \A i \in Inserts : written[i] # NoFile => written[i] # inode
    <3>1. CASE path["temp"] = NoFile
      BY <1>a, <2>1, <2>2, <3>1, Requested
    <3>2. CASE path["temp"] # NoFile
      BY <1>0, <2>2, <3>2
    <3> QED
      BY <3>1, <3>2
  <2>5. path'["table"] = path["table"] /\ path'["temp"] = inode
    BY <2>3
  <2>6. \A x \in Requests : ~Created(x)' \/ x \in Selects => x # inode /\ x # r /\ Unused(x)
    <3> SUFFICES ASSUME NEW x \in Requests, ~Created(x)' \/ x \in Selects PROVE x # inode /\ x # r /\ Unused(x)
      OBVIOUS
    <3>1. x # r
      BY <2>1, <2>3
    <3>2. Unused(x)
      BY <2>3, <3>1
    <3>3. x # inode
      BY <2>2, <3>1, <3>2
    <3> QED
      BY <3>1, <3>2, <3>3
  <2>7. \A x \in Requests : ~Created(x)' \/ x \in Selects => Unused(x)'
    <3> SUFFICES ASSUME NEW x \in Requests, ~Created(x)' \/ x \in Selects PROVE Unused(x)'
      OBVIOUS
    <3>1. x # inode /\ x # r /\ Unused(x)
      BY <2>6
    <3>2. data'[x] = <<>> /\ x # path'["table"] /\ x # path'["temp"]
      BY <2>3, <2>5, <3>1, Requested
    <3>3. \A q \in Requests : opened'[q] # x /\ written'[q] # x
      BY <2>3, <3>1
    <3> QED
      BY <3>2, <3>3
  <2>8. \A i \in Inserts : written'[i] # NoFile => written'[i] # path'["temp"]
    BY <2>1, <2>3, <2>4, <2>5, Requested
  <2> QED
    BY <2>4, <2>5, <2>7, <2>8
<1>13. CASE Copy(r)
  BY <1>0, <1>13, Requested DEF Copy
<1>14. CASE WriteTemp(r)
  BY <1>0, <1>14, Requested DEF WriteTemp
<1>15. CASE RemoveTable(r)
  BY <1>0, <1>15, Requested DEF RemoveTable
<1>16. CASE RenameTemp(r)
  <2>1. CASE path["temp"] = NoFile
    <3>1. pc' = [pc EXCEPT ![r] = "undo"] /\ UNCHANGED <<path, data, opened, written>> /\ pc[r] = "rename"
      BY <1>16, <2>1 DEF RenameTemp
    <3> QED
      BY <1>0, <3>1
  <2>2. CASE path["temp"] # NoFile
    <3>1. path'["table"] = path["temp"] /\ path'["temp"] = NoFile
      BY <1>16, <2>2 DEF RenameTemp, Renamed
    <3>2. pc' = [pc EXCEPT ![r] = "exit"] /\ UNCHANGED <<data, opened, written>> /\ pc[r] = "rename"
      BY <1>16, <2>2 DEF RenameTemp
    <3>3. \A x \in Requests : x # NoFile
      BY Requested
    <3> QED
      BY <1>0, <2>2, <3>1, <3>2, <3>3, Requested
  <2> QED
    BY <2>1, <2>2
<1>17. CASE Undo(r)
  BY <1>0, <1>17, Requested DEF Undo
<1> QED
  BY <1>1, <1>2, <1>3, <1>4, <1>5, <1>6, <1>7, <1>8, <1>9, <1>10, <1>11, <1>12, <1>13, <1>14,
     <1>15, <1>16, <1>17, <1>18 DEF Step

-----------------------------------------------------------------------------
BasicInv == TypeInv /\ StepsInv /\ HistoryInv /\ InodeInv

\* Which steps reach the files.
LEMMA FilesOnlyBy ==
    ASSUME NEW r \in Requests, Step(r) \/ Kill(r)
    PROVE  /\ path' = path \/ OpenAppend(r) \/ Clear(r) \/ OpenTemp(r) \/ RemoveTable(r) \/ RenameTemp(r)
                \/ Undo(r)
           /\ data' = data \/ Flush(r) \/ OpenTemp(r) \/ WriteTemp(r)
BY DEF Files, Handles, Step, Kill, Begin, Look, Build, OpenForIndex, Load, OpenForScan, Read, OpenAppend,
       Flush, Clear, OpenSource, OpenTemp, Copy, WriteTemp, RemoveTable, RenameTemp, Undo, Exit

LEMMA Acting ==
    ASSUME BasicInv, NEW r \in Requests, Step(r) \/ Kill(r)
    PROVE  outcome[r] = "none" /\ pc'[r] # "idle"
<1> USE DEF BasicInv, TypeInv, At, Goto, Ends
<1>1. outcome[r] = "none"
  BY DEF Step, Kill, Begin, Look, Build, OpenForIndex, Load, OpenForScan, Read, OpenAppend, Flush,
         Clear, OpenSource, OpenTemp, Copy, WriteTemp, RemoveTable, RenameTemp, Undo, Exit
<1>2. pc'[r] # "idle"
  <2>1. CASE Begin(r) \/ Look(r) \/ Build(r) \/ OpenForIndex(r) \/ Load(r) \/ OpenForScan(r) \/ Read(r)
    BY <2>1 DEF Begin, Look, Build, OpenForIndex, Load, OpenForScan, Read, NoIndex, OpensTable
  <2>2. CASE OpenAppend(r) \/ Flush(r) \/ Clear(r) \/ OpenSource(r) \/ OpenTemp(r) \/ Copy(r)
    BY <2>2 DEF OpenAppend, Flush, Clear, OpenSource, OpenTemp, Copy, OpensTable
  <2>3. CASE WriteTemp(r) \/ RemoveTable(r) \/ RenameTemp(r) \/ Undo(r) \/ Exit(r) \/ Kill(r)
    BY <2>3 DEF WriteTemp, RemoveTable, RenameTemp, Undo, Exit, Kill
  <2> QED
    BY <2>1, <2>2, <2>3 DEF Step
<1> QED
  BY <1>1, <1>2

\* What a request had begun with stays, and so do the requests it overlaps.
LEMMA OverlapStays ==
    ASSUME BasicInv, NEW r \in Requests, Step(r) \/ Kill(r)
    PROVE  /\ \A q \in Requests : Begun(q) => Begun(q)' /\ before'[q] = before[q]
           /\ \A p, q : Overlap(p, q) => Overlap(p, q)'
           /\ \A d : Alone(d)' => Alone(d)
           /\ \A q : Apart(q)' => Apart(q)
           /\ \A q : Unmatched(q)' => Unmatched(q)
           /\ Sequential' => Sequential
<1>1. ASSUME NEW q \in Requests, Begun(q) PROVE Begun(q)' /\ before'[q] = before[q]
  <2>1. CASE q # r
    BY <1>1, <2>1, OnlyItsOwn DEF BasicInv, Begun
  <2>2. CASE q = r
    <3>1. ~Begin(r)
      BY <1>1, <2>2 DEF Begin, At, Begun
    <3>2. before' = before
      BY <3>1 DEF Step, Kill, Look, Build, OpenForIndex, Load, OpenForScan, Read, OpenAppend, Flush,
                  Clear, OpenSource, OpenTemp, Copy, WriteTemp, RemoveTable, RenameTemp, Undo, Exit
    <3> QED
      BY <2>2, <3>2, Acting DEF Begun
  <2> QED
    BY <2>1, <2>2
<1>2. ASSUME NEW p, NEW q, Overlap(p, q) PROVE Overlap(p, q)'
  BY <1>1, <1>2 DEF Overlap
<1>3. ASSUME NEW d \in Deletes, outcome[d] = "killed" PROVE outcome'[d] = "killed" /\ pc'[d] = pc[d]
  BY <1>3, Acting, OnlyItsOwn, Requested DEF BasicInv
<1>4. \A d : Alone(d)' => Alone(d)
  BY <1>2 DEF Alone
<1>5. \A q : Apart(q)' => Apart(q)
  BY <1>2 DEF Apart
<1>6. \A q : Unmatched(q)' => Unmatched(q)
  BY <1>1, Requested DEF Unmatched
<1>7. Sequential' => Sequential
  BY <1>3, <1>4 DEF Sequential
<1> QED
  BY <1>1, <1>2, <1>4, <1>5, <1>6, <1>7

LEMMA RunningOverlaps ==
    HistoryInv => \A p, q \in Requests : p # q /\ Running(p) /\ Running(q) => Overlap(p, q)
BY DEF HistoryInv, Running, Begun, Overlap

LEMMA RunningOverlapsNext ==
    HistoryInv' => \A p, q \in Requests : p # q /\ Running(p)' /\ Running(q)' => Overlap(p, q)'
<1>1. HistoryInv' => (\A p, q \in Requests : p # q /\ Running(p) /\ Running(q) => Overlap(p, q))'
  BY RunningOverlaps, PTL
<1> QED
  BY <1>1

\* A request that takes a step overlaps every other one that is running then.
LEMMA ActorOverlaps ==
    ASSUME BasicInv, NEW r \in Requests, Step(r) \/ Kill(r), HistoryInv',
           NEW q \in Requests, Running(q)', q # r
    PROVE  Running(q) /\ Overlap(q, r)' /\ Overlap(r, q)'
<1>1. Running(q)
  BY OnlyItsOwn DEF BasicInv, Running, Begun
<1>2. CASE pc[r] = "idle"
  <2>1. Begin(r)
    BY <1>2 DEF At, Step, Kill, Look, Build, OpenForIndex, Load, OpenForScan, Read, OpenAppend, Flush,
                Clear, OpenSource, OpenTemp, Copy, WriteTemp, RemoveTable, RenameTemp, Undo, Exit
  <2>2. Running(r)'
    BY <2>1, Acting DEF Begin, Running, Begun
  <2> QED
    BY <1>1, <2>2, RunningOverlapsNext
<1>3. CASE pc[r] # "idle"
  <2>1. Running(r)
    BY <1>3, Acting DEF Running, Begun
  <2>2. Overlap(q, r) /\ Overlap(r, q)
    BY <1>1, <2>1, RunningOverlaps DEF BasicInv
  <2> QED
    BY <1>1, <2>2, OverlapStays
<1> QED
  BY <1>2, <1>3

\* While a rewrite runs alone, whoever else takes a step is no rewrite.
LEMMA NoOtherRewrite ==
    ASSUME BasicInv, NEW r \in Requests, Step(r) \/ Kill(r), HistoryInv',
           NEW d \in Deletes, Running(d)', Alone(d)', r # d
    PROVE  /\ Running(d) /\ Alone(d)
           /\ r \notin Deletes
BY ActorOverlaps, OverlapStays, Requested DEF Alone

\* Requests that rewrite nothing leave the temp file alone.
LEMMA OthersLeaveTemp ==
    ASSUME BasicInv, NEW r \in Requests, Step(r) \/ Kill(r), r \notin Deletes
    PROVE  /\ path'["temp"] = path["temp"]
           /\ path["temp"] # NoFile => data'[path["temp"]] = data[path["temp"]]
           /\ path' = path \/ OpenAppend(r)
           /\ data' = data \/ Flush(r)
<1>1. InStep(r)
  BY DEF BasicInv, StepsInv
<1>2. pc[r] \notin {"clear", "source", "temp", "copy", "write", "remove", "rename", "undo"}
  BY <1>1, Requested DEF InStep, InsertSteps, SelectSteps
<1>3. /\ path' = path \/ OpenAppend(r)
      /\ data' = data \/ Flush(r)
  BY <1>2, FilesOnlyBy DEF At, Clear, OpenTemp, RemoveTable, RenameTemp, Undo, WriteTemp
<1>4. path'["temp"] = path["temp"]
  BY <1>3 DEF BasicInv, TypeInv, OpenAppend
<1>5. ASSUME path["temp"] # NoFile PROVE data'[path["temp"]] = data[path["temp"]]
  <2>1. CASE data' = data
    BY <2>1
  <2>2. CASE Flush(r)
    <3>1. r \in Inserts /\ written[r] # NoFile
      BY <1>1, <2>2, Requested DEF Flush, At, InStep, DeleteSteps, SelectSteps
    <3>2. written[r] # path["temp"]
      BY <3>1 DEF BasicInv, InodeInv
    <3> QED
      BY <2>2, <3>2, <1>5 DEF Flush, BasicInv, TypeInv
  <2> QED
    BY <1>3, <2>1, <2>2
<1> QED
  BY <1>3, <1>4, <1>5

LEMMA RewriteStep ==
    ASSUME BasicInv, RewriteInv, NEW r \in Requests, Step(r) \/ Kill(r), HistoryInv'
    PROVE  RewriteInv'
<1> SUFFICES ASSUME NEW d \in Deletes, Running(d)', Alone(d)' PROVE OwnTemp(d)'
  BY DEF RewriteInv
<1>1. CASE r # d
  <2>1. Running(d) /\ Alone(d) /\ r \notin Deletes
    BY <1>1, NoOtherRewrite
  <2>2. /\ path'["temp"] = path["temp"]
        /\ path["temp"] # NoFile => data'[path["temp"]] = data[path["temp"]]
    BY <2>1, OthersLeaveTemp
  <2>3. pc'[d] = pc[d] /\ written'[d] = written[d]
    BY <1>1, OnlyItsOwn, Requested DEF BasicInv
  <2> QED
    BY <2>1, <2>2, <2>3 DEF RewriteInv, OwnTemp
<1>2. CASE r = d
  <2> USE DEF BasicInv, TypeInv, At, Goto, Ends, Files, Handles
  <2>0. InStep(d) /\ d \in Requests /\ d # NoFile /\ d \in Inode
    BY Requested DEF StepsInv
  <2>1. pc[d] # "idle" => OwnTemp(d)
    <3>1. Alone(d) /\ outcome[d] = "none"
      BY <1>2, OverlapStays, Acting
    <3> QED
      BY <3>1 DEF RewriteInv, Running, Begun
  <2> USE DEF OwnTemp
  <2>2. CASE Begin(d)
    BY <2>0, <2>2 DEF Begin
  <2>3. CASE Clear(d)
    BY <2>0, <2>3 DEF Clear
  <2>4. CASE OpenSource(d)
    BY <2>0, <2>1, <2>4 DEF OpenSource, OpensTable, Running
  <2>5. CASE OpenTemp(d)
    BY <2>0, <2>1, <2>5 DEF OpenTemp
  <2>6. CASE Copy(d)
    BY <2>0, <2>1, <2>6 DEF Copy
  <2>7. CASE WriteTemp(d)
    BY <2>0, <2>1, <2>7 DEF WriteTemp
  <2>8. CASE RemoveTable(d)
    BY <2>0, <2>1, <2>8 DEF RemoveTable
  <2>9. CASE RenameTemp(d)
    BY <2>0, <2>1, <2>9 DEF RenameTemp
  <2>10. CASE Undo(d) \/ Exit(d) \/ Kill(d)
    BY <2>0, <2>1, <2>10 DEF Undo, Exit, Kill, Running
  <2>11. pc[d] \notin InsertSteps /\ pc[d] \notin SelectSteps
    BY <2>0 DEF InStep, DeleteSteps, InsertSteps, SelectSteps
  <2> QED
    BY <1>2, <2>2, <2>3, <2>4, <2>5, <2>6, <2>7, <2>8, <2>9, <2>10, <2>11
    DEF Step, Look, Build, OpenForIndex, Load, OpenForScan, Read, OpenAppend, Flush, InsertSteps, SelectSteps
<1> QED
  BY <1>1, <1>2

-----------------------------------------------------------------------------
(***************************************************************************)
(* What a row of the table can become: an appended line is one row more, a *)
(* copy has the rows that do not match, each once.                         *)
(***************************************************************************)
LEMMA AppendedRow ==
    ASSUME NEW s \in Seq(FileRow), NEW row \in FileRow
    PROVE  /\ Appended(s, <<row>>) \in Seq(FileRow)
           /\ DOMAIN Appended(s, <<row>>) = 1 .. Len(s) + 1
           /\ DOMAIN s = 1 .. Len(s) /\ Len(s) \in Nat
           /\ \A n \in DOMAIN s : Appended(s, <<row>>)[n] = s[n]
           /\ Appended(s, <<row>>)[Len(s) + 1] = row
<1>1. <<row>> \in Seq(FileRow) /\ Len(<<row>>) = 1 /\ <<row>>[1] = row
  OBVIOUS
<1>2. DOMAIN s = 1 .. Len(s) /\ Len(s) \in Nat
  BY RowsOf
<1>3. /\ s \o <<row>> \in Seq(FileRow)
      /\ Len(s \o <<row>>) = Len(s) + Len(<<row>>)
      /\ \A i \in 1 .. Len(s) + Len(<<row>>) :
           (s \o <<row>>)[i] = IF i <= Len(s) THEN s[i] ELSE <<row>>[i - Len(s)]
  BY <1>1, ConcatProperties
<1>4. DOMAIN (s \o <<row>>) = 1 .. Len(s) + 1
  BY <1>1, <1>3, LenProperties
<1>5. \A n \in DOMAIN s : (s \o <<row>>)[n] = s[n]
  BY <1>1, <1>2, <1>3
<1>6. (s \o <<row>>)[Len(s) + 1] = row
  BY <1>1, <1>2, <1>3
<1> QED
  BY <1>2, <1>3, <1>4, <1>5, <1>6 DEF Appended

LEMMA AbsentFromEmpty == \A q : Absent(q, <<>>)
BY DEF Absent

LEMMA AbsentAppended ==
    ASSUME NEW s \in Seq(FileRow), NEW row \in FileRow, NEW q
    PROVE  Absent(q, Appended(s, <<row>>)) <=> Absent(q, s) /\ row.by # q
<1> DEFINE a == Appended(s, <<row>>)
<1>1. /\ DOMAIN a = 1 .. Len(s) + 1 /\ DOMAIN s = 1 .. Len(s) /\ Len(s) \in Nat
      /\ \A n \in DOMAIN s : a[n] = s[n]
      /\ a[Len(s) + 1] = row
  BY AppendedRow
<1> HIDE DEF a
<1>2. \A n \in DOMAIN a : n \in DOMAIN s \/ n = Len(s) + 1
  BY <1>1
<1>3. \A n \in DOMAIN s : n \in DOMAIN a
  BY <1>1
<1>4. Len(s) + 1 \in DOMAIN a
  BY <1>1
<1>5. Absent(q, a) <=> Absent(q, s) /\ row.by # q
  BY <1>1, <1>2, <1>3, <1>4 DEF Absent
<1> QED
  BY <1>5 DEF a

LEMMA KeptRows ==
    ASSUME NEW s \in Seq(FileRow), NEW d
    PROVE  \E place \in [DOMAIN Kept(d, s) -> DOMAIN s] :
             /\ \A n \in DOMAIN Kept(d, s) : Kept(d, s)[n] = s[place[n]]
             /\ \A n \in DOMAIN Kept(d, s) : s[place[n]].by \notin Matching[d]
             /\ \A m, n \in DOMAIN Kept(d, s) : place[m] = place[n] => m = n
             /\ \A p \in DOMAIN s : s[p].by \notin Matching[d] =>
                  \E n \in DOMAIN Kept(d, s) : place[n] = p
<1> DEFINE ps == {n \in DOMAIN s : s[n].by \notin Matching[d]}
           k == Kept(d, s)
<1>1. k = AtPositions(s, ps)
  BY DEF Kept
<1> HIDE DEF k
<1>2. ps \in SUBSET DOMAIN s /\ \A p \in ps : s[p].by \notin Matching[d]
  OBVIOUS
<1>a. \A p \in DOMAIN s : s[p].by \notin Matching[d] => p \in ps
  OBVIOUS
<1> HIDE DEF ps
<1>3. PICK place \in [DOMAIN k -> ps] :
        /\ \A n \in DOMAIN k : k[n] = s[place[n]]
        /\ \A m, n \in DOMAIN k : place[m] = place[n] => m = n
        /\ \A p \in ps : \E n \in DOMAIN k : place[n] = p
  <2>1. \E place \in [DOMAIN AtPositions(s, ps) -> ps] :
          /\ \A n \in DOMAIN AtPositions(s, ps) : AtPositions(s, ps)[n] = s[place[n]]
          /\ \A m, n \in DOMAIN AtPositions(s, ps) : place[m] = place[n] => m = n
          /\ \A p \in ps : \E n \in DOMAIN AtPositions(s, ps) : place[n] = p
    BY <1>2, AtPositionsPlaces
  <2> QED
    BY <1>1, <2>1
<1>4. place \in [DOMAIN k -> DOMAIN s]
  BY <1>2, <1>3
<1>5. \A n \in DOMAIN k : s[place[n]].by \notin Matching[d]
  BY <1>2, <1>3
<1>6. \A p \in DOMAIN s : s[p].by \notin Matching[d] => \E n \in DOMAIN k : place[n] = p
  BY <1>a, <1>3
<1> USE <1>3, <1>4, <1>5, <1>6 DEF k
<1> WITNESS place \in [DOMAIN k -> DOMAIN s]
<1> QED
  OBVIOUS

LEMMA AbsentKept ==
    ASSUME NEW s \in Seq(FileRow), NEW d, NEW q
    PROVE  Absent(q, Kept(d, s)) <=> Absent(q, s) \/ q \in Matching[d]
<1> DEFINE k == Kept(d, s)
<1>1. PICK place \in [DOMAIN k -> DOMAIN s] :
             /\ \A n \in DOMAIN k : k[n] = s[place[n]]
             /\ \A n \in DOMAIN k : s[place[n]].by \notin Matching[d]
             /\ \A p \in DOMAIN s : s[p].by \notin Matching[d] => \E n \in DOMAIN k : place[n] = p
  BY KeptRows
<1> HIDE DEF k
<1>2. Absent(q, k) <=> Absent(q, s) \/ q \in Matching[d]
  BY <1>1 DEF Absent
<1> QED
  BY <1>2 DEF k

-----------------------------------------------------------------------------
(***************************************************************************)
(* A row that is nowhere left cannot come back: its INSERT is over, and    *)
(* every copy is made of files that do not have it.                        *)
(***************************************************************************)
LEMMA NowhereLeftStays ==
    ASSUME BasicInv, NEW r \in Requests, Step(r) \/ Kill(r),
           NEW q, q # r, NowhereLeft(q)
    PROVE  NowhereLeft(q)'
<1> USE DEF At, Goto, Ends, Files, Handles
<1>0. /\ InStep(r) /\ r # NoFile /\ r \in Inode
      /\ path["table"] \in Inode \cup {NoFile} /\ path["temp"] \in Inode \cup {NoFile}
      /\ outcome[r] = "none"
  BY Requested, Acting DEF BasicInv, TypeInv, StepsInv
<1>1. ASSUME NEW i \in Inode, Absent(q, data[i]) PROVE Absent(q, data'[i])
  <2>1. CASE data' = data
    BY <1>1, <2>1
  <2>2. CASE Flush(r)
    <3>1. rows[r] = <<rows[r][1]>> /\ rows[r][1].by = r /\ rows[r][1] \in FileRow
      <4>1. rows[r] = <<rows[r][1]>> /\ rows[r][1].by = r /\ rows[r] \in Seq(FileRow)
        BY <1>0, <2>2 DEF Flush, InStep, BasicInv, TypeInv
      <4>2. 1 \in 1 .. Len(rows[r])
        BY <4>1
      <4> QED
        BY <4>1, <4>2, ElementOfSeq
    <3>2. data' = [data EXCEPT ![written[r]] = Appended(data[written[r]], rows[r])]
      BY <2>2 DEF Flush
    <3>3. data[i] \in Seq(FileRow) /\ data \in [Inode -> Seq(FileRow)]
      BY DEF BasicInv, TypeInv
    <3>4. Absent(q, Appended(data[i], <<rows[r][1]>>))
      BY <1>1, <3>1, <3>3, AbsentAppended
    <3> QED
      BY <1>1, <3>1, <3>2, <3>3, <3>4
  <2>3. CASE OpenTemp(r)
    BY <1>1, <2>3, AbsentFromEmpty DEF OpenTemp, BasicInv, TypeInv
  <2>4. CASE WriteTemp(r)
    <3>1. r \in Deletes /\ Running(r) /\ pc[r] = "write"
      BY <1>0, <2>4, Requested DEF WriteTemp, InStep, InsertSteps, SelectSteps, Running, Begun
    <3>2. Absent(q, rows[r])
      BY <3>1 DEF NowhereLeft
    <3>3. rows[r] \in Seq(FileRow) /\ data[i] \in Seq(FileRow) /\ data \in [Inode -> Seq(FileRow)]
      BY DEF BasicInv, TypeInv
    <3> DEFINE over(old) == rows[r] \o SubSeq(old, Len(rows[r]) + 1, Len(old))
    <3>4. Absent(q, over(data[i]))
      BY <1>1, <3>2, <3>3, OverwriteType
    <3>5. data' = [data EXCEPT ![written[r]] = over(data[written[r]])]
      BY <2>4 DEF WriteTemp
    <3> HIDE DEF over
    <3> QED
      BY <1>1, <3>3, <3>4, <3>5
  <2> QED
    BY <2>1, <2>2, <2>3, <2>4, FilesOnlyBy
<1>2. ASSUME NEW p \in {"table", "temp"}, path'[p] # NoFile PROVE Absent(q, data'[path'[p]])
  <2>1. CASE path'[p] = path[p]
    <3>1. Absent(q, data[path[p]]) /\ path[p] \in Inode
      BY <1>0, <1>2, <2>1 DEF NowhereLeft
    <3> QED
      BY <1>1, <2>1, <3>1
  <2>2. CASE OpenAppend(r)
    <3>1. path'[p] = path[p] \/ path'[p] = r
      BY <1>0, <2>2 DEF OpenAppend, BasicInv, TypeInv
    <3>2. ~Created(r)
      BY <2>2 DEF OpenAppend, Created
    <3>3. Absent(q, data[r])
      BY <3>2, AbsentFromEmpty DEF BasicInv, InodeInv, Unused
    <3> QED
      BY <1>0, <1>1, <2>1, <3>1, <3>3
  <2>3. CASE OpenTemp(r)
    <3>1. p = "temp" => data'[path'[p]] = <<>>
      BY <1>0, <2>3 DEF OpenTemp, BasicInv, TypeInv
    <3>2. p = "table" => path'[p] = path[p]
      BY <2>3 DEF OpenTemp, BasicInv, TypeInv
    <3> QED
      BY <2>1, <3>1, <3>2, AbsentFromEmpty
  <2>4. CASE RenameTemp(r)
    <3>1. path'[p] = path["temp"] \/ path'[p] = path[p]
      BY <1>2, <2>4 DEF RenameTemp, Renamed
    <3>2. CASE path'[p] = path["temp"]
      <4>1. Absent(q, data[path["temp"]]) /\ path["temp"] \in Inode
        BY <1>0, <1>2, <3>2 DEF NowhereLeft
      <4> QED
        BY <1>1, <3>2, <4>1
    <3> QED
      BY <2>1, <3>1, <3>2
  <2>5. CASE Clear(r) \/ RemoveTable(r) \/ Undo(r)
    <3>1. path'[p] = path[p] \/ path'[p] = NoFile
      BY <2>5 DEF Clear, RemoveTable, Undo, BasicInv, TypeInv
    <3> QED
      BY <1>2, <2>1, <3>1
  <2> QED
    BY <2>1, <2>2, <2>3, <2>4, <2>5, FilesOnlyBy
<1>3. ASSUME NEW e \in Deletes, Running(e)'
      PROVE  /\ pc'[e] \in {"temp", "copy"} => Absent(q, data'[opened'[e]])
             /\ pc'[e] = "write" => Absent(q, rows'[e])
  <2>0. e \in Requests /\ (e # r => Running(e))
    BY <1>3, OnlyItsOwn, Requested DEF BasicInv, Running, Begun
  <2>1. CASE e # r
    <3>1. pc'[e] = pc[e] /\ opened'[e] = opened[e] /\ rows'[e] = rows[e]
      BY <2>0, <2>1, OnlyItsOwn DEF BasicInv
    <3>2. pc[e] \in {"temp", "copy"} => opened[e] \in Inode
      BY <2>0 DEF BasicInv, StepsInv, InStep, TypeInv
    <3> QED
      BY <1>1, <2>0, <2>1, <3>1, <3>2 DEF NowhereLeft
  <2>2. CASE e = r
    <3> USE DEF BasicInv, TypeInv
    <3>1. CASE OpenSource(r)
      <4>1. path["table"] # NoFile
        BY <1>3, <2>0, <2>2, <3>1 DEF OpenSource, Running
      <4>2. opened'[r] = path["table"] /\ pc'[r] = "temp"
        BY <3>1, <4>1 DEF OpenSource, OpensTable
      <4> QED
        BY <1>0, <1>1, <2>2, <4>1, <4>2 DEF NowhereLeft
    <3>2. CASE OpenTemp(r)
      <4>1. pc[r] = "temp" /\ pc'[r] = "copy" /\ opened'[r] = opened[r] /\ Running(r) /\ opened[r] \in Inode
        BY <1>0, <3>2 DEF OpenTemp, InStep, Running, Begun
      <4> QED
        BY <1>1, <2>2, <4>1 DEF NowhereLeft
    <3>3. CASE Copy(r)
      <4>1. pc[r] = "copy" /\ pc'[r] = "write" /\ Running(r) /\ opened[r] \in Inode
            /\ rows'[r] = Kept(r, data[opened[r]])
        BY <1>0, <3>3 DEF Copy, InStep, Running, Begun
      <4> QED
        BY <2>2, <4>1, AbsentKept DEF NowhereLeft
    <3>4. CASE Begin(r) \/ Clear(r) \/ WriteTemp(r) \/ RemoveTable(r) \/ RenameTemp(r)
      BY <2>2, <3>4 DEF Begin, Clear, WriteTemp, RemoveTable, RenameTemp
    <3>5. CASE Undo(r) \/ Exit(r) \/ Kill(r)
      BY <1>3, <2>2, <3>5 DEF Undo, Exit, Kill, Running
    <3>6. pc[r] \notin InsertSteps /\ pc[r] \notin SelectSteps
      BY <1>0, <2>2, Requested DEF InStep, DeleteSteps, InsertSteps, SelectSteps
    <3> QED
      BY <3>1, <3>2, <3>3, <3>4, <3>5, <3>6
      DEF Step, Look, Build, OpenForIndex, Load, OpenForScan, Read, OpenAppend, Flush, InsertSteps, SelectSteps
  <2> QED
    BY <2>1, <2>2
<1> QED
  BY <1>2, <1>3 DEF NowhereLeft

LEMMA CleanStep ==
    ASSUME BasicInv, RewriteInv, CleanInv, NEW r \in Requests, Step(r) \/ Kill(r), HistoryInv', RewriteInv'
    PROVE  CleanInv'
<1> USE DEF At, Goto, Ends, Files, Handles
<1> SUFFICES ASSUME NEW d \in Deletes, Begun(d)', Alone(d)', NEW q \in Matching[d], Earlier(q, d)'
             PROVE  Removed(q, d)'
  BY DEF CleanInv
<1>0. d \in Requests /\ Alone(d) /\ d # NoFile /\ d \in Inode /\ outcome[r] = "none"
  BY Requested, OverlapStays, Acting
<1>1. CASE r # d
  <2>1. pc'[d] = pc[d] /\ rows'[d] = rows[d] /\ Begun(d) /\ before'[d] = before[d] /\ (Running(d) <=> Running(d)')
    BY <1>0, <1>1, OnlyItsOwn DEF BasicInv, Begun, Running
  <2>2. Earlier(q, d) /\ q # r
    BY <1>0, <2>1 DEF Earlier, BasicInv, HistoryInv
  <2>3. Removed(q, d)
    BY <1>0, <2>1, <2>2 DEF CleanInv
  <2>4. ASSUME Running(d), pc[d] \in {"remove", "rename"} PROVE Absent(q, data'[path'["temp"]])
    <3>1. r \notin Deletes
      BY <1>1, <2>1, <2>4, NoOtherRewrite
    <3>2. path["temp"] # NoFile
      BY <1>0, <2>4 DEF RewriteInv, OwnTemp
    <3> QED
      BY <2>3, <2>4, <3>1, <3>2, OthersLeaveTemp DEF Removed
  <2>5. pc[d] = "exit" => NowhereLeft(q)'
    BY <2>2, <2>3, NowhereLeftStays DEF Removed
  <2> QED
    BY <2>1, <2>3, <2>4, <2>5 DEF Removed
<1>2. CASE r = d
  <2> USE DEF BasicInv, TypeInv
  <2>0. InStep(d)
    BY <1>0 DEF StepsInv
  <2>1. pc[d] # "idle" => Running(d) /\ Begun(d) /\ OwnTemp(d) /\ before'[d] = before[d] /\ Earlier(q, d) /\ Removed(q, d)
    <3> SUFFICES ASSUME pc[d] # "idle"
                 PROVE  Running(d) /\ Begun(d) /\ OwnTemp(d) /\ before'[d] = before[d] /\ Earlier(q, d) /\ Removed(q, d)
      OBVIOUS
    <3>1. Running(d) /\ Begun(d)
      BY <1>0, <1>2 DEF Running, Begun
    <3>2. before'[d] = before[d]
      BY <1>0, <3>1, OverlapStays
    <3>3. Earlier(q, d)
      BY <3>2 DEF Earlier
    <3> QED
      BY <1>0, <3>1, <3>2, <3>3 DEF RewriteInv, CleanInv
  <2>2. CASE Begin(d) \/ Clear(d) \/ OpenSource(d) \/ OpenTemp(d)
    BY <1>0, <2>2 DEF Begin, Clear, OpenSource, OpensTable, OpenTemp, Removed
  <2>3. CASE Copy(d)
    <3>1. pc[d] = "copy" /\ pc'[d] = "write" /\ rows'[d] = Kept(d, data[opened[d]]) /\ opened[d] \in Inode
      BY <1>0, <2>0, <2>3 DEF Copy, InStep
    <3> QED
      BY <3>1, AbsentKept DEF Removed
  <2>4. CASE WriteTemp(d)
    <3>1. /\ pc[d] = "write" /\ pc'[d] = "remove" /\ path' = path
          /\ data' = [data EXCEPT ![written[d]] = rows[d] \o SubSeq(@, Len(rows[d]) + 1, Len(@))]
      BY <1>0, <2>4 DEF WriteTemp
    <3>2. path["temp"] = written[d] /\ data[written[d]] = <<>> /\ Absent(q, rows[d]) /\ written[d] \in Inode
      BY <1>0, <2>1, <3>1 DEF OwnTemp, Removed
    <3>3. rows[d] \in Seq(FileRow) /\ data[written[d]] \in Seq(FileRow)
      BY <1>0, <3>2
    <3>4. rows[d] \o SubSeq(data[written[d]], Len(rows[d]) + 1, Len(data[written[d]])) = rows[d]
      BY <3>2, <3>3, OverwriteType
    <3>5. data'[path'["temp"]] = rows[d]
      BY <3>1, <3>2, <3>4
    <3> QED
      BY <3>1, <3>2, <3>5 DEF Removed
  <2>5. CASE RemoveTable(d)
    <3>1. pc[d] = "remove" /\ path'["temp"] = path["temp"] /\ data' = data /\ pc'[d] \in {"undo", "rename"}
      BY <1>0, <2>5 DEF RemoveTable
    <3> QED
      BY <2>1, <3>1 DEF Removed
  <2>6. CASE RenameTemp(d)
    <3>1. CASE path["temp"] = NoFile
      BY <1>0, <2>6, <3>1 DEF RenameTemp, Removed
    <3>2. CASE path["temp"] # NoFile
      <4>1. pc[d] = "rename" /\ pc'[d] = "exit" /\ data' = data /\ outcome' = outcome
            /\ path'["table"] = path["temp"] /\ path'["temp"] = NoFile
        BY <1>0, <2>6, <3>2 DEF RenameTemp, Renamed
      <4>2. Absent(q, data[path["temp"]])
        BY <2>1, <4>1 DEF Removed
      <4>3. Running(d)'
        BY <1>0, <1>2, <4>1 DEF Running, Begun
      <4>4. \A e \in Deletes : Running(e)' => e = d
        BY <1>0, <4>3, RunningOverlapsNext, Requested DEF Alone
      <4>5. NowhereLeft(q)'
        BY <4>1, <4>2, <4>4 DEF NowhereLeft
      <4> QED
        BY <4>1, <4>5 DEF Removed
    <3> QED
      BY <3>1, <3>2
  <2>7. CASE Undo(d) \/ Exit(d) \/ Kill(d)
    <3>1. pc' = pc /\ pc[d] # "idle" /\ ~Running(d)' /\ data' = data /\ UNCHANGED <<opened, rows>>
          /\ (pc[d] = "exit" => path' = path)
      BY <1>0, <2>7 DEF Undo, Exit, Kill, Running
    <3>2. \A e \in Deletes : Running(e)' => Running(e)
      BY <1>0, <1>2, OnlyItsOwn, Requested, <3>1 DEF Running, Begun
    <3>3. pc[d] = "exit" => NowhereLeft(q)'
      BY <2>1, <3>1, <3>2 DEF Removed, NowhereLeft
    <3> QED
      BY <3>1, <3>3 DEF Removed
  <2>8. pc[d] \notin InsertSteps /\ pc[d] \notin SelectSteps
    BY <2>0 DEF InStep, DeleteSteps, InsertSteps, SelectSteps
  <2> QED
    BY <1>2, <2>2, <2>3, <2>4, <2>5, <2>6, <2>7, <2>8
    DEF Step, Look, Build, OpenForIndex, Load, OpenForScan, Read, OpenAppend, Flush, InsertSteps, SelectSteps
<1> QED
  BY <1>1, <1>2

-----------------------------------------------------------------------------
(***************************************************************************)
(* A table that is good stays good: nothing a request does afterwards says *)
(* more of the rows that are already there.                                *)
(***************************************************************************)
LEMMA OverlapIsMutual == \A p, q : Overlap(p, q) <=> Overlap(q, p)
BY DEF Overlap

LEMMA OverlapIsMutualNext == \A p, q : Overlap(p, q)' <=> Overlap(q, p)'
BY DEF Overlap

LEMMA LandedStays ==
    ASSUME BasicInv, NEW r \in Requests, Step(r) \/ Kill(r), NEW q
    PROVE  (Landed(q)' <=> Landed(q)) \/ (q = r /\ Flush(r))
<1>1. CASE q # r \/ q \notin Inserts
  BY <1>1, OnlyItsOwn, Requested DEF BasicInv, Landed
<1>2. CASE q = r /\ q \in Inserts
  <2> USE DEF At, Goto, Ends, Files, Handles, BasicInv, TypeInv
  <2>0. InStep(r)
    BY DEF StepsInv
  <2>1. CASE Begin(r) \/ Build(r) \/ OpenAppend(r)
    BY <1>2, <2>1 DEF Begin, Build, OpenAppend, Landed
  <2>2. CASE OpenForIndex(r)
    BY <1>2, <2>2 DEF OpenForIndex, NoIndex, OpensTable, Landed
  <2>3. CASE Load(r)
    BY <1>2, <2>3 DEF Load, NoIndex, Landed
  <2>4. CASE Exit(r) \/ Kill(r)
    BY <1>2, <2>4 DEF Exit, Kill, Landed
  <2>5. pc[r] \notin DeleteSteps /\ pc[r] \notin {"look", "scan", "read"}
    BY <1>2, <2>0 DEF InStep, InsertSteps, DeleteSteps
  <2> QED
    BY <1>2, <2>1, <2>2, <2>3, <2>4, <2>5
    DEF Step, Look, OpenForScan, Read, Clear, OpenSource, OpenTemp, Copy, WriteTemp, RemoveTable, RenameTemp, Undo,
        DeleteSteps
<1> QED
  BY <1>1, <1>2

LEMMA GoodStays ==
    ASSUME BasicInv, NEW r \in Requests, Step(r) \/ Kill(r), Flush(r) => ~Apart(r)',
           NEW s, Good(s)
    PROVE  Good(s)'
<1>1. ASSUME NEW q \in Inserters, Apart(q)' PROVE Held(q, s)'
  <2>1. Held(q, s)
    BY <1>1, OverlapStays DEF Good
  <2>2. Landed(q)' <=> Landed(q)
    BY <1>1, LandedStays
  <2>3. Unmatched(q)' => Unmatched(q)
    BY OverlapStays
  <2> QED
    BY <2>1, <2>2, <2>3 DEF Held
<1>2. ASSUME NEW m \in DOMAIN s, NEW n \in DOMAIN s, m # n, Apart(s[m].by)', Apart(s[n].by)',
             ~Overlap(s[m].by, s[n].by)'
      PROVE  s[m].id # s[n].id
  BY <1>2, OverlapStays DEF Good
<1> QED
  BY <1>1, <1>2 DEF Good

LEMMA GoodAppended ==
    ASSUME BasicInv, NEW r \in Inserts, Flush(r), NEW s \in Seq(FileRow), Good(s),
           NEW row \in FileRow, row.by = r,
           Apart(r)' => \A n \in DOMAIN s : Apart(s[n].by)' /\ ~Overlap(s[n].by, r)' => s[n].id < row.id
    PROVE  Good(Appended(s, <<row>>))'
<1> DEFINE a == Appended(s, <<row>>)
           last == Len(s) + 1
<1>0. r \in Requests /\ Step(r)
  BY Requested DEF Step
<1>1. /\ DOMAIN a = 1 .. last /\ DOMAIN s = 1 .. Len(s) /\ Len(s) \in Nat
      /\ \A n \in DOMAIN s : a[n] = s[n]
      /\ a[last] = row
  BY AppendedRow
<1>2. \A q : Absent(q, a) <=> Absent(q, s) /\ row.by # q
  BY AbsentAppended
<1> HIDE DEF a
<1>3. \A n \in DOMAIN a : n \in DOMAIN s \/ n = last
  BY <1>1
<1>4. \A n \in DOMAIN s : s[n] \in FileRow
  BY RowsOf
<1>5. ~Landed(r) /\ Landed(r)'
  BY <1>0 DEF Flush, At, Goto, Landed, BasicInv, TypeInv
<1> HIDE DEF last
<1>6. ASSUME NEW q \in Inserters, Apart(q)' PROVE Held(q, a)'
  <2>1. Held(q, s)
    BY <1>0, <1>6, OverlapStays DEF Good
  <2>2. Unmatched(q)' => Unmatched(q)
    BY <1>0, OverlapStays
  <2>3. CASE q # r
    <3>1. Landed(q)' <=> Landed(q)
      BY <1>0, <2>3, LandedStays
    <3>2. \A n \in DOMAIN a : a[n].by = q => n \in DOMAIN s /\ s[n].by = q
      BY <1>1, <1>3, <2>3
    <3>3. AtMostOnce(q, a)
      BY <2>1, <3>2 DEF Held, AtMostOnce
    <3>4. Absent(q, a) <=> Absent(q, s)
      BY <1>2, <2>3
    <3> QED
      BY <2>1, <2>2, <3>1, <3>3, <3>4 DEF Held
  <2>4. CASE q = r
    <3>1. Absent(r, s)
      BY <1>5, <2>1, <2>4 DEF Held
    <3>2. \A n \in DOMAIN a : a[n].by = r => n = last
      BY <1>1, <1>3, <3>1 DEF Absent
    <3>3. AtMostOnce(r, a)
      BY <3>2 DEF AtMostOnce
    <3>4. ~Absent(r, a)
      BY <1>2
    <3> QED
      BY <1>5, <2>4, <3>3, <3>4 DEF Held
  <2> QED
    BY <2>3, <2>4
<1>7. ASSUME NEW m \in DOMAIN a, NEW n \in DOMAIN a, m # n, Apart(a[m].by)', Apart(a[n].by)',
             ~Overlap(a[m].by, a[n].by)'
      PROVE  a[m].id # a[n].id
  <2>1. CASE m \in DOMAIN s /\ n \in DOMAIN s
    BY <1>0, <1>1, <1>7, <2>1, OverlapStays DEF Good
  <2>2. CASE m \in DOMAIN s /\ n = last
    <3>1. s[m].id < row.id
      BY <1>1, <1>7, <2>2
    <3> QED
      BY <1>1, <1>4, <2>2, <3>1 DEF FileRow
  <2>3. CASE n \in DOMAIN s /\ m = last
    <3>1. ~Overlap(s[n].by, r)'
      BY <1>1, <1>7, <2>3, OverlapIsMutualNext
    <3>2. s[n].id < row.id
      BY <1>1, <1>7, <2>3, <3>1
    <3> QED
      BY <1>1, <1>4, <2>3, <3>2 DEF FileRow
  <2> QED
    BY <1>3, <1>7, <2>1, <2>2, <2>3
<1>8. Good(a)'
  BY <1>6, <1>7 DEF Good
<1> QED
  BY <1>8 DEF a

LEMMA GoodKept ==
    ASSUME NEW s \in Seq(FileRow), Good(s), NEW d \in Deletes, Begun(d)
    PROVE  Good(Kept(d, s))
<1> DEFINE k == Kept(d, s)
<1>1. PICK place \in [DOMAIN k -> DOMAIN s] :
        /\ \A n \in DOMAIN k : k[n] = s[place[n]]
        /\ \A m, n \in DOMAIN k : place[m] = place[n] => m = n
  BY KeptRows
<1>2. \A q : Absent(q, k) <=> Absent(q, s) \/ q \in Matching[d]
  BY AbsentKept
<1> HIDE DEF k
<1>3. ASSUME NEW q \in Inserters, Apart(q) PROVE Held(q, k)
  <2>1. Held(q, s)
    BY <1>3 DEF Good
  <2>2. AtMostOnce(q, k)
    BY <1>1, <2>1 DEF Held, AtMostOnce
  <2>3. Unmatched(q) => q \notin Matching[d]
    BY DEF Unmatched
  <2> QED
    BY <1>2, <2>1, <2>2, <2>3 DEF Held
<1>4. ASSUME NEW m \in DOMAIN k, NEW n \in DOMAIN k, m # n, Apart(k[m].by), Apart(k[n].by),
             ~Overlap(k[m].by, k[n].by)
      PROVE  k[m].id # k[n].id
  BY <1>1, <1>4 DEF Good
<1>5. Good(k)
  BY <1>3, <1>4 DEF Good
<1> QED
  BY <1>5 DEF k

-----------------------------------------------------------------------------
\* A request that overlaps no rewrite finds the table.
LEMMA NoRewriteBeside ==
    ASSUME BasicInv, ContentInv, Sequential, NEW q \in Requests, q \notin Deletes, Running(q), Apart(q)
    PROVE  /\ \A d \in Deletes : ~Running(d)
           /\ path["table"] # NoFile /\ Good(data[path["table"]])
<1>1. \A d \in Deletes : ~Running(d)
  BY RunningOverlaps, Requested DEF BasicInv, Apart
<1> QED
  BY <1>1 DEF ContentInv, Home, Renaming

LEMMA FlushedRow ==
    ASSUME BasicInv, NEW r \in Requests, Flush(r)
    PROVE  /\ r \in Inserts /\ Running(r) /\ Step(r)
           /\ rows[r] = <<rows[r][1]>> /\ rows[r][1] \in FileRow /\ rows[r][1].by = r
           /\ written[r] \in Inode
           /\ path' = path
           /\ \A i \in Inode : data'[i] = IF i = written[r] THEN Appended(data[i], <<rows[r][1]>>) ELSE data[i]
<1>0. InStep(r) /\ At(r, "flush") /\ r # NoFile
  BY Requested DEF BasicInv, StepsInv, Flush
<1>1. r \in Inserts /\ Running(r) /\ Step(r)
  BY <1>0, Requested DEF At, InStep, DeleteSteps, SelectSteps, Running, Begun, Step
<1>2. rows[r] = <<rows[r][1]>> /\ rows[r][1].by = r /\ rows[r] \in Seq(FileRow) /\ written[r] \in Inode
  BY <1>0 DEF At, InStep, BasicInv, TypeInv
<1>3. rows[r][1] \in FileRow
  <2>1. 1 \in 1 .. Len(rows[r])
    BY <1>2
  <2> QED
    BY <1>2, <2>1, ElementOfSeq
<1>4. /\ data \in [Inode -> Seq(FileRow)]
      /\ data' = [data EXCEPT ![written[r]] = Appended(data[written[r]], rows[r])]
      /\ path' = path
  BY DEF Flush, BasicInv, TypeInv
<1> QED
  BY <1>1, <1>2, <1>3, <1>4

\* A row that reaches the table leaves it good, or belongs to a request
\* that overlaps a rewrite.
LEMMA FlushGood ==
    ASSUME BasicInv, ContentInv, InsertInv, Sequential, NEW r \in Requests, Flush(r), BasicInv'
    PROVE  \/ Renaming /\ ~Apart(r)'
           \/ ~Renaming /\ Good(data[path["table"]])'
<1>0. /\ r \in Inserts /\ Running(r) /\ Step(r)
      /\ rows[r] = <<rows[r][1]>> /\ rows[r][1] \in FileRow /\ rows[r][1].by = r
      /\ written[r] \in Inode /\ path' = path
      /\ \A i \in Inode : data'[i] = IF i = written[r] THEN Appended(data[i], <<rows[r][1]>>) ELSE data[i]
  BY FlushedRow
<1>1. Apart(r)' => Apart(r) /\ ~Renaming
  BY <1>0, OverlapStays, NoRewriteBeside, Requested DEF Renaming
<1>2. ASSUME ~Renaming PROVE Good(data[path["table"]])'
  <2>a. PICK s, row : s = data[path["table"]] /\ row = rows[r][1]
    OBVIOUS
  <2>1. /\ path["table"] \in Inode /\ s \in Seq(FileRow) /\ Good(s)
        /\ row \in FileRow /\ row.by = r
    BY <1>0, <1>2, <2>a DEF ContentInv, Home, BasicInv, TypeInv
  <2>2. CASE written[r] = path["table"]
    <3>1. ASSUME Apart(r)', NEW n \in DOMAIN s, Apart(s[n].by)', ~Overlap(s[n].by, r)'
          PROVE  s[n].id < row.id
      <4>1. Apart(r) /\ Apart(s[n].by)
        BY <1>0, <3>1, OverlapStays
      <4>2. ~Overlap(s[n].by, r)
        BY <1>0, <3>1, OverlapStays
      <4>3. s[n].by \in Inserters
        BY <2>1, <3>1, RowsOf DEF FileRow
      <4>4. Landed(s[n].by)
        <5>1. ~Absent(s[n].by, s)
          BY DEF Absent
        <5> QED
          BY <2>1, <4>1, <4>3, <5>1 DEF Good, Held
      <4>5. Earlier(s[n].by, r)
        <5> DEFINE p == s[n].by
        <5>1. CASE p \in Requests
          <6>1. p \in Inserts
            BY <4>3, <5>1, StoredAssumption DEF Inserters
          <6>2. pc[p] = "exit"
            BY <4>4, <6>1 DEF Landed
          <6>3. p # r
            BY <6>2 DEF Flush, At
          <6>4. Begun(p) /\ Begun(r)
            BY <1>0, <6>2 DEF Begun, Running
          <6>5. p \in before[r] \/ r \in before[p]
            BY <4>2, <5>1, <6>3, <6>4 DEF Overlap
          <6>6. r \notin before[p]
            BY <1>0, <5>1 DEF BasicInv, HistoryInv, Running
          <6> QED
            BY <6>5, <6>6 DEF Earlier
        <5>2. CASE p \notin Requests
          BY <5>2 DEF Earlier
        <5> QED
          BY <5>1, <5>2
      <4> QED
        BY <1>0, <2>a, <3>1, <4>1, <4>5 DEF InsertInv, Choosing, Flush, At
    <3>2. Good(Appended(s, <<row>>))'
      BY <1>0, <2>1, <3>1, GoodAppended
    <3>3. data'[path'["table"]] = Appended(s, <<row>>)
      BY <1>0, <2>a, <2>1, <2>2
    <3> QED
      BY <3>2, <3>3
  <2>3. CASE written[r] # path["table"]
    <3>1. ~Apart(r)
      BY <1>0, <2>3 DEF InsertInv, Choosing, Flush, At
    <3>2. Good(s)'
      BY <1>0, <1>1, <2>1, <3>1, GoodStays
    <3>3. data'[path'["table"]] = s
      BY <1>0, <2>a, <2>1, <2>3
    <3> QED
      BY <3>2, <3>3
  <2> QED
    BY <2>2, <2>3
<1> QED
  BY <1>1, <1>2

\* A step of an INSERT or a SELECT.
LEMMA ContentOther ==
    ASSUME BasicInv, RewriteInv, ContentInv, InsertInv, NEW r \in Requests, Step(r) \/ Kill(r), r \notin Deletes,
           BasicInv'
    PROVE  ContentInv'
<1> SUFFICES ASSUME Sequential'
             PROVE  /\ Home' # NoFile
                    /\ Good(data[Home])'
                    /\ \A d \in Deletes : Running(d)' => Rewriting(d)'
  BY DEF ContentInv
<1>0. /\ Sequential /\ Home # NoFile /\ Good(data[Home])
      /\ \A d \in Deletes : Running(d) => Rewriting(d)
  BY OverlapStays DEF ContentInv
<1>1. /\ path'["temp"] = path["temp"]
      /\ path["temp"] # NoFile => data'[path["temp"]] = data[path["temp"]]
      /\ path' = path \/ OpenAppend(r)
      /\ data' = data \/ Flush(r)
  BY OthersLeaveTemp
<1>2. \A d \in Deletes : /\ pc'[d] = pc[d] /\ opened'[d] = opened[d] /\ rows'[d] = rows[d]
                         /\ Running(d)' <=> Running(d)
  BY OnlyItsOwn, Requested DEF BasicInv, Running, Begun
<1>3. Renaming' <=> Renaming
  BY <1>2 DEF Renaming
<1>4. path["table"] # NoFile => path'["table"] = path["table"]
  BY <1>1 DEF OpenAppend, BasicInv, TypeInv
<1>5. Home' = Home
  BY <1>0, <1>1, <1>3, <1>4 DEF Home
<1>6. \A d \in Deletes : Running(d) => (Flush(r) => ~Apart(r)')
  <2> SUFFICES ASSUME NEW d \in Deletes, Running(d), Flush(r) PROVE ~Apart(r)'
    OBVIOUS
  <2>1. Overlap(r, d)'
    BY <1>2, ActorOverlaps, Requested DEF BasicInv
  <2> QED
    BY <2>1 DEF Apart
<1>7. Good(data[Home])'
  <2>1. CASE Renaming
    <3>1. Home = path["temp"]
      BY <2>1 DEF Home
    <3>a. PICK s : s = data[path["temp"]]
      OBVIOUS
    <3>2. data'[Home'] = s
      BY <1>0, <1>1, <1>5, <3>a, <3>1
    <3>3. Good(s)'
      BY <1>0, <1>6, <2>1, <3>a, <3>1, GoodStays DEF Renaming
    <3> QED
      BY <3>2, <3>3
  <2>2. CASE ~Renaming
    <3>1. Home = path["table"] /\ Home' = path'["table"]
      BY <1>3, <2>2 DEF Home
    <3>2. CASE Flush(r)
      <4>1. Good(data[path["table"]])'
        BY <1>0, <2>2, <3>2, FlushGood
      <4> QED
        BY <3>1, <4>1
    <3>3. CASE ~Flush(r)
      <4>a. PICK s : s = data[path["table"]]
        OBVIOUS
      <4>1. data'[Home'] = s
        BY <1>1, <1>5, <3>1, <3>3, <4>a
      <4>2. Good(s)'
        BY <1>0, <3>1, <3>3, <4>a, GoodStays
      <4> QED
        BY <4>1, <4>2
    <3> QED
      BY <3>2, <3>3
  <2> QED
    BY <2>1, <2>2
<1>8. ASSUME NEW d \in Deletes, Running(d)' PROVE Rewriting(d)'
  <2>0. /\ Running(d) /\ Rewriting(d) /\ pc'[d] = pc[d] /\ opened'[d] = opened[d] /\ rows'[d] = rows[d]
        /\ OwnTemp(d)
    BY <1>0, <1>2, <1>8 DEF Sequential, RewriteInv
  <2>1. pc'[d] \in {"temp", "copy"} => opened'[d] = path'["table"]
    <3> SUFFICES ASSUME pc[d] \in {"temp", "copy"} PROVE opened'[d] = path'["table"]
      BY <2>0
    <3>1. ~Renaming
      BY <2>0, RunningOverlaps, Requested, <1>0 DEF Renaming, Sequential, Alone, BasicInv
    <3> QED
      BY <1>0, <1>4, <2>0, <3>1 DEF Home, Rewriting
  <2>2. pc'[d] = "write" => Good(rows[d])'
    <3>a. PICK s : s = rows[d]
      OBVIOUS
    <3>1. pc[d] = "write" => Good(s)'
      BY <1>6, <2>0, <3>a, GoodStays DEF Rewriting
    <3> QED
      BY <2>0, <3>a, <3>1
  <2>3. pc'[d] = "remove" => Good(data[path["temp"]])'
    <3>a. PICK s : s = data[path["temp"]]
      OBVIOUS
    <3>1. pc[d] = "remove" => Good(s)'
      BY <1>6, <2>0, <3>a, GoodStays DEF Rewriting
    <3>2. pc[d] = "remove" => data'[path'["temp"]] = s
      BY <1>1, <2>0, <3>a DEF OwnTemp
    <3> QED
      BY <2>0, <3>1, <3>2
  <2>4. ASSUME pc'[d] = "rename", path'["table"] # NoFile PROVE Disturbed(data[path["table"]])'
    <3>1. CASE path["table"] = NoFile
      <4>1. OpenAppend(r) /\ path'["table"] = r /\ data' = data
        BY <1>1, <2>4, <3>1 DEF OpenAppend, BasicInv, TypeInv
      <4>2. data[r] = <<>>
        BY <4>1 DEF OpenAppend, At, Created, BasicInv, InodeInv, Unused
      <4> QED
        BY <4>1, <4>2 DEF Disturbed
    <3>2. CASE path["table"] # NoFile
      <4>a. PICK s, row : s = data[path["table"]] /\ row = rows[r][1]
        OBVIOUS
      <4>1. Disturbed(s) /\ Disturbed(s)'
        BY <2>0, <2>4, <3>2, <4>a, OverlapStays DEF Rewriting, Disturbed
      <4>2. CASE data' = data \/ (Flush(r) /\ written[r] # path["table"])
        <5>1. data'[path'["table"]] = s
          BY <1>4, <3>2, <4>2, <4>a DEF Flush, BasicInv, TypeInv
        <5> QED
          BY <4>1, <5>1
      <4>3. CASE Flush(r) /\ written[r] = path["table"]
        <5>1. /\ row \in FileRow /\ row.by = r /\ path["table"] \in Inode
              /\ data'[path'["table"]] = Appended(s, <<row>>)
          BY <1>4, <3>2, <4>3, <4>a, FlushedRow
        <5>2. s \in Seq(FileRow)
          BY <4>a, <5>1 DEF BasicInv, TypeInv
        <5> DEFINE a == Appended(s, <<row>>)
        <5>3. /\ DOMAIN a = 1 .. Len(s) + 1 /\ DOMAIN s = 1 .. Len(s) /\ Len(s) \in Nat
              /\ \A m \in DOMAIN s : a[m] = s[m]
              /\ a[Len(s) + 1] = row
          BY <5>1, <5>2, AppendedRow
        <5>4. ~Apart(r)'
          BY <1>6, <2>0, <4>3
        <5> HIDE DEF a
        <5>5. ASSUME NEW n \in DOMAIN a PROVE ~Apart(a[n].by)'
          <6>1. n \in DOMAIN s \/ n = Len(s) + 1
            BY <5>3
          <6> QED
            BY <4>1, <5>1, <5>3, <5>4, <6>1 DEF Disturbed
        <5>6. Disturbed(a)'
          BY <5>5 DEF Disturbed
        <5> QED
          BY <5>1, <5>6 DEF a
      <4> QED
        BY <1>1, <4>2, <4>3
    <3> QED
      BY <3>1, <3>2
  <2> QED
    BY <2>0, <2>1, <2>2, <2>3, <2>4 DEF Rewriting
<1> QED
  BY <1>0, <1>5, <1>7, <1>8

\* A step of a rewrite, which then is the only one that runs.
LEMMA ContentRewrite ==
    ASSUME BasicInv, RewriteInv, ContentInv, NEW r \in Deletes, Step(r) \/ Kill(r), BasicInv'
    PROVE  ContentInv'
<1> USE DEF At, Goto, Ends, Files, Handles
<1> SUFFICES ASSUME Sequential'
             PROVE  /\ Home' # NoFile
                    /\ Good(data[Home])'
                    /\ \A d \in Deletes : Running(d)' => Rewriting(d)'
  BY DEF ContentInv
<1>0. /\ Sequential /\ Home # NoFile /\ Good(data[Home])
      /\ \A d \in Deletes : Running(d) => Rewriting(d)
      /\ r \in Requests /\ outcome[r] = "none" /\ InStep(r) /\ r # NoFile /\ r \in Inode
      /\ path["table"] \in Inode \cup {NoFile} /\ path["temp"] \in Inode \cup {NoFile}
  BY OverlapStays, Acting, Requested DEF ContentInv, BasicInv, StepsInv, TypeInv
<1>1. \A d \in Deletes : d # r => ~Running(d)' /\ ~Running(d)
  <2> SUFFICES ASSUME NEW d \in Deletes, d # r PROVE ~Running(d)' /\ ~Running(d)
    OBVIOUS
  <2>1. ~Running(d)'
    BY <1>0, ActorOverlaps, Requested DEF Sequential, Alone, BasicInv
  <2> QED
    BY <1>0, <2>1, OnlyItsOwn, Requested DEF BasicInv, Running, Begun
<1>2. Renaming <=> pc[r] = "rename"
  BY <1>0, <1>1 DEF Renaming, Running, Begun
<1>3. Renaming' <=> Running(r)' /\ pc'[r] = "rename"
  BY <1>0, <1>1 DEF Renaming
<1>4. pc[r] # "idle" => Running(r) /\ Rewriting(r) /\ OwnTemp(r)
  BY <1>0 DEF Running, Begun, Sequential, RewriteInv
<1>5. \A s : Good(s) => Good(s)'
  <2>1. ~Flush(r)
    BY <1>0, Requested DEF Flush, InStep, DeleteSteps
  <2> QED
    BY <1>0, <2>1, GoodStays
<1>6. /\ path["table"] = path["temp"] => path["table"] = NoFile
      /\ ~Created(r) => r # path["table"]
  BY <1>0 DEF BasicInv, InodeInv, Unused
<1>a. PICK s, t : s = data[path["table"]] /\ t = data[path["temp"]]
  OBVIOUS
<1> SUFFICES /\ Home' # NoFile
             /\ Good(data[Home])'
             /\ Running(r)' => Rewriting(r)'
  BY <1>1
<1>7. ASSUME pc[r] # "rename"
      PROVE  Home = path["table"] /\ path["table"] # NoFile /\ Good(s)'
  BY <1>0, <1>2, <1>5, <1>7, <1>a DEF Home
<1> USE DEF BasicInv, TypeInv
<1>8. CASE Begin(r) \/ Clear(r) \/ OpenSource(r)
  <2>1. /\ pc[r] \in {"idle", "clear", "source"} /\ path'["table"] = path["table"] /\ data' = data
    BY <1>0, <1>8 DEF Begin, Clear, OpenSource
  <2>2. pc'[r] \in {"clear", "source"} \/ (pc'[r] = "temp" /\ opened'[r] = path["table"])
    BY <1>0, <1>2, <1>7, <1>8, <2>1, Requested DEF Begin, Clear, OpenSource, OpensTable
  <2>3. Home' = path["table"] /\ data'[Home'] = s
    BY <1>3, <1>a, <2>1, <2>2 DEF Home
  <2> QED
    BY <1>7, <2>1, <2>2, <2>3 DEF Rewriting
<1>9. CASE OpenTemp(r)
  <2>1. pc[r] = "temp" /\ pc'[r] = "copy" /\ opened' = opened
    BY <1>0, <1>9 DEF OpenTemp
  <2>2. path["temp"] = NoFile /\ opened[r] = path["table"] /\ r # path["table"]
    BY <1>4, <1>6, <2>1 DEF OwnTemp, Rewriting, Created
  <2>3. path'["table"] = path["table"] /\ data'[path["table"]] = s
    BY <1>9, <1>a, <2>2 DEF OpenTemp
  <2>4. Home' = path["table"] /\ data'[Home'] = s
    BY <1>3, <2>1, <2>3 DEF Home
  <2> QED
    BY <1>7, <2>1, <2>2, <2>3, <2>4 DEF Rewriting
<1>10. CASE Copy(r)
  <2>1. pc[r] = "copy" /\ pc'[r] = "write" /\ path' = path /\ data' = data
        /\ rows'[r] = Kept(r, data[opened[r]])
    BY <1>0, <1>10 DEF Copy
  <2>2. opened[r] = path["table"] /\ path["table"] \in Inode
    BY <1>0, <1>4, <1>7, <2>1 DEF Rewriting
  <2>3. s \in Seq(FileRow) /\ Good(s) /\ Begun(r)
    BY <1>0, <1>7, <1>a, <2>1, <2>2 DEF Begun
  <2>4. Good(Kept(r, s))
    BY <2>3, GoodKept
  <2>b. PICK k : k = Kept(r, s)
    OBVIOUS
  <2>5. Good(k)' /\ rows'[r] = k
    BY <1>5, <1>a, <2>1, <2>2, <2>4, <2>b
  <2>6. Good(rows[r])'
    BY <2>5
  <2>7. Home' = path["table"] /\ data'[Home'] = s
    BY <1>3, <1>a, <2>1 DEF Home
  <2> QED
    BY <1>7, <2>1, <2>6, <2>7 DEF Rewriting
<1>11. CASE WriteTemp(r)
  <2>1. /\ pc[r] = "write" /\ pc'[r] = "remove" /\ path' = path
        /\ data' = [data EXCEPT ![written[r]] = rows[r] \o SubSeq(@, Len(rows[r]) + 1, Len(@))]
    BY <1>0, <1>11 DEF WriteTemp
  <2>2. /\ path["temp"] = written[r] /\ data[written[r]] = <<>> /\ written[r] \in Inode
        /\ written[r] # path["table"] /\ Good(rows[r])
    BY <1>0, <1>4, <1>6, <1>7, <2>1 DEF OwnTemp, Rewriting
  <2>3. rows[r] \in Seq(FileRow) /\ data[written[r]] \in Seq(FileRow)
    BY <1>0, <2>2
  <2>4. rows[r] \o SubSeq(data[written[r]], Len(rows[r]) + 1, Len(data[written[r]])) = rows[r]
    BY <2>2, <2>3, OverwriteType
  <2>b. PICK k : k = rows[r]
    OBVIOUS
  <2>5. data'[path'["temp"]] = k /\ data'[path'["table"]] = s
    BY <1>a, <1>7, <2>1, <2>2, <2>4, <2>b
  <2>6. Good(k)'
    BY <1>5, <2>2, <2>b
  <2>7. Good(data[path["temp"]])'
    BY <2>5, <2>6
  <2>8. Home' = path["table"] /\ data'[Home'] = s
    BY <1>3, <2>1, <2>5 DEF Home
  <2> QED
    BY <1>7, <2>1, <2>7, <2>8 DEF Rewriting
<1>12. CASE RemoveTable(r)
  <2>1. /\ pc[r] = "remove" /\ pc'[r] = "rename" /\ data' = data
        /\ path'["temp"] = path["temp"] /\ path'["table"] = NoFile /\ outcome' = outcome
    BY <1>0, <1>7, <1>12 DEF RemoveTable
  <2>2. Good(t)' /\ path["temp"] # NoFile
    BY <1>4, <1>5, <1>a, <2>1 DEF OwnTemp, Rewriting
  <2>3. Renaming'
    BY <1>0, <1>3, <2>1 DEF Running, Begun
  <2>4. Home' = path["temp"] /\ data'[Home'] = t
    BY <1>a, <2>1, <2>3 DEF Home
  <2> QED
    BY <2>1, <2>2, <2>4 DEF Rewriting
<1>13. CASE RenameTemp(r)
  <2>1. pc[r] = "rename" /\ data' = data
    BY <1>0, <1>13 DEF RenameTemp
  <2>2. path["temp"] # NoFile /\ Home = path["temp"]
    BY <1>2, <1>4, <2>1 DEF OwnTemp, Home
  <2>3. path'["table"] = path["temp"] /\ pc'[r] = "exit"
    BY <1>0, <1>13, <2>2 DEF RenameTemp, Renamed
  <2>4. Home' = path["temp"] /\ data'[Home'] = t
    BY <1>3, <1>a, <2>1, <2>3 DEF Home
  <2>5. Good(t)'
    BY <1>0, <1>5, <1>a, <2>2
  <2> QED
    BY <2>2, <2>3, <2>4, <2>5 DEF Rewriting
<1>14. CASE Undo(r)
  BY <1>0, <1>4, <1>14 DEF Undo, Rewriting
<1>15. CASE Exit(r) \/ Kill(r)
  <2>1. /\ pc' = pc /\ data' = data /\ path' = path /\ pc[r] # "idle" /\ ~Running(r)'
        /\ (Exit(r) => pc[r] = "exit")
    BY <1>0, <1>15 DEF Exit, Kill, Running
  <2>2. pc[r] # "rename"
    <3>1. CASE Exit(r)
      BY <2>1, <3>1
    <3>2. CASE Kill(r)
      <4>1. outcome'[r] = "killed"
        BY <1>0, <3>2 DEF Kill
      <4> QED
        BY <2>1, <4>1 DEF Sequential
    <3> QED
      BY <1>15, <3>1, <3>2
  <2>3. Home' = path["table"] /\ data'[Home'] = s
    BY <1>3, <1>a, <2>1 DEF Home
  <2> QED
    BY <1>7, <2>1, <2>2, <2>3
<1>16. pc[r] \notin InsertSteps /\ pc[r] \notin SelectSteps
  BY <1>0, Requested DEF InStep, DeleteSteps, InsertSteps, SelectSteps
<1> QED
  BY <1>8, <1>9, <1>10, <1>11, <1>12, <1>13, <1>14, <1>15, <1>16
  DEF Step, Look, Build, OpenForIndex, Load, OpenForScan, Read, OpenAppend, Flush, InsertSteps, SelectSteps

-----------------------------------------------------------------------------
(***************************************************************************)
(* While a request runs that overlaps no rewrite, the table is one file    *)
(* and only grows.                                                         *)
(***************************************************************************)
LEMMA TableOnlyGrows ==
    ASSUME BasicInv, ContentInv, BasicInv', Sequential', NEW r \in Requests, Step(r) \/ Kill(r),
           NEW q \in Requests, q \notin Deletes, Running(q)', Apart(q)', pc[q] # "idle"
    PROVE  /\ Sequential /\ Running(q) /\ Apart(q) /\ r \notin Deletes
           /\ path["table"] \in Inode /\ Good(data[path["table"]])
           /\ path'["table"] = path["table"]
           /\ \/ data'[path["table"]] = data[path["table"]]
              \/ /\ Flush(r) /\ rows[r][1] \in FileRow /\ rows[r][1].by = r
                 /\ data'[path["table"]] = Appended(data[path["table"]], <<rows[r][1]>>)
<1>1. Sequential /\ Apart(q)
  BY OverlapStays
<1>2. Running(q)
  <2>1. CASE q # r
    BY <2>1, ActorOverlaps DEF BasicInv
  <2>2. CASE q = r
    BY <2>2, Acting DEF Running, Begun
  <2> QED
    BY <2>1, <2>2
<1>3. path["table"] # NoFile /\ Good(data[path["table"]]) /\ path["table"] \in Inode
  BY <1>1, <1>2, NoRewriteBeside DEF BasicInv, TypeInv
<1>4. r \notin Deletes
  <2>1. CASE q = r
    BY <2>1
  <2>2. CASE q # r
    BY <2>2, ActorOverlaps DEF Apart, BasicInv
  <2> QED
    BY <2>1, <2>2
<1>5. (path' = path \/ OpenAppend(r)) /\ (data' = data \/ Flush(r))
  BY <1>4, OthersLeaveTemp
<1>6. path'["table"] = path["table"]
  BY <1>3, <1>5 DEF OpenAppend, BasicInv, TypeInv
<1>7. \/ data'[path["table"]] = data[path["table"]]
      \/ /\ Flush(r) /\ rows[r][1] \in FileRow /\ rows[r][1].by = r
         /\ data'[path["table"]] = Appended(data[path["table"]], <<rows[r][1]>>)
  BY <1>3, <1>5, FlushedRow
<1> QED
  BY <1>1, <1>2, <1>3, <1>4, <1>6, <1>7

LEMMA InsertStep ==
    ASSUME BasicInv, ContentInv, InsertInv, NEW r \in Requests, Step(r) \/ Kill(r), BasicInv'
    PROVE  InsertInv'
<1> USE DEF At, Goto, Ends, Files, Handles
<1> SUFFICES ASSUME Sequential', NEW i \in Inserts, Running(i)', Apart(i)' PROVE Choosing(i)'
  BY DEF InsertInv
<1>0. i \in Requests /\ i \notin Deletes /\ i \notin Selects
  BY Requested
<1>1. CASE pc[i] = "idle"
  <2>1. r = i
    BY <1>0, <1>1, OnlyItsOwn DEF BasicInv, Running, Begun
  <2>2. pc'[i] = "build"
    BY <1>0, <1>1, <2>1 DEF Step, Kill, Begin, Look, Build, OpenForIndex, Load, OpenForScan, Read, OpenAppend,
           Flush, Clear, OpenSource, OpenTemp, Copy, WriteTemp, RemoveTable, RenameTemp, Undo, Exit, BasicInv, TypeInv
  <2> QED
    BY <2>2 DEF Choosing
<1>2. CASE pc[i] # "idle"
  <2>1. /\ Sequential /\ Running(i) /\ Apart(i) /\ r \notin Deletes
        /\ path["table"] \in Inode
        /\ path'["table"] = path["table"]
        /\ \/ data'[path["table"]] = data[path["table"]]
           \/ /\ Flush(r) /\ rows[r][1] \in FileRow /\ rows[r][1].by = r
              /\ data'[path["table"]] = Appended(data[path["table"]], <<rows[r][1]>>)
    BY <1>0, <1>2, TableOnlyGrows
  <2>2. Choosing(i) /\ before'[i] = before[i]
    BY <1>0, <2>1, OverlapStays DEF InsertInv, Running
  <2>3. data[path["table"]] \in Seq(FileRow)
    BY <2>1 DEF BasicInv, TypeInv
  <2>4. path["table"] # NoFile
    BY <2>1, Requested
  <2>a. PICK s : s = data[path["table"]]
    OBVIOUS
  <2>5. CASE r # i
    <3>1. pc'[i] = pc[i] /\ opened'[i] = opened[i] /\ written'[i] = written[i] /\ rows'[i] = rows[i]
      BY <1>0, <2>5, OnlyItsOwn DEF BasicInv
    <3>2. ~Earlier(r, i)'
      BY <1>0, <2>2, Acting DEF Earlier, BasicInv, HistoryInv
    <3>b. PICK new : new = data'[path'["table"]]
      OBVIOUS
    <3>3. ASSUME NEW n \in DOMAIN new, Apart(new[n].by)', Earlier(new[n].by, i)'
          PROVE  n \in DOMAIN s /\ new[n] = s[n]
      <4>1. CASE new = s
        BY <4>1
      <4>2. CASE rows[r][1] \in FileRow /\ rows[r][1].by = r /\ new = Appended(s, <<rows[r][1]>>)
        <5>1. /\ DOMAIN new = 1 .. Len(s) + 1 /\ DOMAIN s = 1 .. Len(s) /\ Len(s) \in Nat
              /\ \A m \in DOMAIN s : new[m] = s[m]
              /\ new[Len(s) + 1] = rows[r][1]
          BY <2>3, <2>a, <4>2, AppendedRow
        <5>2. n # Len(s) + 1
          BY <3>2, <3>3, <4>2, <5>1
        <5>3. n \in DOMAIN s
          BY <5>1, <5>2
        <5> QED
          BY <5>1, <5>3
      <4> QED
        BY <2>1, <2>a, <3>b, <4>1, <4>2
    <3>4. ASSUME NEW n \in DOMAIN new, Apart(new[n].by)', Earlier(new[n].by, i)'
          PROVE  /\ pc'[i] = "append" => \E m \in DOMAIN rows'[i] : rows'[i][m].id = new[n].id
                 /\ pc'[i] = "flush" => new[n].id < rows'[i][1].id
      <4>1. n \in DOMAIN s /\ new[n] = s[n]
        BY <3>3, <3>4
      <4>2. Apart(new[n].by)
        BY <3>4, OverlapStays
      <4>3. Earlier(new[n].by, i)
        BY <2>2, <3>4 DEF Earlier
      <4> QED
        BY <2>2, <2>a, <3>1, <4>1, <4>2, <4>3 DEF Choosing
    <3> QED
      BY <2>1, <2>2, <3>1, <3>4, <3>b DEF Choosing
  <2>6. CASE r = i
    <3>0. InStep(i) /\ outcome[i] = "none"
      BY <1>0, <2>1 DEF BasicInv, StepsInv, Running
    <3>1. CASE Build(i) \/ OpenForIndex(i)
      <4>1. pc'[i] = "open" \/ (pc'[i] = "load" /\ opened'[i] = path["table"])
        BY <1>0, <2>4, <3>1 DEF Build, OpenForIndex, OpensTable, BasicInv, TypeInv
      <4> QED
        BY <2>1, <4>1 DEF Choosing
    <3>2. CASE Load(i)
      <4>1. CASE Indexable(data[opened[i]])
        <5>1. pc'[i] = "append" /\ rows'[i] = s /\ data' = data
          BY <1>0, <2>2, <2>a, <3>2, <4>1 DEF Load, Choosing, BasicInv, TypeInv
        <5> QED
          BY <2>1, <2>a, <5>1 DEF Choosing
      <4>2. CASE ~Indexable(data[opened[i]])
        <5>1. outcome'[i] = "failed"
          BY <1>0, <3>2, <4>2 DEF Load, NoIndex, BasicInv, TypeInv
        <5> QED
          BY <5>1 DEF Running
      <4> QED
        BY <4>1, <4>2
    <3>3. CASE OpenAppend(i)
      <4>1. /\ pc[i] = "append" /\ pc'[i] = "flush" /\ data' = data
            /\ written'[i] = path["table"]
            /\ rows'[i] = <<Row(NextId(rows[i]), i)>>
        BY <1>0, <2>4, <3>3 DEF OpenAppend, BasicInv, TypeInv
      <4>2. \A m \in DOMAIN rows[i] : rows[i][m].id < NextId(rows[i])
        BY <1>0, NextIdIsGreater DEF BasicInv, TypeInv
      <4>3. rows'[i][1].id = NextId(rows[i])
        BY <4>1 DEF Row
      <4>4. ASSUME NEW n \in DOMAIN s, Apart(s[n].by)', Earlier(s[n].by, i)' PROVE s[n].id < rows'[i][1].id
        <5>1. Apart(s[n].by) /\ Earlier(s[n].by, i)
          BY <2>2, <4>4, OverlapStays DEF Earlier
        <5>2. \E m \in DOMAIN rows[i] : rows[i][m].id = s[n].id
          BY <2>2, <2>a, <4>1, <5>1 DEF Choosing
        <5> QED
          BY <4>2, <4>3, <5>2
      <4>5. data'[path'["table"]] = s
        BY <2>1, <2>a, <4>1
      <4> QED
        BY <2>1, <4>1, <4>4, <4>5 DEF Choosing
    <3>4. CASE Flush(i)
      <4>1. pc'[i] = "exit"
        BY <1>0, <3>4 DEF Flush, BasicInv, TypeInv
      <4> QED
        BY <4>1 DEF Choosing
    <3>5. CASE Exit(i) \/ Kill(i)
      <4>1. outcome'[i] # "none"
        BY <1>0, <3>5 DEF Exit, Kill, BasicInv, TypeInv
      <4> QED
        BY <4>1 DEF Running
    <3>6. pc[i] \notin DeleteSteps /\ pc[i] \notin {"look", "scan", "read", "idle"}
      BY <1>0, <1>2, <3>0 DEF InStep, InsertSteps, DeleteSteps
    <3> QED
      BY <2>6, <3>1, <3>2, <3>3, <3>4, <3>5, <3>6
      DEF Step, Begin, Look, OpenForScan, Read, Clear, OpenSource, OpenTemp, Copy, WriteTemp, RemoveTable,
          RenameTemp, Undo, DeleteSteps
  <2> QED
    BY <2>5, <2>6
<1> QED
  BY <1>1, <1>2

\* What is read from a good table, while no rewrite runs beside.
LEMMA SeesGood ==
    ASSUME BasicInv, NEW r \in Selects, Step(r) \/ Kill(r), NEW t, Good(t), rows'[r] = t
    PROVE  Sees(r)'
<1> SUFFICES ASSUME NEW q \in Inserters, Apart(q)', Unmatched(q)', Landed(q)'
             PROVE  AtMostOnce(q, t) /\ ~Absent(q, t)
  BY DEF Sees
<1>0. r \in Requests /\ ~Flush(r)
  BY Requested DEF BasicInv, StepsInv, InStep, SelectSteps, Flush, At
<1>1. Apart(q) /\ Unmatched(q)
  BY <1>0, OverlapStays
<1>2. Landed(q)
  BY <1>0, LandedStays
<1> QED
  BY <1>1, <1>2 DEF Good, Held

LEMMA SelectStep ==
    ASSUME BasicInv, ContentInv, SelectInv, NEW r \in Requests, Step(r) \/ Kill(r), BasicInv'
    PROVE  SelectInv'
<1> USE DEF At, Goto, Ends, Files, Handles
<1> DEFINE Reads(s) == Running(s) /\ pc[s] \in {"load", "read"} => opened[s] = path["table"]
<1> SUFFICES ASSUME Sequential', NEW s \in Selects, Begun(s)', Apart(s)'
             PROVE  Reads(s)' /\ (pc'[s] = "exit" => Sees(s)')
  BY DEF SelectInv
<1>0. /\ s \in Requests /\ s \notin Deletes /\ s \notin Inserts
      /\ Sequential /\ Apart(s)
  BY Requested, OverlapStays
<1>1. CASE r # s
  <2>1. /\ pc'[s] = pc[s] /\ opened'[s] = opened[s] /\ rows'[s] = rows[s] /\ before'[s] = before[s]
        /\ Begun(s) /\ (Running(s)' <=> Running(s))
    BY <1>0, <1>1, OnlyItsOwn DEF BasicInv, Running, Begun
  <2>2. Reads(s) /\ (pc[s] = "exit" => Sees(s))
    BY <1>0, <2>1 DEF SelectInv
  <2>3. Reads(s)'
    <3> SUFFICES ASSUME Running(s)', pc'[s] \in {"load", "read"} PROVE opened'[s] = path'["table"]
      OBVIOUS
    <3>1. path'["table"] = path["table"]
      BY <1>0, <2>1, TableOnlyGrows
    <3> QED
      BY <2>1, <2>2, <3>1
  <2>4. ASSUME pc'[s] = "exit" PROVE Sees(s)'
    <3> SUFFICES ASSUME NEW q \in Inserters, Apart(q)', Unmatched(q)', Landed(q)', Earlier(q, s)'
                 PROVE  AtMostOnce(q, rows'[s]) /\ ~Absent(q, rows'[s])
      BY DEF Sees
    <3>1. Apart(q) /\ Unmatched(q)
      BY OverlapStays
    <3>2. Earlier(q, s)
      BY <2>1 DEF Earlier
    <3>3. q # r
      BY <1>0, <3>2, Acting DEF Earlier, BasicInv, HistoryInv
    <3>4. Landed(q)
      BY <3>3, LandedStays
    <3> QED
      BY <2>1, <2>2, <2>4, <3>1, <3>2, <3>4 DEF Sees
  <2> QED
    BY <2>3, <2>4
<1>2. CASE r = s
  <2>0. InStep(s) /\ outcome[s] = "none"
    BY <1>0, <1>2, Acting DEF BasicInv, StepsInv
  <2>1. CASE Begin(s)
    BY <1>0, <2>1 DEF Begin, BasicInv, TypeInv
  <2>2. CASE pc[s] # "idle"
    <3>1. Running(s) /\ Begun(s)
      BY <2>0, <2>2 DEF Running, Begun
    <3>2. path["table"] # NoFile /\ Good(data[path["table"]])
      BY <1>0, <3>1, NoRewriteBeside
    <3>3. Reads(s) /\ (pc[s] = "exit" => Sees(s))
      BY <1>0, <3>1 DEF SelectInv
    <3>4. CASE Look(s) \/ Build(s)
      BY <1>0, <3>2, <3>4 DEF Look, Build, BasicInv, TypeInv
    <3>5. CASE OpenForIndex(s) \/ OpenForScan(s)
      <4>1. path'["table"] = path["table"] /\ opened'[s] = path["table"] /\ pc'[s] \in {"load", "read"}
        BY <1>0, <3>2, <3>5 DEF OpenForIndex, OpenForScan, OpensTable, BasicInv, TypeInv
      <4> QED
        BY <4>1
    <3>a. PICK t : t = data[path["table"]]
      OBVIOUS
    <3>6. CASE Load(s)
      <4>1. CASE Indexable(data[opened[s]])
        <5>1. pc'[s] = "exit" /\ rows'[s] = t
          BY <1>0, <3>1, <3>3, <3>6, <3>a, <4>1 DEF Load, BasicInv, TypeInv
        <5>2. Sees(s)'
          BY <1>2, <3>2, <3>a, <5>1, SeesGood
        <5> QED
          BY <5>1, <5>2
      <4>2. CASE ~Indexable(data[opened[s]])
        <5>1. pc'[s] = "scan"
          BY <1>0, <3>6, <4>2 DEF Load, NoIndex, BasicInv, TypeInv
        <5> QED
          BY <5>1
      <4> QED
        BY <4>1, <4>2
    <3>7. CASE Read(s)
      <4>1. pc'[s] = "exit" /\ rows'[s] = t
        BY <1>0, <3>1, <3>3, <3>7, <3>a DEF Read, BasicInv, TypeInv
      <4>2. Sees(s)'
        BY <1>2, <3>2, <3>a, <4>1, SeesGood
      <4> QED
        BY <4>1, <4>2
    <3>8. CASE Exit(s) \/ Kill(s)
      <4>1. /\ pc'[s] = pc[s] /\ rows'[s] = rows[s] /\ before'[s] = before[s] /\ outcome'[s] # "none"
            /\ ~Flush(s)
        BY <1>0, <2>0, <3>8, Requested DEF Exit, Kill, Flush, InStep, SelectSteps, BasicInv, TypeInv
      <4>2. ASSUME pc[s] = "exit" PROVE Sees(s)'
        <5> SUFFICES ASSUME NEW q \in Inserters, Apart(q)', Unmatched(q)', Landed(q)', Earlier(q, s)'
                     PROVE  AtMostOnce(q, rows'[s]) /\ ~Absent(q, rows'[s])
          BY DEF Sees
        <5>1. Apart(q) /\ Unmatched(q)
          BY OverlapStays
        <5>2. Earlier(q, s)
          BY <4>1 DEF Earlier
        <5>3. Landed(q)
          BY <1>2, <4>1, LandedStays
        <5> QED
          BY <3>3, <4>1, <4>2, <5>1, <5>2, <5>3 DEF Sees
      <4> QED
        BY <4>1, <4>2 DEF Running
    <3>9. pc[s] \notin DeleteSteps /\ pc[s] \notin {"append", "flush", "idle"}
      BY <1>0, <2>0, <2>2 DEF InStep, SelectSteps, DeleteSteps
    <3> QED
      BY <1>2, <3>4, <3>5, <3>6, <3>7, <3>8, <3>9
      DEF Step, Begin, OpenAppend, Flush, Clear, OpenSource, OpenTemp, Copy, WriteTemp, RemoveTable,
          RenameTemp, Undo, DeleteSteps
  <2>3. pc[s] = "idle" => Begin(s)
    BY <1>2 DEF Step, Kill, Look, Build, OpenForIndex, Load, OpenForScan, Read, OpenAppend, Flush,
                Clear, OpenSource, OpenTemp, Copy, WriteTemp, RemoveTable, RenameTemp, Undo, Exit
  <2> QED
    BY <2>1, <2>2, <2>3
<1> QED
  BY <1>1, <1>2

-----------------------------------------------------------------------------
IInv == BasicInv /\ RewriteInv /\ CleanInv /\ ContentInv /\ InsertInv /\ SelectInv

LEMMA InitInvariant == Init => IInv
<1> SUFFICES ASSUME Init PROVE IInv
  OBVIOUS
<1> DEFINE first == [n \in DOMAIN Stored |-> Row(n, Stored[n])]
<1>1. BasicInv
  BY InitTypes, InitSteps DEF BasicInv
<1>2. \A r \in Requests : ~Begun(r) /\ ~Running(r) /\ pc[r] = "idle"
  BY DEF Init, Begun, Running
<1>3. RewriteInv /\ CleanInv /\ InsertInv /\ SelectInv
  BY <1>2, Requested DEF RewriteInv, CleanInv, InsertInv, SelectInv
<1>4. Home = "first" /\ data["first"] = first
  BY <1>2, Requested DEF Init, Home, Renaming
<1>5. Good(first)
  <2>1. DOMAIN first = DOMAIN Stored /\ \A n \in DOMAIN first : first[n].by = Stored[n] /\ first[n].id = n
    BY DEF Row
  <2>2. \A m, n \in DOMAIN Stored : Stored[m] = Stored[n] => m = n
    BY StoredAssumption DEF IsInjective
  <2>3. \A q \in Inserts : q \notin Range(Stored) /\ pc[q] = "idle"
    BY <1>2, StoredAssumption, Requested
  <2> HIDE DEF first
  <2>4. ASSUME NEW q \in Inserters PROVE Held(q, first)
    <3>1. AtMostOnce(q, first)
      BY <2>1, <2>2 DEF AtMostOnce
    <3>2. CASE q \in Inserts
      <4>1. Absent(q, first)
        BY <2>1, <2>3, <3>2 DEF Absent, Range
      <4>2. ~Landed(q)
        BY <2>3, <3>2 DEF Landed
      <4> QED
        BY <3>1, <4>1, <4>2 DEF Held
    <3>3. CASE q \in Range(Stored)
      <4>1. ~Absent(q, first)
        BY <2>1, <3>3 DEF Absent, Range
      <4>2. Landed(q)
        BY <2>3, <3>3 DEF Landed
      <4> QED
        BY <3>1, <4>1, <4>2 DEF Held
    <3> QED
      BY <3>2, <3>3 DEF Inserters
  <2> QED
    BY <2>1, <2>4 DEF Good
<1>6. ContentInv
  BY <1>2, <1>4, <1>5, Requested, NoFileAssumption DEF ContentInv
<1> QED
  BY <1>1, <1>3, <1>6 DEF IInv

LEMMA StepInvariant ==
    ASSUME IInv, NEW r \in Requests, Step(r) \/ Kill(r)
    PROVE  IInv'
<1> USE DEF IInv
<1>1. BasicInv'
  <2>1. TypeInv'
    BY TypeStep DEF BasicInv
  <2>2. StepsInv'
    BY StepsStep DEF BasicInv
  <2>3. HistoryInv'
    BY HistoryStep DEF BasicInv
  <2>4. InodeInv'
    BY InodeStep DEF BasicInv
  <2> QED
    BY <2>1, <2>2, <2>3, <2>4 DEF BasicInv
<1>2. HistoryInv'
  BY <1>1 DEF BasicInv
<1>3. RewriteInv'
  BY <1>2, RewriteStep
<1>4. CleanInv'
  BY <1>2, <1>3, CleanStep
<1>5. ContentInv'
  BY <1>1, ContentRewrite, ContentOther
<1>6. InsertInv'
  BY <1>1, InsertStep
<1>7. SelectInv'
  BY <1>1, SelectStep
<1> QED
  BY <1>1, <1>3, <1>4, <1>5, <1>6, <1>7

LEMMA StutterInvariant ==
    ASSUME IInv, UNCHANGED vars
    PROVE  IInv'
<1> USE DEF vars
<1>1. BasicInv'
  BY DEF IInv, BasicInv, TypeInv, StepsInv, InStep, HistoryInv, InodeInv, Unused, Created
<1>2. RewriteInv' /\ CleanInv'
  BY DEF IInv, RewriteInv, OwnTemp, CleanInv, Removed, NowhereLeft, Alone, Overlap, Running, Begun, Earlier, Absent
<1>3. ContentInv'
  <2>1. \A d : (Running(d)' <=> Running(d)) /\ (Apart(d)' <=> Apart(d)) /\ (Alone(d)' <=> Alone(d))
    BY DEF Running, Begun, Apart, Alone, Overlap
  <2>2. \A p, q : Overlap(p, q)' <=> Overlap(p, q)
    BY DEF Overlap, Begun
  <2>3. (Sequential' <=> Sequential) /\ Home' = Home
    BY <2>1 DEF Sequential, Home, Renaming
  <2>4. \A q : (Landed(q)' <=> Landed(q)) /\ (Unmatched(q)' <=> Unmatched(q))
    BY DEF Landed, Unmatched, Begun
  <2>5. \A s : Good(s) => Good(s)'
    BY <2>1, <2>2, <2>4 DEF Good, Held
  <2>6. \A s : Disturbed(s) => Disturbed(s)'
    BY <2>1 DEF Disturbed
  <2>a. PICK home, temp, table : home = data[Home] /\ temp = data[path["temp"]] /\ table = data[path["table"]]
    OBVIOUS
  <2>7. ASSUME Good(home) PROVE Good(data[Home])'
    <3>1. Good(home)'
      BY <2>5, <2>7
    <3>2. home = data'[Home']
      BY <2>3, <2>a
    <3> QED
      BY <3>1, <3>2
  <2>8. ASSUME NEW d, Rewriting(d) PROVE Rewriting(d)'
    <3>b. PICK held : held = rows[d]
      OBVIOUS
    <3>1. Good(held) => Good(rows[d])'
      <4>1. held = rows'[d]
        BY <3>b
      <4> QED
        BY <2>5, <4>1
    <3>2. Good(temp) => Good(data[path["temp"]])'
      <4>1. temp = data'[path'["temp"]]
        BY <2>a
      <4> QED
        BY <2>5, <4>1
    <3>3. Disturbed(table) => Disturbed(data[path["table"]])'
      <4>1. table = data'[path'["table"]]
        BY <2>a
      <4> QED
        BY <2>6, <4>1
    <3> QED
      BY <2>8, <2>a, <3>b, <3>1, <3>2, <3>3 DEF Rewriting
  <2> QED
    BY <2>1, <2>3, <2>a, <2>7, <2>8 DEF IInv, ContentInv
<1>4. InsertInv'
  BY DEF IInv, InsertInv, Choosing, Sequential, Apart, Alone, Overlap, Running, Begun, Earlier
<1>5. SelectInv'
  BY DEF IInv, SelectInv, Sees, Sequential, Apart, Alone, Overlap, Running, Begun, Earlier, Landed, Unmatched,
         Absent, AtMostOnce
<1> QED
  BY <1>1, <1>2, <1>3, <1>4, <1>5 DEF IInv

(***************************************************************************)
(* The inductive invariant of the processes behind api_server.             *)
(***************************************************************************)
THEOREM SharedInvariant == Spec => []IInv
<1>1. IInv /\ [Next]_vars => IInv'
  BY StepInvariant, StutterInvariant DEF Next
<1> QED
  BY <1>1, InitInvariant, PTL DEF Spec

-----------------------------------------------------------------------------
(***************************************************************************)
(* What the invariant says of the properties that the runs check.          *)
(***************************************************************************)
LEMMA CountedCopies ==
    ASSUME NEW s \in Seq(FileRow), NEW q
    PROVE  /\ Absent(q, s) => Copies(q, s) = 0
           /\ AtMostOnce(q, s) => Copies(q, s) <= 1
           /\ AtMostOnce(q, s) /\ ~Absent(q, s) => Copies(q, s) = 1
<1> DEFINE ps == {n \in DOMAIN s : s[n].by = q}
<1>1. Copies(q, s) = Cardinality(ps)
  BY DEF Copies
<1>2. Absent(q, s) => ps = {}
  BY DEF Absent
<1>3. AtMostOnce(q, s) /\ ~Absent(q, s) => \E n : ps = {n}
  <2> SUFFICES ASSUME AtMostOnce(q, s), ~Absent(q, s) PROVE \E n : ps = {n}
    OBVIOUS
  <2>1. PICK n \in DOMAIN s : s[n].by = q
    BY DEF Absent
  <2>2. \A m \in ps : m = n
    BY <2>1 DEF AtMostOnce
  <2>3. n \in ps
    BY <2>1
  <2> QED
    BY <2>2, <2>3
<1> HIDE DEF ps
<1>4. ps = {} => Cardinality(ps) = 0
  BY FS_EmptySet
<1>5. \A n : Cardinality({n}) = 1
  BY FS_Singleton
<1>6. AtMostOnce(q, s) /\ ~Absent(q, s) => Cardinality(ps) = 1
  BY <1>3, <1>5
<1> QED
  BY <1>1, <1>2, <1>4, <1>6

LEMMA CurrentRows == TypeInv => Current \in Seq(FileRow)
BY DEF TypeInv, Current

LEMMA UndisturbedMeans == \A q : Undisturbed(q) => Sequential /\ Apart(q)
BY DEF Undisturbed, Sequential, Alone, Apart

\* A request that was answered reached its end; one that was refused did not.
LEMMA AnsweredLanded ==
    ASSUME StepsInv, NEW q \in Inserters
    PROVE  /\ Answered(q) => Landed(q)
           /\ q \in Requests /\ outcome[q] = "failed" => ~Landed(q)
<1>1. q \in Requests <=> q \in Inserts
  BY Requested, StoredAssumption DEF Inserters
<1> QED
  BY <1>1 DEF StepsInv, InStep, Answered, Landed

LEMMA TypesFollow == IInv => TypeOK
<1> SUFFICES ASSUME IInv PROVE TypeOK
  OBVIOUS
<1> USE DEF IInv, BasicInv
<1>1. DOMAIN data = Inode
  BY DEF TypeInv
<1>2. ASSUME NEW x \in DOMAIN data, NEW n \in DOMAIN data[x]
      PROVE  data[x][n].id \in Nat \ {0} /\ data[x][n].by \in Inserters
  <2>1. data[x] \in Seq(FileRow)
    BY <1>1 DEF TypeInv
  <2> QED
    BY <2>1, RowsOf DEF FileRow
<1>3. path \in [{"table", "temp"} -> DOMAIN data \cup {NoFile}]
  BY <1>1 DEF TypeInv
<1>4. (path["table"] = path["temp"] => path["table"] = NoFile)
  BY DEF InodeInv
<1> QED
  BY <1>2, <1>3, <1>4 DEF TypeOK, TypeInv

LEMMA LostFollows == IInv => LostOnlyByOverlap
<1> SUFFICES ASSUME IInv, \A d \in Deletes : ~Running(d), NEW q \in Inserters, Undisturbed(q)
             PROVE  /\ Answered(q) /\ Unmatched(q) => Copies(q, Current) = 1
                    /\ Copies(q, Current) <= 1
                    /\ q \in Requests /\ outcome[q] = "failed" => Copies(q, Current) = 0
  BY DEF LostOnlyByOverlap
<1>1. Sequential /\ Apart(q)
  BY UndisturbedMeans
<1>2. path["table"] # NoFile /\ Good(data[path["table"]])
  BY <1>1 DEF IInv, ContentInv, Home, Renaming
<1>3. Held(q, Current)
  BY <1>1, <1>2 DEF Good, Current
<1>4. Current \in Seq(FileRow)
  BY CurrentRows DEF IInv, BasicInv
<1>5. /\ Answered(q) => Landed(q)
      /\ q \in Requests /\ outcome[q] = "failed" => ~Landed(q)
  BY AnsweredLanded DEF IInv, BasicInv
<1> QED
  BY <1>3, <1>4, <1>5, CountedCopies DEF Held

LEMMA DeletedFollows == IInv => DeletedStaysDeleted
<1> SUFFICES ASSUME IInv, NEW d \in Deletes, NEW q \in Matching[d], outcome[d] = "done",
                    AnsweredBefore(q, d), \A e \in Deletes : ~Overlap(d, e)
             PROVE  Copies(q, Current) = 0
  BY DEF DeletedStaysDeleted
<1>1. pc[d] = "exit" /\ Begun(d)
  BY Requested DEF IInv, BasicInv, StepsInv, InStep, Begun
<1>2. Alone(d) /\ Earlier(q, d)
  BY DEF Alone, AnsweredBefore, Earlier
<1>3. NowhereLeft(q)
  BY <1>1, <1>2 DEF IInv, CleanInv, Removed
<1>4. Absent(q, Current)
  BY <1>3, AbsentFromEmpty DEF NowhereLeft, Current
<1>5. Current \in Seq(FileRow)
  BY CurrentRows DEF IInv, BasicInv
<1> QED
  BY <1>4, <1>5, CountedCopies

LEMMA SelectFollows == IInv => SelectSeesAnswered
<1> SUFFICES ASSUME IInv, NEW s \in Selects, outcome[s] = "done", \A d \in Deletes : ~Overlap(s, d),
                    NEW q \in Inserters, AnsweredBefore(q, s), Unmatched(q), Undisturbed(q)
             PROVE  Copies(q, rows[s]) = 1
  BY DEF SelectSeesAnswered
<1>1. pc[s] = "exit" /\ Begun(s) /\ rows[s] \in Seq(FileRow)
  BY Requested DEF IInv, BasicInv, TypeInv, StepsInv, InStep, Begun
<1>2. Sequential /\ Apart(q) /\ Apart(s)
  BY UndisturbedMeans DEF Apart
<1>3. Landed(q) /\ Earlier(q, s)
  BY AnsweredLanded DEF AnsweredBefore, Earlier, IInv, BasicInv
<1>4. AtMostOnce(q, rows[s]) /\ ~Absent(q, rows[s])
  BY <1>1, <1>2, <1>3 DEF IInv, SelectInv, Sees
<1> QED
  BY <1>1, <1>4, CountedCopies

LEMMA SameIdFollows == IInv => SameIdOnlyByOverlap
<1> SUFFICES ASSUME IInv, NEW m \in DOMAIN Current, NEW n \in DOMAIN Current, m # n,
                    Current[m].id = Current[n].id, ~Overlap(Current[m].by, Current[n].by),
                    Undisturbed(Current[m].by), Undisturbed(Current[n].by)
             PROVE  FALSE
  BY DEF SameIdOnlyByOverlap
<1>1. Sequential /\ Apart(Current[m].by) /\ Apart(Current[n].by)
  BY UndisturbedMeans
<1>2. path["table"] # NoFile /\ Current = data[path["table"]]
  BY DEF Current
<1>3. CASE Renaming
  <2>1. Disturbed(Current)
    BY <1>1, <1>2, <1>3 DEF IInv, ContentInv, Renaming, Rewriting
  <2> QED
    BY <1>1, <2>1 DEF Disturbed
<1>4. CASE ~Renaming
  <2>1. Good(Current)
    BY <1>1, <1>2, <1>4 DEF IInv, ContentInv, Home
  <2> QED
    BY <1>1, <2>1 DEF Good
<1> QED
  BY <1>3, <1>4

(***************************************************************************)
(* In every reachable state a path leads to no file or to an inode of its  *)
(* own, and every row of every file is one that an INSERT wrote.           *)
(***************************************************************************)
THEOREM SharedTypes == Spec => []TypeOK
BY SharedInvariant, TypesFollow, PTL

(***************************************************************************)
(* However many requests overlap, and whichever the 5 s timeout kills: an  *)
(* answered row that no DELETE matches is in the table once when no        *)
(* rewrite runs, and a refused one is not, unless a rewrite overlapped its *)
(* INSERT or another rewrite, or was killed between remove and rename.     *)
(***************************************************************************)
THEOREM RowsAreKept == Spec => []LostOnlyByOverlap
BY SharedInvariant, LostFollows, PTL

(***************************************************************************)
(* No request brings back a row that an answered DELETE removed, unless    *)
(* another rewrite overlapped that DELETE.                                 *)
(***************************************************************************)
THEOREM DeletionsStay == Spec => []DeletedStaysDeleted
BY SharedInvariant, DeletedFollows, PTL

(***************************************************************************)
(* A SELECT that overlaps no rewrite returns every row answered before it  *)
(* began, once, by the index or by the scan.                               *)
(***************************************************************************)
THEOREM SelectsSee == Spec => []SelectSeesAnswered
BY SharedInvariant, SelectFollows, PTL

(***************************************************************************)
(* Two generated ids of the table are equal only if the INSERTs            *)
(* overlapped, or a rewrite disturbed one of them.                         *)
(***************************************************************************)
THEOREM IdsDiffer == Spec => []SameIdOnlyByOverlap
BY SharedInvariant, SameIdFollows, PTL
=============================================================================
