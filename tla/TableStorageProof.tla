-------------------------- MODULE TableStorageProof --------------------------
(***************************************************************************)
(* Proofs about TableStorage, for every set of ids and values, every       *)
(* MaxInt and MaxRows, and every set of faults.                            *)
(***************************************************************************)
EXTENDS TableStorageProps, PositionLemmas

LEMMA SelectionTypes ==
    ASSUME NEW D, NEW rows \in Seq(D), NEW w
    PROVE  /\ Selected(w, rows) \in Seq(D)
           /\ Kept(w, rows) \in Seq(D)
BY AtPositionsType DEF Selected, Kept, MatchPositions

LEMMA ReadableRows ==
    ASSUME NEW rows \in Seq(Record), Readable(rows)
    PROVE  rows \in Seq(Row)
<1>1. \A i \in 1 .. Len(rows) : rows[i] \in Row
  BY ElementOfSeq, LenProperties DEF Readable, Record
<1>2. rows \in [1 .. Len(rows) -> Row] /\ Len(rows) \in Nat
  BY <1>1, LenProperties
<1> QED
  BY <1>2, SeqDef

LEMMA FileRowsType ==
    ASSUME TypeOK
    PROVE  FileRows \in Seq(Record)
BY EmptySeq DEF TypeOK, FileRows

(***************************************************************************)
(* The cache build_table_index_cache makes of a table it can index.        *)
(***************************************************************************)
LEMMA IdsAreFinite ==
    ASSUME NEW rows \in Seq(Row)
    PROVE  IdsOf(rows) \in SUBSET Int /\ IsFiniteSet(IdsOf(rows))
<1>1. Len(rows) \in Nat /\ DOMAIN rows = 1 .. Len(rows)
  BY LenProperties
<1>2. \A i \in 1 .. Len(rows) : rows[i] \in Row
  BY ElementOfSeq
<1> DEFINE f == [i \in 1 .. Len(rows) |-> rows[i].id]
<1>3. IdsOf(rows) \in SUBSET Int
  BY <1>1, <1>2 DEF IdsOf, Row
<1>4. f \in Surjection(1 .. Len(rows), IdsOf(rows))
  BY <1>1 DEF Surjection, IdsOf
<1>5. IsFiniteSet(1 .. Len(rows))
  BY <1>1, FS_Interval
<1> QED
  BY <1>3, <1>4, <1>5, FS_Surjection

LEMMA NextIdAfterBounds ==
    ASSUME NEW rows \in Seq(Row), \A p \in DOMAIN rows : IsIntKey(rows[p].id)
    PROVE  /\ NextIdAfter(rows) \in 1 .. MaxInt + 1
           /\ \A i \in IdsOf(rows) : i < NextIdAfter(rows)
<1> DEFINE ids == IdsOf(rows)
           above == {i + 1 : i \in ids}
           f == [i \in ids |-> i + 1]
<1>1. ids \in SUBSET Int /\ IsFiniteSet(ids)
  BY IdsAreFinite
<1>2. f \in Surjection(ids, above)
  BY DEF Surjection
<1>3. IsFiniteSet(above)
  BY <1>1, <1>2, FS_Surjection
<1>4. IsFiniteSet({1} \cup above) /\ {1} \cup above \in SUBSET Int
  <2>1. IsFiniteSet({1})
    BY FS_Singleton
  <2>2. IsFiniteSet({1} \cup above)
    BY <2>1, <1>3, FS_Union
  <2>3. above \in SUBSET Int
    BY <1>1
  <2> QED
    BY <2>2, <2>3
<1>5. /\ NextIdAfter(rows) \in {1} \cup above
      /\ \A x \in {1} \cup above : x <= NextIdAfter(rows)
  BY <1>4, MaxIsGreatest DEF NextIdAfter
<1>6. \A i \in ids : i <= MaxInt
  BY DEF IdsOf, IsIntKey
<1>7. \A x \in {1} \cup above : x \in Int /\ x <= MaxInt + 1
  BY <1>1, <1>6, MaxIntAssumption
<1>8. NextIdAfter(rows) \in Int /\ 1 <= NextIdAfter(rows) /\ NextIdAfter(rows) <= MaxInt + 1
  BY <1>5, <1>7
<1>9. \A i \in ids : i < NextIdAfter(rows)
  <2> TAKE i \in ids
  <2>1. i + 1 \in {1} \cup above
    OBVIOUS
  <2>2. i \in Int
    BY <1>1
  <2>3. i + 1 <= NextIdAfter(rows)
    BY <2>1, <1>5
  <2> HIDE DEF above, ids
  <2> QED
    BY <2>2, <2>3, <1>8
<1> QED
  BY <1>8, <1>9, MaxIntAssumption

LEMMA CacheOfGood ==
    ASSUME NEW rows \in Seq(Record), Indexable(rows)
    PROVE  /\ CacheGood(CacheOf(rows))
           /\ CacheOf(rows).ready
           /\ CacheOf(rows).rows = rows
<1> DEFINE c == CacheOf(rows)
           at(i) == CHOOSE p \in DOMAIN rows : rows[p].id = i
<1>1. rows \in Seq(Row)
  BY ReadableRows DEF Indexable
<1>2. DOMAIN rows = 1 .. Len(rows) /\ Len(rows) \in Nat
  BY <1>1, LenProperties
<1>3. /\ c.ready = TRUE
      /\ c.rows = rows
      /\ c.index = [i \in IdsOf(rows) |-> at(i)]
      /\ c.nextId = NextIdAfter(rows)
      /\ DOMAIN c = {"ready", "rows", "index", "nextId"}
  BY DEF CacheOf
<1>4. \A i \in IdsOf(rows) : at(i) \in DOMAIN rows /\ rows[at(i)].id = i
  BY DEF IdsOf
<1>5. c.index \in [DOMAIN c.index -> Nat \ {0}]
  BY <1>2, <1>3, <1>4
<1>6. \A p \in DOMAIN rows : /\ IsIntKey(rows[p].id)
                            /\ rows[p].id \in IdsOf(rows)
                            /\ at(rows[p].id) = p
  BY <1>4 DEF Indexable, IdsOf
<1>7. Indexes(c)
  BY <1>3, <1>6 DEF Indexes
<1>8. /\ NextIdAfter(rows) \in 1 .. MaxInt + 1
      /\ \A i \in IdsOf(rows) : i < NextIdAfter(rows)
  BY <1>1, <1>6, NextIdAfterBounds
<1>9. Fresh(c)
  BY <1>3, <1>8 DEF Fresh
<1>10. NextIdAfter(rows) \in Int
  BY <1>8, MaxIntAssumption
<1> HIDE DEF c
<1>11. CacheType(c)
  BY <1>1, <1>3, <1>5, <1>10 DEF CacheType
<1> QED
  BY <1>3, <1>7, <1>9, <1>11 DEF CacheGood, c

\* cache_insert_row keeps rows, index and next_id together.
LEMMA CacheInsertGood ==
    ASSUME NEW c, CacheGood(c), c.ready,
           NEW r \in Row, IsIntKey(r.id), r.id \notin DOMAIN c.index
    PROVE  CacheGood(CacheInsert(c, r)) /\ CacheInsert(c, r).ready
<1> DEFINE d == CacheInsert(c, r)
           n == Len(c.rows)
<1>1. /\ CacheType(c) /\ Indexes(c) /\ Fresh(c)
      /\ c.rows \in Seq(Row)
  BY DEF CacheGood, CacheType
<1>2. n \in Nat /\ DOMAIN c.rows = 1 .. n
  BY <1>1, LenProperties
<1>3. /\ DOMAIN d = {"ready", "rows", "index", "nextId"}
      /\ d.ready = c.ready
      /\ d.rows = Append(c.rows, r)
      /\ d.index = [i \in DOMAIN c.index \cup {r.id} |->
                      IF i = r.id THEN n + 1 ELSE c.index[i]]
      /\ d.nextId = IF r.id >= c.nextId THEN r.id + 1 ELSE c.nextId
  BY <1>1 DEF CacheInsert, CacheType
<1>4. /\ d.rows \in Seq(Row)
      /\ DOMAIN d.rows = 1 .. n + 1
      /\ \A p \in 1 .. n : d.rows[p] = c.rows[p]
      /\ d.rows[n + 1] = r
  <2>1. /\ Append(c.rows, r) \in Seq(Row)
        /\ Len(Append(c.rows, r)) = n + 1
        /\ \A p \in 1 .. n : Append(c.rows, r)[p] = c.rows[p]
        /\ Append(c.rows, r)[n + 1] = r
    BY <1>1, AppendProperties
  <2>2. DOMAIN Append(c.rows, r) = 1 .. n + 1
    BY <2>1, LenProperties
  <2> QED
    BY <2>1, <2>2, <1>3
<1>5. d.index \in [DOMAIN d.index -> Nat \ {0}]
  BY <1>1, <1>2, <1>3 DEF CacheType
<1>6. r.id \in Int /\ c.nextId \in Int
  BY <1>1 DEF Row, CacheType
<1> HIDE DEF d, n
<1>7. CacheType(d)
  BY <1>1, <1>3, <1>4, <1>5, <1>6 DEF CacheType
<1>8. IdsOf(d.rows) = IdsOf(c.rows) \cup {r.id}
  <2>1. IdsOf(d.rows) = {d.rows[p].id : p \in 1 .. n + 1}
    BY <1>4 DEF IdsOf
  <2>2. IdsOf(c.rows) = {c.rows[p].id : p \in 1 .. n}
    BY <1>2 DEF IdsOf
  <2>3. 1 .. n + 1 = (1 .. n) \cup {n + 1}
    BY <1>2
  <2>4. {d.rows[p].id : p \in 1 .. n} = {c.rows[p].id : p \in 1 .. n}
    BY <1>4
  <2>5. IdsOf(d.rows) = {d.rows[p].id : p \in 1 .. n} \cup {d.rows[n + 1].id}
    BY <2>1, <2>3
  <2> QED
    BY <2>2, <2>4, <2>5, <1>4
<1>9. Indexes(d)
  <2>1. DOMAIN d.index = IdsOf(d.rows)
    BY <1>1, <1>3, <1>8 DEF Indexes
  <2>2. ASSUME NEW p \in 1 .. n
        PROVE  IsIntKey(d.rows[p].id) /\ d.index[d.rows[p].id] = p
    <3>1. d.rows[p] = c.rows[p] /\ IsIntKey(c.rows[p].id) /\ c.index[c.rows[p].id] = p
      BY <1>1, <1>2, <1>4 DEF Indexes
    <3>2. c.rows[p].id \in DOMAIN c.index
      BY <1>1, <1>2 DEF Indexes, IdsOf
    <3> QED
      BY <3>1, <3>2, <1>3
  <2>3. IsIntKey(d.rows[n + 1].id) /\ d.index[d.rows[n + 1].id] = n + 1
    BY <1>3, <1>4
  <2>4. \A p \in DOMAIN d.rows : p \in 1 .. n \/ p = n + 1
    BY <1>2, <1>4
  <2> QED
    BY <2>1, <2>2, <2>3, <2>4 DEF Indexes
<1>10. Fresh(d)
  <2>1. r.id <= MaxInt
    BY DEF IsIntKey
  <2>2. c.nextId \in 1 .. MaxInt + 1 /\ \A i \in DOMAIN c.index : i < c.nextId
    BY <1>1 DEF Fresh
  <2>3. d.nextId \in 1 .. MaxInt + 1
    BY <2>1, <2>2, <1>3, <1>6, MaxIntAssumption
  <2>4. c.nextId <= d.nextId /\ r.id < d.nextId
    BY <1>3, <1>6
  <2>5. \A i \in DOMAIN c.index : i \in Int
    BY <1>1, IdsAreFinite DEF Indexes
  <2>6. \A i \in DOMAIN c.index : i < d.nextId
    BY <2>2, <2>4, <2>5, <1>6, <2>3
  <2>7. DOMAIN d.index = DOMAIN c.index \cup {r.id}
    BY <1>3
  <2> QED
    BY <2>3, <2>4, <2>6, <2>7 DEF Fresh
<1> QED
  BY <1>3, <1>7, <1>9, <1>10 DEF CacheGood, d

LEMMA NoCacheGood == CacheGood(NoCache) /\ ~NoCache.ready
<1>1. <<>> \in Seq(Row)
  BY EmptySeq
<1> QED
  BY <1>1 DEF CacheGood, CacheType, NoCache

LEMMA ClosedGood == ASSUME NEW c PROVE StreamGood(Closed, c)
BY EmptySeq DEF StreamGood, Closed

(***************************************************************************)
(* What ensure_table_index_cache hands to a statement.                     *)
(***************************************************************************)
LEMMA EnsuredGood ==
    ASSUME CacheInv
    PROVE  /\ CacheGood(EnsuredCache)
           /\ EnsuredCache.ready => kind = "INT"
           /\ StreamGood(EnsuredStream, EnsuredCache)
<1>1. FileRows \in Seq(Record)
  BY FileRowsType DEF CacheInv
<1>2. CASE CacheKept
  <2>1. EnsuredCache = cache /\ EnsuredStream = stream
    BY <1>2 DEF EnsuredCache, EnsuredStream
  <2> QED
    BY <2>1 DEF CacheInv
<1>3. CASE ~CacheKept /\ kind = "INT" /\ Indexable(FileRows)
  <2>1. EnsuredCache = CacheOf(FileRows) /\ EnsuredStream = Closed
    BY <1>3 DEF EnsuredCache, EnsuredStream
  <2> QED
    BY <1>1, <1>3, <2>1, CacheOfGood, ClosedGood
<1>4. CASE ~CacheKept /\ ~(kind = "INT" /\ Indexable(FileRows))
  <2>1. EnsuredCache = NoCache /\ EnsuredStream = Closed
    BY <1>4 DEF EnsuredCache, EnsuredStream
  <2> QED
    BY <2>1, NoCacheGood, ClosedGood
<1> QED
  BY <1>2, <1>3, <1>4

LEMMA InsertSourceGood ==
    ASSUME CacheInv
    PROVE  /\ CacheGood(InsertCache)
           /\ InsertCache.ready => kind = "INT"
           /\ StreamGood(InsertStream, InsertCache)
BY EnsuredGood DEF InsertCache, InsertStream, CacheInv

(***************************************************************************)
(* A flush moves a prefix of the buffer to the file.                       *)
(***************************************************************************)
LEMMA RowsAreRecords == ASSUME NEW rows \in Seq(Row) PROVE rows \in Seq(Record)
BY SeqMonotonic DEF Record

LEMMA FrontTail ==
    ASSUME NEW D, NEW seq \in Seq(D), seq # <<>>
    PROVE  Front(seq) \in Seq(D) /\ Tail(seq) \in Seq(D) /\ Last(seq) \in D /\ seq[1] \in D
<1>1. Len(seq) \in Nat \ {0} /\ \A i \in 1 .. Len(seq) : seq[i] \in D
  BY EmptySeq, LenProperties, ElementOfSeq
<1>2. Front(seq) \in Seq(D)
  BY <1>1, SubSeqProperties DEF Front
<1> QED
  BY <1>1, <1>2, HeadTailProperties DEF Last

LEMMA SpliceType ==
    ASSUME NEW D, NEW s \in Seq(D), NEW m \in D, NEW t \in Seq(D)
    PROVE  s \o <<m>> \o t \in Seq(D) /\ s \o <<m>> \o t # <<>>
<1>1. <<m>> \in Seq(D) /\ Len(<<m>>) = 1
  OBVIOUS
<1>2. s \o <<m>> \in Seq(D) /\ Len(s \o <<m>>) = Len(s) + 1
  BY <1>1, ConcatProperties
<1>3. s \o <<m>> \o t \in Seq(D) /\ Len(s \o <<m>> \o t) = Len(s) + 1 + Len(t)
  BY <1>2, ConcatProperties
<1>4. Len(s) \in Nat /\ Len(t) \in Nat
  BY LenProperties
<1> QED
  BY <1>3, <1>4, EmptySeq

LEMMA MergedType ==
    ASSUME NEW last \in Record, NEW r \in Record
    PROVE  Merged(last, r) \subseteq Record
BY IdsAssumption DEF Merged, Record, Row, Shortened

LEMMA JoinedType ==
    ASSUME NEW file \in Seq(Record), NEW c \in BOOLEAN, c => file # <<>>,
           NEW new \in Seq(Record), NEW f \in Joined(file, c, new)
    PROVE  f \in Seq(Record) /\ (c \/ new # <<>> => f # <<>>)
<1>1. CASE c /\ new # <<>>
  <2>1. PICK m \in Merged(Last(file), new[1]) : f = Front(file) \o <<m>> \o Tail(new)
    BY <1>1 DEF Joined
  <2>2. /\ Front(file) \in Seq(Record) /\ Last(file) \in Record
        /\ Tail(new) \in Seq(Record) /\ new[1] \in Record
    BY <1>1, FrontTail
  <2>3. m \in Record
    BY <2>2, MergedType
  <2> QED
    BY <2>1, <2>2, <2>3, SpliceType
<1>2. CASE ~(c /\ new # <<>>)
  <2>1. f = file \o new
    BY <1>2 DEF Joined
  <2> QED
    BY <2>1, ConcatProperties, ConcatEqualIffEmpty
<1> QED
  BY <1>1, <1>2

LEMMA AppendedType ==
    ASSUME CacheInv, NEW new \in Seq(Record)
    PROVE  Appended(new) \in Seq(Record)
<1>1. FileRows \in Seq(Record)
  BY FileRowsType DEF CacheInv
<1>2. CASE cut /\ new # <<>>
  <2>1. FileRows # <<>>
    BY <1>2 DEF CacheInv, CutGood, FileRows
  <2>2. Front(FileRows) \in Seq(Record) /\ Tail(new) \in Seq(Record) /\ Torn \in Record
    BY <1>1, <1>2, <2>1, FrontTail DEF Record
  <2> QED
    BY <1>2, <2>2, SpliceType DEF Appended
<1>3. CASE ~(cut /\ new # <<>>)
  BY <1>1, <1>3, ConcatProperties DEF Appended
<1> QED
  BY <1>2, <1>3

LEMMA FlushGood ==
    ASSUME CacheInv, NEW n \in 0 .. Len(stream.buf)
    PROVE  /\ FileAfterFlush(n) \in Seq(Record) \cup {NoFile}
           /\ stream.st = "open" => FileAfterFlush(n) # NoFile
           /\ StreamAfterFlush(n) \in [st : {"closed", "open", "orphan"}, buf : Seq(Row)]
           /\ StreamAfterFlush(n).st = stream.st
           /\ stream.st # "open" => StreamAfterFlush(n).buf = <<>>
<1> DEFINE buf == stream.buf
<1>1. /\ stream \in [st : {"closed", "open", "orphan"}, buf : Seq(Row)]
      /\ buf \in Seq(Row)
      /\ table \in Seq(Record) \cup {NoFile}
  BY DEF CacheInv, TypeOK
<1>2. /\ Len(buf) \in Nat
      /\ \A i \in 1 .. Len(buf) : buf[i] \in Row
  BY <1>1, LenProperties, ElementOfSeq
<1>3. SubSeq(buf, 1, n) \in Seq(Row) /\ SubSeq(buf, n + 1, Len(buf)) \in Seq(Row)
  BY <1>2, SubSeqProperties
<1>4. Appended(SubSeq(buf, 1, n)) \in Seq(Record)
  BY <1>3, RowsAreRecords, AppendedType
<1>5. <<>> \in Seq(Row)
  BY EmptySeq
<1> QED
  BY <1>1, <1>3, <1>4, <1>5, NoFileAssumption DEF FileAfterFlush, StreamAfterFlush

\* A line that stays cut is still there.
LEMMA FlushCutGood ==
    ASSUME CacheInv, NEW n \in 0 .. Len(stream.buf), CutAfterFlush(n)
    PROVE  cut /\ FileAfterFlush(n) = table /\ table # NoFile /\ table # <<>>
<1>1. cut /\ table # NoFile /\ table # <<>> /\ FileRows = table
  BY DEF CutAfterFlush, CacheInv, CutGood, FileRows
<1>2. CASE stream.st = "open"
  <2>1. n = 0 /\ SubSeq(stream.buf, 1, n) = <<>>
    BY <1>2, SubSeqEmpty DEF CutAfterFlush
  <2>2. FileRows \o <<>> = FileRows
    BY FileRowsType, ConcatEmptySeq DEF CacheInv
  <2> QED
    BY <1>1, <1>2, <2>1, <2>2 DEF FileAfterFlush, Appended
<1>3. CASE stream.st # "open"
  BY <1>1, <1>3 DEF FileAfterFlush
<1> QED
  BY <1>2, <1>3

LEMMA FlushDone ==
    ASSUME CacheInv, NEW n \in 0 .. Len(stream.buf), Flush(n)
    PROVE  table' \in Seq(Record) \cup {NoFile} /\ cut' \in BOOLEAN /\ CutGood'
<1>1. cut \in BOOLEAN
  BY DEF CacheInv, TypeOK
<1> QED
  BY <1>1, FlushGood, FlushCutGood DEF Flush, CutGood, CutAfterFlush

LEMMA CutShortGood ==
    ASSUME CacheInv, NEW rows \in Seq(Row), NEW n \in 0 .. Len(rows), FlushCutShort(rows, n)
    PROVE  table' \in Seq(Record) /\ cut' \in BOOLEAN /\ CutGood'
<1>1. /\ FileRows \in Seq(Record) /\ cut \in BOOLEAN
      /\ cut => FileRows # <<>>
  BY FileRowsType DEF CacheInv, TypeOK, CutGood, FileRows
<1>2. Len(rows) \in Nat /\ \A i \in 1 .. Len(rows) : rows[i] \in Row
  BY LenProperties, ElementOfSeq
<1>3. SubSeq(rows, 1, n) \in Seq(Record)
  BY <1>2, SubSeqProperties, RowsAreRecords
<1>4. CASE table' \in Joined(FileRows, cut, SubSeq(rows, 1, n)) /\ cut' = (cut /\ n = 0)
  <2>1. table' \in Seq(Record) /\ (cut => table' # <<>>)
    BY <1>1, <1>3, <1>4, JoinedType
  <2> QED
    BY <1>1, <1>4, <2>1, NoFileAssumption DEF CutGood
<1>5. ASSUME n < Len(rows), cut' = TRUE,
             NEW piece \in Pieces(rows[n + 1]),
             table' \in Joined(FileRows, cut, Append(SubSeq(rows, 1, n), piece))
      PROVE  table' \in Seq(Record) /\ cut' \in BOOLEAN /\ CutGood'
  <2>1. piece \in Record
    BY <1>2, <1>5 DEF Pieces, Shortened, Record, Row
  <2>2. /\ Append(SubSeq(rows, 1, n), piece) \in Seq(Record)
        /\ Append(SubSeq(rows, 1, n), piece) # <<>>
    BY <1>3, <2>1, AppendProperties
  <2> DEFINE new == Append(SubSeq(rows, 1, n), piece)
  <2>3. table' \in Joined(FileRows, cut, new) /\ new \in Seq(Record) /\ new # <<>>
    BY <1>5, <2>2
  <2> HIDE DEF new
  <2>4. table' \in Seq(Record) /\ table' # <<>>
    BY <1>1, <2>3, JoinedType
  <2> QED
    BY <1>5, <2>4, NoFileAssumption DEF CutGood
<1> QED
  BY <1>4, <1>5 DEF FlushCutShort

LEMMA FlushCountsBound ==
    ASSUME CacheInv
    PROVE  FlushCounts \subseteq 0 .. Len(stream.buf) /\ Len(stream.buf) \in 0 .. Len(stream.buf)
<1>1. Len(stream.buf) \in Nat
  BY LenProperties DEF CacheInv, TypeOK
<1> QED
  BY <1>1 DEF FlushCounts

LEMMA ReplyTypes ==
    /\ Error \in ReplyType
    /\ \A st \in Statements : Done(st) \in ReplyType
    /\ \A w \in Where, rows \in Seq(Row) : Answer(w, rows) \in ReplyType
    /\ {"CREATE", "INSERT", "REWRITE", "BULK"} \subseteq Statements
    /\ <<>> \in Seq(Row)
    /\ <<>> \in Seq(Record)
BY EmptySeq DEF Error, Done, Answer, ReplyType, Statements, Where

(***************************************************************************)
(* One lemma per statement: CacheInv is preserved.                         *)
(***************************************************************************)
LEMMA InitInv == Init => CacheInv
<1> SUFFICES ASSUME Init PROVE CacheInv
  OBVIOUS
<1>1. CacheGood(cache) /\ ~cache.ready
  BY NoCacheGood DEF Init
<1>2. StreamGood(stream, cache)
  BY ClosedGood DEF Init
<1>3. bulk = [open |-> FALSE, kind |-> "none", cache |-> FALSE]
  BY DEF Init, NoBulk
<1>4. TypeOK
  <2>1. CacheType(cache) /\ stream \in [st : {"closed", "open", "orphan"}, buf : Seq(Row)]
    BY <1>1, <1>2 DEF CacheGood, StreamGood
  <2>2. /\ kind = "none" /\ table = NoFile /\ cut = FALSE /\ temp = NoFile /\ pc = "idle"
        /\ reply = Error
    BY DEF Init
  <2> QED
    BY <1>3, <2>1, <2>2, ReplyTypes DEF TypeOK
<1>5. CutGood
  BY DEF Init, CutGood
<1> QED
  BY <1>1, <1>2, <1>3, <1>4, <1>5 DEF CacheInv, BulkContextIsLive

\* A step that drops bulk context, cache and stream.
LEMMA DroppedInv ==
    ASSUME cache' = NoCache, stream' = Closed, bulk' = NoBulk,
           kind' \in {"none", "INT", "VARCHAR"},
           table' \in Seq(Record) \cup {NoFile}, cut' \in BOOLEAN, CutGood',
           temp' \in Seq(Record) \cup {NoFile},
           pc' \in {"idle", "rewritten", "removed"},
           reply' \in ReplyType
    PROVE  CacheInv'
<1>1. CacheGood(cache') /\ ~(cache'.ready)
  BY NoCacheGood
<1>2. StreamGood(stream, cache)'
  BY ReplyTypes DEF StreamGood, Closed
<1>3. bulk' = [open |-> FALSE, kind |-> "none", cache |-> FALSE]
  BY DEF NoBulk
<1>4. TypeOK'
  BY <1>1, <1>2, <1>3 DEF TypeOK, CacheGood, StreamGood
<1> QED
  BY <1>1, <1>2, <1>3, <1>4 DEF CacheInv, BulkContextIsLive

\* A step that keeps cache, bulk context and schema, and flushes at most.
LEMMA FlushedInv ==
    ASSUME CacheInv, UNCHANGED <<kind, cache, bulk>>,
           NEW n \in 0 .. Len(stream.buf), stream' = StreamAfterFlush(n),
           Flush(n) \/ (UNCHANGED <<table, cut>> /\ n = Len(stream.buf)),
           temp' \in Seq(Record) \cup {NoFile},
           pc' \in {"idle", "rewritten", "removed"},
           reply' \in ReplyType
    PROVE  CacheInv'
<1>1. table' \in Seq(Record) \cup {NoFile} /\ (stream'.st = "open" => table' # NoFile)
  BY FlushGood DEF Flush, CacheInv, TypeOK, StreamGood
<1>2. /\ stream' \in [st : {"closed", "open", "orphan"}, buf : Seq(Row)]
      /\ stream'.st = stream.st
      /\ stream'.st = "closed" => stream'.buf = <<>>
  BY FlushGood
<1>3. StreamGood(stream, cache)'
  BY <1>1, <1>2 DEF CacheInv, StreamGood
<1>4. CutGood' /\ cut' \in BOOLEAN
  BY FlushDone DEF CacheInv, TypeOK, CutGood
<1>5. TypeOK'
  BY <1>1, <1>2, <1>4 DEF CacheInv, TypeOK
<1> QED
  BY <1>3, <1>4, <1>5 DEF CacheInv, BulkContextIsLive, CacheGood

LEMMA InsertRejectedInv ==
    ASSUME CacheInv, NEW id \in Ids, NEW auto \in BOOLEAN, InsertRejected(id, auto)
    PROVE  CacheInv'
<1>1. cache' = InsertCache /\ stream' = InsertStream /\ reply' = Error
  BY DEF InsertRejected
<1>2. UNCHANGED <<kind, table, cut, temp, bulk, pc>>
  BY DEF InsertRejected, disk
<1>3. CacheGood(cache') /\ (cache'.ready => kind = "INT")
  BY <1>1, InsertSourceGood
<1>4. StreamGood(stream, cache)'
  BY <1>1, <1>2, InsertSourceGood DEF StreamGood
<1>5. TypeOK'
  BY <1>1, <1>2, <1>3, <1>4, ReplyTypes DEF CacheInv, TypeOK, CacheGood, StreamGood
<1>6. bulk.open => cache' = cache
  BY <1>1 DEF InsertCache
<1> QED
  BY <1>2, <1>3, <1>4, <1>5, <1>6 DEF CacheInv, BulkContextIsLive, CutGood

LEMMA InsertCachedInv ==
    ASSUME CacheInv, NEW id \in Ids, NEW auto \in BOOLEAN, NEW v \in Vals,
           InsertCached(id, auto, v)
    PROVE  CacheInv'
<1> DEFINE row == NewRow(id, auto, v)
<1>1. /\ cache' = CacheInsert(InsertCache, row)
      /\ stream' = [st |-> IF InsertStream.st = "closed" THEN "open" ELSE InsertStream.st,
                    buf |-> Append(InsertStream.buf, row)]
      /\ table' = IF InsertStream.st = "closed" THEN FileRows ELSE table
      /\ reply' = Done("INSERT")
      /\ UNCHANGED <<kind, cut, temp, bulk, pc>>
      /\ InsertCache.ready
      /\ IsIntKey(IdCell(id, auto)) /\ IdCell(id, auto) \notin DOMAIN InsertCache.index
  BY DEF InsertCached, Insertable
<1>2. row \in Row /\ row.id = IdCell(id, auto)
  BY InsertSourceGood, IdsAssumption DEF NewRow, IdCell, Row, CacheGood, CacheType
<1> HIDE DEF row
<1>3. CacheGood(cache') /\ cache'.ready /\ kind = "INT"
  BY <1>1, <1>2, InsertSourceGood, CacheInsertGood
<1>4. FileRows \in Seq(Record)
  BY FileRowsType DEF CacheInv
<1>5. Append(InsertStream.buf, row) \in Seq(Row)
  BY <1>2, InsertSourceGood, AppendProperties DEF StreamGood
<1>6. StreamGood(stream, cache)'
  BY <1>1, <1>3, <1>4, <1>5, InsertSourceGood, NoFileAssumption DEF StreamGood
<1>7. TypeOK'
  BY <1>1, <1>3, <1>4, <1>6, ReplyTypes DEF CacheInv, TypeOK, CacheGood, StreamGood
<1>8. bulk.open => cache.ready
  BY <1>1 DEF InsertCache
<1>9. CutGood'
  BY <1>1, <1>4, NoFileAssumption DEF CacheInv, CutGood, FileRows
<1> QED
  BY <1>1, <1>3, <1>6, <1>7, <1>8, <1>9 DEF CacheInv, BulkContextIsLive

\* Only table file and reply change; the table file exists afterwards if it did.
LEMMA AppendedInv ==
    ASSUME CacheInv, UNCHANGED <<kind, temp, memory>>,
           \/ table' \in Seq(Record) /\ cut' \in BOOLEAN /\ CutGood'
           \/ UNCHANGED <<table, cut>>,
           reply' \in ReplyType
    PROVE  CacheInv'
<1>1. UNCHANGED <<kind, temp, cache, stream, bulk, pc>>
  BY DEF memory
<1>2. StreamGood(stream, cache)'
  BY <1>1, NoFileAssumption DEF CacheInv, StreamGood
<1>3. TypeOK' /\ CutGood'
  BY <1>1 DEF CacheInv, TypeOK, CutGood
<1> QED
  BY <1>1, <1>2, <1>3 DEF CacheInv, BulkContextIsLive, CacheGood

LEMMA InsertUncachedInv ==
    ASSUME CacheInv, NEW id \in Ids, NEW v \in Vals, InsertUncached(id, v)
    PROVE  CacheInv'
<1> DEFINE new == << [id |-> id, val |-> v] >>
<1>1. new \in Seq(Record)
  BY IdsAssumption DEF Record, Row
<1>2. FileRows \in Seq(Record) /\ cut \in BOOLEAN /\ (cut => FileRows # <<>>)
  BY FileRowsType DEF CacheInv, TypeOK, CutGood, FileRows
<1>3. table' \in Joined(FileRows, cut, new) /\ cut' = FALSE
  BY DEF InsertUncached
<1>4. table' \in Seq(Record)
  <2> HIDE DEF new
  <2> QED
    BY <1>1, <1>2, <1>3, JoinedType
<1> QED
  BY <1>3, <1>4, AppendedInv, ReplyTypes DEF InsertUncached, CutGood

LEMMA UncachedAppendFailsInv ==
    ASSUME CacheInv, NEW id \in Ids, NEW v \in Vals, UncachedAppendFails(id, v)
    PROVE  CacheInv'
<1> DEFINE rows == << [id |-> id, val |-> v] >>
<1>1. rows \in Seq(Row) /\ 0 \in 0 .. Len(rows)
  BY IdsAssumption DEF Row
<1>2. FlushCutShort(rows, 0) \/ UNCHANGED <<table, cut>>
  BY DEF UncachedAppendFails
<1>3. \/ table' \in Seq(Record) /\ cut' \in BOOLEAN /\ CutGood'
      \/ UNCHANGED <<table, cut>>
  <2> HIDE DEF rows
  <2> QED
    BY <1>1, <1>2, CutShortGood
<1> QED
  BY <1>3, AppendedInv, ReplyTypes DEF UncachedAppendFails

LEMMA InsertAppendFailsInv ==
    ASSUME CacheInv, NEW id \in Ids, NEW auto \in BOOLEAN, NEW v \in Vals,
           InsertAppendFails(id, auto, v)
    PROVE  CacheInv'
<1> DEFINE row == NewRow(id, auto, v)
           rows == Append(InsertStream.buf, row)
<1>1. /\ cache' = NoCache /\ stream' = Closed /\ bulk' = NoBulk
      /\ reply' = Error /\ UNCHANGED <<kind, temp, pc>>
  BY DEF InsertAppendFails, DropBoth, DropCache, DropBulk
<1>2. row \in Row
  BY InsertSourceGood, IdsAssumption DEF NewRow, IdCell, Row, CacheGood, CacheType
<1> HIDE DEF row
<1>3. /\ rows \in Seq(Row)
      /\ \A n \in 0 .. Len(InsertStream.buf) : n \in 0 .. Len(rows)
  <2>1. InsertStream.buf \in Seq(Row)
    BY InsertSourceGood DEF StreamGood
  <2> QED
    BY <1>2, <2>1, AppendProperties, LenProperties
<1>4. \/ UNCHANGED <<table, cut>>
      \/ \E n \in 0 .. Len(InsertStream.buf) : FlushCutShort(rows, n)
  BY DEF InsertAppendFails, row
<1> HIDE DEF rows
<1>5. table' \in Seq(Record) \cup {NoFile} /\ cut' \in BOOLEAN /\ CutGood'
  BY <1>3, <1>4, CutShortGood DEF CacheInv, TypeOK, CutGood
<1> QED
  BY <1>1, <1>5, DroppedInv, ReplyTypes DEF CacheInv, TypeOK

LEMMA ReadableTable ==
    ASSUME CacheInv, Loads(table)
    PROVE  table \in Seq(Row)
BY ReadableRows DEF Loads, CacheInv, TypeOK

LEMMA SelectCachedInv ==
    ASSUME CacheInv, NEW w \in Where, SelectCached(w)
    PROVE  CacheInv'
<1> DEFINE c == EnsuredCache
<1>1. /\ cache' = c /\ stream' = EnsuredStream
      /\ reply' = Answer(w, IF IsIdLookup(w) THEN Lookup(c, w.to) ELSE Selected(w, c.rows))
      /\ UNCHANGED <<kind, table, cut, temp, bulk, pc>>
      /\ table # NoFile /\ c.ready
  BY DEF SelectCached, disk, CacheAnswers
<1>2. CacheGood(c) /\ kind = "INT" /\ StreamGood(EnsuredStream, c)
  BY <1>1, EnsuredGood
<1>3. c.rows \in Seq(Row) /\ Indexes(c)
  BY <1>1, <1>2 DEF CacheGood, CacheType
<1>4. Selected(w, c.rows) \in Seq(Row)
  BY <1>3, SelectionTypes
<1>5. Lookup(c, w.to) \in Seq(Row)
  <2>1. CASE w.to \in DOMAIN c.index
    <3>1. PICK p \in DOMAIN c.rows : c.rows[p].id = w.to /\ c.index[w.to] = p
      BY <1>3, <2>1 DEF Indexes, IdsOf
    <3>2. c.rows[p] \in Row
      BY <1>3, <3>1, LenProperties, ElementOfSeq
    <3> QED
      BY <2>1, <3>1, <3>2 DEF Lookup
  <2>2. CASE w.to \notin DOMAIN c.index
    BY <2>2, ReplyTypes DEF Lookup
  <2> QED
    BY <2>1, <2>2
<1>6. reply' \in ReplyType
  BY <1>1, <1>4, <1>5, ReplyTypes
<1> HIDE DEF c
<1>7. StreamGood(stream, cache)'
  BY <1>1, <1>2 DEF StreamGood
<1>8. TypeOK'
  BY <1>1, <1>2, <1>6, <1>7 DEF CacheInv, TypeOK, CacheGood, StreamGood
<1>9. bulk.open => bulk.kind = kind /\ bulk.cache = cache'.ready
  <2>1. bulk.open => cache.ready
    BY <1>2 DEF CacheInv, BulkContextIsLive
  <2>2. bulk.open => c = cache
    BY <1>1, <2>1 DEF c, EnsuredCache, CacheKept
  <2> QED
    BY <1>1, <2>2 DEF CacheInv, BulkContextIsLive
<1> QED
  BY <1>1, <1>2, <1>7, <1>8, <1>9 DEF CacheInv, BulkContextIsLive, CutGood

LEMMA SelectFromFileInv ==
    ASSUME CacheInv, NEW w \in Where, SelectFromFile(w)
    PROVE  CacheInv'
<1>1. /\ stream' = StreamAfterFlush(Len(stream.buf))
      /\ UNCHANGED <<kind, cache, bulk>>
      /\ UNCHANGED <<table, cut, temp, pc>>
      /\ reply' = IF Loads(table) THEN Answer(w, Selected(w, table)) ELSE Error
  BY DEF SelectFromFile, disk
<1>2. reply' \in ReplyType
  BY <1>1, ReadableTable, SelectionTypes, ReplyTypes
<1>3. Len(stream.buf) \in 0 .. Len(stream.buf)
  BY FlushCountsBound
<1>4. temp' \in Seq(Record) \cup {NoFile} /\ pc' \in {"idle", "rewritten", "removed"}
  BY <1>1 DEF CacheInv, TypeOK
<1> QED
  BY <1>1, <1>2, <1>3, <1>4, FlushedInv

LEMMA SelectRejectedInv ==
    ASSUME CacheInv, NEW w \in Where, SelectRejected(w)
    PROVE  CacheInv'
BY AppendedInv, ReplyTypes DEF SelectRejected, disk

(***************************************************************************)
(* DELETE and UPDATE.                                                      *)
(***************************************************************************)
LEMMA NewTempType ==
    ASSUME NEW w \in Where, NEW c \in SetClause \cup {Removing},
           NEW file \in Seq(Record), Readable(file)
    PROVE  NewTemp(w, c, file) \in Seq(Record)
<1>1. file \in Seq(Row)
  BY ReadableRows
<1>2. /\ Len(file) \in Nat /\ DOMAIN file = 1 .. Len(file)
      /\ \A i \in 1 .. Len(file) : file[i] \in Row
  BY <1>1, LenProperties, ElementOfSeq
<1>3. CASE c = Removing
  BY <1>3, SelectionTypes DEF NewTemp, Rewritten
<1>4. CASE c \in SetClause /\ c # Removing
  <2>1. \A r \in Row : Assign(c, r) \in Row
    BY <1>4, IdsAssumption DEF SetClause, ById, ByVal, Assign, Row
  <2>2. Updated(w, c, file) \in [1 .. Len(file) -> Row]
    BY <1>2, <2>1 DEF Updated
  <2>3. Updated(w, c, file) \in Seq(Row)
    BY <1>2, <2>2, SeqDef
  <2> QED
    BY <1>4, <2>3, RowsAreRecords DEF NewTemp, Rewritten
<1> QED
  BY <1>3, <1>4

LEMMA BeginRewriteInv ==
    ASSUME CacheInv, NEW w \in Where, NEW c \in SetClause \cup {Removing},
           BeginRewrite(w, c)
    PROVE  CacheInv'
<1>1. PICK n \in FlushCounts :
        /\ Loads(FileAfterFlush(n))
        /\ Flush(n)
        /\ stream' = StreamAfterFlush(n)
        /\ temp' = NewTemp(w, c, FileAfterFlush(n))
        /\ pc' = "rewritten"
        /\ reply' = Error
        /\ UNCHANGED <<kind, cache, bulk>>
  BY DEF BeginRewrite
<1>2. n \in 0 .. Len(stream.buf)
  BY FlushCountsBound
<1>3. FileAfterFlush(n) \in Seq(Record) /\ Readable(FileAfterFlush(n))
  BY <1>1, <1>2, FlushGood DEF Loads
<1>4. temp' \in Seq(Record)
  BY <1>1, <1>3, NewTempType
<1> QED
  BY <1>1, <1>2, <1>4, FlushedInv, ReplyTypes

LEMMA RewriteFailsInv ==
    ASSUME CacheInv, NEW w \in Where, RewriteFails(w)
    PROVE  CacheInv'
<1>1. PICK n \in FlushCounts :
        /\ Flush(n)
        /\ stream' = StreamAfterFlush(n)
        /\ temp' = IF kind = "none" \/ w = Unknown THEN temp ELSE NoFile
        /\ reply' = Error
        /\ UNCHANGED <<kind, cache, bulk, pc>>
  BY DEF RewriteFails
<1>2. n \in 0 .. Len(stream.buf)
  BY FlushCountsBound
<1>3. temp' \in Seq(Record) \cup {NoFile} /\ pc' \in {"idle", "rewritten", "removed"}
  BY <1>1 DEF CacheInv, TypeOK
<1> QED
  BY <1>1, <1>2, <1>3, FlushedInv, ReplyTypes

LEMMA RemoveTableInv ==
    ASSUME CacheInv, RemoveTable
    PROVE  CacheInv'
<1>1. /\ table' = NoFile /\ cut' = FALSE
      /\ stream' = [stream EXCEPT !.st = IF @ = "open" THEN "orphan" ELSE @]
      /\ pc' = "removed"
      /\ UNCHANGED <<kind, temp, cache, bulk, reply>>
  BY DEF RemoveTable
<1>2. StreamGood(stream, cache)'
  BY <1>1 DEF CacheInv, StreamGood
<1>3. TypeOK'
  BY <1>1, <1>2 DEF CacheInv, TypeOK, StreamGood
<1> QED
  BY <1>1, <1>2, <1>3 DEF CacheInv, BulkContextIsLive, CacheGood, CutGood

LEMMA RenameTempInv ==
    ASSUME CacheInv, RenameTemp
    PROVE  CacheInv'
BY DroppedInv, ReplyTypes DEF RenameTemp, DropCache, DropBulk, CacheInv, TypeOK, CutGood

LEMMA ReplaceFailsInv ==
    ASSUME CacheInv, ReplaceFails
    PROVE  CacheInv'
<1>1. temp' = NoFile /\ pc' = "idle" /\ reply' = Error
  BY DEF ReplaceFails
<1>2. UNCHANGED <<kind, table, cut, cache, stream, bulk>>
  BY DEF ReplaceFails
<1>3. TypeOK'
  BY <1>1, <1>2, ReplyTypes DEF CacheInv, TypeOK
<1> QED
  BY <1>2, <1>3 DEF CacheInv, CutGood, BulkContextIsLive, CacheGood, StreamGood

(***************************************************************************)
(* CREATE, the bulk context, and the end of the process.                   *)
(***************************************************************************)
LEMMA FlushedTable ==
    ASSUME CacheInv, \E n \in FlushCounts : Flush(n)
    PROVE  table' \in Seq(Record) \cup {NoFile} /\ cut' \in BOOLEAN /\ CutGood'
BY FlushCountsBound, FlushDone

LEMMA CreateInv ==
    ASSUME CacheInv, NEW k \in {"INT", "VARCHAR"}, Create(k)
    PROVE  CacheInv'
BY DroppedInv, ReplyTypes DEF Create, DropCache, DropBulk, CacheInv, TypeOK, CutGood

LEMMA CreateFailsInv ==
    ASSUME CacheInv, CreateFails
    PROVE  CacheInv'
<1>1. table' \in Seq(Record) \cup {NoFile} /\ cut' \in BOOLEAN /\ CutGood'
  BY FlushedTable DEF CreateFails
<1>2. kind' \in {"none", "INT", "VARCHAR"}
  BY DEF CreateFails, CacheInv, TypeOK
<1> QED
  BY <1>1, <1>2, DroppedInv, ReplyTypes DEF CreateFails, DropCache, DropBulk, CacheInv, TypeOK

LEMMA BulkBeginInv ==
    ASSUME CacheInv, BulkBegin
    PROVE  CacheInv'
<1> DEFINE ok == kind = "VARCHAR" \/ EnsuredCache.ready
<1>1. /\ cache' = EnsuredCache /\ stream' = EnsuredStream
      /\ bulk' = IF ok THEN [open |-> TRUE, kind |-> kind, cache |-> kind = "INT"]
                       ELSE NoBulk
      /\ reply' = IF ok THEN Done("BULK") ELSE Error
      /\ UNCHANGED <<kind, table, cut, temp, pc>>
  BY DEF BulkBegin, disk
<1>2. /\ CacheGood(cache')
      /\ cache'.ready => kind = "INT"
  BY <1>1, EnsuredGood
<1>3. StreamGood(stream, cache)'
  BY <1>1, EnsuredGood DEF StreamGood
<1>4. bulk' \in [open : BOOLEAN, kind : {"none", "INT", "VARCHAR"}, cache : BOOLEAN]
  BY <1>1 DEF CacheInv, TypeOK, NoBulk
<1>5. TypeOK'
  BY <1>1, <1>2, <1>3, <1>4, ReplyTypes DEF CacheInv, TypeOK, CacheGood, StreamGood
<1>6. bulk'.open => /\ bulk'.kind = kind /\ kind # "none"
                    /\ bulk'.cache = (kind = "INT")
                    /\ ok
  BY <1>1, <1>2 DEF NoBulk
<1>7. ok /\ kind = "INT" <=> cache'.ready
  BY <1>1, <1>2
<1>8. cache'.ready \in BOOLEAN
  BY <1>2 DEF CacheGood, CacheType
<1> QED
  BY <1>1, <1>2, <1>3, <1>5, <1>6, <1>7, <1>8 DEF CacheInv, BulkContextIsLive, CutGood

LEMMA BulkEndInv ==
    ASSUME CacheInv, BulkEnd
    PROVE  CacheInv'
<1>1. PICK n \in FlushCounts : Flush(n) /\ stream' = StreamAfterFlush(n)
  BY DEF BulkEnd
<1>2. n \in 0 .. Len(stream.buf)
  BY FlushCountsBound
<1>3. bulk' = NoBulk /\ reply' = Done("BULK") /\ UNCHANGED <<kind, temp, cache, pc>>
  BY DEF BulkEnd, DropBulk
<1>4. /\ table' \in Seq(Record) \cup {NoFile} /\ (stream'.st = "open" => table' # NoFile)
      /\ cut' \in BOOLEAN /\ CutGood'
  BY <1>1, <1>2, FlushGood, FlushDone DEF Flush
<1>5. StreamGood(stream, cache)'
  BY <1>1, <1>2, <1>3, <1>4, FlushGood DEF CacheInv, StreamGood
<1>6. bulk' = [open |-> FALSE, kind |-> "none", cache |-> FALSE]
  BY <1>3 DEF NoBulk
<1>7. TypeOK'
  <2>1. reply' \in ReplyType
    BY <1>3, ReplyTypes
  <2>2. stream' \in [st : {"closed", "open", "orphan"}, buf : Seq(Row)]
    BY <1>5 DEF StreamGood
  <2> QED
    BY <1>3, <1>4, <1>6, <2>1, <2>2 DEF CacheInv, TypeOK
<1> QED
  BY <1>3, <1>4, <1>5, <1>6, <1>7 DEF CacheInv, BulkContextIsLive, CacheGood

LEMMA ExitInv ==
    ASSUME CacheInv, Exit
    PROVE  CacheInv'
<1>1. table' \in Seq(Record) \cup {NoFile} /\ cut' \in BOOLEAN /\ CutGood'
  BY FlushedTable DEF Exit
<1> QED
  BY <1>1, DroppedInv DEF Exit, ForgetAll, CacheInv, TypeOK

LEMMA KillInv ==
    ASSUME CacheInv, Kill
    PROVE  CacheInv'
<1>1. stream.buf \in Seq(Row)
  BY DEF CacheInv, TypeOK
<1>2. \/ UNCHANGED <<table, cut>>
      \/ \E n \in 0 .. Len(stream.buf) : FlushCutShort(stream.buf, n)
  BY DEF Kill
<1>3. table' \in Seq(Record) \cup {NoFile} /\ cut' \in BOOLEAN /\ CutGood'
  BY <1>1, <1>2, CutShortGood DEF CacheInv, TypeOK, CutGood
<1> QED
  BY <1>3, DroppedInv, ReplyTypes DEF Kill, ForgetAll, CacheInv, TypeOK

LEMMA KillInCreateInv ==
    ASSUME CacheInv, NEW k \in {"INT", "VARCHAR"}, KillInCreate(k)
    PROVE  CacheInv'
<1>1. table' \in Seq(Record) \cup {NoFile} /\ cut' \in BOOLEAN /\ CutGood'
  BY FlushCountsBound, FlushDone DEF KillInCreate
<1> QED
  BY <1>1, DroppedInv, ReplyTypes DEF KillInCreate, ForgetAll, CacheInv, TypeOK

(***************************************************************************)
(* The invariant, and what it says.                                        *)
(***************************************************************************)
LEMMA NextInv ==
    ASSUME CacheInv, [Next]_vars
    PROVE  CacheInv'
<1>1. CASE Insert
  BY <1>1, InsertRejectedInv, InsertAppendFailsInv, InsertCachedInv, InsertUncachedInv,
     UncachedAppendFailsInv DEF Insert
<1>2. CASE \E w \in Where : SelectCached(w) \/ SelectFromFile(w) \/ SelectRejected(w)
  BY <1>2, SelectCachedInv, SelectFromFileInv, SelectRejectedInv
<1>3. CASE \E w \in Where, c \in SetClause \cup {Removing} : BeginRewrite(w, c)
  BY <1>3, BeginRewriteInv
<1>4. CASE \E w \in Where : RewriteFails(w)
  BY <1>4, RewriteFailsInv
<1>5. CASE \E k \in {"INT", "VARCHAR"} : Create(k) \/ KillInCreate(k)
  BY <1>5, CreateInv, KillInCreateInv
<1>6. CASE RemoveTable \/ RenameTemp \/ ReplaceFails \/ CreateFails
  BY <1>6, RemoveTableInv, RenameTempInv, ReplaceFailsInv, CreateFailsInv
<1>7. CASE BulkBegin \/ BulkEnd \/ Exit \/ Kill
  BY <1>7, BulkBeginInv, BulkEndInv, ExitInv, KillInv
<1>8. CASE UNCHANGED vars
  <2>1. UNCHANGED <<kind, temp, memory>> /\ UNCHANGED <<table, cut, reply>>
    BY <1>8 DEF vars, memory
  <2> QED
    BY <2>1, AppendedInv DEF CacheInv, TypeOK
<1> QED
  BY <1>1, <1>2, <1>3, <1>4, <1>5, <1>6, <1>7, <1>8 DEF Next

(***************************************************************************)
(* The cache of TableIndexCache is either as reset_table_index_cache left  *)
(* it or complete (rows, index and next_id agree), and append_fp and the   *)
(* bulk context only exist beside a complete one: inductive under every    *)
(* set of faults.                                                          *)
(***************************************************************************)
THEOREM CacheInvariant == Spec => []CacheInv
<1>1. Init => CacheInv
  BY InitInv
<1>2. CacheInv /\ [Next]_vars => CacheInv'
  BY NextInv
<1> QED
  BY <1>1, <1>2, PTL DEF Spec

\* Every variable keeps its type, in spite of all faults.
THEOREM TypeCorrect == Spec => []TypeOK
<1>1. CacheInv => TypeOK
  BY DEF CacheInv
<1> QED
  BY <1>1, CacheInvariant, PTL

(***************************************************************************)
(* build_table_index_cache and cache_insert_row: in every reachable state, *)
(* failed renames and unnoticed flush errors included, a WHERE id = k that *)
(* uses the index finds the row a scan of the cache would find.            *)
(***************************************************************************)
THEOREM IndexCorrect == Spec => []IndexFindsEveryRow
<1>1. CacheInv => IndexFindsEveryRow
  BY DEF CacheInv, CacheGood, IndexFindsEveryRow
<1> QED
  BY <1>1, CacheInvariant, PTL

\* next_id is above every id of the cache and never past INT_MAX + 1.
THEOREM GeneratedIdsAreFresh == Spec => []NextIdIsFresh
<1>1. CacheInv => NextIdIsFresh
  BY DEF CacheInv, CacheGood, NextIdIsFresh
<1> QED
  BY <1>1, CacheInvariant, PTL

\* The pointer and the schema copy of an open TableBulkContext are never stale.
THEOREM BulkContextStaysLive == Spec => []BulkContextIsLive
<1>1. CacheInv => BulkContextIsLive
  BY DEF CacheInv
<1> QED
  BY <1>1, CacheInvariant, PTL

LEMMA ConcatRecords ==
    ASSUME NEW s \in Seq(Record), NEW t \in Seq(Record), NEW u \in Seq(Record)
    PROVE  s \o (t \o u) = (s \o t) \o u
<1>1. (s \o t) \o u = s \o (t \o u)
  BY ConcatAssociative
<1> QED
  BY <1>1

LEMMA SplitRecords ==
    ASSUME NEW s \in Seq(Record), NEW n \in 0 .. Len(s)
    PROVE  SubSeq(s, 1, n) \o SubSeq(s, n + 1, Len(s)) = s
<1>1. 1 \in 1 .. Len(s) + 1 /\ n \in 1 - 1 .. Len(s) /\ Len(s) \in n .. Len(s)
  BY LenProperties
<1>2. SubSeq(s, 1, n) \o SubSeq(s, n + 1, Len(s)) = SubSeq(s, 1, Len(s))
  BY <1>1, ConcatAdjacentSubSeq
<1> QED
  BY <1>2, SubSeqFull

(***************************************************************************)
(* Where no cut line parses: what a cut append leaves ends in Torn.        *)
(***************************************************************************)
LEMMA LastOfConcat ==
    ASSUME NEW D, NEW s \in Seq(D), NEW t \in Seq(D), t # <<>>
    PROVE  s \o t # <<>> /\ Last(s \o t) = Last(t)
<1>1. Len(s) \in Nat /\ Len(t) \in Nat \ {0}
  BY LenProperties, EmptySeq
<1>2. /\ s \o t \in Seq(D) /\ Len(s \o t) = Len(s) + Len(t)
      /\ (s \o t)[Len(s) + Len(t)] = t[Len(t)]
  BY <1>1, ConcatProperties
<1> QED
  BY <1>1, <1>2, EmptySeq DEF Last

LEMMA LastOfAppend ==
    ASSUME NEW D, NEW s \in Seq(D), NEW e \in D
    PROVE  /\ Append(s, e) \in Seq(D) /\ Append(s, e) # <<>> /\ Last(Append(s, e)) = e
           /\ s # <<>> => /\ Tail(Append(s, e)) \in Seq(D)
                          /\ Tail(Append(s, e)) # <<>>
                          /\ Last(Tail(Append(s, e))) = e
<1> DEFINE a == Append(s, e)
<1>1. /\ a \in Seq(D) /\ Len(a) = Len(s) + 1 /\ a[Len(s) + 1] = e
      /\ Len(s) \in Nat
  BY AppendProperties, LenProperties
<1>2. a # <<>> /\ Last(a) = e
  BY <1>1, EmptySeq DEF Last
<1>3. ASSUME s # <<>> PROVE Tail(a) \in Seq(D) /\ Tail(a) # <<>> /\ Last(Tail(a)) = e
  <2>1. Len(s) \in Nat \ {0}
    BY <1>3, EmptySeq
  <2> HIDE DEF a
  <2>2. /\ Tail(a) \in Seq(D) /\ Len(Tail(a)) = Len(s)
        /\ Tail(a)[Len(s)] = a[Len(s) + 1]
    BY <1>1, <1>2, <2>1, HeadTailProperties
  <2> QED
    BY <1>1, <2>1, <2>2, EmptySeq DEF Last
<1> QED
  BY <1>1, <1>2, <1>3

LEMMA JoinedEndsTorn ==
    ASSUME NEW file \in Seq(Record), NEW c \in BOOLEAN,
           c => file # <<>> /\ Last(file) = Torn,
           NEW s \in Seq(Record), NEW f \in Joined(file, c, Append(s, Torn))
    PROVE  f # <<>> /\ Last(f) = Torn
<1> DEFINE new == Append(s, Torn)
<1>0. Torn \in Record
  BY DEF Record
<1>1. new \in Seq(Record) /\ new # <<>> /\ Last(new) = Torn
  <2>1. /\ Append(s, Torn) \in Seq(Record) /\ Append(s, Torn) # <<>>
        /\ Last(Append(s, Torn)) = Torn
    BY <1>0, LastOfAppend, ZenonT(20)
  <2> QED
    BY <2>1
<1>2. CASE ~c
  <2>1. f = file \o new
    BY <1>2 DEF Joined
  <2> HIDE DEF new
  <2> QED
    BY <1>1, <2>1, LastOfConcat
<1>3. CASE c
  <2>1. PICK m \in Merged(Last(file), new[1]) : f = Front(file) \o <<m>> \o Tail(new)
    BY <1>1, <1>3 DEF Joined
  <2>2. Front(file) \in Seq(Record) /\ new[1] \in Record /\ Tail(new) \in Seq(Record)
    BY <1>1, <1>3, FrontTail
  <2>3. m \in Record /\ <<m>> \in Seq(Record)
    BY <2>2, <1>0, <1>3, MergedType
  <2>4. CASE s = <<>>
    <3>1. new = <<Torn>>
      BY <2>4
    <3>2. m = Torn /\ Tail(new) = <<>>
      BY <1>3, <3>1 DEF Merged
    <3>3. Front(file) \o <<Torn>> \in Seq(Record)
      BY <2>2, <2>3, <3>2, ConcatProperties
    <3>4. f = Front(file) \o <<Torn>>
      <4> HIDE DEF new
      <4> QED
        BY <2>1, <3>2, <3>3, ConcatEmptySeq
    <3>5. <<Torn>> # <<>> /\ Last(<<Torn>>) = Torn
      BY DEF Last
    <3> QED
      BY <2>2, <2>3, <3>2, <3>4, <3>5, LastOfConcat
  <2>5. CASE s # <<>>
    <3>1. Tail(new) # <<>> /\ Last(Tail(new)) = Torn
      BY <1>0, <2>5, LastOfAppend
    <3>2. Front(file) \o <<m>> \in Seq(Record)
      BY <2>2, <2>3, ConcatProperties
    <3> HIDE DEF new
    <3> QED
      BY <2>1, <2>2, <3>1, <3>2, LastOfConcat
  <2> QED
    BY <2>4, <2>5
<1> QED
  BY <1>2, <1>3

LEMMA CutShortTorn ==
    ASSUME "cut" \notin Faults, CacheInv, CutIsTorn,
           NEW rows \in Seq(Row), NEW n \in 0 .. Len(rows), FlushCutShort(rows, n)
    PROVE  CutIsTorn'
<1>1. /\ FileRows \in Seq(Record) /\ cut \in BOOLEAN
      /\ cut => table = FileRows /\ FileRows # <<>> /\ Last(FileRows) = Torn
  BY FileRowsType DEF CacheInv, TypeOK, CutGood, CutIsTorn, FileRows
<1>2. Len(rows) \in Nat /\ \A i \in 1 .. Len(rows) : rows[i] \in Row
  BY LenProperties, ElementOfSeq
<1>3. SubSeq(rows, 1, n) \in Seq(Record)
  BY <1>2, SubSeqProperties, RowsAreRecords
<1>4. ASSUME table' \in Joined(FileRows, cut, SubSeq(rows, 1, n)), cut, n = 0
      PROVE  table' = table
  <2>1. SubSeq(rows, 1, n) = <<>>
    BY <1>4, SubSeqEmpty
  <2>2. table' = FileRows \o <<>>
    BY <1>4, <2>1 DEF Joined
  <2> QED
    BY <1>1, <1>4, <2>2, ConcatEmptySeq
<1>5. ASSUME NEW piece \in Pieces(rows[n + 1]),
             table' \in Joined(FileRows, cut, Append(SubSeq(rows, 1, n), piece))
      PROVE  table' # <<>> /\ Last(table') = Torn
  <2>1. piece = Torn
    BY <1>5 DEF Pieces
  <2> QED
    BY <1>1, <1>3, <1>5, <2>1, JoinedEndsTorn
<1> QED
  BY <1>4, <1>5 DEF FlushCutShort, CutIsTorn

LEMMA FlushKeepsTorn ==
    ASSUME CacheInv, CutIsTorn, NEW n \in 0 .. Len(stream.buf), Flush(n)
    PROVE  CutIsTorn'
BY FlushCutGood DEF Flush, CutIsTorn

\* The cache was built from a file that parses: append_fp is not on a cut line.
LEMMA OpenIsWhole ==
    ASSUME CoherenceInv, pc # "removed", stream.st = "open"
    PROVE  ~cut
<1>1. cache.ready /\ cache.rows \in Seq(Row) /\ FileRows = table
      /\ FileRows \in Seq(Record) /\ stream.buf \in Seq(Row)
  BY FileRowsType DEF CoherenceInv, CacheInv, StreamGood, TypeOK, CacheType, FileRows
<1>2. cache.rows = FileRows \o stream.buf
  BY <1>1 DEF CoherenceInv, CacheRowsAreContents, Contents, Buffered
<1>3. SUFFICES ASSUME cut PROVE FALSE
  OBVIOUS
<1>4. FileRows # <<>> /\ FileRows[Len(FileRows)] = Torn
  BY <1>1, <1>3 DEF CoherenceInv, CutIsTorn, Last
<1>5. Len(FileRows) \in Nat \ {0} /\ Len(stream.buf) \in Nat
  BY <1>1, <1>4, EmptySeq, LenProperties
<1>6. /\ Len(cache.rows) = Len(FileRows) + Len(stream.buf)
      /\ cache.rows[Len(FileRows)] = FileRows[Len(FileRows)]
  <2>1. stream.buf \in Seq(Record)
    BY <1>1, RowsAreRecords
  <2> QED
    BY <1>1, <1>2, <1>5, <2>1, ConcatProperties
<1>7. cache.rows[Len(FileRows)] \in Row
  BY <1>1, <1>5, <1>6, ElementOfSeq
<1> QED
  BY <1>4, <1>6, <1>7, TornAssumption

(***************************************************************************)
(* Coherence: where rename never fails and no cut line parses, a cache is  *)
(* the file followed by the append buffer, whichever statements came       *)
(* before.                                                                 *)
(***************************************************************************)
Unwritten(st) == IF st.st = "open" THEN st.buf ELSE <<>>

LEMMA FlushKeepsContents ==
    ASSUME CacheInv, stream.st = "open" => ~cut, NEW n \in 0 .. Len(stream.buf),
           Flush(n), stream' = StreamAfterFlush(n)
    PROVE  Contents' = Contents
<1> DEFINE buf == stream.buf
           file == FileRows \o SubSeq(buf, 1, n)
<1>1. FileRows \in Seq(Record) /\ buf \in Seq(Row)
  BY FileRowsType DEF CacheInv, TypeOK
<1>2. Len(buf) \in Nat /\ buf \in Seq(Record) /\ \A i \in 1 .. Len(buf) : buf[i] \in Record
  BY <1>1, RowsAreRecords, LenProperties, ElementOfSeq
<1>3. CASE stream.st = "open"
  <2>1. SubSeq(buf, 1, n) \in Seq(Record) /\ SubSeq(buf, n + 1, Len(buf)) \in Seq(Record)
    BY <1>2, SubSeqProperties
  <2>2. SubSeq(buf, 1, n) \o SubSeq(buf, n + 1, Len(buf)) = buf
    BY <1>2, SplitRecords
  <2>3. file \in Seq(Record)
    BY <1>1, <2>1, ConcatProperties
  <2>4. table' = file /\ FileRows' = file
    BY <1>3, <2>3, NoFileAssumption DEF Flush, FileAfterFlush, Appended, FileRows
  <2>5. stream'.st = "open" /\ stream'.buf = SubSeq(buf, n + 1, Len(buf))
    BY <1>3 DEF StreamAfterFlush, CacheInv, TypeOK
  <2>6. file \o SubSeq(buf, n + 1, Len(buf)) = FileRows \o buf
    <3> DEFINE head == SubSeq(buf, 1, n)
               tail == SubSeq(buf, n + 1, Len(buf))
    <3>1. FileRows \in Seq(Record) /\ head \in Seq(Record) /\ tail \in Seq(Record)
      BY <1>1, <2>1
    <3>2. head \o tail = buf
      BY <2>2
    <3> HIDE DEF head, tail
    <3>3. FileRows \o (head \o tail) = (FileRows \o head) \o tail
      BY <3>1, ConcatRecords
    <3> QED
      BY <3>2, <3>3 DEF head, tail
  <2> QED
    BY <1>3, <2>4, <2>5, <2>6 DEF Contents, Buffered
<1>4. CASE stream.st # "open"
  <2>1. table' = table /\ stream'.st = stream.st
    BY <1>4 DEF Flush, FileAfterFlush, StreamAfterFlush, CacheInv, TypeOK
  <2> QED
    BY <1>4, <2>1 DEF Contents, Buffered, FileRows
<1> QED
  BY <1>3, <1>4

LEMMA EnsuredCoherent ==
    ASSUME CoherenceInv, pc = "idle"
    PROVE  /\ EnsuredCache.ready => EnsuredCache.rows = FileRows \o Unwritten(EnsuredStream)
           /\ EnsuredStream.st # "orphan"
<1>1. FileRows \in Seq(Record)
  BY FileRowsType DEF CoherenceInv, CacheInv
<1>2. CASE CacheKept
  <2>1. EnsuredCache = cache /\ EnsuredStream = stream
    BY <1>2 DEF EnsuredCache, EnsuredStream
  <2> QED
    BY <2>1 DEF CoherenceInv, CacheRowsAreContents, Contents, Buffered, Unwritten
<1>3. CASE ~CacheKept
  <2>1. EnsuredStream = Closed
    BY <1>3 DEF EnsuredStream
  <2>2. FileRows \o Unwritten(EnsuredStream) = FileRows
    BY <1>1, <2>1, ConcatEmptySeq DEF Unwritten, Closed
  <2>3. EnsuredCache.ready => EnsuredCache.rows = FileRows
    BY <1>1, <1>3, CacheOfGood, NoCacheGood DEF EnsuredCache
  <2> QED
    BY <2>1, <2>2, <2>3 DEF Closed
<1> QED
  BY <1>2, <1>3

LEMMA InsertSourceCoherent ==
    ASSUME CoherenceInv, pc = "idle"
    PROVE  /\ InsertCache.ready => InsertCache.rows = FileRows \o Unwritten(InsertStream)
           /\ InsertStream.st # "orphan"
<1>1. CASE bulk.open
  BY <1>1 DEF InsertCache, InsertStream, CoherenceInv, CacheRowsAreContents, Contents, Buffered, Unwritten
<1>2. CASE ~bulk.open
  BY <1>2, EnsuredCoherent DEF InsertCache, InsertStream
<1> QED
  BY <1>1, <1>2

\* Steps that leave the process without a cache.
LEMMA DroppedCoherent ==
    ASSUME cache' = NoCache, stream' = Closed
    PROVE  CacheRowsAreContents' /\ (stream'.st = "orphan" => pc' = "removed")
BY DEF CacheRowsAreContents, NoCache, Closed

\* Steps that install what ensure_table_index_cache found.
LEMMA EnsuredStepCoherent ==
    ASSUME CoherenceInv, pc = "idle", UNCHANGED table,
           \/ cache' = EnsuredCache /\ stream' = EnsuredStream
           \/ cache' = InsertCache /\ stream' = InsertStream
    PROVE  CacheRowsAreContents' /\ (stream'.st = "orphan" => pc' = "removed")
<1>1. cache'.ready => cache'.rows = FileRows \o Unwritten(stream')
  BY EnsuredCoherent, InsertSourceCoherent
<1>2. FileRows' = FileRows
  BY DEF FileRows
<1>3. stream'.st # "orphan"
  BY EnsuredCoherent, InsertSourceCoherent
<1> QED
  BY <1>1, <1>2, <1>3 DEF CacheRowsAreContents, Contents, Buffered, Unwritten

\* Steps that flush and keep the cache.
LEMMA FlushedCoherent ==
    ASSUME CoherenceInv, pc = "idle", cache' = cache,
           NEW n \in 0 .. Len(stream.buf),
           Flush(n), stream' = StreamAfterFlush(n)
    PROVE  CacheRowsAreContents' /\ (stream'.st = "orphan" => pc' = "removed")
<1>1. Contents' = Contents
  BY FlushKeepsContents, OpenIsWhole DEF CoherenceInv
<1>2. stream'.st = stream.st
  BY FlushGood DEF CoherenceInv
<1> QED
  BY <1>1, <1>2 DEF CoherenceInv, CacheRowsAreContents

LEMMA InsertCachedCoherent ==
    ASSUME CoherenceInv, NEW id \in Ids, NEW auto \in BOOLEAN, NEW v \in Vals,
           InsertCached(id, auto, v)
    PROVE  CacheRowsAreContents' /\ (stream'.st = "orphan" => pc' = "removed")
<1> DEFINE row == NewRow(id, auto, v)
           buf == InsertStream.buf
<1>0. CacheInv /\ pc = "idle"
  BY DEF CoherenceInv, InsertCached
<1>1. /\ cache' = CacheInsert(InsertCache, row)
      /\ stream' = [st |-> IF InsertStream.st = "closed" THEN "open" ELSE InsertStream.st,
                    buf |-> Append(buf, row)]
      /\ table' = IF InsertStream.st = "closed" THEN FileRows ELSE table
      /\ InsertCache.ready
  BY DEF InsertCached, Insertable
<1>2. row \in Row
  BY <1>0, InsertSourceGood, IdsAssumption DEF NewRow, IdCell, Row, CacheGood, CacheType
<1> HIDE DEF row
<1>3. InsertCache.rows = FileRows \o Unwritten(InsertStream) /\ InsertStream.st # "orphan"
  BY <1>0, <1>1, InsertSourceCoherent
<1>4. /\ InsertStream.st \in {"closed", "open", "orphan"}
      /\ buf \in Seq(Row)
      /\ InsertStream.st = "closed" => buf = <<>>
  BY <1>0, InsertSourceGood DEF StreamGood
<1>5. Unwritten(InsertStream) = buf
  BY <1>3, <1>4 DEF Unwritten
<1>6. FileRows \in Seq(Record) /\ buf \in Seq(Record) /\ row \in Record
  BY <1>0, <1>2, <1>4, FileRowsType, RowsAreRecords DEF CacheInv, Record
<1>7. FileRows' = FileRows
  BY <1>1, <1>6, NoFileAssumption DEF FileRows
<1>8. Append(FileRows \o buf, row) = FileRows \o Append(buf, row)
  <2>1. Append(FileRows \o buf, row) = (FileRows \o buf) \o <<row>>
    BY <1>6, ConcatProperties, AppendIsConcat
  <2>2. Append(buf, row) = buf \o <<row>> /\ <<row>> \in Seq(Record)
    BY <1>6, AppendIsConcat
  <2>3. FileRows \o (buf \o <<row>>) = (FileRows \o buf) \o <<row>>
    <3> HIDE DEF buf
    <3> QED
      BY <2>2, <1>6, ConcatRecords
  <2> QED
    BY <2>1, <2>2, <2>3
<1>9. cache'.rows = Append(InsertCache.rows, row)
  BY <1>0, <1>1, InsertSourceGood DEF CacheInsert, CacheGood, CacheType
<1>10. stream'.st = "open" /\ stream'.buf = Append(buf, row)
  BY <1>1, <1>3, <1>4
<1> QED
  BY <1>3, <1>5, <1>7, <1>8, <1>9, <1>10 DEF CacheRowsAreContents, Contents, Buffered

\* Without an INT id column there is no cache to contradict.
LEMMA UncachedCoherent ==
    ASSUME CoherenceInv, InsertKind = "VARCHAR", UNCHANGED <<kind, memory>>
    PROVE  CacheRowsAreContents' /\ (stream'.st = "orphan" => pc' = "removed")
<1>1. UNCHANGED <<cache, stream, pc>>
  BY DEF memory
<1>2. kind = "VARCHAR"
  BY DEF InsertKind, CoherenceInv, CacheInv, BulkContextIsLive
<1>3. ~cache.ready
  BY <1>2 DEF CoherenceInv, CacheInv
<1> QED
  BY <1>1, <1>3 DEF CoherenceInv, CacheRowsAreContents

LEMMA SelectFromFileCoherent ==
    ASSUME CoherenceInv, NEW w \in Where, SelectFromFile(w)
    PROVE  CacheRowsAreContents' /\ (stream'.st = "orphan" => pc' = "removed")
<1>1. /\ pc = "idle" /\ ~CacheAnswers
      /\ stream' = StreamAfterFlush(Len(stream.buf))
      /\ UNCHANGED <<table, cache>>
  BY DEF SelectFromFile, disk
<1>2. CacheInv /\ stream'.st = stream.st /\ stream.st # "orphan"
  BY <1>1, FlushGood, FlushCountsBound DEF CoherenceInv
<1>3. CASE ~cache.ready
  BY <1>1, <1>2, <1>3 DEF CacheRowsAreContents
<1>4. CASE cache.ready
  <2>1. table = NoFile
    BY <1>1, <1>4 DEF CacheAnswers, EnsuredCache, CacheKept
  <2>2. stream.st # "open"
    BY <2>1, <1>2 DEF CacheInv, StreamGood
  <2>3. Contents' = Contents
    BY <1>1, <1>2, <2>2 DEF Contents, Buffered, FileRows
  <2> QED
    BY <1>1, <1>2, <2>3 DEF CoherenceInv, CacheRowsAreContents
<1> QED
  BY <1>3, <1>4

LEMMA RemoveTableCoherent ==
    ASSUME RemoveTable
    PROVE  CacheRowsAreContents' /\ (stream'.st = "orphan" => pc' = "removed")
BY DEF RemoveTable, CacheRowsAreContents

\* The only rename failure that keeps the cache is excluded, a failing remove
\* leaves everything as it is.
LEMMA ReplaceFailsCoherent ==
    ASSUME CoherenceInv, "rename" \notin Faults, ReplaceFails
    PROVE  CacheRowsAreContents' /\ (stream'.st = "orphan" => pc' = "removed")
<1>1. pc = "rewritten" /\ UNCHANGED <<table, cache, stream>>
  BY DEF ReplaceFails
<1>2. Contents' = Contents
  BY <1>1 DEF Contents, Buffered, FileRows
<1> QED
  BY <1>1, <1>2 DEF CoherenceInv, CacheRowsAreContents

LEMMA StutterCoherent ==
    ASSUME CoherenceInv, UNCHANGED <<table, cache, stream, pc>>
    PROVE  CacheRowsAreContents' /\ (stream'.st = "orphan" => pc' = "removed")
<1>1. Contents' = Contents
  BY DEF Contents, Buffered, FileRows
<1> QED
  BY <1>1 DEF CoherenceInv, CacheRowsAreContents

LEMMA CutIsTornStep ==
    ASSUME "cut" \notin Faults, CacheInv, CutIsTorn, [Next]_vars
    PROVE  CutIsTorn'
<1>0. stream.buf \in Seq(Row)
  BY DEF CacheInv, TypeOK
<1>1. CASE cut' = FALSE
  BY <1>1 DEF CutIsTorn
<1>2. CASE UNCHANGED <<table, cut>>
  BY <1>2 DEF CutIsTorn
<1>3. ASSUME NEW n \in FlushCounts \cup {Len(stream.buf)}, Flush(n) PROVE CutIsTorn'
  BY <1>3, FlushKeepsTorn, FlushCountsBound
<1>4. ASSUME NEW id \in Ids, NEW auto \in BOOLEAN, NEW v \in Vals, InsertCached(id, auto, v)
      PROVE  CutIsTorn'
  BY <1>4 DEF InsertCached, CutIsTorn, CacheInv, CutGood, FileRows
<1>5. ASSUME NEW id \in Ids, NEW auto \in BOOLEAN, NEW v \in Vals,
             InsertAppendFails(id, auto, v)
      PROVE  CutIsTorn'
  <2> DEFINE row == NewRow(id, auto, v)
             rows == Append(InsertStream.buf, row)
  <2>1. row \in Row
    BY InsertSourceGood, IdsAssumption DEF NewRow, IdCell, Row, CacheGood, CacheType
  <2>2. rows \in Seq(Row) /\ \A n \in 0 .. Len(InsertStream.buf) : n \in 0 .. Len(rows)
    <3> HIDE DEF row
    <3>1. InsertStream.buf \in Seq(Row)
      BY InsertSourceGood DEF StreamGood
    <3> QED
      BY <2>1, <3>1, AppendProperties, LenProperties
  <2>3. \/ UNCHANGED <<table, cut>>
        \/ \E n \in 0 .. Len(InsertStream.buf) : FlushCutShort(rows, n)
    BY <1>5 DEF InsertAppendFails
  <2> HIDE DEF rows
  <2> QED
    BY <1>2, <2>2, <2>3, CutShortTorn
<1>6. ASSUME NEW id \in Ids, NEW v \in Vals, UncachedAppendFails(id, v) PROVE CutIsTorn'
  <2> DEFINE rows == << [id |-> id, val |-> v] >>
  <2>1. rows \in Seq(Row) /\ 0 \in 0 .. Len(rows)
    BY IdsAssumption DEF Row
  <2>2. FlushCutShort(rows, 0) \/ UNCHANGED <<table, cut>>
    BY <1>6 DEF UncachedAppendFails
  <2> HIDE DEF rows
  <2> QED
    BY <1>2, <2>1, <2>2, CutShortTorn
<1>7. ASSUME Kill PROVE CutIsTorn'
  <2>1. \/ UNCHANGED <<table, cut>>
        \/ \E n \in 0 .. Len(stream.buf) : FlushCutShort(stream.buf, n)
    BY <1>7 DEF Kill
  <2> QED
    BY <1>0, <1>2, <2>1, CutShortTorn
<1>8. CASE Insert
  <2>1. ASSUME NEW id \in Ids, NEW auto \in BOOLEAN, InsertRejected(id, auto)
        PROVE  UNCHANGED <<table, cut>>
    BY <2>1 DEF InsertRejected, disk
  <2>2. ASSUME NEW id \in Ids, NEW v \in Vals, InsertUncached(id, v) PROVE cut' = FALSE
    BY <2>2 DEF InsertUncached
  <2> QED
    BY <1>1, <1>2, <1>4, <1>5, <1>6, <1>8, <2>1, <2>2 DEF Insert
<1>9. CASE \E w \in Where : SelectCached(w) \/ SelectFromFile(w) \/ SelectRejected(w)
  <2>1. UNCHANGED <<table, cut>>
    BY <1>9 DEF SelectCached, SelectFromFile, SelectRejected, disk
  <2> QED
    BY <1>2, <2>1
<1>10. CASE \E w \in Where, c \in SetClause \cup {Removing} : BeginRewrite(w, c)
  <2>1. \E n \in FlushCounts : Flush(n)
    BY <1>10 DEF BeginRewrite
  <2> QED
    BY <1>3, <2>1
<1>11. CASE \E w \in Where : RewriteFails(w)
  <2>1. \E n \in FlushCounts : Flush(n)
    BY <1>11 DEF RewriteFails
  <2> QED
    BY <1>3, <2>1
<1>12. CASE CreateFails \/ BulkEnd \/ Exit
  <2>1. \E n \in FlushCounts : Flush(n)
    BY <1>12 DEF CreateFails, BulkEnd, Exit
  <2> QED
    BY <1>3, <2>1
<1>13. CASE \E k \in {"INT", "VARCHAR"} : Create(k) \/ KillInCreate(k)
  <2>1. cut' = FALSE \/ Flush(Len(stream.buf))
    BY <1>13 DEF Create, KillInCreate
  <2> QED
    BY <1>1, <1>3, <2>1
<1>14. CASE RemoveTable \/ RenameTemp
  BY <1>1, <1>14 DEF RemoveTable, RenameTemp
<1>15. CASE ReplaceFails \/ BulkBegin \/ UNCHANGED vars
  BY <1>2, <1>15 DEF ReplaceFails, BulkBegin, disk, vars
<1> QED
  BY <1>7, <1>8, <1>9, <1>10, <1>11, <1>12, <1>13, <1>14, <1>15 DEF Next

LEMMA CoherenceStep ==
    ASSUME Faults \cap {"rename", "cut"} = {}, CoherenceInv, [Next]_vars
    PROVE  CoherenceInv'
<1> DEFINE Coherent == CacheRowsAreContents /\ (stream.st = "orphan" => pc = "removed")
<1>0. CacheInv /\ CacheInv'
  BY NextInv DEF CoherenceInv
<1>1. ASSUME Insert PROVE Coherent'
  <2>1. ASSUME NEW id \in Ids, NEW auto \in BOOLEAN, InsertRejected(id, auto) PROVE Coherent'
    BY <2>1, EnsuredStepCoherent DEF InsertRejected, disk
  <2>2. ASSUME NEW id \in Ids, NEW auto \in BOOLEAN, NEW v \in Vals,
             InsertAppendFails(id, auto, v)
      PROVE  Coherent'
    BY <2>2, DroppedCoherent DEF InsertAppendFails, DropBoth, DropCache
  <2>3. ASSUME NEW id \in Ids, NEW auto \in BOOLEAN, NEW v \in Vals, InsertCached(id, auto, v)
        PROVE  Coherent'
    BY <2>3, InsertCachedCoherent
  <2>4. ASSUME NEW id \in Ids, NEW v \in Vals, InsertUncached(id, v) PROVE Coherent'
    BY <2>4, UncachedCoherent DEF InsertUncached
  <2>5. ASSUME NEW id \in Ids, NEW v \in Vals, UncachedAppendFails(id, v) PROVE Coherent'
    BY <2>5, UncachedCoherent DEF UncachedAppendFails
  <2> QED
    BY <1>1, <2>1, <2>2, <2>3, <2>4, <2>5 DEF Insert
<1>2. ASSUME NEW w \in Where, SelectCached(w) PROVE Coherent'
  BY <1>2, EnsuredStepCoherent DEF SelectCached, disk
<1>3. ASSUME NEW w \in Where, SelectFromFile(w) PROVE Coherent'
  BY <1>3, SelectFromFileCoherent
<1>4. ASSUME NEW w \in Where, SelectRejected(w) PROVE Coherent'
  BY <1>4, StutterCoherent DEF SelectRejected, disk, memory
<1>5. ASSUME NEW w \in Where, NEW c \in SetClause \cup {Removing}, BeginRewrite(w, c)
      PROVE  Coherent'
  BY <1>5, <1>0, FlushedCoherent, FlushCountsBound DEF BeginRewrite
<1>6. ASSUME NEW w \in Where, RewriteFails(w) PROVE Coherent'
  BY <1>6, <1>0, FlushedCoherent, FlushCountsBound DEF RewriteFails
<1>7. ASSUME BulkEnd PROVE Coherent'
  BY <1>7, <1>0, FlushedCoherent, FlushCountsBound DEF BulkEnd
<1>8. ASSUME BulkBegin PROVE Coherent'
  BY <1>8, EnsuredStepCoherent DEF BulkBegin, disk
<1>9. ASSUME NEW k \in {"INT", "VARCHAR"}, Create(k) \/ KillInCreate(k) PROVE Coherent'
  BY <1>9, DroppedCoherent DEF Create, KillInCreate, DropCache, ForgetAll
<1>10. ASSUME RenameTemp \/ CreateFails \/ Exit \/ Kill PROVE Coherent'
  BY <1>10, DroppedCoherent DEF RenameTemp, CreateFails, Exit, Kill, DropCache, ForgetAll
<1>11. ASSUME RemoveTable \/ ReplaceFails PROVE Coherent'
  BY <1>11, RemoveTableCoherent, ReplaceFailsCoherent
<1>12. ASSUME UNCHANGED vars PROVE Coherent'
  BY <1>12, StutterCoherent DEF vars
<1>13. Coherent'
  <2> HIDE DEF Coherent
  <2> QED
    BY <1>1, <1>2, <1>3, <1>4, <1>5, <1>6, <1>7, <1>8, <1>9, <1>10, <1>11, <1>12 DEF Next
<1> QED
  BY <1>0, <1>13, CutIsTornStep DEF CoherenceInv

(***************************************************************************)
(* Where rename does not fail and no cut line parses, moreover, a cache is *)
(* the file followed by the append buffer, and append_fp only writes to an *)
(* unlinked file between the remove and the rename of replace_table_file.  *)
(***************************************************************************)
THEOREM CoherenceInvariant == ASSUME Faults \cap {"rename", "cut"} = {} PROVE Spec => []CoherenceInv
<1>1. Init => CoherenceInv
  BY InitInv DEF Init, CoherenceInv, CacheRowsAreContents, CutIsTorn, NoCache, Closed
<1>2. CoherenceInv /\ [Next]_vars => CoherenceInv'
  BY CoherenceStep
<1> QED
  BY <1>1, <1>2, PTL DEF Spec

(***************************************************************************)
(* storage_insert, storage_select_result: where rename does not fail and   *)
(* no cut line parses, the cache a statement is answered from is the table *)
(* file followed by the append buffer, after any sequence of statements,   *)
(* failed appends and rewrites, kills and restarts.                        *)
(***************************************************************************)
THEOREM CacheCoherent == ASSUME Faults \cap {"rename", "cut"} = {} PROVE Spec => []CacheRowsAreContents
<1>1. CoherenceInv => CacheRowsAreContents
  BY DEF CoherenceInv
<1> QED
  BY <1>1, CoherenceInvariant, PTL

\* replace_table_file, append_csv_row_cached: under the same assumption no
\* statement starts with append_fp on a table file that was replaced.
THEOREM NoOrphans == ASSUME Faults \cap {"rename", "cut"} = {} PROVE Spec => []NoOrphanedAppend
<1>1. CoherenceInv => NoOrphanedAppend
  BY DEF CoherenceInv, NoOrphanedAppend
<1> QED
  BY <1>1, CoherenceInvariant, PTL

(***************************************************************************)
(* flush_table_index_append: where a flush loses no row, no row is left in *)
(* the append buffer while a DELETE or UPDATE rewrites the file.           *)
(***************************************************************************)
LEMMA FullFlushEmpties ==
    ASSUME CacheInv
    PROVE  StreamAfterFlush(Len(stream.buf)).buf = <<>>
<1>1. stream.buf \in Seq(Row) /\ Len(stream.buf) \in Nat
  BY LenProperties DEF CacheInv, TypeOK
<1>2. SubSeq(stream.buf, Len(stream.buf) + 1, Len(stream.buf)) = <<>>
  BY <1>1, SubSeqEmpty
<1> QED
  BY <1>2 DEF StreamAfterFlush, CacheInv, TypeOK

LEMMA RewriteStep ==
    ASSUME "flush" \notin Faults, CacheInv, RewriteSeesAllRows, [Next]_vars
    PROVE  RewriteSeesAllRows'
<1>1. CASE pc' = "idle"
  BY <1>1 DEF RewriteSeesAllRows
<1>2. ASSUME NEW w \in Where, NEW c \in SetClause \cup {Removing}, BeginRewrite(w, c)
      PROVE  RewriteSeesAllRows'
  BY <1>2, FullFlushEmpties DEF BeginRewrite, FlushCounts, RewriteSeesAllRows
<1>3. CASE RemoveTable
  BY <1>3 DEF RemoveTable, RewriteSeesAllRows, CacheInv, TypeOK
<1>4. CASE UNCHANGED <<stream, pc>>
  BY <1>4 DEF RewriteSeesAllRows
<1>5. ASSUME pc' # "idle"
      PROVE  \/ \E w \in Where, c \in SetClause \cup {Removing} : BeginRewrite(w, c)
             \/ RemoveTable
             \/ UNCHANGED <<stream, pc>>
  <2>1. ~Insert
    BY <1>5 DEF Insert, InsertRejected, InsertAppendFails, InsertCached, InsertUncached,
       UncachedAppendFails, memory
  <2>2. ~\E w \in Where : SelectCached(w) \/ SelectFromFile(w) \/ SelectRejected(w)
    BY <1>5 DEF SelectCached, SelectFromFile, SelectRejected, memory
  <2>3. ~\E w \in Where : RewriteFails(w)
    BY <1>5 DEF RewriteFails
  <2>4. ~(RenameTemp \/ ReplaceFails \/ CreateFails \/ BulkBegin \/ BulkEnd \/ Exit \/ Kill)
    BY <1>5 DEF RenameTemp, ReplaceFails, CreateFails, BulkBegin, BulkEnd, Exit, Kill, ForgetAll
  <2>5. ~\E k \in {"INT", "VARCHAR"} : Create(k) \/ KillInCreate(k)
    BY <1>5 DEF Create, KillInCreate, ForgetAll
  <2> QED
    BY <2>1, <2>2, <2>3, <2>4, <2>5 DEF Next, vars
<1> QED
  BY <1>1, <1>2, <1>3, <1>4, <1>5

\* A DELETE or UPDATE reads and copies every acknowledged row of its process.
THEOREM RewritesSeeAllRows == ASSUME "flush" \notin Faults PROVE Spec => []RewriteSeesAllRows
<1>1. Init => RewriteSeesAllRows
  BY DEF Init, RewriteSeesAllRows
<1>2. CacheInv /\ RewriteSeesAllRows /\ [Next]_vars => RewriteSeesAllRows'
  BY RewriteStep
<1> QED
  BY <1>1, <1>2, CacheInvariant, PTL DEF Spec

-----------------------------------------------------------------------------
(***************************************************************************)
(* What TableStorage promises its caller: complete lines survive every     *)
(* fault, and without the faults that void the promise the statements      *)
(* implement TableSpec.                                                    *)
(***************************************************************************)


(***************************************************************************)
(* Complete lines stay.                                                    *)
(***************************************************************************)
LEMMA PrefixOfConcat ==
    ASSUME NEW D, NEW s \in Seq(D), NEW t \in Seq(D)
    PROVE  IsPrefix(s, s \o t)
<1>1. Len(s) \in Nat /\ Len(t) \in Nat
  BY LenProperties
<1>2. Len(s \o t) = Len(s) + Len(t)
  BY ConcatProperties
<1>3. SubSeq(s \o t, 1, Len(s)) = SubSeq(s, 1, Len(s))
  <2>1. CASE s = <<>>
    BY <2>1, SubSeqEmpty
  <2>2. CASE s # <<>>
    <3>1. 1 \in 1 .. Len(s) /\ Len(s) \in 1 .. Len(s)
      BY <1>1, <2>2, EmptySeq
    <3> QED
      BY <3>1, SubSeqOfConcat1
  <2> QED
    BY <2>1, <2>2
<1> QED
  BY <1>1, <1>2, <1>3 DEF IsPrefix

LEMMA CompleteLinesType ==
    ASSUME CacheInv
    PROVE  /\ FileRows \in Seq(Record) /\ cut \in BOOLEAN
           /\ cut => FileRows # <<>>
           /\ CompleteLines \in Seq(Record)
           /\ IsPrefix(CompleteLines, FileRows)
<1>1. /\ FileRows \in Seq(Record) /\ cut \in BOOLEAN
      /\ cut => FileRows # <<>>
  BY FileRowsType DEF CacheInv, TypeOK, CutGood, FileRows
<1>2. CASE cut
  <2>1. Front(FileRows) \in Seq(Record)
    BY <1>1, <1>2, FrontTail
  <2>2. Len(FileRows) \in Nat \ {0}
    BY <1>1, <1>2, EmptySeq
  <2>3. /\ Front(FileRows) = SubSeq(FileRows, 1, Len(FileRows) - 1)
        /\ Len(FileRows) - 1 \in 0 .. Len(FileRows)
    BY <2>2 DEF Front
  <2>4. /\ SubSeq(FileRows, Len(FileRows) - 1 + 1, Len(FileRows)) \in Seq(Record)
        /\ Front(FileRows) \o SubSeq(FileRows, Len(FileRows) - 1 + 1, Len(FileRows)) = FileRows
    <3>1. \A i \in Len(FileRows) - 1 + 1 .. Len(FileRows) : FileRows[i] \in Record
      BY <1>1, <2>2, ElementOfSeq
    <3> QED
      BY <1>1, <2>2, <2>3, <3>1, SplitRecords, SubSeqProperties
  <2> QED
    BY <1>1, <1>2, <2>1, <2>4, PrefixOfConcat DEF CompleteLines
<1>3. CASE ~cut
  <2>1. <<>> \in Seq(Record) /\ FileRows \o <<>> = FileRows
    BY <1>1, EmptySeq, ConcatEmptySeq
  <2> QED
    BY <1>1, <1>3, <2>1, PrefixOfConcat DEF CompleteLines
<1> QED
  BY <1>1, <1>2, <1>3

\* What is appended goes behind the complete lines, on the cut line if there is one.
LEMMA SplicedKeepsLines ==
    ASSUME CacheInv, cut, NEW m \in Record, NEW rest \in Seq(Record)
    PROVE  IsPrefix(CompleteLines, Front(FileRows) \o <<m>> \o rest)
<1>1. CompleteLines = Front(FileRows) /\ Front(FileRows) \in Seq(Record)
  BY CompleteLinesType DEF CompleteLines
<1>2. <<m>> \in Seq(Record) /\ <<m>> \o rest \in Seq(Record)
  <2>1. <<m>> \in Seq(Record)
    OBVIOUS
  <2> QED
    BY <2>1, ConcatProperties
<1>3. Front(FileRows) \o (<<m>> \o rest) = (Front(FileRows) \o <<m>>) \o rest
  BY <1>1, <1>2, ConcatRecords
<1> QED
  BY <1>1, <1>2, <1>3, PrefixOfConcat

LEMMA JoinedKeepsLines ==
    ASSUME CacheInv, NEW new \in Seq(Record), NEW f \in Joined(FileRows, cut, new)
    PROVE  f \in Seq(Record) /\ IsPrefix(CompleteLines, f)
<1>1. /\ FileRows \in Seq(Record) /\ cut \in BOOLEAN
      /\ cut => FileRows # <<>>
  BY CompleteLinesType
<1>2. f \in Seq(Record)
  BY <1>1, JoinedType
<1>3. CASE cut /\ new # <<>>
  <2>1. PICK m \in Merged(Last(FileRows), new[1]) : f = Front(FileRows) \o <<m>> \o Tail(new)
    BY <1>3 DEF Joined
  <2>2. Last(FileRows) \in Record /\ Tail(new) \in Seq(Record) /\ new[1] \in Record
    BY <1>1, <1>3, FrontTail
  <2>3. m \in Record
    BY <2>2, MergedType
  <2> QED
    BY <1>2, <1>3, <2>1, <2>2, <2>3, SplicedKeepsLines
<1>4. CASE cut /\ new = <<>>
  <2>1. f = FileRows \o <<>>
    BY <1>4 DEF Joined
  <2> QED
    BY <1>1, <1>2, <2>1, ConcatEmptySeq, CompleteLinesType
<1>5. CASE ~cut
  <2>1. f = FileRows \o new /\ CompleteLines = FileRows
    BY <1>5 DEF Joined, CompleteLines
  <2> QED
    BY <1>1, <1>2, <2>1, PrefixOfConcat
<1> QED
  BY <1>1, <1>3, <1>4, <1>5

LEMMA RecordsAreAFile == ASSUME table' \in Seq(Record) PROVE FileRows' = table'
BY NoFileAssumption DEF FileRows

LEMMA SameFileKeepsLines ==
    ASSUME CacheInv, FileRows' = FileRows
    PROVE  IsPrefix(CompleteLines, FileRows')
BY CompleteLinesType

LEMMA FlushKeepsLines ==
    ASSUME CacheInv, NEW n \in 0 .. Len(stream.buf), Flush(n)
    PROVE  IsPrefix(CompleteLines, FileRows')
<1> DEFINE new == SubSeq(stream.buf, 1, n)
<1>1. stream.buf \in Seq(Row) /\ Len(stream.buf) \in Nat
  BY LenProperties DEF CacheInv, TypeOK
<1>2. new \in Seq(Record)
  <2>1. \A i \in 1 .. n : stream.buf[i] \in Row
    BY <1>1, ElementOfSeq
  <2> QED
    BY <1>1, <2>1, SubSeqProperties, RowsAreRecords
<1> HIDE DEF new
<1>3. CASE stream.st = "open" /\ cut /\ new # <<>>
  <2>1. table' = Front(FileRows) \o <<Torn>> \o Tail(new)
    BY <1>3 DEF Flush, FileAfterFlush, Appended, new
  <2>2. Tail(new) \in Seq(Record) /\ Torn \in Record
    BY <1>2, <1>3, FrontTail DEF Record
  <2>3. Front(FileRows) \in Seq(Record)
    BY <1>3, CompleteLinesType, FrontTail
  <2>4. table' \in Seq(Record)
    BY <2>1, <2>2, <2>3, SpliceType
  <2> QED
    BY <1>3, <2>1, <2>2, <2>4, SplicedKeepsLines, RecordsAreAFile
<1>4. CASE stream.st = "open" /\ ~(cut /\ new # <<>>)
  <2>1. table' = FileRows \o new
    BY <1>4 DEF Flush, FileAfterFlush, Appended, new
  <2>2. FileRows \in Seq(Record) /\ table' \in Seq(Record)
    BY <1>2, <2>1, CompleteLinesType, ConcatProperties
  <2>3. CASE new = <<>>
    BY <2>1, <2>2, <2>3, ConcatEmptySeq, CompleteLinesType, RecordsAreAFile
  <2>4. CASE ~cut
    BY <1>2, <2>1, <2>2, <2>4, PrefixOfConcat, RecordsAreAFile DEF CompleteLines
  <2> QED
    BY <1>4, <2>3, <2>4
<1>5. CASE stream.st # "open"
  <2>1. FileRows' = FileRows
    BY <1>5 DEF Flush, FileAfterFlush, FileRows
  <2> QED
    BY <2>1, SameFileKeepsLines
<1> QED
  BY <1>3, <1>4, <1>5

LEMMA CutShortKeepsLines ==
    ASSUME CacheInv, NEW rows \in Seq(Row), NEW n \in 0 .. Len(rows), FlushCutShort(rows, n)
    PROVE  IsPrefix(CompleteLines, FileRows')
<1>1. Len(rows) \in Nat /\ \A i \in 1 .. Len(rows) : rows[i] \in Row
  BY LenProperties, ElementOfSeq
<1>2. SubSeq(rows, 1, n) \in Seq(Record)
  BY <1>1, SubSeqProperties, RowsAreRecords
<1>3. CASE table' \in Joined(FileRows, cut, SubSeq(rows, 1, n))
  BY <1>2, <1>3, JoinedKeepsLines, RecordsAreAFile
<1>4. ASSUME n < Len(rows), NEW piece \in Pieces(rows[n + 1]),
             table' \in Joined(FileRows, cut, Append(SubSeq(rows, 1, n), piece))
      PROVE  IsPrefix(CompleteLines, FileRows')
  <2>1. piece \in Record
    BY <1>1, <1>4 DEF Pieces, Shortened, Record, Row
  <2>2. Append(SubSeq(rows, 1, n), piece) \in Seq(Record)
    BY <1>2, <2>1, AppendProperties
  <2> QED
    BY <1>4, <2>2, JoinedKeepsLines, RecordsAreAFile
<1> QED
  BY <1>3, <1>4 DEF FlushCutShort

LEMMA InsertKeepsLines ==
    ASSUME CacheInv, Insert
    PROVE  IsPrefix(CompleteLines, FileRows')
<1> DEFINE LinesKept == IsPrefix(CompleteLines, FileRows')
<1>1. ASSUME NEW id \in Ids, NEW auto \in BOOLEAN, InsertRejected(id, auto)
      PROVE  FileRows' = FileRows
  BY <1>1 DEF InsertRejected, disk, FileRows
<1>2. ASSUME NEW id \in Ids, NEW auto \in BOOLEAN, NEW v \in Vals, InsertCached(id, auto, v)
      PROVE  FileRows' = FileRows
  BY <1>2, CompleteLinesType, NoFileAssumption DEF InsertCached, FileRows
<1>3. ASSUME NEW id \in Ids, NEW auto \in BOOLEAN, NEW v \in Vals, InsertAppendFails(id, auto, v)
      PROVE  LinesKept
  <2> DEFINE row == NewRow(id, auto, v)
             rows == Append(InsertStream.buf, row)
  <2>1. row \in Row
    BY InsertSourceGood, IdsAssumption DEF NewRow, IdCell, Row, CacheGood, CacheType
  <2>2. rows \in Seq(Row) /\ \A n \in 0 .. Len(InsertStream.buf) : n \in 0 .. Len(rows)
    <3> HIDE DEF row
    <3>1. InsertStream.buf \in Seq(Row)
      BY InsertSourceGood DEF StreamGood
    <3> QED
      BY <2>1, <3>1, AppendProperties, LenProperties
  <2>3. \/ FileRows' = FileRows
        \/ \E n \in 0 .. Len(InsertStream.buf) : FlushCutShort(rows, n)
    BY <1>3 DEF InsertAppendFails, FileRows
  <2> HIDE DEF rows
  <2> QED
    BY <2>2, <2>3, CutShortKeepsLines, SameFileKeepsLines
<1>4. ASSUME NEW id \in Ids, NEW v \in Vals, InsertUncached(id, v) PROVE LinesKept
  <2> DEFINE new == << [id |-> id, val |-> v] >>
  <2>1. new \in Seq(Record)
    BY IdsAssumption DEF Record, Row
  <2>2. table' \in Joined(FileRows, cut, new)
    BY <1>4 DEF InsertUncached
  <2> HIDE DEF new
  <2> QED
    BY <2>1, <2>2, JoinedKeepsLines, RecordsAreAFile
<1>5. ASSUME NEW id \in Ids, NEW v \in Vals, UncachedAppendFails(id, v) PROVE LinesKept
  <2> DEFINE rows == << [id |-> id, val |-> v] >>
  <2>1. rows \in Seq(Row) /\ 0 \in 0 .. Len(rows)
    BY IdsAssumption DEF Row
  <2>2. FlushCutShort(rows, 0) \/ FileRows' = FileRows
    BY <1>5 DEF UncachedAppendFails, FileRows
  <2> HIDE DEF rows
  <2> QED
    BY <2>1, <2>2, CutShortKeepsLines, SameFileKeepsLines
<1> QED
  BY <1>1, <1>2, <1>3, <1>4, <1>5, SameFileKeepsLines DEF Insert

LEMMA LinesStayStep ==
    ASSUME CacheInv, [Next]_vars
    PROVE  \/ IsPrefix(CompleteLines, FileRows')
           \/ pc = "rewritten" /\ table' = NoFile
           \/ pc = "removed" /\ table' = temp
           \/ \E k \in {"INT", "VARCHAR"} : Create(k)
<1> DEFINE LinesKept == IsPrefix(CompleteLines, FileRows')
<1>1. ASSUME \E n \in FlushCounts \cup {Len(stream.buf)} : Flush(n) PROVE LinesKept
  BY <1>1, FlushCountsBound, FlushKeepsLines
<1>2. ASSUME UNCHANGED table PROVE LinesKept
  BY <1>2, SameFileKeepsLines DEF FileRows
<1>3. CASE Insert
  BY <1>3, InsertKeepsLines
<1>4. CASE \E w \in Where : SelectCached(w) \/ SelectFromFile(w) \/ SelectRejected(w)
  BY <1>2, <1>4 DEF SelectCached, SelectFromFile, SelectRejected, disk
<1>5. CASE \E w \in Where, c \in SetClause \cup {Removing} : BeginRewrite(w, c)
  <2>1. \E n \in FlushCounts : Flush(n)
    BY <1>5 DEF BeginRewrite
  <2> QED
    BY <1>1, <2>1
<1>6. CASE \E w \in Where : RewriteFails(w)
  <2>1. \E n \in FlushCounts : Flush(n)
    BY <1>6 DEF RewriteFails
  <2> QED
    BY <1>1, <2>1
<1>7. CASE RemoveTable \/ RenameTemp
  BY <1>7 DEF RemoveTable, RenameTemp
<1>8. CASE ReplaceFails \/ BulkBegin \/ UNCHANGED vars
  BY <1>2, <1>8 DEF ReplaceFails, BulkBegin, disk, vars
<1>9. CASE CreateFails \/ BulkEnd \/ Exit
  <2>1. \E n \in FlushCounts : Flush(n)
    BY <1>9 DEF CreateFails, BulkEnd, Exit
  <2> QED
    BY <1>1, <2>1
<1>10. CASE \E k \in {"INT", "VARCHAR"} : KillInCreate(k)
  <2>1. Flush(Len(stream.buf))
    BY <1>10 DEF KillInCreate
  <2> QED
    BY <1>1, <2>1
<1>11. CASE Kill
  <2>1. \/ UNCHANGED table
        \/ \E n \in 0 .. Len(stream.buf) : FlushCutShort(stream.buf, n)
    BY <1>11 DEF Kill
  <2>2. stream.buf \in Seq(Row)
    BY DEF CacheInv, TypeOK
  <2> QED
    BY <1>2, <2>1, <2>2, CutShortKeepsLines
<1> QED
  BY <1>3, <1>4, <1>5, <1>6, <1>7, <1>8, <1>9, <1>10, <1>11 DEF Next

(***************************************************************************)
(* append_csv_row, flush_table_index_append, replace_table_file: whatever  *)
(* fails or is killed, of a line that had its newline no byte is changed,  *)
(* except by a CREATE and by the replacement of the whole file.            *)
(***************************************************************************)
THEOREM CompleteLinesStay == Spec => WholeLinesStay
<1>1. CacheInv /\ [Next]_vars =>
        [\/ IsPrefix(CompleteLines, FileRows')
         \/ pc = "rewritten" /\ table' = NoFile
         \/ pc = "removed" /\ table' = temp
         \/ \E k \in {"INT", "VARCHAR"} : Create(k)]_vars
  BY LinesStayStep
<1> QED
  BY <1>1, CacheInvariant, PTL DEF Spec, WholeLinesStay

(***************************************************************************)
(* The refinement.  TableSpec instantiated is a copy of TableRows: its     *)
(* operators are the ones of TableStorage.                                 *)
(***************************************************************************)
LEMMA SameSelections ==
    /\ \A w, rows : Abstract!Selected(w, rows) = Selected(w, rows)
    /\ \A w, rows : Abstract!Kept(w, rows) = Kept(w, rows)
    /\ \A w, c, rows : Abstract!Updated(w, c, rows) = Updated(w, c, rows)
<1>1. \A w, r : Abstract!Matches(w, r) = Matches(w, r)
  BY DEF Abstract!Matches, Matches
<1>2. \A w, rows : Abstract!MatchPositions(w, rows) = MatchPositions(w, rows)
  BY <1>1 DEF Abstract!MatchPositions, MatchPositions
<1>3. \A seq, ps : Abstract!AtPositions(seq, ps) = AtPositions(seq, ps)
  BY DEF Abstract!AtPositions, AtPositions, Abstract!Cardinality, Cardinality
<1>4. \A c, r : Abstract!Assign(c, r) = Assign(c, r)
  BY DEF Abstract!Assign, Assign
<1> QED
  BY <1>1, <1>2, <1>3, <1>4
  DEF Abstract!Selected, Selected, Abstract!Kept, Kept, Abstract!Updated, Updated

LEMMA SameJoined == \A f, c, n : Abstract!Joined(f, c, n) = Joined(f, c, n)
<1>1. \A l, r : Abstract!Merged(l, r) = Merged(l, r)
  BY DEF Abstract!Merged, Merged, Abstract!Shortened, Shortened
<1>2. \A l : Abstract!Last(l) = Last(l) /\ Abstract!Front(l) = Front(l)
  BY DEF Abstract!Last, Last, Abstract!Front, Front
<1> QED
  BY <1>1, <1>2 DEF Abstract!Joined, Joined

LEMMA SameRows ==
    /\ \A rows : Abstract!Readable(rows) <=> Readable(rows)
    /\ \A rows : Abstract!IdsOf(rows) = IdsOf(rows)
    /\ \A i : Abstract!IsIntKey(i) <=> IsIntKey(i)
    /\ \A l : Abstract!Last(l) = Last(l)
    /\ \A st : Abstract!Done(st) = Done(st)
    /\ \A w, rows : Abstract!Answer(w, rows) = Answer(w, rows)
    /\ Abstract!Error = Error
    /\ Abstract!Where = Where
    /\ Abstract!SetClause = SetClause
<1>1. /\ \A rows : Abstract!Readable(rows) <=> Readable(rows)
      /\ \A rows : Abstract!IdsOf(rows) = IdsOf(rows)
      /\ \A i : Abstract!IsIntKey(i) <=> IsIntKey(i)
      /\ \A l : Abstract!Last(l) = Last(l)
  BY DEF Abstract!Readable, Readable, Abstract!IdsOf, IdsOf, Abstract!IsIntKey, IsIntKey,
     Abstract!Last, Last
<1>2. /\ \A st : Abstract!Done(st) = Done(st)
      /\ \A w, rows : Abstract!Answer(w, rows) = Answer(w, rows)
  BY DEF Abstract!Done, Done, Abstract!All, All, Abstract!Answer, Answer
<1>3. Abstract!Error = Error
  BY <1>2 DEF Abstract!Error, Error
<1>4. Abstract!Where = Where /\ Abstract!SetClause = SetClause
  BY DEF Abstract!Where, Where, Abstract!SetClause, SetClause, Abstract!All, All,
     Abstract!Unknown, Unknown, Abstract!ById, ById, Abstract!ByVal, ByVal
<1> QED
  BY <1>1, <1>2, <1>3, <1>4

(***************************************************************************)
(* What the mapping hides: while a rewrite is under way, the temp file is  *)
(* what the DELETE or UPDATE makes of the table file, and nothing is       *)
(* buffered that it would miss.                                            *)
(***************************************************************************)
RewriteInv ==
    /\ RewriteSeesAllRows
    /\ pc = "rewritten" =>
         /\ kind # "none"
         /\ Loads(table)
         /\ \E w \in Where, c \in SetClause \cup {Removing} : temp = Rewritten(w, c, table)
    /\ pc = "removed" => temp \in Seq(Record) /\ table = NoFile

RefinementInv == CoherenceInv /\ RewriteInv

\* The faults that take rows away which the caller was told are there.
NoLoss == Faults \cap {"rename", "cut", "flush", "kill_gap"} = {}

(***************************************************************************)
(* Between the steps of a rewrite nothing else happens, and only a rewrite *)
(* takes more than one step.                                               *)
(***************************************************************************)
LEMMA OnlyRewriteGoesOn ==
    ASSUME [Next]_vars, pc # "idle"
    PROVE  RemoveTable \/ RenameTemp \/ ReplaceFails \/ Kill \/ UNCHANGED vars
<1>1. ~Insert
  BY DEF Insert, InsertRejected, InsertAppendFails, InsertCached, InsertUncached,
     UncachedAppendFails
<1>2. ~\E w \in Where : SelectCached(w) \/ SelectFromFile(w) \/ SelectRejected(w)
  BY DEF SelectCached, SelectFromFile, SelectRejected
<1>3. ~\E w \in Where, c \in SetClause \cup {Removing} : BeginRewrite(w, c)
  BY DEF BeginRewrite
<1>4. ~\E w \in Where : RewriteFails(w)
  BY DEF RewriteFails
<1>5. ~(CreateFails \/ BulkBegin \/ BulkEnd \/ Exit)
  BY DEF CreateFails, BulkBegin, BulkEnd, Exit
<1>6. ~\E k \in {"INT", "VARCHAR"} : Create(k) \/ KillInCreate(k)
  BY DEF Create, KillInCreate
<1> QED
  BY <1>1, <1>2, <1>3, <1>4, <1>5, <1>6 DEF Next

LEMMA RewriteBegins ==
    ASSUME [Next]_vars, pc = "idle", pc' # "idle"
    PROVE  \E w \in Where, c \in SetClause \cup {Removing} : BeginRewrite(w, c)
<1>1. ~Insert
  BY DEF Insert, InsertRejected, InsertAppendFails, InsertCached, InsertUncached,
     UncachedAppendFails, memory
<1>2. ~\E w \in Where : SelectCached(w) \/ SelectFromFile(w) \/ SelectRejected(w)
  BY DEF SelectCached, SelectFromFile, SelectRejected, memory
<1>3. ~\E w \in Where : RewriteFails(w)
  BY DEF RewriteFails
<1>4. ~(RemoveTable \/ RenameTemp \/ ReplaceFails \/ CreateFails \/ BulkBegin \/ BulkEnd)
  BY DEF RemoveTable, RenameTemp, ReplaceFails, CreateFails, BulkBegin, BulkEnd
<1>5. ~(Exit \/ Kill)
  BY DEF Exit, Kill, ForgetAll
<1>6. ~\E k \in {"INT", "VARCHAR"} : Create(k) \/ KillInCreate(k)
  BY DEF Create, KillInCreate, ForgetAll
<1> QED
  BY <1>1, <1>2, <1>3, <1>4, <1>5, <1>6 DEF Next, vars

LEMMA RewriteInvStep ==
    ASSUME NoLoss, CacheInv, RewriteInv, [Next]_vars
    PROVE  RewriteInv'
<1>1. RewriteSeesAllRows'
  BY RewriteStep DEF NoLoss, RewriteInv
<1>2. CASE pc' = "idle"
  BY <1>1, <1>2 DEF RewriteInv
<1>3. ASSUME NEW w \in Where, NEW c \in SetClause \cup {Removing}, BeginRewrite(w, c)
      PROVE  RewriteInv'
  <2>1. PICK n \in FlushCounts :
          /\ kind # "none"
          /\ Loads(FileAfterFlush(n))
          /\ table' = FileAfterFlush(n)
          /\ temp' = Rewritten(w, c, FileAfterFlush(n))
          /\ pc' = "rewritten"
          /\ kind' = kind
    BY <1>3 DEF BeginRewrite, Flush, NewTemp
  <2> QED
    BY <1>1, <2>1 DEF RewriteInv, Loads
<1>4. CASE RemoveTable
  <2>1. pc = "rewritten" /\ pc' = "removed" /\ table' = NoFile /\ temp' = temp
    BY <1>4 DEF RemoveTable
  <2>2. PICK w \in Where, c \in SetClause \cup {Removing} : temp = NewTemp(w, c, table)
    BY <2>1 DEF RewriteInv, NewTemp
  <2>3. table \in Seq(Record) /\ Readable(table)
    BY <2>1 DEF RewriteInv, Loads, CacheInv, TypeOK
  <2>4. temp \in Seq(Record)
    BY <2>2, <2>3, NewTempType
  <2> QED
    BY <1>1, <2>1, <2>4 DEF RewriteInv
<1>5. CASE UNCHANGED <<kind, table, temp, pc>>
  BY <1>1, <1>5 DEF RewriteInv, Loads
<1>6. CASE RenameTemp \/ ReplaceFails
  BY <1>2, <1>6 DEF RenameTemp, ReplaceFails
<1>7. CASE pc = "idle" /\ pc' # "idle"
  BY <1>3, <1>7, RewriteBegins
<1>8. CASE Kill
  BY <1>2, <1>8 DEF Kill, ForgetAll
<1>9. CASE UNCHANGED vars
  BY <1>5, <1>9 DEF vars
<1>10. pc # "idle" => RemoveTable \/ RenameTemp \/ ReplaceFails \/ Kill \/ UNCHANGED vars
  BY OnlyRewriteGoesOn
<1> QED
  BY <1>2, <1>4, <1>6, <1>7, <1>8, <1>9, <1>10

(***************************************************************************)
(* The rows an abstract state shows.                                       *)
(***************************************************************************)
LEMMA ContentsType ==
    ASSUME CacheInv
    PROVE  /\ FileRows \in Seq(Record) /\ Buffered \in Seq(Row) /\ Buffered \in Seq(Record)
           /\ Contents \in Seq(Record)
           /\ Len(FileRows) \in Nat /\ Len(Buffered) \in Nat
           /\ Len(Contents) = Len(FileRows) + Len(Buffered)
           /\ Len(FileRows) \in 0 .. Len(Contents)
<1>1. FileRows \in Seq(Record)
  BY FileRowsType DEF CacheInv
<1>2. Buffered \in Seq(Row)
  BY EmptySeq DEF Buffered, CacheInv, TypeOK
<1>3. Buffered \in Seq(Record)
  BY <1>2, RowsAreRecords
<1>4. Len(FileRows) \in Nat /\ Len(Buffered) \in Nat
  BY <1>1, <1>2, LenProperties
<1>5. Contents \in Seq(Record) /\ Len(Contents) = Len(FileRows) + Len(Buffered)
  BY <1>1, <1>3, ConcatProperties DEF Contents
<1> QED
  BY <1>1, <1>2, <1>3, <1>4, <1>5

\* The same, of the rows in the file, in the state after a step.
LEMMA FileIsPartOfContents == CacheInv => Len(FileRows) \in 0 .. Len(Contents)
BY ContentsType

LEMMA FileIsPartOfContentsNext == CacheInv' => (Len(FileRows) \in 0 .. Len(Contents))'
BY FileIsPartOfContents, PTL

LEMMA NothingBuffered ==
    ASSUME CacheInv, stream.st # "open"
    PROVE  Contents = FileRows
<1>1. FileRows \in Seq(Record) /\ Buffered = <<>>
  BY ContentsType DEF Buffered
<1> QED
  BY <1>1, ConcatEmptySeq DEF Contents

LEMMA CachedContents ==
    ASSUME CoherenceInv, pc # "removed", cache.ready
    PROVE  cache.rows = Contents /\ Contents \in Seq(Row) /\ Readable(Contents)
<1>1. cache.rows = Contents /\ cache.rows \in Seq(Row)
  BY DEF CoherenceInv, CacheRowsAreContents, CacheInv, TypeOK, CacheType
<1>2. \A i \in DOMAIN Contents : Contents[i] \in Row
  BY <1>1, LenProperties, ElementOfSeq
<1> QED
  BY <1>1, <1>2, TornAssumption DEF Readable

\* A flush makes rows durable.
LEMMA FlushGrows ==
    ASSUME CacheInv, stream.st = "open" => ~cut, NEW n \in 0 .. Len(stream.buf), Flush(n)
    PROVE  Len(FileRows) <= Len(FileRows')
<1>1. CASE stream.st = "open"
  <2>1. IsPrefix(FileRows, FileRows')
    BY <1>1, FlushKeepsLines DEF CompleteLines
  <2> QED
    BY <2>1 DEF IsPrefix
<1>2. CASE stream.st # "open"
  BY <1>2, ContentsType DEF Flush, FileAfterFlush, FileRows
<1> QED
  BY <1>1, <1>2

(***************************************************************************)
(* Steps of TableSpec that leave its rows alone.                           *)
(***************************************************************************)
LEMMA QuietStep ==
    ASSUME CacheInv, CacheInv', pc # "removed", pc' # "removed",
           Contents' = Contents, Len(FileRows) <= Len(FileRows'),
           \/ kind' = kind /\ reply' \in {Error, Done("BULK"), reply}
           \/ kind' \in {"none", "INT", "VARCHAR"} /\ reply' = Error
    PROVE  Abstract!Next
<1>0. Len(FileRows) \in Nat
  BY ContentsType
<1>1. /\ SpecContents' = SpecContents /\ SpecContents' = Contents'
      /\ SpecDurable = Len(FileRows) /\ SpecDurable' = Len(FileRows')
      /\ SpecReply = reply /\ SpecReply' = reply'
  BY DEF SpecContents, SpecDurable, SpecReply
<1>2. Len(FileRows') \in 0 .. Len(Contents')
  BY FileIsPartOfContentsNext
<1>3. Abstract!Syncs
  <2>1. SpecDurable' \in SpecDurable .. Len(SpecContents')
    BY <1>1, <1>2, <1>0
  <2> QED
    BY <2>1 DEF Abstract!Syncs
<1>4. CASE kind' = kind /\ reply' = Error
  BY <1>1, <1>3, <1>4, SameRows DEF Abstract!Next, Abstract!Fail
<1>5. CASE kind' = kind /\ reply' = Done("BULK")
  BY <1>1, <1>3, <1>5, SameRows DEF Abstract!Next, Abstract!Accept
<1>6. CASE kind' = kind /\ reply' = reply
  BY <1>1, <1>3, <1>6 DEF Abstract!Next, Abstract!Sync
<1>7. CASE kind' = "none" /\ reply' = Error
  BY <1>1, <1>3, <1>7, SameRows DEF Abstract!Next, Abstract!CreateFails
<1>8. CASE kind' \in {"INT", "VARCHAR"} /\ reply' = Error
  <2>1. Abstract!CrashInCreate(kind')
    BY <1>1, <1>3, <1>8, SameRows DEF Abstract!CrashInCreate
  <2> QED
    BY <1>8, <2>1 DEF Abstract!Next
<1> QED
  BY <1>4, <1>5, <1>6, <1>7, <1>8

\* ensure_table_index_cache reads the file, and only when append_fp is closed.
LEMMA EnsuredShowsContents ==
    ASSUME CacheInv, NEW st \in {EnsuredStream, InsertStream, stream}
    PROVE  FileRows \o Unwritten(st) = Contents
<1>1. CASE st = stream
  BY <1>1 DEF Contents, Buffered, Unwritten
<1>2. CASE st = Closed /\ ~CacheKept
  <2>1. stream.st # "open"
    BY <1>2 DEF CacheInv, StreamGood, CacheKept
  <2>2. Unwritten(st) = Buffered
    BY <1>2, <2>1 DEF Unwritten, Closed, Buffered
  <2> QED
    BY <2>2 DEF Contents
<1> QED
  BY <1>1, <1>2 DEF EnsuredStream, InsertStream

LEMMA SameStreamSameContents ==
    ASSUME CacheInv, FileRows' = FileRows, stream' \in {EnsuredStream, InsertStream, stream}
    PROVE  Contents' = Contents /\ Len(FileRows) <= Len(FileRows')
<1>1. Contents' = FileRows \o Unwritten(stream')
  BY DEF Contents, Buffered, Unwritten
<1>2. Contents' = Contents
  BY <1>1, EnsuredShowsContents
<1>3. Len(FileRows) \in Nat
  BY ContentsType
<1> QED
  BY <1>2, <1>3

(***************************************************************************)
(* INSERT.                                                                 *)
(***************************************************************************)
LEMMA InsertRejectedStep ==
    ASSUME CacheInv, CacheInv', NEW id \in Ids, NEW auto \in BOOLEAN, InsertRejected(id, auto)
    PROVE  Abstract!Next
<1>1. /\ pc = "idle" /\ pc' = "idle" /\ kind' = kind /\ reply' = Error
      /\ stream' = InsertStream /\ FileRows' = FileRows
  BY DEF InsertRejected, disk, FileRows
<1> QED
  BY <1>1, SameStreamSameContents, QuietStep

LEMMA InsertCachedStep ==
    ASSUME CoherenceInv, CoherenceInv', NEW id \in Ids, NEW auto \in BOOLEAN, NEW v \in Vals,
           InsertCached(id, auto, v)
    PROVE  Abstract!Next
<1> DEFINE row == NewRow(id, auto, v)
<1>1. /\ pc = "idle" /\ pc' = "idle" /\ kind' = kind /\ reply' = Done("INSERT")
      /\ InsertCache.ready
      /\ IsIntKey(IdCell(id, auto)) /\ IdCell(id, auto) \notin DOMAIN InsertCache.index
      /\ cache' = CacheInsert(InsertCache, row)
      /\ table' = IF InsertStream.st = "closed" THEN FileRows ELSE table
  BY DEF InsertCached, Insertable
<1>2. CacheInv /\ CacheInv'
  BY DEF CoherenceInv
<1>3. /\ CacheType(InsertCache) /\ Indexes(InsertCache) /\ Fresh(InsertCache)
      /\ kind = "INT"
  BY <1>1, <1>2, InsertSourceGood DEF CacheGood
<1>4. InsertCache.rows = Contents
  BY <1>1, <1>2, InsertSourceCoherent, EnsuredShowsContents
<1>5. Contents \in Seq(Row) /\ Readable(Contents)
  <2>1. Contents \in Seq(Row)
    BY <1>3, <1>4 DEF CacheType
  <2>2. \A i \in DOMAIN Contents : Contents[i] \in Row
    BY <2>1, LenProperties, ElementOfSeq
  <2> QED
    BY <2>1, <2>2, TornAssumption DEF Readable
<1>6. DOMAIN InsertCache.index = IdsOf(Contents)
  BY <1>3, <1>4 DEF Indexes
<1>7. row = [id |-> IdCell(id, auto), val |-> v]
  BY DEF NewRow
<1>8. auto => \A i \in IdsOf(Contents) : i < IdCell(id, auto)
  BY <1>3, <1>6 DEF Fresh, IdCell
<1>9. IdCell(id, auto) \in Ids \cup 1 .. MaxInt
  BY <1>1, <1>3, MaxIntAssumption DEF Fresh, IdCell, IsIntKey
<1>10. cache'.rows = Append(Contents, row) /\ cache'.ready
  BY <1>1, <1>3, <1>4 DEF CacheInsert, CacheType
<1>11. Contents' = Append(Contents, row)
  BY <1>1, <1>10 DEF CoherenceInv, CacheRowsAreContents
<1>12. FileRows' = FileRows
  BY <1>1, <1>2, ContentsType, NoFileAssumption DEF FileRows
<1>13. /\ SpecContents = Contents /\ SpecContents' = Contents'
       /\ SpecDurable = Len(FileRows) /\ SpecDurable' = Len(FileRows')
       /\ SpecReply' = reply'
  BY <1>1 DEF SpecContents, SpecDurable, SpecReply
<1>14. Abstract!Syncs
  <2>1. Len(FileRows') \in 0 .. Len(Contents')
    BY <1>2, FileIsPartOfContentsNext
  <2>2. SpecDurable' \in SpecDurable .. Len(SpecContents')
    BY <1>12, <1>13, <2>1
  <2> QED
    BY <2>2 DEF Abstract!Syncs
<1> HIDE DEF row
<1>15. Abstract!Insert(row, auto)
  BY <1>1, <1>3, <1>5, <1>6, <1>7, <1>8, <1>11, <1>13, <1>14, SameRows DEF Abstract!Insert
<1> QED
  BY <1>7, <1>9, <1>15 DEF Abstract!Next

\* Without an INT id column there is no cache and nothing is buffered.
LEMMA NoCacheWithoutInt ==
    ASSUME CacheInv, InsertKind = "VARCHAR"
    PROVE  kind = "VARCHAR" /\ ~cache.ready /\ stream.st = "closed" /\ Contents = FileRows
<1>1. kind = "VARCHAR"
  BY DEF InsertKind, CacheInv, BulkContextIsLive
<1>2. ~cache.ready /\ stream.st = "closed"
  BY <1>1 DEF CacheInv, StreamGood
<1> QED
  BY <1>1, <1>2, NothingBuffered

\* A record written behind a cut line takes the place of that line.
LEMMA MergedLength ==
    ASSUME NEW file \in Seq(Record), file # <<>>, NEW r \in Record, NEW f \in Joined(file, TRUE, <<r>>)
    PROVE  Len(f) = Len(file) /\ f \in Seq(Record)
           /\ \E m \in Merged(Last(file), r) : f = Front(file) \o <<m>>
<1>1. <<r>> \in Seq(Record) /\ <<r>> # <<>> /\ <<r>>[1] = r /\ Tail(<<r>>) = <<>>
  OBVIOUS
<1>2. PICK m \in Merged(Last(file), r) : f = Front(file) \o <<m>> \o <<>>
  BY <1>1 DEF Joined
<1>3. Front(file) \in Seq(Record) /\ Last(file) \in Record
  BY FrontTail
<1>4. m \in Record /\ <<m>> \in Seq(Record) /\ Len(<<m>>) = 1
  BY <1>2, <1>3, MergedType
<1>5. Len(file) \in Nat \ {0}
  BY EmptySeq
<1>6. Len(Front(file)) = Len(file) - 1
  <2>1. \A i \in 1 .. Len(file) - 1 : file[i] \in Record
    BY <1>5, ElementOfSeq
  <2> QED
    BY <1>5, <2>1, SubSeqProperties DEF Front
<1>7. Front(file) \o <<m>> \in Seq(Record) /\ Len(Front(file) \o <<m>>) = Len(file)
  BY <1>3, <1>4, <1>5, <1>6, ConcatProperties
<1> QED
  BY <1>2, <1>7, ConcatEmptySeq

LEMMA InsertUncachedStep ==
    ASSUME CoherenceInv, CacheInv', NEW id \in Ids, NEW v \in Vals, InsertUncached(id, v)
    PROVE  Abstract!Next
<1> DEFINE row == [id |-> id, val |-> v]
           new == <<row>>
<1>1. /\ pc = "idle" /\ pc' = "idle" /\ kind' = kind /\ reply' = Done("INSERT")
      /\ stream' = stream
      /\ table' \in Joined(FileRows, cut, new)
      /\ InsertKind = "VARCHAR"
  BY DEF InsertUncached, memory
<1>2. CacheInv
  BY DEF CoherenceInv
<1>3. kind = "VARCHAR" /\ stream.st = "closed" /\ Contents = FileRows
  BY <1>1, <1>2, NoCacheWithoutInt
<1>4. /\ FileRows \in Seq(Record) /\ cut \in BOOLEAN
      /\ cut => FileRows # <<>> /\ Last(FileRows) = Torn
      /\ row \in Record /\ new \in Seq(Record) /\ new # <<>>
  <2>1. cut => FileRows # <<>> /\ Last(FileRows) = Torn
    BY DEF CoherenceInv, CacheInv, CutGood, CutIsTorn, FileRows
  <2>2. row \in Record
    BY IdsAssumption DEF Row, Record
  <2> QED
    BY <1>2, <2>1, <2>2, CompleteLinesType
<1> HIDE DEF row
<1>5. table' \in Seq(Record)
  <2> HIDE DEF new
  <2> QED
    BY <1>1, <1>2, <1>4, JoinedKeepsLines
<1>6. FileRows' = table' /\ Contents' = table'
  <2>1. FileRows' = table'
    BY <1>5, RecordsAreAFile
  <2>2. Contents' = FileRows' \o <<>>
    BY <1>1, <1>3 DEF Contents, Buffered
  <2> QED
    BY <1>5, <2>1, <2>2, ConcatEmptySeq
<1>7. /\ SpecContents = FileRows /\ SpecContents' = table'
      /\ SpecDurable = Len(FileRows) /\ SpecDurable' = Len(table')
      /\ SpecReply' = reply'
  BY <1>1, <1>3, <1>6 DEF SpecContents, SpecDurable, SpecReply
<1>8. /\ table' \in {Append(FileRows, row)} \cup Joined(FileRows, Abstract!EndsTorn, new)
      /\ Len(FileRows) <= Len(table')
  <2>1. CASE cut
    <3>1. Joined(FileRows, Abstract!EndsTorn, new) = Joined(FileRows, cut, new)
      BY <1>4, <1>7, <2>1, SameRows DEF Abstract!EndsTorn, Joined
    <3>2. table' \in Joined(FileRows, TRUE, <<row>>)
      BY <1>1, <1>4, <2>1
    <3>3. Len(table') = Len(FileRows)
      BY <1>4, <2>1, <3>2, MergedLength
    <3>4. Len(FileRows) \in Nat
      BY <1>4, LenProperties
    <3> QED
      BY <1>1, <3>1, <3>3, <3>4
  <2>2. CASE ~cut
    <3>1. table' = FileRows \o new
      BY <1>1, <2>2 DEF Joined
    <3>2. FileRows \o new = Append(FileRows, row)
      BY <1>4, AppendIsConcat
    <3> QED
      BY <1>4, <3>1, <3>2, AppendProperties, LenProperties
  <2> QED
    BY <1>4, <2>1, <2>2
<1>9. Abstract!Syncs
  <2>1. Len(FileRows) \in Nat /\ Len(table') \in Nat
    BY <1>4, <1>5, LenProperties
  <2> QED
    BY <1>7, <1>8, <2>1 DEF Abstract!Syncs
<1>10. Abstract!Insert(row, FALSE)
  BY <1>1, <1>3, <1>7, <1>8, <1>9, SameRows, SameJoined DEF Abstract!Insert
<1> QED
  BY <1>10 DEF Abstract!Next, row

(***************************************************************************)
(* A write error or a kill leaves a part of the buffered rows in the file, *)
(* and perhaps a torn one.                                                 *)
(***************************************************************************)
LEMMA PrefixOfContents ==
    ASSUME NEW s \in Seq(Record), NEW t \in Seq(Record), NEW n \in 0 .. Len(t)
    PROVE  SubSeq(s \o t, 1, Len(s) + n) = s \o SubSeq(t, 1, n)
<1>1. Len(s) \in Nat /\ Len(t) \in Nat
  BY LenProperties
<1>2. /\ s \o t \in Seq(Record) /\ Len(s \o t) = Len(s) + Len(t)
      /\ \A i \in 1 .. Len(s) + Len(t) :
           (s \o t)[i] = IF i <= Len(s) THEN s[i] ELSE t[i - Len(s)]
  BY ConcatProperties
<1>3. /\ SubSeq(t, 1, n) \in Seq(Record) /\ Len(SubSeq(t, 1, n)) = n
      /\ \A i \in 1 .. n : SubSeq(t, 1, n)[i] = t[i]
  <2>1. \A i \in 1 .. n : t[i] \in Record
    BY <1>1, ElementOfSeq
  <2> QED
    BY <1>1, <2>1, SubSeqProperties
<1>4. /\ SubSeq(s \o t, 1, Len(s) + n) \in Seq(Record)
      /\ Len(SubSeq(s \o t, 1, Len(s) + n)) = Len(s) + n
      /\ \A i \in 1 .. Len(s) + n : SubSeq(s \o t, 1, Len(s) + n)[i] = (s \o t)[i]
  <2>1. \A i \in 1 .. Len(s) + n : (s \o t)[i] \in Record
    BY <1>1, <1>2, ElementOfSeq
  <2> QED
    BY <1>1, <2>1, SubSeqProperties
<1>5. /\ s \o SubSeq(t, 1, n) \in Seq(Record) /\ Len(s \o SubSeq(t, 1, n)) = Len(s) + n
      /\ \A i \in 1 .. Len(s) + n :
           (s \o SubSeq(t, 1, n))[i] = IF i <= Len(s) THEN s[i] ELSE SubSeq(t, 1, n)[i - Len(s)]
  BY <1>3, ConcatProperties
<1>6. \A i \in 1 .. Len(s) + n :
        SubSeq(s \o t, 1, Len(s) + n)[i] = (s \o SubSeq(t, 1, n))[i]
  BY <1>1, <1>2, <1>3, <1>4, <1>5
<1> QED
  BY <1>4, <1>5, <1>6, SeqEqual

LEMMA SamePrefix ==
    ASSUME NEW s \in Seq(Row), NEW t \in Seq(Row), NEW n \in Nat, n <= Len(s), n <= Len(t),
           \A i \in 1 .. n : s[i] = t[i]
    PROVE  SubSeq(s, 1, n) = SubSeq(t, 1, n)
<1>1. Len(s) \in Nat /\ Len(t) \in Nat
  BY LenProperties
<1>2. /\ \A i \in 1 .. n : s[i] \in Row
      /\ \A i \in 1 .. n : t[i] \in Row
  BY <1>1, ElementOfSeq
<1>3. /\ SubSeq(s, 1, n) \in Seq(Row) /\ Len(SubSeq(s, 1, n)) = n
      /\ \A i \in 1 .. n : SubSeq(s, 1, n)[i] = s[i]
  BY <1>2, SubSeqProperties
<1>4. /\ SubSeq(t, 1, n) \in Seq(Row) /\ Len(SubSeq(t, 1, n)) = n
      /\ \A i \in 1 .. n : SubSeq(t, 1, n)[i] = t[i]
  BY <1>2, SubSeqProperties
<1> QED
  BY <1>3, <1>4, SeqEqual

LEMMA FrontAndLast ==
    ASSUME NEW D, NEW s \in Seq(D), s # <<>>
    PROVE  Front(s) \o <<Last(s)>> = s
<1>1. Len(s) \in Nat \ {0}
  BY EmptySeq
<1>2. SubSeq(s, 1, Len(s)) = SubSeq(s, 1, Len(s) - 1) \o <<s[Len(s)]>>
  <2>1. 1 \in 1 .. Len(s) /\ Len(s) \in 1 .. Len(s)
    BY <1>1
  <2> QED
    BY <2>1, SubSeqRecursiveSecond
<1> QED
  BY <1>2, SubSeqFull DEF Front, Last

\* The table file with the first n buffered rows, and perhaps a part of the next.
Salvaged(n, torn) ==
    (FileRows \o SubSeq(Buffered, 1, n)) \o (IF torn THEN <<Torn>> ELSE <<>>)

LEMMA LoseTailStep ==
    ASSUME CacheInv, CacheInv', pc # "removed", pc' # "removed",
           kind' = kind, reply' = Error, stream' = Closed,
           NEW n \in 0 .. Len(Buffered), NEW torn \in BOOLEAN,
           table' = Salvaged(n, torn)
    PROVE  Abstract!Next
<1> DEFINE head == SubSeq(Buffered, 1, n)
           rest == IF torn THEN <<Torn>> ELSE <<>>
<1>1. /\ FileRows \in Seq(Record) /\ Buffered \in Seq(Record)
      /\ Contents = FileRows \o Buffered
      /\ Len(FileRows) \in Nat /\ Len(Buffered) \in Nat
      /\ Len(Contents) = Len(FileRows) + Len(Buffered)
  BY ContentsType DEF Contents
<1>2. SubSeq(Contents, 1, Len(FileRows) + n) = FileRows \o head
  BY <1>1, PrefixOfContents
<1>3. rest \in Seq(Record)
  <2>1. <<>> \in Seq(Record) /\ <<Torn>> \in Seq(Record)
    BY EmptySeq DEF Record
  <2> QED
    BY <2>1
<1>4. head \in Seq(Record) /\ Len(head) = n
  <2>1. \A i \in 1 .. n : Buffered[i] \in Record
    BY <1>1, ElementOfSeq
  <2> QED
    BY <1>1, <2>1, SubSeqProperties
<1> HIDE DEF head, rest
<1>5. FileRows \o head \in Seq(Record) /\ Len(FileRows \o head) = Len(FileRows) + n
  BY <1>1, <1>4, ConcatProperties
<1>6. table' \in Seq(Record) /\ Len(table') = Len(FileRows) + n + Len(rest)
  <2>1. table' = (FileRows \o head) \o rest
    BY DEF head, rest, Salvaged
  <2> QED
    BY <1>3, <1>5, <2>1, ConcatProperties
<1>7. FileRows' = table' /\ Contents' = table'
  <2>1. FileRows' = table'
    BY <1>6, RecordsAreAFile
  <2>2. Contents' = FileRows' \o <<>>
    BY DEF Contents, Buffered, Closed
  <2> QED
    BY <1>6, <2>1, <2>2, ConcatEmptySeq
<1>8. /\ SpecContents = Contents /\ SpecContents' = table'
      /\ SpecDurable = Len(FileRows) /\ SpecDurable' = Len(table')
      /\ SpecReply' = reply'
  BY <1>7 DEF SpecContents, SpecDurable, SpecReply
<1>9. Len(rest) \in Nat
  BY <1>3, LenProperties
<1>10. Abstract!Syncs
  <2>1. Len(table') \in Nat /\ Len(FileRows) <= Len(table')
    BY <1>1, <1>6, <1>9
  <2> QED
    BY <1>1, <1>8, <2>1 DEF Abstract!Syncs
<1>11. /\ Len(FileRows) + n \in SpecDurable .. Len(SpecContents)
       /\ Len(FileRows) + n \in 0 .. Len(SpecContents)
  BY <1>1, <1>8
<1>12. Abstract!LoseTail(Len(FileRows) + n, torn)
  BY <1>2, <1>8, <1>10, <1>11, SameRows DEF Abstract!LoseTail, Salvaged, head
<1> QED
  BY <1>11, <1>12 DEF Abstract!Next

LEMMA CutShortStep ==
    ASSUME "cut" \notin Faults, CacheInv, CacheInv', pc # "removed", pc' # "removed", ~cut,
           kind' = kind, reply' = Error, stream' = Closed,
           NEW rows \in Seq(Row), NEW n \in 0 .. Len(Buffered), n <= Len(rows),
           SubSeq(rows, 1, n) = SubSeq(Buffered, 1, n),
           FlushCutShort(rows, n)
    PROVE  Abstract!Next
<1> DEFINE head == SubSeq(Buffered, 1, n)
<1>1. FileRows \in Seq(Record) /\ Buffered \in Seq(Record) /\ Len(Buffered) \in Nat
  BY ContentsType
<1>2. head \in Seq(Record)
  <2>1. \A i \in 1 .. n : Buffered[i] \in Record
    BY <1>1, ElementOfSeq
  <2> QED
    BY <1>1, <2>1, SubSeqProperties
<1>3. /\ \A new : Joined(FileRows, cut, new) = {FileRows \o new}
      /\ \A r : Pieces(r) = {Torn}
  BY DEF Joined, Pieces
<1>4. FileRows \o head \in Seq(Record)
  BY <1>1, <1>2, ConcatProperties
<1>5. CASE table' \in Joined(FileRows, cut, SubSeq(rows, 1, n))
  <2>1. table' = FileRows \o head
    BY <1>3, <1>5
  <2>2. table' = (FileRows \o head) \o <<>>
    BY <1>4, <2>1, ConcatEmptySeq
  <2> QED
    BY <2>2, LoseTailStep DEF Salvaged
<1>6. CASE \E piece \in Pieces(rows[n + 1]) :
             table' \in Joined(FileRows, cut, Append(SubSeq(rows, 1, n), piece))
  <2>1. table' = FileRows \o Append(head, Torn)
    BY <1>3, <1>6
  <2>2. Append(head, Torn) = head \o <<Torn>> /\ <<Torn>> \in Seq(Record)
    <3>1. Torn \in Record
      BY DEF Record
    <3> HIDE DEF head
    <3> QED
      BY <1>2, <3>1, AppendIsConcat
  <2>3. table' = (FileRows \o head) \o <<Torn>>
    <3> HIDE DEF head
    <3> QED
      BY <1>1, <1>2, <2>1, <2>2, ConcatRecords
  <2> QED
    BY <2>3, LoseTailStep DEF Salvaged
<1> QED
  BY <1>5, <1>6 DEF FlushCutShort

\* Nothing is cached from a file with a cut line.
LEMMA ReadyIsWhole ==
    ASSUME CoherenceInv, pc = "idle", InsertCache.ready
    PROVE  ~cut /\ FileRows \o Unwritten(InsertStream) = Contents
<1>1. CacheInv
  BY DEF CoherenceInv
<1>2. /\ InsertCache.rows = Contents /\ FileRows \o Unwritten(InsertStream) = Contents
      /\ Contents \in Seq(Row)
  BY <1>1, InsertSourceCoherent, InsertSourceGood, EnsuredShowsContents DEF CacheGood, CacheType
<1>3. ASSUME cut PROVE FALSE
  <2>1. FileRows # <<>> /\ FileRows[Len(FileRows)] = Torn
    BY <1>1, <1>3 DEF CoherenceInv, CacheInv, CutGood, CutIsTorn, FileRows, Last
  <2>2. Len(FileRows) \in 1 .. Len(Contents) /\ Contents[Len(FileRows)] = Torn
    <3>1. Len(FileRows) \in Nat \ {0}
      BY <1>1, <2>1, ContentsType, EmptySeq
    <3>2. FileRows \in Seq(Record) /\ Buffered \in Seq(Record) /\ Len(Buffered) \in Nat
      BY <1>1, ContentsType
    <3> QED
      BY <2>1, <3>1, <3>2, ConcatProperties DEF Contents
  <2>3. Contents[Len(FileRows)] \in Row
    BY <1>2, <2>2, ElementOfSeq
  <2> QED
    BY <2>2, <2>3, TornAssumption
<1> QED
  BY <1>2, <1>3

LEMMA InsertAppendFailsStep ==
    ASSUME NoLoss, CoherenceInv, CacheInv', NEW id \in Ids, NEW auto \in BOOLEAN, NEW v \in Vals,
           InsertAppendFails(id, auto, v)
    PROVE  Abstract!Next
<1> DEFINE row == NewRow(id, auto, v)
           buf == InsertStream.buf
           rows == Append(buf, row)
<1>1. /\ pc = "idle" /\ pc' = "idle" /\ kind' = kind /\ reply' = Error
      /\ stream' = Closed
      /\ InsertCache.ready
  BY DEF InsertAppendFails, Insertable, DropBoth, DropCache
<1>2. CacheInv
  BY DEF CoherenceInv
<1>3. ~cut /\ FileRows \o Unwritten(InsertStream) = Contents
  BY <1>1, ReadyIsWhole
<1>4. InsertStream.st # "orphan" /\ buf \in Seq(Row) /\ Unwritten(InsertStream) = buf
  BY <1>1, <1>2, InsertSourceGood, InsertSourceCoherent DEF StreamGood, Unwritten
<1>5. Buffered = buf
  <2>1. buf \in Seq(Record) /\ Buffered \in Seq(Record) /\ FileRows \in Seq(Record)
    BY <1>2, <1>4, ContentsType, RowsAreRecords
  <2>2. FileRows \o buf = FileRows \o Buffered
    BY <1>3, <1>4 DEF Contents
  <2> HIDE DEF buf
  <2> QED
    BY <2>1, <2>2, ConcatSimplifications
<1>6. row \in Row
  BY <1>2, InsertSourceGood, IdsAssumption DEF NewRow, IdCell, Row, CacheGood, CacheType
<1> HIDE DEF row
<1>7. Len(buf) \in Nat
  BY <1>4, LenProperties
<1>8. CASE UNCHANGED <<table, cut>> /\ InsertStream.st = "closed"
  <2>1. FileRows' = FileRows
    BY <1>8 DEF FileRows
  <2>2. buf = <<>>
    BY <1>2, <1>8, InsertSourceGood DEF StreamGood
  <2>3. Contents' = Contents
    BY <1>1, <1>5, <2>1, <2>2 DEF Contents, Buffered, Closed
  <2>4. Len(FileRows) <= Len(FileRows')
    BY <1>2, <2>1, ContentsType
  <2> QED
    BY <1>1, <1>2, <2>3, <2>4, QuietStep
<1>9. ASSUME NEW n \in 0 .. Len(buf), FlushCutShort(rows, n) PROVE Abstract!Next
  <2>1. /\ rows \in Seq(Row) /\ Len(rows) = Len(buf) + 1
        /\ \A i \in 1 .. n : rows[i] = buf[i]
    <3> HIDE DEF buf
    <3> QED
      BY <1>4, <1>6, <1>7, AppendProperties
  <2>2. SubSeq(rows, 1, n) = SubSeq(buf, 1, n)
    <3> HIDE DEF rows, buf
    <3> QED
      BY <1>4, <1>7, <2>1, SamePrefix
  <2> HIDE DEF rows, buf
  <2>3. "cut" \notin Faults /\ pc # "removed" /\ pc' # "removed" /\ ~cut
    BY <1>1, <1>3 DEF NoLoss
  <2>4. /\ n \in 0 .. Len(Buffered) /\ n <= Len(rows)
        /\ SubSeq(rows, 1, n) = SubSeq(Buffered, 1, n)
    BY <1>5, <1>7, <1>9, <2>1, <2>2
  <2> QED
    BY <1>1, <1>2, <1>9, <2>1, <2>3, <2>4, CutShortStep
<1> QED
  BY <1>4, <1>8, <1>9 DEF InsertAppendFails, row

LEMMA UncachedAppendFailsStep ==
    ASSUME NoLoss, CoherenceInv, CacheInv', NEW id \in Ids, NEW v \in Vals,
           UncachedAppendFails(id, v)
    PROVE  Abstract!Next
<1> DEFINE row == [id |-> id, val |-> v]
           rows == <<row>>
<1>1. /\ pc = "idle" /\ pc' = "idle" /\ kind' = kind /\ reply' = Error /\ stream' = stream
      /\ InsertKind = "VARCHAR"
      /\ UNCHANGED <<table, cut>> \/ FlushCutShort(rows, 0)
  BY DEF UncachedAppendFails, memory
<1>2. CacheInv /\ "cut" \notin Faults
  BY DEF CoherenceInv, NoLoss
<1>3. stream.st = "closed" /\ stream = Closed /\ Buffered = <<>>
  <2>1. stream.st = "closed"
    BY <1>1, <1>2, NoCacheWithoutInt
  <2> QED
    BY <1>2, <2>1 DEF CacheInv, StreamGood, Closed, Buffered
<1>4. /\ rows \in Seq(Row) /\ Len(rows) = 1 /\ SubSeq(rows, 1, 0) = <<>>
      /\ rows[1] = row /\ row \in Row
  <2>1. row \in Row
    BY IdsAssumption DEF Row
  <2> HIDE DEF row
  <2> QED
    BY <2>1, SubSeqEmpty
<1> HIDE DEF rows, row
<1>5. ASSUME FileRows' = FileRows PROVE Abstract!Next
  BY <1>1, <1>2, <1>5, SameStreamSameContents, QuietStep
<1>6. CASE UNCHANGED <<table, cut>>
  BY <1>5, <1>6 DEF FileRows
<1>7. CASE FlushCutShort(rows, 0) /\ ~cut
  <2>1. 0 \in 0 .. Len(Buffered) /\ SubSeq(Buffered, 1, 0) = <<>>
    BY <1>3, SubSeqEmpty
  <2> QED
    BY <1>1, <1>2, <1>3, <1>4, <1>7, <2>1, CutShortStep
<1>8. CASE FlushCutShort(rows, 0) /\ cut
  <2>1. /\ FileRows \in Seq(Record) /\ FileRows # <<>> /\ Last(FileRows) = Torn
        /\ FileRows \o <<>> = FileRows
        /\ table \in Seq(Record) /\ table = FileRows
    <3>1. table # NoFile /\ table # <<>> /\ Last(table) = Torn /\ table \in Seq(Record)
      BY <1>2, <1>8 DEF CoherenceInv, CacheInv, CutGood, CutIsTorn, TypeOK
    <3> QED
      BY <3>1, ConcatEmptySeq DEF FileRows
  <2>2. CASE table' \in Joined(FileRows, cut, SubSeq(rows, 1, 0))
    <3>1. table' = FileRows
      BY <1>4, <2>1, <2>2 DEF Joined
    <3> QED
      BY <1>5, <2>1, <3>1 DEF FileRows
  <2>3. CASE \E piece \in Pieces(rows[0 + 1]) :
               table' \in Joined(FileRows, cut, Append(SubSeq(rows, 1, 0), piece))
    <3>1. table' \in Joined(FileRows, TRUE, <<Torn>>)
      BY <1>2, <1>4, <1>8, <2>3 DEF Pieces, Joined
    <3>2. Torn \in Record
      BY DEF Record
    <3>3. PICK m \in Merged(Torn, Torn) : table' = Front(FileRows) \o <<m>>
      BY <2>1, <3>1, <3>2, MergedLength
    <3>4. table' = Front(FileRows) \o <<Torn>>
      BY <3>3 DEF Merged
    <3>5. table' = FileRows
      BY <2>1, <3>4, FrontAndLast
    <3> QED
      BY <1>5, <2>1, <3>5 DEF FileRows
  <2> QED
    BY <1>8, <2>2, <2>3 DEF FlushCutShort
<1> QED
  BY <1>1, <1>6, <1>7, <1>8

(***************************************************************************)
(* SELECT.  Where ids are unique, the index finds what a scan selects.     *)
(***************************************************************************)
LEMMA AtNoPosition ==
    ASSUME NEW rows \in Seq(Row)
    PROVE  AtPositions(rows, {}) = <<>>
<1>1. AtPositions(rows, {}) \in Seq(Row)
  BY AtPositionsType
<1>2. Cardinality({}) = 0
  BY FS_EmptySet
<1>3. DOMAIN AtPositions(rows, {}) = 1 .. 0
  BY <1>2 DEF AtPositions
<1>4. Len(AtPositions(rows, {})) = 0
  BY <1>1, <1>3, LenProperties
<1> QED
  BY <1>1, <1>4, EmptySeq

LEMMA OneIndex ==
    ASSUME NEW n \in Nat, 1 .. n = 1 .. 1
    PROVE  n = 1
<1>1. 1 \in 1 .. n
  OBVIOUS
<1>2. n >= 1
  BY <1>1
<1>3. n \in 1 .. n
  BY <1>2
<1>4. n \in 1 .. 1
  BY <1>3
<1> QED
  BY <1>4

LEMMA AtOnePosition ==
    ASSUME NEW rows \in Seq(Row), NEW p \in DOMAIN rows
    PROVE  AtPositions(rows, {p}) = <<rows[p]>>
<1> DEFINE at == AtPositions(rows, {p})
           nth(i) == CHOOSE q \in {p} : Cardinality({r \in {p} : r <= q}) = i
<1>1. at \in Seq(Row) /\ Cardinality({p}) = 1
  BY AtPositionsType, FS_Singleton
<1>2. at = [i \in 1 .. 1 |-> rows[nth(i)]]
  BY <1>1 DEF AtPositions
<1>3. nth(1) = p
  <2>1. p \in Int
    BY LenProperties
  <2>2. {r \in {p} : r <= p} = {p}
    BY <2>1
  <2>3. \E q \in {p} : Cardinality({r \in {p} : r <= q}) = 1
    BY <1>1, <2>2
  <2>4. nth(1) \in {p}
    BY <2>3
  <2> QED
    BY <2>4
<1>4. Len(at) = 1 /\ at[1] = rows[p]
  <2>1. DOMAIN at = 1 .. 1
    BY <1>2
  <2>2. Len(at) \in Nat /\ 1 .. Len(at) = 1 .. 1
    BY <1>1, <2>1, LenProperties
  <2>3. Len(at) = 1
    BY <2>2, OneIndex
  <2>4. at[1] = rows[nth(1)]
    BY <1>2
  <2> QED
    BY <1>3, <2>3, <2>4
<1>5. rows[p] \in Row /\ <<rows[p]>> \in Seq(Row) /\ Len(<<rows[p]>>) = 1
  BY LenProperties, ElementOfSeq
<1> HIDE DEF at
<1> QED
  BY <1>1, <1>4, <1>5, SeqEqual DEF at

LEMMA LookupIsSelection ==
    ASSUME NEW c, CacheGood(c), c.ready, NEW w \in Where, IsIdLookup(w)
    PROVE  Lookup(c, w.to) = Selected(w, c.rows)
<1> DEFINE ps == MatchPositions(w, c.rows)
<1>1. Indexes(c) /\ c.rows \in Seq(Row)
  BY DEF CacheGood, CacheType
<1>2. ps = {p \in DOMAIN c.rows : c.rows[p].id = w.to}
  BY DEF MatchPositions, Matches, IsIdLookup
<1>3. CASE w.to \in DOMAIN c.index
  <2>1. PICK p \in DOMAIN c.rows : c.rows[p].id = w.to
    BY <1>1, <1>3 DEF Indexes, IdsOf
  <2>2. c.index[w.to] = p
    BY <1>1, <2>1 DEF Indexes
  <2>3. \A q \in DOMAIN c.rows : c.rows[q].id = w.to => q = p
    BY <1>1, <2>2 DEF Indexes
  <2>4. ps = {p}
    BY <1>2, <2>1, <2>3
  <2>5. Lookup(c, w.to) = <<c.rows[p]>>
    BY <1>3, <2>2 DEF Lookup
  <2> QED
    BY <1>1, <2>4, <2>5, AtOnePosition DEF Selected
<1>4. CASE w.to \notin DOMAIN c.index
  <2>1. ps = {}
    BY <1>1, <1>2, <1>4 DEF Indexes, IdsOf
  <2>2. Lookup(c, w.to) = <<>>
    BY <1>4 DEF Lookup
  <2> QED
    BY <1>1, <2>1, <2>2, AtNoPosition DEF Selected
<1> QED
  BY <1>3, <1>4

LEMMA AnswerStep ==
    ASSUME CacheInv, CacheInv', pc = "idle", pc' = "idle", kind # "none", kind' = kind,
           Contents' = Contents, Len(FileRows) <= Len(FileRows'), Readable(Contents),
           NEW w \in Where, reply' = Answer(w, Selected(w, Contents))
    PROVE  Abstract!Next
<1>1. /\ SpecContents = Contents /\ SpecContents' = Contents'
      /\ SpecDurable = Len(FileRows) /\ SpecDurable' = Len(FileRows')
      /\ SpecReply' = reply'
  BY DEF SpecContents, SpecDurable, SpecReply
<1>2. Len(FileRows') \in 0 .. Len(Contents') /\ Len(FileRows) \in Nat
  BY FileIsPartOfContentsNext, ContentsType
<1>3. Abstract!Syncs
  BY <1>1, <1>2 DEF Abstract!Syncs
<1>4. Abstract!Select(w)
  BY <1>1, <1>3, SameRows, SameSelections DEF Abstract!Select
<1>5. w \in Abstract!Where
  BY SameRows
<1> QED
  BY <1>4, <1>5 DEF Abstract!Next

LEMMA SelectCachedStep ==
    ASSUME CoherenceInv, CoherenceInv', NEW w \in Where, SelectCached(w)
    PROVE  Abstract!Next
<1> DEFINE c == EnsuredCache
<1>1. /\ pc = "idle" /\ pc' = "idle" /\ kind # "none" /\ kind' = kind /\ c.ready
      /\ FileRows' = FileRows /\ stream' = EnsuredStream /\ cache' = c
      /\ reply' = Answer(w, IF IsIdLookup(w) THEN Lookup(c, w.to) ELSE Selected(w, c.rows))
  BY DEF SelectCached, CacheAnswers, disk, FileRows
<1>2. CacheInv /\ CacheInv'
  BY DEF CoherenceInv
<1>3. Contents' = Contents /\ Len(FileRows) <= Len(FileRows')
  BY <1>1, <1>2, SameStreamSameContents
<1>4. CacheGood(c)
  BY <1>2, EnsuredGood
<1>5. c.rows = Contents
  BY <1>1, <1>2, EnsuredCoherent, EnsuredShowsContents
<1>6. Readable(Contents)
  <2>1. \A i \in DOMAIN Contents : Contents[i] \in Row
    BY <1>4, <1>5, LenProperties, ElementOfSeq DEF CacheGood, CacheType
  <2> QED
    BY <2>1, TornAssumption DEF Readable
<1> HIDE DEF c
<1>7. reply' = Answer(w, Selected(w, Contents))
  BY <1>1, <1>4, <1>5, LookupIsSelection
<1> QED
  BY <1>1, <1>2, <1>3, <1>6, <1>7, AnswerStep

LEMMA SelectFromFileStep ==
    ASSUME CoherenceInv, CacheInv', NEW w \in Where, SelectFromFile(w)
    PROVE  Abstract!Next
<1>1. /\ pc = "idle" /\ pc' = "idle" /\ kind # "none" /\ kind' = kind
      /\ ~CacheAnswers
      /\ table' = table /\ stream' = StreamAfterFlush(Len(stream.buf))
      /\ reply' = IF Loads(table) THEN Answer(w, Selected(w, table)) ELSE Error
  BY DEF SelectFromFile, disk
<1>2. CacheInv
  BY DEF CoherenceInv
<1>3. stream.st # "open"
  BY <1>1, <1>2 DEF CacheAnswers, CacheInv, StreamGood, EnsuredCache, CacheKept
<1>4. stream'.st # "open"
  BY <1>1, <1>2, <1>3, FlushGood, FlushCountsBound
<1>5. Contents' = Contents /\ Len(FileRows) <= Len(FileRows')
  <2>1. FileRows' = FileRows
    BY <1>1 DEF FileRows
  <2>2. Contents' = Contents
    BY <1>3, <1>4, <2>1 DEF Contents, Buffered
  <2>3. Len(FileRows) \in Nat
    BY <1>2, ContentsType
  <2> QED
    BY <2>1, <2>2, <2>3
<1>6. CASE ~Loads(table)
  BY <1>1, <1>2, <1>5, <1>6, QuietStep
<1>7. CASE Loads(table)
  <2>1. Contents = table
    BY <1>2, <1>3, <1>7, NothingBuffered DEF Loads, FileRows
  <2>2. Readable(Contents) /\ reply' = Answer(w, Selected(w, Contents))
    BY <1>1, <1>7, <2>1 DEF Loads
  <2> QED
    BY <1>1, <1>2, <1>5, <2>2, AnswerStep
<1> QED
  BY <1>6, <1>7

LEMMA SelectRejectedStep ==
    ASSUME CacheInv, CacheInv', NEW w \in Where, SelectRejected(w)
    PROVE  Abstract!Next
<1>1. /\ pc = "idle" /\ pc' = "idle" /\ kind' = kind /\ reply' = Error
      /\ stream' = stream /\ FileRows' = FileRows
  BY DEF SelectRejected, disk, memory, FileRows
<1> QED
  BY <1>1, SameStreamSameContents, QuietStep

(***************************************************************************)
(* DELETE and UPDATE: the step that removes the table file is the one      *)
(* that has the effect.                                                    *)
(***************************************************************************)
LEMMA FlushedSameContents ==
    ASSUME CoherenceInv, pc # "removed", NEW n \in 0 .. Len(stream.buf),
           Flush(n), stream' = StreamAfterFlush(n)
    PROVE  Contents' = Contents /\ Len(FileRows) <= Len(FileRows')
<1>1. CacheInv /\ (stream.st = "open" => ~cut)
  BY OpenIsWhole DEF CoherenceInv
<1> QED
  BY <1>1, FlushKeepsContents, FlushGrows

LEMMA BeginRewriteStep ==
    ASSUME CoherenceInv, CacheInv', NEW w \in Where, NEW c \in SetClause \cup {Removing},
           BeginRewrite(w, c)
    PROVE  Abstract!Next
<1>1. PICK n \in FlushCounts : Flush(n) /\ stream' = StreamAfterFlush(n)
  BY DEF BeginRewrite
<1>2. pc = "idle" /\ pc' = "rewritten" /\ kind' = kind /\ reply' = Error
  BY DEF BeginRewrite
<1>3. CacheInv /\ n \in 0 .. Len(stream.buf)
  BY FlushCountsBound DEF CoherenceInv
<1> QED
  BY <1>1, <1>2, <1>3, FlushedSameContents, QuietStep

LEMMA RewriteFailsStep ==
    ASSUME CoherenceInv, CacheInv', NEW w \in Where, RewriteFails(w)
    PROVE  Abstract!Next
<1>1. PICK n \in FlushCounts : Flush(n) /\ stream' = StreamAfterFlush(n)
  BY DEF RewriteFails
<1>2. pc = "idle" /\ pc' = "idle" /\ kind' = kind /\ reply' = Error
  BY DEF RewriteFails
<1>3. CacheInv /\ n \in 0 .. Len(stream.buf)
  BY FlushCountsBound DEF CoherenceInv
<1> QED
  BY <1>1, <1>2, <1>3, FlushedSameContents, QuietStep

LEMMA RemoveTableStep ==
    ASSUME RefinementInv, RemoveTable
    PROVE  Abstract!Next
<1>1. pc = "rewritten" /\ pc' = "removed" /\ kind' = kind /\ temp' = temp
  BY DEF RemoveTable
<1>2. PICK w \in Where, c \in SetClause \cup {Removing} : temp = Rewritten(w, c, table)
  BY <1>1 DEF RefinementInv, RewriteInv
<1>3. kind # "none" /\ Loads(table) /\ stream.buf = <<>>
  BY <1>1 DEF RefinementInv, RewriteInv, RewriteSeesAllRows
<1>4. Contents = table
  <2>1. FileRows = table /\ Buffered = <<>> /\ FileRows \in Seq(Record)
    BY <1>3, ContentsType DEF RefinementInv, CoherenceInv, Loads, FileRows, Buffered
  <2> QED
    BY <2>1, ConcatEmptySeq DEF Contents
<1>5. /\ SpecContents = table /\ SpecContents' = temp
      /\ SpecDurable' = Len(temp) /\ SpecReply' = Done("REWRITE")
  BY <1>1, <1>4 DEF SpecContents, SpecDurable, SpecReply
<1>6. Readable(SpecContents)
  BY <1>3, <1>5 DEF Loads
<1>7. Abstract!Rewrite(temp)
  BY <1>1, <1>3, <1>5, <1>6, SameRows DEF Abstract!Rewrite
<1>8. CASE c = Removing
  <2>1. temp = Abstract!Kept(w, SpecContents)
    BY <1>2, <1>5, <1>8, SameSelections DEF Rewritten
  <2>2. Abstract!Delete(w) /\ w \in Abstract!Where
    BY <1>7, <2>1, SameRows DEF Abstract!Delete
  <2> QED
    BY <2>2 DEF Abstract!Next
<1>9. CASE c # Removing
  <2>1. temp = Abstract!Updated(w, c, SpecContents) /\ c \in SetClause
    BY <1>2, <1>5, <1>9, SameSelections DEF Rewritten
  <2>2. Abstract!Update(w, c) /\ w \in Abstract!Where /\ c \in Abstract!SetClause
    BY <1>7, <2>1, SameRows DEF Abstract!Update
  <2> QED
    BY <2>2 DEF Abstract!Next
<1> QED
  BY <1>8, <1>9

\* The rename is invisible: the rows are those of the temp file already.
LEMMA RenameTempStep ==
    ASSUME RefinementInv, RenameTemp
    PROVE  UNCHANGED Abstract!vars
<1>1. /\ pc = "removed" /\ pc' = "idle" /\ table' = temp /\ stream' = Closed
      /\ kind' = kind /\ reply' = Done("REWRITE")
  BY DEF RenameTemp, DropCache
<1>2. temp \in Seq(Record)
  BY <1>1 DEF RefinementInv, RewriteInv
<1>3. FileRows' = temp /\ Contents' = temp
  <2>1. FileRows' = temp
    BY <1>1, <1>2, RecordsAreAFile
  <2>2. Contents' = FileRows' \o <<>>
    BY <1>1 DEF Contents, Buffered, Closed
  <2> QED
    BY <1>2, <2>1, <2>2, ConcatEmptySeq
<1> QED
  BY <1>1, <1>3 DEF Abstract!vars, SpecContents, SpecDurable, SpecReply

LEMMA ReplaceFailsStep ==
    ASSUME NoLoss, CacheInv, CacheInv', ReplaceFails
    PROVE  Abstract!Next
<1>1. /\ pc = "rewritten" /\ pc' = "idle" /\ kind' = kind /\ reply' = Error
      /\ stream' = stream /\ FileRows' = FileRows
  BY DEF ReplaceFails, NoLoss, FileRows
<1> QED
  BY <1>1, SameStreamSameContents, QuietStep

(***************************************************************************)
(* CREATE, the bulk context, and the end of the process.                   *)
(***************************************************************************)
LEMMA CreateStep ==
    ASSUME NEW k \in {"INT", "VARCHAR"}, Create(k)
    PROVE  Abstract!Next
<1>1. /\ pc' = "idle" /\ kind' = k /\ table' = <<>> /\ stream' = Closed
      /\ reply' = Done("CREATE")
  BY DEF Create, DropCache
<1>2. <<>> \in Seq(Record) /\ Len(<<>>) = 0
  BY EmptySeq
<1>3. FileRows' = <<>> /\ Contents' = <<>>
  <2>1. FileRows' = <<>>
    BY <1>1, <1>2, RecordsAreAFile
  <2>2. Contents' = FileRows' \o <<>>
    BY <1>1 DEF Contents, Buffered, Closed
  <2> QED
    BY <1>2, <2>1, <2>2, ConcatEmptySeq
<1>4. SpecContents' = <<>> /\ SpecDurable' = 0 /\ SpecReply' = Done("CREATE")
  BY <1>1, <1>2, <1>3 DEF SpecContents, SpecDurable, SpecReply
<1>5. Abstract!Create(k)
  BY <1>1, <1>4, SameRows DEF Abstract!Create
<1> QED
  BY <1>5 DEF Abstract!Next

\* Everything buffered is written before the cache goes.
LEMMA FlushedAndClosed ==
    ASSUME CoherenceInv, pc # "removed", Flush(Len(stream.buf)), stream' = Closed
    PROVE  Contents' = Contents /\ Len(FileRows) <= Len(FileRows')
<1>1. CacheInv /\ (stream.st = "open" => ~cut)
  BY OpenIsWhole DEF CoherenceInv
<1>2. Len(stream.buf) \in 0 .. Len(stream.buf) /\ stream.buf \in Seq(Row)
  BY <1>1, FlushCountsBound DEF CacheInv, TypeOK
<1>3. Len(FileRows) <= Len(FileRows')
  BY <1>1, <1>2, FlushGrows
<1>4. FileRows' = Contents
  <2>1. CASE stream.st = "open"
    <3>1. SubSeq(stream.buf, 1, Len(stream.buf)) = stream.buf
      BY <1>2, SubSeqFull
    <3>2. table' = Contents
      BY <1>1, <2>1, <3>1 DEF Flush, FileAfterFlush, Appended, Contents, Buffered
    <3> QED
      BY <1>1, <3>2, ContentsType, RecordsAreAFile
  <2>2. CASE stream.st # "open"
    BY <1>1, <2>2, NothingBuffered DEF Flush, FileAfterFlush, FileRows
  <2> QED
    BY <2>1, <2>2
<1>5. Contents' = FileRows' \o <<>>
  BY DEF Contents, Buffered, Closed
<1> QED
  BY <1>1, <1>3, <1>4, <1>5, ContentsType, ConcatEmptySeq

LEMMA CreateFailsStep ==
    ASSUME NoLoss, CoherenceInv, CacheInv', CreateFails
    PROVE  Abstract!Next
<1>1. /\ pc = "idle" /\ pc' = "idle" /\ kind' \in {"none", kind} /\ reply' = Error
      /\ stream' = Closed
  BY DEF CreateFails, DropCache
<1>2. Flush(Len(stream.buf))
  BY DEF CreateFails, FlushCounts, NoLoss
<1>3. CacheInv
  BY DEF CoherenceInv
<1>4. kind' = kind \/ kind' \in {"none", "INT", "VARCHAR"}
  BY <1>1
<1> QED
  BY <1>1, <1>2, <1>3, <1>4, FlushedAndClosed, QuietStep

LEMMA BulkBeginStep ==
    ASSUME CacheInv, CacheInv', BulkBegin
    PROVE  Abstract!Next
<1>1. /\ pc = "idle" /\ pc' = "idle" /\ kind' = kind /\ reply' \in {Error, Done("BULK")}
      /\ stream' = EnsuredStream /\ FileRows' = FileRows
  BY DEF BulkBegin, disk, FileRows
<1> QED
  BY <1>1, SameStreamSameContents, QuietStep

LEMMA BulkEndStep ==
    ASSUME CoherenceInv, CacheInv', BulkEnd
    PROVE  Abstract!Next
<1>1. PICK n \in FlushCounts : Flush(n) /\ stream' = StreamAfterFlush(n)
  BY DEF BulkEnd
<1>2. pc = "idle" /\ pc' = "idle" /\ kind' = kind /\ reply' = Done("BULK")
  BY DEF BulkEnd
<1>3. CacheInv /\ n \in 0 .. Len(stream.buf)
  BY FlushCountsBound DEF CoherenceInv
<1> QED
  BY <1>1, <1>2, <1>3, FlushedSameContents, QuietStep

LEMMA ExitStep ==
    ASSUME NoLoss, CoherenceInv, CacheInv', Exit
    PROVE  Abstract!Next
<1>1. /\ pc = "idle" /\ pc' = "idle" /\ kind' = kind /\ reply' = reply
      /\ stream' = Closed
  BY DEF Exit, ForgetAll
<1>2. Flush(Len(stream.buf))
  BY DEF Exit, FlushCounts, NoLoss
<1>3. CacheInv
  BY DEF CoherenceInv
<1> QED
  BY <1>1, <1>2, <1>3, FlushedAndClosed, QuietStep

LEMMA KillInCreateStep ==
    ASSUME CoherenceInv, CacheInv', NEW k \in {"INT", "VARCHAR"}, KillInCreate(k)
    PROVE  Abstract!Next
<1>1. /\ pc = "idle" /\ pc' = "idle" /\ kind' \in {"none", "INT", "VARCHAR"}
      /\ reply' = Error /\ stream' = Closed /\ Flush(Len(stream.buf))
  BY DEF KillInCreate, ForgetAll
<1>2. CacheInv
  BY DEF CoherenceInv
<1> QED
  BY <1>1, <1>2, FlushedAndClosed, QuietStep

LEMMA KillStep ==
    ASSUME NoLoss, CoherenceInv, CacheInv', Kill
    PROVE  Abstract!Next
<1>1. /\ pc # "removed" /\ pc' = "idle" /\ kind' = kind /\ reply' = Error
      /\ stream' = Closed
  BY DEF Kill, ForgetAll, NoLoss
<1>2. CacheInv
  BY DEF CoherenceInv
<1>3. CASE stream.st # "open"
  <2>1. FileRows' = FileRows
    BY <1>3 DEF Kill, FileRows
  <2>2. Contents' = Contents
    BY <1>1, <1>3, <2>1 DEF Contents, Buffered, Closed
  <2>3. Len(FileRows) <= Len(FileRows')
    BY <1>2, <2>1, ContentsType
  <2> QED
    BY <1>1, <1>2, <2>2, <2>3, QuietStep
<1>4. CASE stream.st = "open"
  <2>1. Buffered = stream.buf /\ stream.buf \in Seq(Row) /\ ~cut
    BY <1>1, <1>2, <1>4, OpenIsWhole DEF Buffered, CacheInv, TypeOK
  <2>2. PICK n \in 0 .. Len(stream.buf) : FlushCutShort(stream.buf, n)
    BY <1>4 DEF Kill
  <2>3. n \in 0 .. Len(Buffered) /\ n <= Len(stream.buf)
    <3>1. Len(stream.buf) \in Nat
      BY <2>1, LenProperties
    <3> QED
      BY <2>1, <3>1
  <2>4. "cut" \notin Faults /\ pc # "removed" /\ pc' # "removed"
    BY <1>1 DEF NoLoss
  <2> QED
    BY <1>1, <1>2, <2>1, <2>2, <2>3, <2>4, CutShortStep
<1> QED
  BY <1>3, <1>4

LEMMA InitRefines == Init => Abstract!Init
<1> SUFFICES ASSUME Init PROVE Abstract!Init
  OBVIOUS
<1>1. <<>> \o <<>> = <<>> /\ Len(<<>>) = 0
  BY EmptySeq, ConcatEmptySeq
<1>2. SpecContents = <<>> /\ SpecDurable = 0 /\ SpecReply = Error
  BY <1>1 DEF Init, SpecContents, SpecDurable, SpecReply, Contents, Buffered, FileRows, Closed
<1> QED
  BY <1>2, SameRows DEF Init, Abstract!Init

LEMMA StepRefines ==
    ASSUME NoLoss, RefinementInv, RefinementInv', [Next]_vars
    PROVE  [Abstract!Next]_(Abstract!vars)
<1>1. CoherenceInv /\ CoherenceInv' /\ CacheInv /\ CacheInv'
  BY DEF RefinementInv, CoherenceInv
<1>2. CASE Insert
  BY <1>1, <1>2, InsertRejectedStep, InsertCachedStep, InsertUncachedStep,
     InsertAppendFailsStep, UncachedAppendFailsStep DEF Insert
<1>3. CASE \E w \in Where : SelectCached(w) \/ SelectFromFile(w) \/ SelectRejected(w)
  BY <1>1, <1>3, SelectCachedStep, SelectFromFileStep, SelectRejectedStep
<1>4. CASE \E w \in Where, c \in SetClause \cup {Removing} : BeginRewrite(w, c)
  BY <1>1, <1>4, BeginRewriteStep
<1>5. CASE \E w \in Where : RewriteFails(w)
  BY <1>1, <1>5, RewriteFailsStep
<1>6. CASE RemoveTable \/ RenameTemp \/ ReplaceFails
  BY <1>1, <1>6, RemoveTableStep, RenameTempStep, ReplaceFailsStep
<1>7. CASE \E k \in {"INT", "VARCHAR"} : Create(k) \/ KillInCreate(k)
  BY <1>1, <1>7, CreateStep, KillInCreateStep
<1>8. CASE CreateFails \/ BulkBegin \/ BulkEnd \/ Exit \/ Kill
  BY <1>1, <1>8, CreateFailsStep, BulkBeginStep, BulkEndStep, ExitStep, KillStep
<1>9. CASE UNCHANGED vars
  BY <1>9 DEF vars, Abstract!vars, SpecContents, SpecDurable, SpecReply, Contents, Buffered,
     FileRows
<1> QED
  BY <1>2, <1>3, <1>4, <1>5, <1>6, <1>7, <1>8, <1>9 DEF Next

(***************************************************************************)
(* The DELETE or UPDATE under way has a temp file that holds its result,   *)
(* and the cache is coherent: inductive where no fault takes acknowledged  *)
(* rows away.                                                              *)
(***************************************************************************)
THEOREM RefinementInvariant == ASSUME NoLoss PROVE Spec => []RefinementInv
<1>1. Init => RewriteInv
  BY DEF Init, RewriteInv, RewriteSeesAllRows
<1>2. CacheInv /\ RewriteInv /\ [Next]_vars => RewriteInv'
  BY RewriteInvStep
<1>3. Spec => []CoherenceInv
  BY CoherenceInvariant DEF NoLoss
<1>4. CoherenceInv /\ RewriteInv <=> RefinementInv
  BY DEF RefinementInv
<1> QED
  BY <1>1, <1>2, <1>3, <1>4, CacheInvariant, PTL DEF Spec

(***************************************************************************)
(* storage_insert, storage_select_result, storage_delete, storage_update,  *)
(* storage_create, storage_bulk_begin and storage_bulk_end: cache, index,  *)
(* append buffer and temp file together behave as one sequence of rows.    *)
(* Opens, writes and removes may fail and the process may be killed at any *)
(* time but between the remove and the rename; a failed rename, a flush    *)
(* that loses rows and a cut line that still parses are excluded, since    *)
(* each of them takes rows away that the caller was told are there.        *)
(***************************************************************************)
THEOREM StatementsImplementSpec == ASSUME NoLoss PROVE Spec => ImplementsTableSpec
<1>1. Init => Abstract!Init
  BY InitRefines
<1>2. RefinementInv /\ RefinementInv' /\ [Next]_vars => [Abstract!Next]_(Abstract!vars)
  BY StepRefines
<1>3. Spec => []RefinementInv
  BY RefinementInvariant
<1> QED
  BY <1>1, <1>2, <1>3, PTL DEF Spec, ImplementsTableSpec, Abstract!Spec
=============================================================================
