----------------------------- MODULE TableScan -----------------------------
(***************************************************************************)
(* The scans of src/Table and src/Cloud, from the rows a writer is given   *)
(* to the columns a query gets back:                                       *)
(*   "files"  the columnar format by itself, on a list of files some of    *)
(*            which may not be there (yet) or are being written;           *)
(*   "table"  CloudTableSource: rows go into WALs, CloudWalIndexer moves   *)
(*            them to columnar files, and a scan reads the files of its    *)
(*            snapshot and then its WALs;                                  *)
(*   "rows"   RowTableSource: rows are values of a key-value engine and a  *)
(*            scan goes over the engine's cursor.                          *)
(* A behaviour is one of these uses.                                       *)
(***************************************************************************)
EXTENDS ColumnarFile, RowCodec, FiniteSets

CONSTANTS
  Uses,          \* "files", "table", "rows"
  Files,         \* names of files
  FileList,      \* the files a scan of files is given, in order
  Chunks,        \* the chunks that are written
  Batches,       \* the chunks of an import: sequences of nonempty Chunks
  Compressions,  \* "none", "zlib"
  Projections,   \* the column lists that are asked for
  BatchRows,     \* the values of batch_rows
  Keys,          \* the keys of the rows of an engine, numbers above 0
  MaxRows,       \* bound on the rows of one file
  MaxWals,       \* bound on the WALs
  MaxBatches     \* bound on the batches of a scan of rows, which has no end of them
                 \* when batch_rows is 0

VARIABLES
  use,
  storage,   \* "local": LocalStorage, which shows a file from OpenOutput on, or
             \* "object": MemStorage and S3, which show it from Close on
  store,     \* the files that are there: a function from some of Files to cells
  writer,    \* the open writer: its file, compression, columns
  written,   \* the rows written to each file, as they were given
  log,       \* the WALs of the table
  appended,  \* the rows of each of them, as they were given
  table,     \* what CURRENT says: data files and indexed_seq
  sealed,    \* the pass that has written its file: the file and its last WAL
  kv,        \* the engine: key -> blob
  inserted,  \* key -> the row, as it was given
  scan,      \* the open scan
  out        \* the columns that the scan's calls of Next returned

tableVars == <<log, appended, table, sealed>>
fileVars == <<store, writer, written>>
rowVars == <<kv, inserted>>
scanVars == <<scan, out>>
vars == <<use, storage, tableVars, fileVars, rowVars, scanVars>>

Nothing == [x \in {} |-> <<>>]
NoPass == [file |-> Magic, end |-> 0]
NoScan == [open |-> FALSE]

Init ==
  /\ use \in Uses
  /\ storage \in IF use = "files" THEN {"local", "object"} ELSE {"object"}
  /\ store = Nothing /\ writer = NoWriter /\ written = [f \in Files |-> <<>>]
  /\ log = <<>> /\ appended = <<>>
  /\ table = [files |-> <<>>, indexed |-> 0] /\ sealed = NoPass
  /\ kv = Nothing /\ inserted = Nothing
  /\ scan = NoScan /\ out = <<>>

With(f, k, v) == [x \in DOMAIN f \cup {k} |-> IF x = k THEN v ELSE f[x]]

-----------------------------------------------------------------------------
\* Files, written by hand.

\* OpenOutput of LocalStorage creates the file, empty. A file is written once: the
\* keys of CloudWalIndexer are new ones.
OpenWriter(f, compression) ==
  /\ use = "files" /\ writer = NoWriter /\ f \notin DOMAIN store
  /\ writer' = NewWriter(f, compression)
  /\ store' = IF storage = "local" THEN With(store, f, <<>>) ELSE store
  /\ UNCHANGED <<use, storage, written, tableVars, rowVars, scanVars>>

\* Close has begun and some of its bytes are in the file already.
Closing == writer.file \in DOMAIN store /\ store[writer.file] # <<>>

Write(chunk) ==
  /\ writer # NoWriter /\ ~Closing
  /\ Len(written[writer.file] \o chunk[1]) <= MaxRows
  /\ writer' = WriteChunk(writer, chunk)
  /\ written' = [written EXCEPT ![writer.file] = @ \o RowsOf(chunk)]
  /\ UNCHANGED <<use, storage, store, tableVars, rowVars, scanVars>>

\* Close lays the file out and hands it to the storage; the destructor does the
\* same, so a writer that is given up also seals what it has. Append of LocalStorage
\* may put it into the file piece by piece.
AppendPart ==
  /\ writer # NoWriter /\ storage = "local" /\ ~Closing
  /\ \E n \in 1..(Len(Sealed(writer)) - 1) :
       store' = With(store, writer.file, SubSeq(Sealed(writer), 1, n))
  /\ UNCHANGED <<use, storage, writer, written, tableVars, rowVars, scanVars>>

Close ==
  /\ writer # NoWriter
  /\ store' = With(store, writer.file, Sealed(writer))
  /\ writer' = NoWriter
  /\ UNCHANGED <<use, storage, written, tableVars, rowVars, scanVars>>

-----------------------------------------------------------------------------
\* A table: Import puts the chunks of a batch into a WAL; a fence has none.

Import(chunks) ==
  /\ use = "table" /\ Len(log) < MaxWals
  /\ log' = Append(log, EncodeSequentialWal(Schema, chunks))
  /\ appended' = Append(appended, Concat([i \in DOMAIN chunks |-> RowsOf(chunks[i])]))
  /\ UNCHANGED <<use, storage, table, sealed, fileVars, rowVars, scanVars>>

\* A faulty variant: the first WAL after the indexed ones is left out.
ChunksOfMutant(first, last) ==
  IF last <= first THEN <<>>
  ELSE Concat([i \in 1..(last - first) |-> DecodeSequentialWal(Schema, log[first + i]).column])

\* The chunks of the WALs first..last; no WAL of the log is malformed.
ChunksOf(first, last) ==
  Concat([i \in 1..(last - first + 1) |-> DecodeSequentialWal(Schema, log[first + i - 1]).column])

\* A pass of the indexer up to WAL end: all their chunks into one file. The
\* writer is its own until Close stores the file.
WriteFile(f, compression, end) ==
  LET chunks == ChunksOf(table.indexed + 1, end)
      filled[i \in 0..Len(chunks)] ==
        IF i = 0 THEN NewWriter(f, compression) ELSE WriteChunk(filled[i - 1], chunks[i])
  IN /\ chunks # <<>>
     /\ store' = With(store, f, Sealed(filled[Len(chunks)]))
     /\ written' = [written EXCEPT
          ![f] = Concat([i \in DOMAIN chunks |-> RowsOf(chunks[i])])]
     /\ sealed' = [file |-> f, end |-> end]

\* NewDataFileKey: a name no file has had.
NewFile == FileList[Cardinality(DOMAIN store) + 1]

Index(compression, end) ==
  /\ use = "table" /\ sealed = NoPass
  /\ Cardinality(DOMAIN store) < Len(FileList)
  /\ WriteFile(NewFile, compression, end)
  /\ UNCHANGED <<use, storage, writer, log, appended, table, rowVars, scanVars>>

\* The pass ends with the manifest and CURRENT; without chunks no file was written.
Publish(files, end) ==
  /\ table' = [files |-> table.files \o files, indexed |-> end]
  /\ sealed' = NoPass
  /\ UNCHANGED <<use, storage, log, appended, fileVars, rowVars, scanVars>>

IndexPublish == sealed # NoPass /\ Publish(<<sealed.file>>, sealed.end)

IndexFences(end) ==
  /\ use = "table" /\ sealed = NoPass
  /\ ChunksOf(table.indexed + 1, end) = <<>>
  /\ Publish(<<>>, end)

-----------------------------------------------------------------------------
\* A scan of files, and of the files and WALs of a snapshot. The fields found
\* and through only record what the scan was begun on.

Begin(files, chunks, projection, batch, through) ==
  /\ scan = NoScan
  /\ scan' = [open |-> TRUE, indexed |-> NewCursor(files, projection, batch),
              chunks |-> chunks, pos |-> 0, projection |-> projection, ended |-> FALSE,
              raised |-> FALSE, found |-> DOMAIN store \ {writer.file}, through |-> through]
  /\ UNCHANGED <<use, storage, tableVars, fileVars, rowVars, out>>

ScanFiles(projection, batch) ==
  use = "files" /\ Begin(FileList, <<>>, projection, batch, 0)

ScanTable(projection, batch, through) ==
  /\ use = "table"
  /\ Begin(table.files, ChunksOf(table.indexed + 1, through), projection, batch, through)

\* SnapshotWalCursor: the projected columns of the next chunk.
FromWals(after) ==
  LET chunk == scan.chunks[scan.pos + 1]
  IN \/ /\ scan.pos = Len(scan.chunks)
        /\ scan' = [after EXCEPT !.ended = TRUE]
        /\ UNCHANGED out
     \/ /\ scan.pos < Len(scan.chunks)
        /\ \E k \in DOMAIN scan.projection : scan.projection[k] \notin DOMAIN chunk
        /\ scan' = [after EXCEPT !.raised = TRUE]
        /\ UNCHANGED out
     \/ /\ scan.pos < Len(scan.chunks)
        /\ \A k \in DOMAIN scan.projection : scan.projection[k] \in DOMAIN chunk
        /\ scan' = [after EXCEPT !.pos = @ + 1]
        /\ out' = Append(out, [k \in DOMAIN scan.projection |-> chunk[scan.projection[k]]])

\* CompositeBatchCursor: the files, and when they are at their end, where their
\* cursor stays, the WALs.
Take(window, after) ==
  \/ window.cursor.raised /\ scan' = [after EXCEPT !.raised = TRUE] /\ UNCHANGED out
  \/ window.found /\ scan' = after /\ out' = Append(out, window.columns)
  \/ ~window.cursor.raised /\ ~window.found /\ FromWals(after)

NextBatch ==
  /\ use # "rows" /\ scan.open /\ ~scan.ended /\ ~scan.raised
  /\ \E window \in {NextWindow(store, scan.indexed)} :
       Take(window, [scan EXCEPT !.indexed = window.cursor])
  /\ UNCHANGED <<use, storage, tableVars, fileVars, rowVars>>

-----------------------------------------------------------------------------
\* Rows in a key-value engine. Its cursor stands on a key, or past the last one
\* (0), and goes to the next it can see: one that was there when it was made, or
\* one that came later and is not in a leaf it had already read.

Insert(k, row) ==
  /\ use = "rows" /\ k \notin DOMAIN kv
  /\ kv' = With(kv, k, EncodeRow(Schema, row))
  /\ inserted' = With(inserted, k, row)
  /\ UNCHANGED <<use, storage, tableVars, fileVars, scanVars>>

After(k, keys) ==
  IF \A j \in keys : j <= k THEN 0
  ELSE CHOOSE j \in keys : j > k /\ \A i \in keys : i > k => j <= i

\* The fields start and seen only record the keys there were when the scan began
\* and those it has passed. A projection names fields of the schema.
ScanRows(projection, batch) ==
  /\ use = "rows" /\ scan = NoScan
  /\ \A k \in DOMAIN projection : projection[k] \in DOMAIN Schema
  /\ scan' = [open |-> TRUE, at |-> After(0, DOMAIN kv), projection |-> projection, batch |-> batch,
              ended |-> FALSE, raised |-> FALSE, start |-> DOMAIN kv, seen |-> <<>>]
  /\ UNCHANGED <<use, storage, tableVars, fileVars, rowVars, out>>

\* A faulty variant: the cursor moves before its value is read.
FillMutant(n, keys) ==
  LET fill[i \in 0..n] ==
        IF i = 0 THEN [at |-> scan.at, seen |-> scan.seen,
                       columns |-> [k \in DOMAIN scan.projection |-> <<>>]]
        ELSE LET so == fill[i - 1]
                 next == After(so.at, keys)
             IN IF so.at = 0 THEN so
                ELSE [at |-> next, seen |-> Append(so.seen, so.at),
                      columns |-> IF next = 0 THEN so.columns
                        ELSE DecodeInto(Schema, kv[next], scan.projection, so.columns).column]
  IN fill[n]

\* The loop of RowBatchCursor::Next: up to n rows into the columns, of the keys
\* the engine's cursor can see.
Fill(n, keys) ==
  LET fill[i \in 0..n] ==
        IF i = 0 THEN [at |-> scan.at, seen |-> scan.seen,
                       columns |-> [k \in DOMAIN scan.projection |-> <<>>]]
        ELSE LET so == fill[i - 1]
             IN IF so.at = 0 THEN so
                ELSE [at |-> After(so.at, keys), seen |-> Append(so.seen, so.at),
                      columns |-> DecodeInto(Schema, kv[so.at], scan.projection,
                                             so.columns).column]
  IN fill[n]

NextRows ==
  /\ use = "rows" /\ scan.open /\ ~scan.ended
  /\ \/ scan.at = 0 /\ scan' = [scan EXCEPT !.ended = TRUE] /\ UNCHANGED out
     \/ /\ scan.at # 0 /\ Len(out) < MaxBatches
        /\ \E keys \in {visible \in SUBSET DOMAIN kv : scan.start \subseteq visible} :
             \E batch \in {Fill(scan.batch, keys)} :
               /\ scan' = [scan EXCEPT !.at = batch.at, !.seen = batch.seen]
               /\ out' = Append(out, batch.columns)
  /\ UNCHANGED <<use, storage, tableVars, fileVars, rowVars>>

-----------------------------------------------------------------------------
Next ==
  \/ \E f \in Files, compression \in Compressions : OpenWriter(f, compression)
  \/ \E chunk \in Chunks : Write(chunk)
  \/ AppendPart
  \/ Close
  \/ \E projection \in Projections, batch \in BatchRows : ScanFiles(projection, batch)
  \/ \E chunks \in Batches : Import(chunks)
  \/ \E compression \in Compressions, end \in table.indexed + 1 .. Len(log) :
       Index(compression, end)
  \/ IndexPublish
  \/ \E end \in table.indexed + 1 .. Len(log) : IndexFences(end)
  \/ \E projection \in Projections, batch \in BatchRows, through \in table.indexed .. Len(log) :
       ScanTable(projection, batch, through)
  \/ NextBatch
  \/ \E k \in Keys, chunk \in Chunks : \E r \in DOMAIN RowsOf(chunk) : Insert(k, RowsOf(chunk)[r])
  \/ \E projection \in Projections, batch \in BatchRows : ScanRows(projection, batch)
  \/ NextRows

Spec == Init /\ [][Next]_vars

-----------------------------------------------------------------------------
\* What the scan's calls returned in position k, put together.
Returned(k) == Concat([i \in DOMAIN out |-> out[i][k]])

\* The field asked for in position k, of the given rows.
Asked(rows, k) == [r \in DOMAIN rows |-> rows[r][scan.projection[k]]]

\* The rows of the files the scan has come to, up to where it is in the last, and
\* those of the WAL chunks it has returned.
Passed ==
  LET opened == scan.indexed.opened
      n == Len(opened)
  IN Concat([i \in 1..n |-> IF i = n THEN SubSeq(written[opened[i]], 1, scan.indexed.pos)
                            ELSE written[opened[i]]])
       \o Concat([i \in 1..scan.pos |-> RowsOf(scan.chunks[i])])

\* The scan asks for columns the table has.
KnownColumns == \A k \in DOMAIN scan.projection : scan.projection[k] \in DOMAIN Schema

\* NativeColumnarCursor and CompositeBatchCursor: the columns are those of the
\* rows that were written, in the order of the files and of the writes, then of
\* the WALs, for every projection, compression, window and way to read a page, and
\* what a scan returned before it throws is right too.
ScanExact ==
  use # "rows" /\ scan.open =>
    \A k \in DOMAIN scan.projection :
      Returned(k) = IF KnownColumns THEN Asked(Passed, k) ELSE <<>>

\* A scan of columns the table has throws just when it comes to a file that
\* LocalStorage shows and whose writer has not closed it: ParseFooter takes no part of
\* a file for a file, and a missing file is passed over.
ScanThrows ==
  [][use # "rows" /\ scan.open /\ ~scan.raised /\ KnownColumns =>
       LET opened == scan'.indexed.opened
       IN  scan'.raised <=> \E j \in DOMAIN opened : opened[j] = writer.file]_vars

\* A scan that ends has missed nothing. One of files: a missing file is passed over
\* and hides none of those that were closed when the scan began. One of a table: it
\* has returned the rows of every import up to where its snapshot goes, once and in
\* the order of the log, wherever the indexer had put them and whatever it did
\* meanwhile.
ScanComplete ==
  /\ use = "files" /\ scan.open /\ scan.ended =>
       /\ \A i \in DOMAIN FileList : FileList[i] \in scan.found =>
            \E j \in DOMAIN scan.indexed.opened : scan.indexed.opened[j] = FileList[i]
       /\ LET opened == scan.indexed.opened
          IN opened # <<>> => scan.indexed.pos = Len(written[opened[Len(opened)]])
  /\ use = "table" /\ scan.open /\ scan.ended =>
       LET rows == Concat(SubSeq(appended, 1, scan.through))
       IN rows # <<>> => \A k \in DOMAIN scan.projection :
                           scan.projection[k] \in DOMAIN Schema /\ Returned(k) = Asked(rows, k)

\* RowBatchCursor returns the rows in the order of their keys, as they were
\* inserted, and every one that was there when the scan began, each field in its
\* position, the last of its positions when it is asked for more than once. A batch
\* has a row, so that a scan gets on, unless batch_rows is 0.
RowScanExact ==
  use = "rows" /\ scan.open =>
    LET rows == [i \in DOMAIN scan.seen |-> inserted[scan.seen[i]]]
    IN /\ \A i, j \in DOMAIN scan.seen : i < j => scan.seen[i] < scan.seen[j]
       /\ \A k \in scan.start :
            (scan.at = 0 \/ k < scan.at) => \E i \in DOMAIN scan.seen : scan.seen[i] = k
       /\ \A k \in DOMAIN scan.projection :
            (\A j \in DOMAIN scan.projection :
               scan.projection[j] = scan.projection[k] => j <= k)
              => Returned(k) = Asked(rows, k)
       /\ scan.batch > 0 =>
            \A i \in DOMAIN out : \E k \in DOMAIN scan.projection : out[i][k] # <<>>
=============================================================================
