---------------------------- MODULE ColumnarFile ----------------------------
(***************************************************************************)
(* src/Table/Format/NativeColumnarFileFormat: a writer that gathers whole  *)
(* columns and lays them out as pages and a footer on Close, and a cursor  *)
(* that opens one file after another and returns windows of rows.          *)
(*                                                                         *)
(* A file is a sequence of cells: the magic, a 64-bit number, a footer     *)
(* field and a byte of data each take one.                                 *)
(***************************************************************************)
EXTENDS PlainCodec

CONSTANTS
  Schema,        \* the types of the columns
  Magic

NoWriter == [file |-> Magic]
NoReader == [open |-> FALSE]

-----------------------------------------------------------------------------
\* The writer.

NewWriter(f, compression) ==
  [file |-> f, compression |-> compression, columns |-> [k \in DOMAIN Schema |-> <<>>]]

WriteChunk(w, chunk) ==
  [w EXCEPT !.columns = [k \in DOMAIN Schema |-> @[k] \o chunk[k]]]

\* The page of each column, and the footer's record of it; offsets count cells
\* before the page, after the leading magic.
Pages(w) ==
  [k \in DOMAIN Schema |-> Compress(w.compression, Encode(Schema[k], w.columns[k]))]

Meta(w, k) ==
  [compression |-> w.compression,
   offset |-> 1 + Len(Concat(SubSeq(Pages(w), 1, k - 1))),
   stored |-> Len(Pages(w)[k]),
   raw |-> Len(Encode(Schema[k], w.columns[k])),
   values |-> Len(w.columns[k])]

Footer(w) ==
  <<Len(w.columns[1]), Len(Schema)>> \o [k \in DOMAIN Schema |-> Meta(w, k)]

Sealed(w) ==
  <<Magic>> \o Concat(Pages(w)) \o Footer(w) \o <<Len(Footer(w)), Magic>>

-----------------------------------------------------------------------------
\* The reader of one file.

\* IInputFile::ReadAt: length cells after the first offset, if there are that many.
InFile(cells, offset, length) == offset >= 0 /\ offset + length <= Len(cells)
ReadAt(cells, offset, length) == SubSeq(cells, offset + 1, offset + length)

\* The footer, found from the end of the file, and the checks that precede it.
FooterStart(cells) == Len(cells) - 2 - cells[Len(cells) - 1]

HasFooter(cells) ==
  /\ Len(cells) >= 3 /\ cells[Len(cells)] = Magic
  /\ InFile(cells, FooterStart(cells), cells[Len(cells) - 1])

ParseFooter(cells) == ReadAt(cells, FooterStart(cells), cells[Len(cells) - 1])

\* No reader where the code throws.
OpenWith(cells, footer, projection) ==
  IF \E i \in DOMAIN projection : projection[i] \notin 1..footer[2] THEN NoReader
  ELSE [open |-> TRUE, cells |-> cells, count |-> footer[1],
        types |-> [i \in DOMAIN projection |-> Schema[projection[i]]],
        metas |-> [i \in DOMAIN projection |-> footer[2 + projection[i]]]]

OpenReader(cells, projection) ==
  IF HasFooter(cells) THEN OpenWith(cells, ParseFooter(cells), projection) ELSE NoReader

\* Rows first + 1 to first + count of a page, by decoding all of it ...
WholePage(cells, meta, type, first, count) ==
  LET Rows(column) == IF column.ok THEN Returns(SubSeq(column.column, first + 1, first + count))
                      ELSE Throws
      Values(page) == IF page.ok THEN Rows(Decode(type, page.column, meta.values)) ELSE Throws
  IN IF InFile(cells, meta.offset, meta.stored)
     THEN Values(Decompress(meta.compression, ReadAt(cells, meta.offset, meta.stored), meta.raw))
     ELSE Throws

\* A faulty variant: every window is read from the start of the page.
DirectMutant(cells, meta, type, first, count) ==
  LET width == FixedWidth(type)
  IN IF InFile(cells, meta.offset, count * width)
     THEN Decode(type, ReadAt(cells, meta.offset, count * width), count)
     ELSE Throws

\* ... and by reading only their bytes.
Direct(cells, meta, type, first, count) ==
  LET width == FixedWidth(type)
      offset == meta.offset + first * width
  IN IF InFile(cells, offset, count * width)
     THEN Decode(type, ReadAt(cells, offset, count * width), count)
     ELSE Throws

MayReadDirectly(meta, type) == FixedWidth(type) > 0 /\ meta.compression = "none"

ReadRows(cells, meta, type, first, count) ==
  IF MayReadDirectly(meta, type) THEN Direct(cells, meta, type, first, count)
  ELSE WholePage(cells, meta, type, first, count)

\* ReadRange: the window's columns, one for each projected field.
ReadRange(reader, first, count) ==
  [i \in DOMAIN reader.types |->
     ReadRows(reader.cells, reader.metas[i], reader.types[i], first, count)]

-----------------------------------------------------------------------------
\* The cursor over the files of a list; store is the storage's content.

NewCursor(files, projection, batch) ==
  [files |-> files, projection |-> projection, batch |-> IF batch = 0 THEN 1 ELSE batch,
   next |-> 1, reader |-> NoReader, pos |-> 0, opened |-> <<>>, raised |-> FALSE]

\* Next passes over exhausted, missing and empty files to the first with a row
\* left, or past the last; opened only records the files it came to.
Settled(c) ==
  \/ c.raised
  \/ c.reader.open /\ c.pos < c.reader.count
  \/ ~c.reader.open /\ c.next > Len(c.files)

\* A faulty variant: no check for the null pointer that OpenInput returns for a file
\* that is not there.
MoveMutant(store, c) ==
  IF c.reader.open THEN [c EXCEPT !.reader = NoReader]
  ELSE LET f == c.files[c.next]
       IN IF f \notin DOMAIN store THEN [c EXCEPT !.next = @ + 1, !.raised = TRUE]
          ELSE LET With(reader) ==
                     [c EXCEPT !.next = @ + 1, !.pos = 0, !.opened = Append(@, f),
                               !.reader = reader, !.raised = ~reader.open]
               IN With(OpenReader(store[f], c.projection))

Move(store, c) ==
  IF c.reader.open THEN [c EXCEPT !.reader = NoReader]
  ELSE LET f == c.files[c.next]
       IN IF f \notin DOMAIN store THEN [c EXCEPT !.next = @ + 1]
          ELSE LET With(reader) ==
                     [c EXCEPT !.next = @ + 1, !.pos = 0, !.opened = Append(@, f),
                               !.reader = reader, !.raised = ~reader.open]
               IN With(OpenReader(store[f], c.projection))

\* seek[i] is the cursor after i moves.
Seek(store, cursor) ==
  LET Step(c) == IF Settled(c) THEN c ELSE Move(store, c)
      moves == 2 * Len(cursor.files) + 2
      seek[i \in 0..moves] == IF i = 0 THEN cursor ELSE Step(seek[i - 1])
  IN seek[moves]

Least(a, b) == IF a < b THEN a ELSE b

\* A call of Next: the cursor after it, the columns of the window, and whether
\* there was one.
Window(c, n, columns) ==
  IF \E i \in DOMAIN columns : ~columns[i].ok
  THEN [cursor |-> [c EXCEPT !.raised = TRUE], found |-> FALSE]
  ELSE [cursor |-> [c EXCEPT !.pos = @ + n], found |-> TRUE,
        columns |-> [i \in DOMAIN columns |-> columns[i].column]]

WindowAt(c) ==
  LET n == Least(c.batch, c.reader.count - c.pos)
  IN IF c.raised \/ ~c.reader.open THEN [cursor |-> c, found |-> FALSE]
     ELSE Window(c, n, ReadRange(c.reader, c.pos, n))

NextWindow(store, cursor) == WindowAt(Seek(store, cursor))
=============================================================================
