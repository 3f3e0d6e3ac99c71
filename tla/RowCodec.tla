------------------------------ MODULE RowCodec ------------------------------
(***************************************************************************)
(* src/Table/RowCodec: a row as one blob, field after field; and the way   *)
(* src/Cloud/SequentialProtocol puts the chunks of a WAL together from     *)
(* such blobs and takes them apart.                                        *)
(*                                                                         *)
(* Types, values and lengths are those of PlainCodec.  A chunk is a        *)
(* sequence of columns; header, checksums and digest of a WAL are left     *)
(* out.                                                                    *)
(***************************************************************************)
EXTENDS PlainCodec

EncodeField(type, value) ==
  IF FixedWidth(type) > 0 THEN value ELSE <<Len(value)>> \o value

EncodeRow(schema, row) ==
  Concat([i \in DOMAIN schema |-> EncodeField(schema[i], row[i])])

\* What has been read so far: the items found and the cells they took.
Start(items) == [ok |-> TRUE, items |-> items, off |-> 0]
Bad == [ok |-> FALSE, items |-> <<>>, off |-> 0]

\* The field after the cells read, of fixed width or behind its length.
ReadField(so, type, blob) ==
  LET fixed == FixedWidth(type) > 0
      start == IF fixed THEN so.off ELSE so.off + 1
      end == start + IF fixed THEN FixedWidth(type) ELSE blob[start]
  IN IF so.ok /\ start <= Len(blob) /\ end <= Len(blob)
     THEN [ok |-> TRUE, items |-> Append(so.items, SubSeq(blob, start + 1, end)), off |-> end]
     ELSE Bad

\* The fields of a blob, read from its start; what follows the last is not
\* looked at.
DecodeRow(schema, blob) ==
  LET read[i \in 0..Len(schema)] ==
        IF i = 0 THEN Start(<<>>) ELSE ReadField(read[i - 1], schema[i], blob)
  IN read[Len(schema)]

\* out_pos: a field goes to the last of the positions it is asked for at.
OutPos(projection, field) ==
  CHOOSE k \in DOMAIN projection :
    /\ projection[k] = field
    /\ \A j \in DOMAIN projection : projection[j] = field => j <= k

\* DecodeInto: the projected fields of a row, added to the columns.
AppendFields(row, projection, cols) ==
  IF ~row.ok THEN Throws
  ELSE Returns([k \in DOMAIN cols |->
                  IF OutPos(projection, projection[k]) = k
                  THEN Append(cols[k], row.items[projection[k]]) ELSE cols[k]])

DecodeInto(schema, blob, projection, cols) ==
  AppendFields(DecodeRow(schema, blob), projection, cols)

-----------------------------------------------------------------------------
\* The chunks of a WAL.

\* Cell, for every column: the rows of a chunk.
RowsOf(chunk) ==
  [r \in 1..Len(chunk[1]) |-> [k \in DOMAIN chunk |-> chunk[k][r]]]

\* Writer::String.
Prefixed(bytes) == <<Len(bytes)>> \o bytes

EncodeChunk(schema, chunk) ==
  LET rows == RowsOf(chunk)
      payload == Concat([r \in DOMAIN rows |-> Prefixed(EncodeRow(schema, rows[r]))])
  IN <<Len(chunk[1]), Len(payload)>> \o payload

EncodeSequentialWal(schema, chunks) ==
  <<Len(chunks)>> \o Concat([i \in DOMAIN chunks |-> EncodeChunk(schema, chunks[i])])
    \o <<Len(Concat([i \in DOMAIN chunks |-> chunks[i][1]]))>>

\* The row after the cells read of a payload: a prefixed blob, decoded into all columns.
Row(so, schema, payload) ==
  LET start == so.off + 1
      blob == SubSeq(payload, start + 1, start + payload[start])
      Decoded(row) == IF row.ok THEN [ok |-> TRUE, items |-> row.column, off |-> start + Len(blob)]
                      ELSE Bad
  IN IF so.ok /\ start <= Len(payload) /\ start + payload[start] <= Len(payload)
     THEN Decoded(DecodeInto(schema, blob, [i \in DOMAIN schema |-> i], so.items)) ELSE Bad

\* n rows of a payload, one blob after the other, and nothing after them.
DecodePayload(schema, payload, n) ==
  LET read[r \in 0..n] ==
        IF r = 0 THEN Start([i \in DOMAIN schema |-> <<>>]) ELSE Row(read[r - 1], schema, payload)
      End(last) == IF last.ok /\ last.off = Len(payload) THEN Returns(last.items) ELSE Throws
  IN End(read[n])

\* The chunk after the cells read of a WAL: a count of rows, a size, a payload.
ReadChunk(so, schema, cells) ==
  LET rows == cells[so.off + 1]
      end == so.off + 2 + cells[so.off + 2]
      Decoded(chunk) == IF chunk.ok
                        THEN [ok |-> TRUE, items |-> Append(so.items, chunk.column), off |-> end]
                        ELSE Bad
  IN IF so.ok /\ so.off + 2 <= Len(cells) /\ rows # 0 /\ end <= Len(cells)
     THEN Decoded(DecodePayload(schema, SubSeq(cells, so.off + 3, end), rows)) ELSE Bad

\* The chunks of a WAL: their number, the chunks, and the number of their rows.
DecodeSequentialWal(schema, cells) ==
  LET read[i \in 0..cells[1]] ==
        IF i = 0 THEN [Start(<<>>) EXCEPT !.off = 1] ELSE ReadChunk(read[i - 1], schema, cells)
      End(last) ==
        IF last.ok /\ last.off + 1 = Len(cells)
           /\ cells[Len(cells)] = Len(Concat([i \in DOMAIN last.items |-> last.items[i][1]]))
        THEN Returns(last.items) ELSE Throws
  IN End(read[cells[1]])
=============================================================================
