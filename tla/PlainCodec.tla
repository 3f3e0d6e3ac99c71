----------------------------- MODULE PlainCodec -----------------------------
(***************************************************************************)
(* src/Storage/Encoding: the Plain encoding of a column and the two        *)
(* compressions.                                                           *)
(*                                                                         *)
(* A type is its width in bytes, 0 for String and Blob.  A value is a      *)
(* sequence of bytes and a column a sequence of values; a 32-bit length    *)
(* takes one cell.  Compressed bytes are one opaque cell.                  *)
(***************************************************************************)
EXTENDS Integers, Sequences

Concat(parts) ==
  LET upto[i \in 0..Len(parts)] == IF i = 0 THEN <<>> ELSE upto[i - 1] \o parts[i]
  IN upto[Len(parts)]

FixedWidth(type) == type

EncodeVar(column) == [i \in 1..Len(column) |-> <<Len(column[i])>> \o column[i]]

Encode(type, column) ==
  Concat(IF FixedWidth(type) > 0 THEN column ELSE EncodeVar(column))

\* What decoding comes to: a column, or an exception.
Throws == [ok |-> FALSE, column |-> <<>>]
Returns(column) == [ok |-> TRUE, column |-> column]

DecodeFixed(width, in, n) ==
  IF Len(in) < n * width THEN Throws
  ELSE Returns([i \in 1..n |-> SubSeq(in, (i - 1) * width + 1, i * width)])

\* p is the number of cells read so far.
DecodeVar(in, n) ==
  LET read[i \in 0..n] ==
        IF i = 0 THEN [ok |-> TRUE, column |-> <<>>, p |-> 0]
        ELSE LET so == read[i - 1]
                 start == so.p + 1
             IN IF \/ ~so.ok \/ start > Len(in)
                   \/ start + in[start] > Len(in)
                THEN [ok |-> FALSE, column |-> <<>>, p |-> 0]
                ELSE [ok |-> TRUE, p |-> start + in[start],
                      column |-> Append(so.column, SubSeq(in, start + 1, start + in[start]))]
  IN IF read[n].ok THEN Returns(read[n].column) ELSE Throws

Decode(type, in, n) ==
  IF FixedWidth(type) > 0 THEN DecodeFixed(FixedWidth(type), in, n) ELSE DecodeVar(in, n)

-----------------------------------------------------------------------------
\* CompressionId::None and Zlib.

Compress(compression, bytes) ==
  IF compression = "none" THEN bytes ELSE <<[packed |-> bytes]>>

\* The footer's raw_size sizes the buffer; anything else in the page throws.
Decompress(compression, stored, raw) ==
  IF compression = "none" THEN Returns(stored)
  ELSE IF raw = 0 THEN Returns(<<>>)
  ELSE IF Len(stored[1].packed) # raw THEN Throws ELSE Returns(stored[1].packed)
=============================================================================
