------------------------------ MODULE KeyCodec ------------------------------
(***************************************************************************)
(* src/Common/Codec.h and EncodedKey.h: the order-preserving encoding of   *)
(* fixed-width keys.  A key is kKeyLen bytes; the number of values of a    *)
(* byte is a parameter so that all keys of a small width can be checked.   *)
(* A double is its bit pattern: the sign bit, then exponent and mantissa,  *)
(* which order the magnitudes.                                             *)
(***************************************************************************)
EXTENDS Integers

CONSTANTS
  ByteValues,   \* 256 in the code
  KeyLen        \* kKeyLen, 8 in the code

ASSUME KeyAssumption ==
  /\ ByteValues \in Nat /\ ByteValues % 2 = 0 /\ ByteValues > 0
  /\ KeyLen \in Nat \ {0}

Words == ByteValues ^ KeyLen
SignBit == Words \div 2

PutBigEndian64(v) ==
  [i \in 1..KeyLen |-> (v \div ByteValues ^ (KeyLen - i)) % ByteValues]

\* A faulty variant: the sign bit is left as it is.
EncodeIntMutant(v) == PutBigEndian64(v % Words)

\* The two's complement of v with the sign bit flipped.
EncodeInt(v) ==
  LET u == v % Words
  IN PutBigEndian64(IF u >= SignBit THEN u - SignBit ELSE u + SignBit)

EncodeDouble(bits) ==
  PutBigEndian64(IF bits >= SignBit THEN Words - 1 - bits ELSE bits + SignBit)

\* KeyEncoder<int64_t>, <int32_t>, <bool> on one side, <double>, <float> on the
\* other: the narrower types are widened, which keeps their value.
Encode(kind, v) == IF kind = "int" THEN EncodeInt(v) ELSE EncodeDouble(v)

\* operator< and operator== of EncodedKey: memcmp orders byte strings of one
\* length as the numbers they write.
KeyNumber(bytes) ==
  LET prefix[i \in 0..KeyLen] == IF i = 0 THEN 0 ELSE prefix[i - 1] * ByteValues + bytes[i]
  IN  prefix[KeyLen]
=============================================================================
