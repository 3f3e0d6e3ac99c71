------------------------------ MODULE MCMiniKV ------------------------------
(***************************************************************************)
(* Instances of MiniKV for TLC.                                            *)
(***************************************************************************)
EXTENDS MiniKV

\* A page of zeros: no page of the tree, of the tuple store or of the catalog.
ZeroPage ==
  [kind |-> "none", id |-> 0, parent |-> 0, next |-> 0, items |-> << >>,
   slots |-> << >>, free_ptr |-> 0, bytes |-> << >>]

\* With pages of 7 bytes a page holds one value of 4 bytes or two of one; the
\* last value does not fit any page.
Short == << 1 >>
Long == << 1, 2, 1, 2 >>
Oversize == << 1, 1, 1, 1, 1 >>

\* Keys of two bytes of two bits: both ends of the integers and zero, and the
\* doubles minus infinity, the negative one next to zero and infinity (sign, two bits
\* of exponent, one of mantissa).
IntegersAndDoubles ==
  {[type |-> "int", keys |-> {-8, 0, 7}, values |-> {Short}, calls |-> 5],
   [type |-> "int", keys |-> {-8, 7}, values |-> {Short, Long}, calls |-> 5],
   [type |-> "double", keys |-> {14, 9, 6}, values |-> {Short, Oversize}, calls |-> 4]}
=============================================================================
