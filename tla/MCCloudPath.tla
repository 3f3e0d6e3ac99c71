---------------------------- MODULE MCCloudPath ----------------------------
(***************************************************************************)
(* Small instances of the cloud path: two requests with different batch    *)
(* ids, and one with both ids.                                             *)
(***************************************************************************)
EXTENDS CloudPathInvariant, TLC

CONSTANTS a, b   \* batch ids

Ra  == [ids |-> {a}, op |-> a, rows |-> 1]
Rb  == [ids |-> {b}, op |-> b, rows |-> 1]
Rab == [ids |-> {a, b}, op |-> a, rows |-> 1]

OneRequest   == {Ra}
TwoRequests  == {Ra, Rb}
Overlapping  == {Ra, Rab}

\* The writers are interchangeable.
AnyWriter == Permutations(Writers)

\* So are the batch ids, and with them two requests of one id each.
AnyRequest == Permutations(BatchId)
=============================================================================
