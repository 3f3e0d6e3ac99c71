---------------------------- MODULE MCEventLoop ----------------------------
(***************************************************************************)
(* Instances of EventLoop for TLC: descriptor 0, whose negation is -1, and *)
(* a descriptor two channels use in turn.                                  *)
(***************************************************************************)
EXTENDS EventLoop, TLC

CONSTANTS a, b, c

\* Three descriptors and one kind of report; two descriptors, the second of
\* which two channels use in turn, and reports with several callbacks.
SlotsAndReports ==
  {[fd |-> a :> 0 @@ b :> 1 @@ c :> 2, kinds |-> {"out"}],
   [fd |-> a :> 0 @@ b :> 1 @@ c :> 1, kinds |-> {"in", "hup", "err"}]}
=============================================================================
