---------------------------- MODULE AtomicCreate ----------------------------
(***************************************************************************)
(* What IStorage::CreateIfAbsent promises of one path: complete bytes      *)
(* appear at once, only where there are none, and the call that put them   *)
(* there is told so.                                                       *)
(***************************************************************************)
CONSTANTS Writers, NoFile

VARIABLES
  file,      \* the writer whose bytes are at the path, or NoFile
  outcome    \* what each writer's call comes to: "open", "created", "exists" or "failed"

Init == file = NoFile /\ outcome = [w \in Writers |-> "open"]

Decide(w, result) ==
  /\ outcome[w] = "open"
  /\ outcome' = [outcome EXCEPT ![w] = result]

Create(w) == Decide(w, "created") /\ file = NoFile /\ file' = w
Exists(w) == Decide(w, "exists") /\ file # NoFile /\ file' = file
Fail(w) == Decide(w, "failed") /\ file' = file
Delete == file' = NoFile /\ UNCHANGED outcome

Next == (\E w \in Writers : Create(w) \/ Exists(w) \/ Fail(w)) \/ Delete

Spec == Init /\ [][Next]_<<file, outcome>>
=============================================================================
