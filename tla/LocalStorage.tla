---------------------------- MODULE LocalStorage ----------------------------
(***************************************************************************)
(* src/Storage/File/LocalStorage: CreateIfAbsent of one path by processes  *)
(* that run at the same time and may be killed between two system calls,   *)
(* with readers that open the path and read it, and Delete.                *)
(*                                                                         *)
(* The file a writer creates with mkstemp is named after the writer; the   *)
(* bytes in it are counted.  The path, once linked, names such a file.     *)
(***************************************************************************)
EXTENDS Integers

CONSTANTS
  Writers, Readers,
  NoFile,
  Size         \* number of bytes each writer has to write

ASSUME LocalAssumption == NoFile \notin Writers /\ Size \in [Writers -> Nat]

VARIABLES
  path,       \* the file the path names
  bytes,      \* bytes in each writer's file
  temps,      \* writers whose temporary name exists
  pc,         \* where each writer is in CreateIfAbsent
  outcome,    \* what its call comes to, once that is settled
  handle,     \* the file each reader has open and the size it took for it
  got,        \* how many bytes each reader's ReadAt returned, -1 before it does
  deleted     \* has the path ever been deleted?

vars == <<path, bytes, temps, pc, outcome, handle, got, deleted>>

Closed == [file |-> NoFile, size |-> -1]

Init ==
  /\ path = NoFile
  /\ bytes = [w \in Writers |-> 0]
  /\ temps = {}
  /\ pc = [w \in Writers |-> "start"]
  /\ outcome = [w \in Writers |-> "open"]
  /\ handle = [r \in Readers |-> Closed]
  /\ got = [r \in Readers |-> -1]
  /\ deleted = FALSE

Goto(w, from, to) == pc[w] = from /\ pc' = [pc EXCEPT ![w] = to]
Settle(w, result) == outcome' = [outcome EXCEPT ![w] = result]

-----------------------------------------------------------------------------
\* CreateIfAbsent.

Mkstemp(w) ==
  /\ \/ Goto(w, "start", "write") /\ temps' = temps \cup {w} /\ UNCHANGED outcome
     \/ Goto(w, "start", "done") /\ Settle(w, "failed") /\ UNCHANGED temps
  /\ UNCHANGED <<path, bytes, handle, got, deleted>>

\* A faulty variant: a short write is taken for a whole one.
WriteMutant(w) ==
  /\ Goto(w, "write", "fsync")
  /\ \E n \in 1..(Size[w] - bytes[w]) : bytes' = [bytes EXCEPT ![w] = @ + n]
  /\ UNCHANGED <<path, temps, outcome, handle, got, deleted>>

\* ::write, until all bytes are written; each call may write only some.
Write(w) ==
  /\ pc[w] = "write"
  /\ IF bytes[w] = Size[w] THEN pc' = [pc EXCEPT ![w] = "fsync"] /\ UNCHANGED bytes
     ELSE /\ \E n \in 1..(Size[w] - bytes[w]) : bytes' = [bytes EXCEPT ![w] = @ + n]
          /\ UNCHANGED pc
  /\ UNCHANGED <<path, temps, outcome, handle, got, deleted>>

Fsync(w) ==
  /\ Goto(w, "fsync", "link")
  /\ UNCHANGED <<path, bytes, temps, outcome, handle, got, deleted>>

\* A faulty variant: the file is renamed over what is there.
LinkMutant(w) ==
  /\ Goto(w, "link", "unlink")
  /\ path' = w
  /\ Settle(w, "created")
  /\ UNCHANGED <<bytes, temps, handle, got, deleted>>

Link(w) ==
  /\ Goto(w, "link", "unlink")
  /\ IF path = NoFile THEN path' = w /\ Settle(w, "created")
     ELSE Settle(w, "exists") /\ UNCHANGED path
  /\ UNCHANGED <<bytes, temps, handle, got, deleted>>

\* A faulty variant: the exception leaves the file behind.
FailMutant(w) ==
  /\ pc[w] \in {"write", "fsync", "link"}
  /\ pc' = [pc EXCEPT ![w] = "done"]
  /\ Settle(w, "failed")
  /\ UNCHANGED <<path, bytes, temps, handle, got, deleted>>

\* A call fails: the exception is caught, the file unlinked.
Fail(w) ==
  /\ pc[w] \in {"write", "fsync", "link"}
  /\ pc' = [pc EXCEPT ![w] = "unlink"]
  /\ Settle(w, "failed")
  /\ UNCHANGED <<path, bytes, temps, handle, got, deleted>>

Unlink(w) ==
  /\ Goto(w, "unlink", "done")
  /\ temps' = temps \ {w}
  /\ UNCHANGED <<path, bytes, outcome, handle, got, deleted>>

Kill(w) ==
  /\ pc[w] \notin {"start", "done", "killed"}
  /\ pc' = [pc EXCEPT ![w] = "killed"]
  /\ UNCHANGED <<path, bytes, temps, outcome, handle, got, deleted>>

-----------------------------------------------------------------------------
\* OpenInput, which opens the file and then asks for the size of what the path
\* names by that time; ReadAt of all of it; Delete.

OpenInput(r) ==
  /\ path # NoFile /\ handle[r] = Closed
  /\ handle' = [handle EXCEPT ![r].file = path]
  /\ UNCHANGED <<path, bytes, temps, pc, outcome, got, deleted>>

\* file_size throws when the path is gone.
FileSize(r) ==
  /\ handle[r].file # NoFile /\ handle[r].size = -1
  /\ handle' = [handle EXCEPT ![r] =
       IF path = NoFile THEN Closed ELSE [@ EXCEPT !.size = bytes[path]]]
  /\ UNCHANGED <<path, bytes, temps, pc, outcome, got, deleted>>

\* A file shorter than the size taken for it makes the read throw.
ReadAt(r) ==
  /\ handle[r].size # -1 /\ got[r] = -1
  /\ handle[r].size <= bytes[handle[r].file]
  /\ got' = [got EXCEPT ![r] = handle[r].size]
  /\ UNCHANGED <<path, bytes, temps, pc, outcome, handle, deleted>>

Delete ==
  /\ path' = NoFile
  /\ deleted' = TRUE
  /\ UNCHANGED <<bytes, temps, pc, outcome, handle, got>>

Next ==
  \/ \E w \in Writers :
       \/ Mkstemp(w) \/ Write(w) \/ Fsync(w) \/ Link(w)
       \/ Fail(w) \/ Unlink(w) \/ Kill(w)
  \/ \E r \in Readers : OpenInput(r) \/ FileSize(r) \/ ReadAt(r)
  \/ Delete

Spec == Init /\ [][Next]_vars

-----------------------------------------------------------------------------
\* Comment of IStorage::CreateIfAbsent: a partially written file is never seen
\* at the path, whoever is killed when.  While nobody deletes the path, a reader
\* that opened it reads all of the bytes.
NeverPartial ==
  /\ path # NoFile => bytes[path] = Size[path]
  /\ \A r \in Readers :
       got[r] # -1 => deleted \/ got[r] = Size[handle[r].file]

\* A call that returns or throws leaves no temporary file; only a killed
\* process does, and List then finds it under the path's prefix.
NoLitter == \A w \in temps : pc[w] # "done"

\* Of all the calls that race for the path exactly the one that put its bytes
\* there is told Created, until the file is deleted.
Atomic == INSTANCE AtomicCreate WITH file <- path
ImplementsAtomicCreate == Atomic!Spec
=============================================================================
