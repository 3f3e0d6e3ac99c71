------------------------- MODULE SequentialProtocol -------------------------
(***************************************************************************)
(* The objects of the sequential WAL protocol (src/Cloud/                  *)
(* SequentialProtocol.{h,cpp}) and the transitions of CURRENT.  Table ids, *)
(* schema versions, checksums and byte layouts are left out: every object  *)
(* of the model belongs to one table with one schema, and an object is     *)
(* either absent or complete because each is written by a single PUT.      *)
(***************************************************************************)
EXTENDS Integers

CONSTANTS
  BatchId,          \* client batch ids
  Requests,         \* CloudImportBatch values: [ids, op, rows]
  Oversize,         \* the requests whose encoded WAL exceeds ReadAll's limit
  None,             \* std::nullopt / a null pointer
  MaxEpoch          \* plays UINT64_MAX for writer_epoch

(***************************************************************************)
(* A request carries a non-empty set of batch ids, its operation id is the *)
(* first of them, and rows stands for the chunks.  The payload digest      *)
(* covers ids and rows, so two requests have the same operation id and     *)
(* digest exactly when they are the same record.                           *)
(***************************************************************************)
ASSUME RequestsAssumption ==
  /\ \A r \in Requests : r.ids \subseteq BatchId /\ r.op \in r.ids
  /\ Oversize \subseteq Requests

\* SequentialState, the value of CURRENT.
State == [version : Nat, epoch : Nat, indexed : Nat, published : Nat,
          manifest : Nat]

ASSUME NoneAssumption == None \notin State /\ None \notin Requests

ASSUME MaxEpochAssumption == MaxEpoch \in Nat

\* SequentialWal.  A Fence has no batch ids and no chunks, an Append has both,
\* so the request alone tells the kinds apart.
Wal == [epoch : Nat, req : Requests \cup {None}]

Fence(e) == [epoch |-> e, req |-> None]

AppendWal(e, r) == [epoch |-> e, req |-> r]

IsAppend(w) == w.req # None

BatchIds(w) == IF IsAppend(w) THEN w.req.ids ELSE {}

\* SequentialBatchEntry: operation_id and payload_digest are those of req.
BatchEntry == [id : BatchId, seq : Nat, req : Requests]

\* SequentialManifest and its DataFile.
DataFile == [path : Nat, first : Nat, last : Nat]

Manifest == [covered : Nat, files : SUBSET DataFile, index : SUBSET Nat]

\* "manifest/initial.meta" and the state that Initialize puts in CURRENT.
InitialKey == 0

InitialManifest == [covered |-> 0, files |-> {}, index |-> {}]

InitialState == [version |-> 0, epoch |-> 0, indexed |-> 0, published |-> 0,
                 manifest |-> InitialKey]

-----------------------------------------------------------------------------
(* The three ways CURRENT changes. *)

\* Start: ++writer_epoch, ++state_version.
AcquireEpoch(s) == [s EXCEPT !.epoch = @ + 1, !.version = @ + 1]

\* Publish: published_seq = seq, ++state_version.
PublishToMutant(s, seq) == [s EXCEPT !.published = seq + 1, !.version = @ + 1]

PublishTo(s, seq) == [s EXCEPT !.published = seq, !.version = @ + 1]

\* Index: indexed_seq = end, published_seq = max(published_seq, end),
\* manifest_key = key, ++state_version.
IndexToMutant(s, end, key) ==
  [version |-> s.version + 1, epoch |-> s.epoch, indexed |-> end,
   published |-> end, manifest |-> key]

IndexTo(s, end, key) ==
  [version |-> s.version + 1, epoch |-> s.epoch, indexed |-> end,
   published |-> IF end > s.published THEN end ELSE s.published,
   manifest |-> key]

\* SequentialStateStore::CompareExchange throws unless this holds.
ValidTransition(s, t) ==
  /\ t.version = s.version + 1
  /\ t.epoch >= s.epoch
  /\ t.indexed >= s.indexed
  /\ t.published >= s.published
  /\ t.indexed <= t.published
=============================================================================
