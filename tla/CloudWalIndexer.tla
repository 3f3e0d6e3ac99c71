-------------------------- MODULE CloudWalIndexer --------------------------
(***************************************************************************)
(* CloudWalIndexer::Index (src/Cloud/CloudWalIndexer.cpp): reads the WAL   *)
(* slots behind indexed_seq, writes their chunks to a data file, a batch   *)
(* index and a manifest, each under a fresh key, and publishes them with   *)
(* one CAS of CURRENT.  One action per storage request.                    *)
(***************************************************************************)
EXTENDS ObjectStore

CONSTANTS
  Indexers,           \* CloudWalIndexer objects
  MaxIndexAttempts,   \* max_publish_attempts_
  MaxWalPerPass,      \* kMaxWalPerPass
  MaxKeys             \* bound: keys handed out by IObjectKeyGenerator

ASSUME IndexerAssumption ==
  /\ MaxIndexAttempts \in Nat \ {0}
  /\ MaxWalPerPass \in Nat \ {0}
  /\ MaxKeys \in Nat

VARIABLES
  ipc,   \* the next request of the running Index call, or "idle"
  idx    \* its locals

indexerVars == <<ipc, idx>>

IndexPc == {"idle", "load", "scan", "data", "dedup", "manifest", "cas"}

\* files: manifest.data_files being built; key: the manifest key, from which
\* the dedup key is derived.
IndexJob == [snap : State \cup {None}, end : Nat, files : SUBSET DataFile,
             key : Nat, tries : Nat]

NoIndexJob == [snap |-> None, end |-> 0, files |-> {}, key |-> 0, tries |-> 0]

IndexerTypeOK ==
  /\ ipc \in [Indexers -> IndexPc]
  /\ idx \in [Indexers -> IndexJob]

IndexerInit ==
  /\ ipc = [i \in Indexers |-> "idle"]
  /\ idx = [i \in Indexers |-> NoIndexJob]

IndexGoto(i, p, j) ==
  /\ ipc' = [ipc EXCEPT ![i] = p]
  /\ idx' = [idx EXCEPT ![i] = j]

IndexReturn(i) == IndexGoto(i, "idle", NoIndexJob)

\* The next attempt starts over from CURRENT, or the attempts are used up.
IndexRetry(i) ==
  IF idx[i].tries + 1 < MaxIndexAttempts
  THEN IndexGoto(i, "load", [NoIndexJob EXCEPT !.tries = idx[i].tries + 1])
  ELSE IndexReturn(i)

-----------------------------------------------------------------------------
\* Load CURRENT; NothingToDo before the table exists.
IndexLoad(i) ==
  /\ ipc[i] \in {"idle", "load"}
  /\ current # None
  /\ IndexGoto(i, "scan", [idx[i] EXCEPT !.snap = current])
  /\ UNCHANGED storeVars

\* A faulty variant: the scan stops at published_seq.
ScanEndMutant(snap, end) ==
  \A s \in snap.indexed + 1 .. end : s <= snap.published /\ Exists(s)

\* The scan stops at the first missing slot or after MaxWalPerPass slots.
ScanEnd(snap, end) ==
  /\ \A s \in snap.indexed + 1 .. end : Exists(s)
  /\ end < snap.indexed + MaxWalPerPass => ~Exists(end + 1)

\* Load the manifest and scan the slots behind it.
Scan(i) ==
  LET snap == idx[i].snap IN
  /\ ipc[i] = "scan"
  /\ \E end \in snap.indexed .. snap.indexed + MaxWalPerPass :
       /\ ScanEnd(snap, end)
       /\ \A s \in snap.indexed + 1 .. end : Loadable(s)
       /\ IF end = snap.indexed
          THEN IndexReturn(i)
          ELSE IndexGoto(i, IF AppendsIn(snap.indexed + 1, end) = {}
                              THEN "dedup" ELSE "data",
                         [snap |-> snap, end |-> end,
                          files |-> ManifestOf(snap).files, key |-> 0,
                          tries |-> idx[i].tries])
  /\ UNCHANGED storeVars

\* Write the chunks to a data file under a fresh key.
WriteDataFileMutant(i) ==
  LET snap == idx[i].snap
      end == idx[i].end
  IN
  /\ ipc[i] = "data"
  /\ keys < MaxKeys
  /\ keys' = keys + 1
  /\ data' = Stored(data, keys, AppendsIn(snap.indexed, end))
  /\ IndexGoto(i, "dedup", [idx[i] EXCEPT !.files = @ \cup
       {[path |-> keys, first |-> snap.indexed + 1, last |-> end]}])
  /\ UNCHANGED <<current, wal, manifests, dedups, lateWal, lateCurrent, faults>>

WriteDataFile(i) ==
  LET snap == idx[i].snap
      end == idx[i].end
  IN
  /\ ipc[i] = "data"
  /\ keys < MaxKeys
  /\ keys' = keys + 1
  /\ data' = Stored(data, keys, AppendsIn(snap.indexed + 1, end))
  /\ IndexGoto(i, "dedup", [idx[i] EXCEPT !.files = @ \cup
       {[path |-> keys, first |-> snap.indexed + 1, last |-> end]}])
  /\ UNCHANGED <<current, wal, manifests, dedups, lateWal, lateCurrent, faults>>

\* The entries of the old index and of the scanned slots, one per batch id.
MergedEntriesMutant(snap, end) == EntriesOf(snap.indexed + 1, end)

MergedEntries(snap, end) ==
  LET all == BatchIndexOf(ManifestOf(snap)) \cup EntriesOf(snap.indexed + 1, end)
  IN  {e \in all : \A f \in all : f.id = e.id => e.seq <= f.seq}

\* PutIfAbsent of an object under a fresh key.  When the reply is lost the
\* object may or may not be there; nothing refers to it.
PutFresh(i, next) ==
  \/ IndexGoto(i, next, [idx[i] EXCEPT !.key = IF next = "manifest" THEN keys
                                                                    ELSE @])
     /\ UNCHANGED faults
  \/ Fault /\ IndexRetry(i)

WriteBatchIndex(i) ==
  /\ ipc[i] = "dedup"
  /\ keys < MaxKeys
  /\ keys' = keys + 1
  /\ PutFresh(i, "manifest")
  /\ dedups' = Stored(dedups, keys, MergedEntries(idx[i].snap, idx[i].end))
  /\ UNCHANGED <<current, wal, manifests, data, lateWal, lateCurrent>>

WriteManifest(i) ==
  /\ ipc[i] = "manifest"
  /\ PutFresh(i, "cas")
  /\ manifests' = Stored(manifests, idx[i].key,
                         [covered |-> idx[i].end, files |-> idx[i].files,
                          index |-> {idx[i].key}])
  /\ UNCHANGED <<current, wal, dedups, data, keys, lateWal, lateCurrent>>

\* Publish: indexed_seq = end, published_seq = max(published_seq, end).
PublishIndex(i) ==
  LET snap == idx[i].snap
      next == IndexTo(snap, idx[i].end, idx[i].key)
  IN
  /\ ipc[i] = "cas"
  /\ ValidTransition(snap, next)
  /\ \E out \in ConditionalWriteResult :
       /\ CompareExchange(snap, next, out)
       /\ IF out = "Applied" THEN IndexReturn(i) ELSE IndexRetry(i)
  /\ UNCHANGED <<wal, manifests, dedups, data, keys, lateWal>>

\* An exception or a crash ends the call; the indexer keeps no state.
IndexThrow(i) ==
  /\ ipc[i] # "idle"
  /\ \/ Fault
     \/ /\ ipc[i] = "scan"
        /\ \E n \in 1..MaxWalPerPass :
             /\ \A m \in 1..n : Exists(idx[i].snap.indexed + m)
             /\ ~Loadable(idx[i].snap.indexed + n)
        /\ UNCHANGED faults
  /\ IndexReturn(i)
  /\ UNCHANGED <<current, wal, manifests, dedups, data, keys, lateWal,
                 lateCurrent>>

IndexerNext(i) ==
  \/ IndexLoad(i) \/ Scan(i) \/ WriteDataFile(i) \/ WriteBatchIndex(i)
  \/ WriteManifest(i) \/ PublishIndex(i) \/ IndexThrow(i)
=============================================================================
