--------------------------- MODULE SnapshotReader ---------------------------
(***************************************************************************)
(* Queries on one CloudTable (src/Cloud/CloudTable.cpp LoadSnapshot,       *)
(* TableSnapshotLoader::Load, CloudTableSource::Scan).  A snapshot is what *)
(* the manifest of a loaded CURRENT refers to, the published WAL slots     *)
(* behind it, and, for a best-effort query, the unpublished slots a probe  *)
(* finds.  The readers are queries of one node: they share probe_limit_,   *)
(* which each of them loads before its query and stores after it.  Slots   *)
(* are read in order and never vanish, so the instant of the last read is  *)
(* the instant of the whole scan.                                          *)
(***************************************************************************)
EXTENDS ObjectStore, FiniteSets

CONSTANTS
  Readers,                            \* concurrent queries
  ProbeMinimum, ProbeInitial, ProbeMaximum   \* WalProbePolicy

ASSUME ProbeAssumption ==
  /\ ProbeMinimum \in Nat \ {0}
  /\ ProbeInitial \in Nat
  /\ ProbeMaximum \in Nat
  /\ ProbeMinimum <= ProbeInitial
  /\ ProbeInitial <= ProbeMaximum

VARIABLES
  rpc,          \* the next step of the running query
  query,        \* its locals
  view,         \* the snapshot the last finished query returned, or None
  probeLimit    \* probe_limit_

readerVars == <<rpc, query, view, probeLimit>>

ReadPc == {"idle", "current", "wals", "adjust", "failed"}

\* limit: probe_limit_ as loaded, 0 without probing; tries: attempts of Load
\* used up; probed: probed_wal_count; owed: history, the slots that had been
\* reported committed when the query began.
Query == [snap : State \cup {None}, limit : Nat, tries : Nat, probed : Nat,
          owed : SUBSET Nat]

NoQuery == [snap |-> None, limit |-> 0, tries |-> 0, probed |-> 0, owed |-> {}]

\* A TableSnapshot: the state it was taken from and the last WAL slot in it.
View == [snap : State, through : Nat, owed : SUBSET Nat]

ReaderTypeOK ==
  /\ rpc \in [Readers -> ReadPc]
  /\ query \in [Readers -> Query]
  /\ view \in [Readers -> View \cup {None}]
  /\ probeLimit \in Nat

ReaderInit ==
  /\ rpc = [r \in Readers |-> "idle"]
  /\ query = [r \in Readers |-> NoQuery]
  /\ view = [r \in Readers |-> None]
  /\ probeLimit = ProbeInitial

ReadGoto(r, p, q) ==
  /\ rpc' = [rpc EXCEPT ![r] = p]
  /\ query' = [query EXCEPT ![r] = q]

-----------------------------------------------------------------------------
\* LoadSnapshot begins: a strict query has limit 0.
LoadSnapshot(r, probe, reported) ==
  /\ rpc[r] = "idle"
  /\ ReadGoto(r, "current",
              [snap |-> None, limit |-> IF probe THEN probeLimit ELSE 0,
               tries |-> 0, probed |-> 0, owed |-> reported])
  /\ UNCHANGED <<view, probeLimit>>

\* Load CURRENT and its manifest; there is no snapshot before the table
\* exists.
ReadCurrentMutant(r) ==
  /\ rpc[r] = "current"
  /\ current # None
  /\ ReadGoto(r, "wals", [query[r] EXCEPT
       !.snap = IF view[r] = None THEN current ELSE view[r].snap])
  /\ UNCHANGED <<view, probeLimit>>

ReadCurrent(r) ==
  /\ rpc[r] = "current"
  /\ IF current = None
     THEN ReadGoto(r, "idle", NoQuery)
     ELSE ReadGoto(r, "wals", [query[r] EXCEPT !.snap = current])
  /\ UNCHANGED <<view, probeLimit>>

\* A probe of at most limit slots behind published_seq finds n of them: it
\* stops at the first missing one.
ProbeEnd(snap, limit, n) ==
  /\ \A m \in 1..n : Exists(snap.published + m)
  /\ n < limit => ~Exists(snap.published + n + 1)

\* Read the slots (C, P] and probe behind them.  When a published slot is
\* missing, Load starts over from CURRENT once and then throws.
ReadWals(r) ==
  LET snap == query[r].snap IN
  /\ rpc[r] = "wals"
  /\ IF \A s \in snap.indexed + 1 .. snap.published : Exists(s)
     THEN \E n \in 0..query[r].limit :
            /\ ProbeEnd(snap, query[r].limit, n)
            /\ \A s \in snap.indexed + 1 .. snap.published + n : Loadable(s)
            /\ view' = [view EXCEPT ![r] = [snap |-> snap,
                                            through |-> snap.published + n,
                                            owed |-> query[r].owed]]
            /\ IF query[r].limit = 0
               THEN ReadGoto(r, "idle", NoQuery)
               ELSE ReadGoto(r, "adjust",
                             [snap |-> None, limit |-> query[r].limit,
                              tries |-> 0, probed |-> n, owed |-> {}])
     ELSE /\ UNCHANGED view
          /\ IF query[r].tries = 0
             THEN ReadGoto(r, "current",
                           [snap |-> None, limit |-> query[r].limit,
                            tries |-> 1, probed |-> 0, owed |-> query[r].owed])
             ELSE ReadGoto(r, "failed", NoQuery)
  /\ UNCHANGED probeLimit

\* The limit a best-effort query stores: doubled when the probe used it up,
\* halved when it found few slots.
NextLimit(limit, probed) ==
  CASE probed = limit /\ limit < ProbeMaximum ->
         IF limit > ProbeMaximum \div 2 THEN ProbeMaximum ELSE limit * 2
    [] probed < limit \div 4 /\ limit > ProbeMinimum ->
         IF limit \div 2 < ProbeMinimum THEN ProbeMinimum ELSE limit \div 2
    [] OTHER -> probeLimit

AdjustProbe(r) ==
  /\ rpc[r] = "adjust"
  /\ probeLimit' = NextLimit(query[r].limit, query[r].probed)
  /\ ReadGoto(r, "idle", NoQuery)
  /\ UNCHANGED view

\* A read fails and the exception ends the query.
ReadThrow(r) ==
  /\ rpc[r] \in {"current", "wals"}
  /\ ReadGoto(r, "idle", NoQuery)
  /\ UNCHANGED <<view, probeLimit>>

ReaderNext(r, reported) ==
  /\ \/ \E probe \in BOOLEAN : LoadSnapshot(r, probe, reported)
     \/ ReadCurrent(r) \/ ReadWals(r) \/ AdjustProbe(r) \/ ReadThrow(r)
  /\ UNCHANGED storeVars

-----------------------------------------------------------------------------
\* How often a scan of snapshot v yields the chunks of WAL slot s: once for
\* each data file of its manifest that holds them, and once from the WAL.
Copies(v, s) ==
  Cardinality({f \in ManifestOf(v.snap).files : s \in data[f.path]})
    + (IF s \in v.snap.indexed + 1 .. v.through THEN 1 ELSE 0)
=============================================================================
