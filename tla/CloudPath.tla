----------------------------- MODULE CloudPath -----------------------------
(***************************************************************************)
(* The cloud path of one table: writers, indexers and queries that share   *)
(* nothing but the object storage, and requests to it that take effect     *)
(* after their reply was lost.                                             *)
(***************************************************************************)
EXTENDS CloudTableWriter, CloudWalIndexer, SnapshotReader

vars == <<storeVars, writerVars, indexerVars, readerVars>>

Init == StoreInit /\ WriterInit /\ IndexerInit /\ ReaderInit

\* The slots some client knows to be committed.
Reported ==
  {reply[w].seq : w \in {v \in Writers : reply[v] # None
                                         /\ reply[v].code = "Committed"}}

WriterStep(w) == WriterNext(w) /\ UNCHANGED <<indexerVars, readerVars>>

IndexerStep(i) == IndexerNext(i) /\ UNCHANGED <<writerVars, readerVars>>

ReaderStep(r) ==
  ReaderNext(r, Reported) /\ UNCHANGED <<writerVars, indexerVars>>

StoreStep ==
  /\ \/ \E p \in lateWal : LandWal(p)
     \/ \E p \in lateCurrent : LandCurrent(p)
  /\ UNCHANGED <<writerVars, indexerVars, readerVars>>

Next ==
  \/ \E w \in Writers : WriterStep(w)
  \/ \E i \in Indexers : IndexerStep(i)
  \/ \E r \in Readers : ReaderStep(r)
  \/ StoreStep

Spec == Init /\ [][Next]_vars

-----------------------------------------------------------------------------
(* Invariants *)

\* Every variable of the composition has its type.
TypeOK == StoreTypeOK /\ WriterTypeOK /\ IndexerTypeOK /\ ReaderTypeOK

\* A slot is only ever created behind existing ones: no writer, fence or late
\* PUT leaves a gap in the WAL (Import and Start create at next_seq_ and at
\* the first free slot).
WalContiguous ==
  \A s \in DOMAIN wal : \A t \in 1..s : t \in DOMAIN wal

\* Fencing: behind a record of epoch e no record of an older epoch follows,
\* so a superseded writer cannot take a slot behind its successor's fence,
\* not even with a PUT that was on its way.
EpochsNondecreasing ==
  \A s, t \in DOMAIN wal : s <= t => wal[s].epoch <= wal[t].epoch

\* A batch id is in at most one slot, whatever retries, changes of writer,
\* lost replies and indexing lie between two imports of it.
ExactlyOnce ==
  \A s, t \in DOMAIN wal :
    s # t => BatchIds(wal[s]) \cap BatchIds(wal[t]) = {}

\* What Import reported stays true: the batch is in the slot it named, and a
\* committed one is at or below published_seq.
AcksHold ==
  \A w \in Writers : reply[w] # None =>
    /\ Exists(reply[w].seq)
    /\ wal[reply[w].seq].req = reply[w].req
    /\ reply[w].code = "Committed" => reply[w].seq <= current.published

\* indexed_seq <= published_seq, and every published slot exists.
WatermarksBacked ==
  current # None =>
    /\ current.indexed <= current.published
    /\ \A s \in 1..current.published : Exists(s)

\* The manifest CURRENT names is there and covers exactly 1..indexed_seq:
\* the chunks of each Append are in one of its data files and in only one,
\* and its batch index knows the batches of these slots and no others.
ManifestComplete ==
  current # None =>
    /\ current.manifest \in DOMAIN manifests
    /\ LET m == ManifestOf(current) IN
       /\ m.covered = current.indexed
       /\ m.index \subseteq DOMAIN dedups
       /\ \A f \in m.files : f.path \in DOMAIN data
       /\ \A f, g \in m.files : f # g => data[f.path] \cap data[g.path] = {}
       /\ UNION {data[f.path] : f \in m.files} = AppendsIn(1, current.indexed)
       /\ BatchIndexOf(m) = EntriesOf(1, current.indexed)

\* No CompareExchange throws "invalid CURRENT transition": the state each
\* caller builds is a valid successor of the state it loaded.
TransitionsValid ==
  /\ \A w \in Writers :
       /\ pc[w] = "acquire" =>
            ValidTransition(job[w].snap, AcquireEpoch(job[w].snap))
       /\ pc[w] = "pubCas" =>
            ValidTransition(job[w].snap, PublishTo(job[w].snap, job[w].seq))
  /\ \A i \in Indexers : ipc[i] = "cas" =>
       ValidTransition(idx[i].snap, IndexTo(idx[i].snap, idx[i].end, idx[i].key))

\* A query that found CURRENT never fails with "published WAL is missing".
PublishedWalPresent == \A r \in Readers : rpc[r] # "failed"

\* A snapshot holds the chunks of every Append up to its last slot exactly
\* once, however indexing moves them from the WAL to data files meanwhile,
\* and nothing beyond.
SnapshotExact ==
  \A r \in Readers : view[r] # None =>
    \A s \in DOMAIN wal : IsAppend(wal[s]) =>
      Copies(view[r], s) = IF s <= view[r].through THEN 1 ELSE 0

\* A query sees, without relying on its probe, every batch that had been
\* reported committed when the query began.
ReadYourCommits ==
  \A r \in Readers : view[r] # None =>
    \A s \in view[r].owed : s <= view[r].snap.published

\* Concurrent queries that load and store probe_limit_ without a lock keep it
\* within the policy.
ProbeLimitInPolicy == probeLimit \in ProbeMinimum..ProbeMaximum

\* The design's single-writer rule: a writer appends under an epoch only
\* behind that epoch's fence.
AppendsFollowFence ==
  \A s \in DOMAIN wal : IsAppend(wal[s]) =>
    \E t \in DOMAIN wal : t < s /\ wal[t] = Fence(wal[s].epoch)

-----------------------------------------------------------------------------
(* Action properties *)

\* Every change of CURRENT, late ones included, is a valid transition of the
\* state it replaces: version + 1, no watermark and no epoch goes back.
StateVersionsIncrease ==
  [][current' # current /\ current # None =>
       current' # None /\ ValidTransition(current, current')]_vars

\* A WAL slot, once created, is never overwritten or removed.
WalImmutable ==
  [][\A s \in DOMAIN wal : s \in DOMAIN wal' /\ wal'[s] = wal[s]]_vars

\* Successive snapshots of one query thread never go back in time.
ReadsMonotonic ==
  [][\A r \in Readers : view[r] # None /\ view'[r] # view[r] =>
       view'[r].snap.version >= view[r].snap.version]_vars

-----------------------------------------------------------------------------
(* What clients see. *)

Promise == INSTANCE CommitLog WITH
  Clients <- Writers,
  log <- [s \in DOMAIN wal |-> wal[s].req],
  visible <- IF current = None THEN 0 ELSE current.published,
  answer <- reply

\* The cloud path implements the commit log its clients rely on.
ImplementsCommitLog == Promise!Spec

-----------------------------------------------------------------------------
(* Liveness *)

\* The steps of an indexer, whose process calls Index again and again.
IndexerWork(i) ==
  /\ IndexLoad(i) \/ Scan(i) \/ WriteDataFile(i) \/ WriteBatchIndex(i)
       \/ WriteManifest(i) \/ PublishIndex(i)
  /\ UNCHANGED <<writerVars, readerVars>>

\* Indexers run; a writer may stop in the middle of a call for ever.
FairSpec == Spec /\ \A i \in Indexers : WF_vars(IndexerWork(i))

\* A durable record becomes visible to strict queries, even when its writer
\* stops before it publishes it and no other ever starts: the indexers find
\* the slots behind published_seq (CloudWalIndexer::Index).
DurableEventuallyVisible ==
  \A s \in 1..MaxEpoch + Cardinality(Requests) :
    Exists(s) ~> current # None /\ current.published >= s
=============================================================================
