------------------------- MODULE CloudPathInvariant -------------------------
(***************************************************************************)
(* The inductive invariant of the cloud path.  It says of every copy of    *)
(* CURRENT that some caller still holds, of every PUT on its way and of    *)
(* every half-finished call what it takes for the remaining steps to be    *)
(* safe.  All of it is stable because the store only grows: slots,         *)
(* manifests and batch indexes never change, and CURRENT never goes back.  *)
(***************************************************************************)
EXTENDS CloudPath

\* The slots 1..n exist.
Through(n) == \A t \in 1..n : Exists(t)

\* A state that may be put in CURRENT: its published slots exist and its
\* manifest covers its indexed slots.
GoodState(s) ==
  /\ s.indexed <= s.published
  /\ Through(s.published)
  /\ s.manifest \in DOMAIN manifests
  /\ manifests[s.manifest].covered = s.indexed

\* CURRENT has been in state s, or is.
Past(s) ==
  /\ current # None
  /\ s.version <= current.version
  /\ s.published <= current.published

\* Creating rec in slot s is safe if the slot is free: all slots below exist,
\* with older or equal epochs and other batches.
PutOK(s, rec) ==
  /\ s >= 1
  /\ Through(s - 1)
  /\ \A t \in 1..s - 1 : /\ wal[t].epoch <= rec.epoch
                         /\ BatchIds(wal[t]) \cap BatchIds(rec) = {}

\* An entry of a batch index tells where its batch is.
EntrySound(e) ==
  /\ Exists(e.seq)
  /\ wal[e.seq].req = e.req
  /\ e.id \in BatchIds(wal[e.seq])

\* The batch entries known to the index D include those of slots 1..n.
Complete(D, n) ==
  /\ Through(n)
  /\ \A s \in 1..n : \A b \in BatchIds(wal[s]) : \E e \in D : e.id = b

ManifestGood(m) ==
  /\ m.index \subseteq DOMAIN dedups
  /\ Complete(BatchIndexOf(m), m.covered)

WalInv ==
  /\ WalContiguous
  /\ EpochsNondecreasing
  /\ ExactlyOnce
  /\ \A s \in DOMAIN wal : current # None /\ wal[s].epoch <= current.epoch

MetaInv ==
  /\ keys >= 1
  /\ \A k \in DOMAIN dedups : k < keys /\ \A e \in dedups[k] : EntrySound(e)
  /\ \A k \in DOMAIN manifests : k < keys /\ ManifestGood(manifests[k])
  /\ InitialKey \in DOMAIN manifests => manifests[InitialKey] = InitialManifest

LateInv ==
  /\ \A p \in lateWal : /\ current # None
                        /\ p.rec.epoch <= current.epoch
                        /\ PutOK(p.slot, p.rec)
  /\ \A p \in lateCurrent : /\ GoodState(p.next)
                            /\ p.expected # None =>
                                 ValidTransition(p.expected, p.next)

StoreInv ==
  /\ WalInv
  /\ MetaInv
  /\ LateInv
  /\ current # None => GoodState(current)

-----------------------------------------------------------------------------
\* A started writer knows that all slots below next_seq_ exist and belong to
\* no later epoch.
Started(w) ==
  /\ current # None
  /\ epoch[w] <= current.epoch
  /\ nextSeq[w] >= 1
  /\ Through(nextSeq[w] - 1)
  /\ \A t \in 1..nextSeq[w] - 1 : wal[t].epoch <= epoch[w]

\* The slot job.seq holds the request of the running Import.
InLog(w) ==
  /\ job[w].seq >= 1
  /\ Through(job[w].seq)
  /\ wal[job[w].seq].req = job[w].req

\* The last report of w is true.
ReplyOK(w) ==
  reply[w] # None =>
    /\ Exists(reply[w].seq)
    /\ wal[reply[w].seq].req = reply[w].req
    /\ reply[w].code = "Committed" =>
         current # None /\ reply[w].seq <= current.published

FencingPc == {"fenceLoad", "fenceSlot", "fenceLanded", "confirm"}
SnapPc == {"acquire", "dedup", "pubCas"}

WriterOK(w) ==
  /\ epoch[w] # 0 => Started(w)
  /\ pc[w] = "initCurrent" => InitialKey \in DOMAIN manifests
  /\ pc[w] \in {"reload"} \cup FencingPc => current # None
  /\ pc[w] \in SnapPc =>
       job[w].snap # None /\ GoodState(job[w].snap) /\ Past(job[w].snap)
  /\ pc[w] \in FencingPc =>
       /\ job[w].epoch <= current.epoch
       /\ job[w].seq >= 1
       /\ Through(job[w].seq - 1)
  /\ pc[w] \in {"fenceSlot", "fenceLanded"} =>
       PutOK(job[w].seq, Fence(job[w].epoch))
  /\ pc[w] = "confirm" =>
       /\ Through(job[w].seq)
       /\ \A t \in 1..job[w].seq : wal[t].epoch <= job[w].epoch
  /\ pc[w] \in ImportPc => epoch[w] # 0 /\ job[w].req # None
  /\ pc[w] = "create" => PutOK(nextSeq[w], AppendWal(epoch[w], job[w].req))
  /\ pc[w] \in {"pubLoad", "pubCas"} => InLog(w)
  /\ pc[w] = "pubCas" => job[w].snap.published < job[w].seq
  /\ ReplyOK(w)

IndexerOK(i) ==
  /\ ipc[i] \in IndexPc \ {"idle", "load"} =>
       idx[i].snap # None /\ GoodState(idx[i].snap)
  /\ ipc[i] \in {"data", "dedup", "manifest", "cas"} =>
       idx[i].end > idx[i].snap.indexed /\ Through(idx[i].end)
  /\ ipc[i] \in {"manifest", "cas"} =>
       /\ idx[i].key >= 1
       /\ idx[i].key < keys
       /\ idx[i].key \in DOMAIN dedups
       /\ Complete(dedups[idx[i].key], idx[i].end)
  /\ ipc[i] = "manifest" => idx[i].key \notin DOMAIN manifests
  /\ ipc[i] = "cas" =>
       /\ idx[i].key \in DOMAIN manifests
       /\ manifests[idx[i].key].covered = idx[i].end

\* Two indexers never write to the same key.
KeysDistinct ==
  \A i, j \in Indexers :
    i # j /\ ipc[i] = "manifest" /\ ipc[j] = "manifest" =>
      idx[i].key # idx[j].key

ReaderOK(r) ==
  /\ rpc[r] # "failed"
  /\ query[r].limit \in {0} \cup ProbeMinimum..ProbeMaximum
  /\ rpc[r] = "adjust" => query[r].limit # 0
  /\ rpc[r] = "wals" =>
       /\ query[r].snap # None
       /\ GoodState(query[r].snap)
       /\ Past(query[r].snap)
       /\ \A s \in query[r].owed : s <= query[r].snap.published
  /\ \A s \in query[r].owed : current # None /\ s <= current.published
  /\ view[r] # None =>
       /\ GoodState(view[r].snap)
       /\ Past(view[r].snap)
       /\ \A s \in view[r].owed : s <= view[r].snap.published

IInv ==
  /\ TypeOK
  /\ StoreInv
  /\ \A w \in Writers : WriterOK(w)
  /\ \A i \in Indexers : IndexerOK(i)
  /\ KeysDistinct
  /\ ProbeLimitInPolicy
  /\ \A r \in Readers : ReaderOK(r)
-----------------------------------------------------------------------------
(* A second invariant, inductive relative to IInv: what the data files and *)
(* the batch indexes hold.                                                 *)

\* The data files F hold the chunks of every Append of the slots 1..n, each in
\* one file, and nothing else.
FilesExact(F, n) ==
  /\ \A f \in F : f.path \in DOMAIN data /\ data[f.path] \subseteq AppendsIn(1, n)
  /\ \A s \in AppendsIn(1, n) : \E f \in F : s \in data[f.path]
  /\ \A f, g \in F : f # g => data[f.path] \cap data[g.path] = {}

ManifestExact(m) ==
  /\ FilesExact(m.files, m.covered)
  /\ BatchIndexOf(m) = EntriesOf(1, m.covered)

IndexerExact(i) ==
  /\ ipc[i] = "data" => idx[i].files = ManifestOf(idx[i].snap).files
  /\ ipc[i] \in {"dedup", "manifest"} => FilesExact(idx[i].files, idx[i].end)
  /\ ipc[i] = "manifest" => dedups[idx[i].key] = EntriesOf(1, idx[i].end)

FilesInv ==
  /\ \A k \in DOMAIN data : k < keys
  /\ \A k \in DOMAIN manifests : ManifestExact(manifests[k])
  /\ \A i \in Indexers : IndexerExact(i)
  /\ \A r \in Readers :
       view[r] # None => view[r].snap.published <= view[r].through
=============================================================================
