------------------------- MODULE CloudPathTheorems --------------------------
(***************************************************************************)
(* What holds of the cloud path for any number of writers, indexers,       *)
(* queries, requests, attempts and faults, from the inductive invariant    *)
(* IInv of CloudPathInvariant: data files and batch indexes stay exact, the*)
(* induction, and the theorems.                                            *)
(***************************************************************************)
EXTENDS CloudPathSteps

USE DEF InitialKey

(* Data files and batch indexes stay exact. *)

\* The slots 1..n are those of 1..c and those behind c.
LEMMA SlotsSplit ==
  ASSUME NEW c \in Nat, NEW n \in Nat, c <= n
  PROVE  /\ AppendsIn(1, n) = AppendsIn(1, c) \cup AppendsIn(c + 1, n)
         /\ AppendsIn(1, c) \cap AppendsIn(c + 1, n) = {}
         /\ EntriesOf(1, n) = EntriesOf(1, c) \cup EntriesOf(c + 1, n)
<1>1. 1..n = (1..c) \cup (c + 1 .. n) /\ (1..c) \cap (c + 1 .. n) = {}
  OBVIOUS
<1>2. /\ AppendsIn(1, n) = AppendsIn(1, c) \cup AppendsIn(c + 1, n)
      /\ AppendsIn(1, c) \cap AppendsIn(c + 1, n) = {}
  BY <1>1, Zenon DEF AppendsIn
<1> DEFINE E(t) == {[id |-> b, seq |-> t, req |-> wal[t].req] : b \in BatchIds(wal[t])}
<1>3. \A first, last : EntriesOf(first, last) =
        UNION {E(t) : t \in {u \in first..last : Exists(u)}}
  BY Zenon DEF EntriesOf
<1> HIDE DEF E
<1>4. EntriesOf(1, n) = EntriesOf(1, c) \cup EntriesOf(c + 1, n)
  BY <1>1, <1>3
<1> QED
  BY <1>2, <1>4, Zenon

\* When the slots behind c up to n carry no rows, the files need not change.
LEMMA FilesUnchanged ==
  ASSUME NEW F, NEW c \in Nat, NEW n \in Nat, c <= n, FilesExact(F, c),
         AppendsIn(c + 1, n) = {}
  PROVE  FilesExact(F, n)
<1>1. AppendsIn(1, n) = AppendsIn(1, c)
  <2>1. AppendsIn(1, n) = AppendsIn(1, c) \cup AppendsIn(c + 1, n)
    BY SlotsSplit, Zenon
  <2> QED
    BY <2>1
<1> QED
  BY <1>1 DEF FilesExact

\* One more file, under a fresh key, extends the files from slot c to slot n.
LEMMA FileAdded ==
  ASSUME NEW F, NEW c \in Nat, NEW n \in Nat, c <= n, FilesExact(F, c),
         NEW g, g.path \notin DOMAIN data, DataGrows, UNCHANGED wal,
         g.path \in DOMAIN data', data'[g.path] = AppendsIn(c + 1, n)
  PROVE  FilesExact(F \cup {g}, n)'
<1>1. /\ AppendsIn(1, n) = AppendsIn(1, c) \cup AppendsIn(c + 1, n)
      /\ AppendsIn(1, c) \cap AppendsIn(c + 1, n) = {}
      /\ AppendsIn(1, n)' = AppendsIn(1, n)
  BY SlotsSplit, Zenon DEF AppendsIn, Exists
<1>2. \A f \in F : /\ f.path \in DOMAIN data' /\ data'[f.path] = data[f.path]
                   /\ data[f.path] \subseteq AppendsIn(1, c)
                   /\ f # g
  BY Zenon DEF FilesExact, DataGrows
<1>3. /\ \A s \in AppendsIn(1, c) : \E f \in F : s \in data[f.path]
      /\ \A f, h \in F : f # h => data[f.path] \cap data[h.path] = {}
  BY Zenon DEF FilesExact
<1>4. \A f \in F \cup {g} : f.path \in DOMAIN data' /\ data'[f.path] \subseteq AppendsIn(1, n)
  BY <1>1, <1>2, Zenon
<1>5. \A s \in AppendsIn(1, n) : \E f \in F \cup {g} : s \in data'[f.path]
  BY <1>1, <1>2, <1>3, Zenon
<1>6. \A f, h \in F \cup {g} : f # h => data'[f.path] \cap data'[h.path] = {}
  BY <1>1, <1>2, <1>3
<1> QED
  BY <1>1, <1>4, <1>5, <1>6 DEF FilesExact

\* The batch index an indexer writes has the entries of all slots it covers:
\* no batch is in two slots, so keeping one entry per batch drops none.
LEMMA MergedExact ==
  ASSUME IInv, NEW s \in State, NEW n \in Nat, n > s.indexed, Through(n),
         BatchIndexOf(ManifestOf(s)) = EntriesOf(1, s.indexed)
  PROVE  MergedEntries(s, n) = EntriesOf(1, n)
<1>1. s.indexed \in Nat /\ StoreTypeOK /\ ExactlyOnce
  BY DEF State, IInv, TypeOK, StoreInv, WalInv
<1>2. BatchIndexOf(ManifestOf(s)) \cup EntriesOf(s.indexed + 1, n) = EntriesOf(1, n)
  BY <1>1, SlotsSplit
<1>3. ASSUME NEW e \in EntriesOf(1, n), NEW f \in EntriesOf(1, n), f.id = e.id
      PROVE  e.seq <= f.seq
  <2>1. /\ EntrySound(e) /\ e.seq \in 1..n
        /\ EntrySound(f) /\ f.seq \in 1..n
    BY <1>1, EntriesOfSound
  <2>2. e.seq = f.seq
    BY <1>1, <1>3, <2>1, Zenon DEF ExactlyOnce, EntrySound, Exists
  <2> QED
    BY <2>1, <2>2
<1> QED
  BY <1>2, <1>3, Zenon DEF MergedEntries

\* No step changes a data file, and a new one has a key below the next one.
LEMMA DataStep ==
  ASSUME IInv, FilesInv, IInv', Grows, [Next]_vars
  PROVE  DataGrows /\ \A k \in DOMAIN data' : k < keys'
<1>1. keys \in Nat /\ keys' \in Nat /\ keys' >= keys /\ DOMAIN data \subseteq Nat
  BY Zenon DEF IInv, TypeOK, StoreTypeOK, Grows
<1>2. \A k \in DOMAIN data : k < keys
  BY Zenon DEF FilesInv
<1>3. CASE data' = data
  BY <1>1, <1>2, <1>3 DEF DataGrows
<1>4. ASSUME NEW D, data' = Stored(data, keys, D), keys' = keys + 1
      PROVE  DataGrows /\ \A k \in DOMAIN data' : k < keys'
  BY <1>1, <1>2, <1>4 DEF DataGrows, Stored
<1>5. ASSUME NEW w \in Writers, WriterStep(w)
      PROVE  data' = data
  BY <1>5, ZenonT(40) DEF WriterStep, WriterNext, storeVars, StartLoad,
     InitializeManifest, InitializeCurrent, StartReload, Acquire, FenceLoad,
     FenceSlot, FenceLanded, Confirm, ImportLoad, Dedup, Create, Landed,
     PublishLoad, PublishCas, Throw, Restart
<1>6. ASSUME NEW i \in Indexers, IndexerStep(i)
      PROVE  \/ data' = data
             \/ \E D : data' = Stored(data, keys, D) /\ keys' = keys + 1
  BY <1>6, Zenon DEF IndexerStep, IndexerNext, storeVars, IndexLoad, Scan,
     WriteDataFile, WriteBatchIndex, WriteManifest, PublishIndex, IndexThrow
<1>7. ASSUME NEW r \in Readers, ReaderStep(r)
      PROVE  data' = data
  BY <1>7, Zenon DEF ReaderStep, ReaderNext, storeVars
<1>8. StoreStep \/ UNCHANGED vars => data' = data
  BY Zenon DEF StoreStep, LandWal, LandCurrent, vars, storeVars
<1> QED
  BY <1>3, <1>4, <1>5, <1>6, <1>7, <1>8, ZenonT(40) DEF Next

\* Replacing a field of an indexer's locals, seen from the files.
LEMMA IndexFilesExcept ==
  ASSUME NEW q \in IndexJob, NEW x
  PROVE  /\ [q EXCEPT !.files = x].files = x
         /\ [q EXCEPT !.key = x].files = q.files
  BY DEF IndexJob

\* What an indexer's own step makes of its files and of the manifests.
LEMMA IndexerExactOwn ==
  ASSUME IInv, FilesInv, Grows, DataGrows, IInv',
         NEW i \in Indexers, IndexerNext(i)
  PROVE  /\ IndexerExact(i)'
         /\ (\A k \in DOMAIN manifests : ManifestExact(manifests[k]))'
<1>p. PICK snap, end, F, K : /\ snap = idx[i].snap /\ end = idx[i].end
                             /\ F = idx[i].files /\ K = idx[i].key
  BY Zenon
<1> DEFINE Kept == (\A k \in DOMAIN manifests : ManifestExact(manifests[k]))'
<1>0. /\ TypeOK /\ StoreTypeOK /\ IndexerTypeOK /\ StoreInv /\ MetaInv
      /\ IndexerOK(i) /\ IndexerExact(i)
      /\ \A k \in DOMAIN manifests : ManifestExact(manifests[k])
  BY Zenon DEF IInv, TypeOK, FilesInv, StoreInv
<1>a. /\ idx[i] \in IndexJob /\ end \in Nat /\ keys \in Nat
  BY <1>0, <1>p, Zenon DEF IndexerTypeOK, IndexJob, StoreTypeOK
<1>b. ipc[i] \in {"scan", "data", "dedup", "manifest", "cas"} =>
        /\ snap \in State /\ snap.indexed \in Nat
        /\ Through(snap.indexed)
        /\ ManifestExact(ManifestOf(snap)) /\ ManifestOf(snap).covered = snap.indexed
  <2>1. ipc[i] \in {"scan", "data", "dedup", "manifest", "cas"} =>
          snap # None /\ GoodState(snap)
    BY <1>0, <1>p, Zenon DEF IndexerOK, IndexPc
  <2>2. snap \in State \cup {None}
    BY <1>a, <1>p DEF IndexJob
  <2>3. snap \in State => snap.indexed \in Nat /\ snap.published \in Nat
    BY DEF State
  <2> QED
    BY <1>0, <2>1, <2>2, <2>3 DEF GoodState, Through, ManifestOf
<1>c. ipc[i] \in {"data", "dedup", "manifest"} => end > snap.indexed /\ Through(end)
  BY <1>0, <1>p, Zenon DEF IndexerOK
<1>d. manifests' = manifests => Kept
  BY <1>0, ManifestExactStable, Zenon DEF MetaInv
<1>e. ipc'[i] \notin {"data", "dedup", "manifest"} => IndexerExact(i)'
  BY Zenon DEF IndexerExact
<1>f. IndexReturn(i) \/ IndexRetry(i) => IndexerExact(i)'
  BY <1>0, <1>e, IndexBack
<1>1. CASE IndexLoad(i)
  BY <1>0, <1>1, <1>d, <1>e, IndexGotoValue, Zenon DEF IndexLoad, storeVars
<1>2. CASE Scan(i)
  <2>1. /\ ipc[i] = "scan" /\ UNCHANGED storeVars
        /\ \/ IndexReturn(i)
           \/ \E e \in snap.indexed .. snap.indexed + MaxWalPerPass :
                IndexGoto(i, IF AppendsIn(snap.indexed + 1, e) = {}
                               THEN "dedup" ELSE "data",
                          [snap |-> snap, end |-> e,
                           files |-> ManifestOf(snap).files, key |-> 0,
                           tries |-> idx[i].tries])
    BY <1>2, <1>p, Zenon DEF Scan
  <2>2. UNCHANGED <<wal, manifests, dedups, data>>
    BY <2>1, Zenon DEF storeVars
  <2>3. ASSUME NEW e \in snap.indexed .. snap.indexed + MaxWalPerPass,
               IndexGoto(i, IF AppendsIn(snap.indexed + 1, e) = {}
                               THEN "dedup" ELSE "data",
                          [snap |-> snap, end |-> e,
                           files |-> ManifestOf(snap).files, key |-> 0,
                           tries |-> idx[i].tries])
        PROVE  IndexerExact(i)'
    <3>0. PICK pass : pass = [snap |-> snap, end |-> e, files |-> ManifestOf(snap).files,
                            key |-> 0, tries |-> idx[i].tries]
      BY Zenon
    <3>a. PICK p : p = IF AppendsIn(snap.indexed + 1, e) = {} THEN "dedup" ELSE "data"
      BY Zenon
    <3>b. IndexGoto(i, p, pass)
      BY <2>3, <3>0, <3>a, Zenon
    <3>c. ipc'[i] = p /\ idx'[i] = pass
      BY <1>0, <3>b, IndexGotoValue, Zenon
    <3>d. pass.snap = snap /\ pass.end = e /\ pass.files = ManifestOf(snap).files
      BY <3>0
    <3>1. /\ ipc'[i] = IF AppendsIn(snap.indexed + 1, e) = {} THEN "dedup" ELSE "data"
          /\ idx'[i].snap = snap /\ idx'[i].end = e
          /\ idx'[i].files = ManifestOf(snap).files
      BY <3>a, <3>c, <3>d, Zenon
    <3>2. CASE AppendsIn(snap.indexed + 1, e) = {}
      <4>0. snap.indexed \in Nat
        BY <1>b, <2>1, Zenon
      <4>1. e \in Nat /\ snap.indexed <= e
        BY <4>0, IndexerAssumption
      <4>2. FilesExact(ManifestOf(snap).files, e)
        BY <1>b, <2>1, <3>2, <4>1, FilesUnchanged, ZenonT(40) DEF ManifestExact
      <4>3. FilesExact(idx[i].files, idx[i].end)'
        BY <2>2, <3>1, <4>2, Zenon DEF FilesExact, AppendsIn, Exists
      <4> QED
        BY <3>1, <3>2, <4>3, Zenon DEF IndexerExact
    <3>3. CASE AppendsIn(snap.indexed + 1, e) # {}
      BY <2>2, <3>1, <3>3, Zenon DEF IndexerExact, ManifestOf
    <3> QED
      BY <3>2, <3>3
  <2> QED
    BY <1>d, <1>f, <2>1, <2>2, <2>3, Zenon
<1>3. CASE WriteDataFile(i)
  <2>0. PICK g : g = [path |-> keys, first |-> snap.indexed + 1, last |-> end]
    BY Zenon
  <2>1. /\ ipc[i] = "data" /\ UNCHANGED <<wal, manifests, dedups>>
        /\ data' = Stored(data, keys, AppendsIn(snap.indexed + 1, end))
        /\ IndexGoto(i, "dedup", [idx[i] EXCEPT !.files = F \cup {g}])
    BY <1>3, <1>p, <2>0, Zenon DEF WriteDataFile
  <2>2. FilesExact(F, snap.indexed)
    BY <1>0, <1>b, <1>p, <2>1, Zenon DEF IndexerExact, ManifestExact
  <2>3. /\ g.path \notin DOMAIN data /\ g.path \in DOMAIN data'
        /\ data'[g.path] = AppendsIn(snap.indexed + 1, end)
    <3>1. keys \notin DOMAIN data
      BY <1>a DEF FilesInv
    <3> QED
      BY <2>0, <2>1, <3>1 DEF Stored
  <2>4. FilesExact(F \cup {g}, end)'
    <3>1. snap.indexed \in Nat /\ snap.indexed <= end
      BY <1>a, <1>b, <1>c, <2>1
    <3> QED
      BY <1>a, <2>1, <2>2, <2>3, <3>1, FileAdded, ZenonT(40)
  <2>5. ipc'[i] = "dedup" /\ idx'[i] = [idx[i] EXCEPT !.files = F \cup {g}]
    BY <1>0, <2>1, IndexGotoValue, Zenon
  <2>6. idx'[i].files = F \cup {g} /\ idx'[i].end = end
    BY <1>a, <1>p, <2>5, IndexFilesExcept, IndexJobExcept
  <2>7. FilesExact(idx[i].files, idx[i].end)'
    BY <2>4, <2>6, Zenon DEF FilesExact, AppendsIn, Exists
  <2> QED
    BY <1>d, <2>1, <2>5, <2>7, Zenon DEF IndexerExact
<1>4. CASE WriteBatchIndex(i)
  <2>1. /\ ipc[i] = "dedup" /\ UNCHANGED <<wal, manifests, data>>
        /\ dedups' = Stored(dedups, keys, MergedEntries(snap, end))
        /\ \/ IndexRetry(i)
           \/ IndexGoto(i, "manifest", [idx[i] EXCEPT !.key = keys])
    BY <1>4, <1>p, Zenon DEF WriteBatchIndex, PutFresh
  <2>2. ASSUME IndexGoto(i, "manifest", [idx[i] EXCEPT !.key = keys])
        PROVE  IndexerExact(i)'
    <3>1. ipc'[i] = "manifest" /\ idx'[i] = [idx[i] EXCEPT !.key = keys]
      BY <1>0, <2>2, IndexGotoValue, ZenonT(40)
    <3>2. idx'[i].files = F /\ idx'[i].end = end /\ idx'[i].key = keys
      BY <1>a, <1>p, <3>1, IndexFilesExcept, IndexJobExcept
    <3>3. MergedEntries(snap, end) = EntriesOf(1, end)
      BY <1>a, <1>b, <1>c, <2>1, MergedExact, Zenon DEF ManifestExact
    <3>4. dedups'[keys] = EntriesOf(1, end) /\ EntriesOf(1, end)' = EntriesOf(1, end)
      <4>1. dedups'[keys] = MergedEntries(snap, end)
        BY <2>1, Zenon DEF Stored
      <4> QED
        BY <1>c, <2>1, <3>3, <4>1, SlotsStable, Zenon
    <3>5. FilesExact(F, end)
      BY <1>0, <1>p, <2>1, Zenon DEF IndexerExact
    <3>6. FilesExact(idx[i].files, idx[i].end)'
      BY <2>1, <3>2, <3>5, Zenon DEF FilesExact, AppendsIn, Exists
    <3>7. dedups'[idx'[i].key] = EntriesOf(1, idx[i].end)'
      BY <3>2, <3>4, Zenon DEF EntriesOf, Exists
    <3> QED
      BY <3>1, <3>6, <3>7 DEF IndexerExact
  <2> QED
    BY <1>d, <1>f, <2>1, <2>2, Zenon
<1>5. CASE WriteManifest(i)
  <2>0. PICK m : m = [covered |-> end, files |-> F, index |-> {K}]
    BY Zenon
  <2>1. /\ ipc[i] = "manifest" /\ UNCHANGED <<wal, dedups, data>>
        /\ manifests' = Stored(manifests, K, m)
        /\ \/ IndexRetry(i)
           \/ IndexGoto(i, "cas", [idx[i] EXCEPT !.key = idx[i].key])
    BY <1>5, <1>p, <2>0, Zenon DEF WriteManifest, PutFresh
  <2>2. IndexerExact(i)'
    BY <1>0, <1>e, <1>f, <2>1, IndexGotoValue
  <2>3. FilesExact(m.files, m.covered) /\ BatchIndexOf(m) = EntriesOf(1, m.covered)
    BY <1>0, <1>p, <2>0, <2>1, Zenon DEF IndexerExact, BatchIndexOf
  <2>4. ManifestExact(m)'
    <3>1. Through(m.covered)
      BY <1>c, <2>0, <2>1
    <3>2. FilesExact(m.files, m.covered)' /\ EntriesOf(1, m.covered)' = EntriesOf(1, m.covered)
      BY <2>3, <3>1, FilesStable, SlotsStable, Zenon
    <3>3. BatchIndexOf(m)' = BatchIndexOf(m)
      BY <2>1, Zenon DEF BatchIndexOf
    <3> QED
      BY <2>3, <3>2, <3>3, Zenon DEF ManifestExact
  <2>5. ASSUME NEW k \in DOMAIN manifests'
        PROVE  ManifestExact(manifests[k])'
    <3>1. CASE k = K
      <4>1. manifests'[k] = m
        BY <2>1, <3>1, Zenon DEF Stored
      <4> QED
        BY <2>4, <4>1, Zenon DEF ManifestExact, FilesExact, BatchIndexOf, EntriesOf,
           AppendsIn, Exists
    <3>2. CASE k # K
      <4>1. k \in DOMAIN manifests /\ manifests'[k] = manifests[k]
        BY <2>1, <2>5, <3>2, Zenon DEF Stored
      <4>2. ManifestExact(manifests[k]) /\ ManifestGood(manifests[k])
        BY <1>0, <4>1, Zenon DEF MetaInv
      <4> QED
        BY <4>1, <4>2, ManifestExactStable, Zenon DEF ManifestExact, FilesExact,
           BatchIndexOf, EntriesOf, AppendsIn, Exists
    <3> QED
      BY <3>1, <3>2
  <2> QED
    BY <2>2, <2>5, Zenon
<1>6. CASE PublishIndex(i) \/ IndexThrow(i)
  <2>1. manifests' = manifests /\ (IndexReturn(i) \/ IndexRetry(i))
    BY <1>6, Zenon DEF PublishIndex, IndexThrow
  <2> QED
    BY <1>d, <1>f, <2>1, Zenon
<1> QED
  BY <1>1, <1>2, <1>3, <1>4, <1>5, <1>6, Zenon DEF IndexerNext

\* A snapshot reaches at least to the published slots it was taken with.
LEMMA ViewStep ==
  ASSUME IInv, FilesInv, NEW r \in Readers, ReaderStep(r)
  PROVE  \A k \in Readers :
           view'[k] # None => view'[k].snap.published <= view'[k].through
<1>0. ReaderTypeOK /\ ReaderOK(r)
  BY Zenon DEF IInv, TypeOK
<1>1. \A k \in Readers : view[k] # None => view[k].snap.published <= view[k].through
  BY Zenon DEF FilesInv
<1>2. CASE view' = view
  BY <1>1, <1>2, Zenon
<1>3. ASSUME ReadWals(r), view' # view
      PROVE  \A k \in Readers :
               view'[k] # None => view'[k].snap.published <= view'[k].through
  <2>1. PICK n \in 0..query[r].limit :
          view' = [view EXCEPT ![r] = [snap |-> query[r].snap,
                                       through |-> query[r].snap.published + n,
                                       owed |-> query[r].owed]]
    BY <1>3, Zenon DEF ReadWals
  <2>2. query[r].snap \in State /\ query[r].limit \in Nat
    BY <1>0, <1>3, Zenon DEF ReadWals, ReaderOK, ReaderTypeOK, Query
  <2>3. query[r].snap.published <= query[r].snap.published + n
    BY <2>2 DEF State
  <2> QED
    BY <1>0, <1>1, <2>1, <2>3, Zenon DEF ReaderTypeOK
<1>4. view' = view \/ ReadWals(r)
  BY Zenon DEF ReaderStep, ReaderNext, LoadSnapshot, ReadCurrent, AdjustProbe,
     ReadThrow
<1> QED
  BY <1>2, <1>3, <1>4, Zenon

-----------------------------------------------------------------------------
(* The inductive invariant *)

\* A step of one writer leaves the locals of the others alone.
LEMMA WriterOthers ==
  ASSUME WriterTypeOK, NEW w \in Writers, WriterNext(w),
         NEW v \in Writers, v # w
  PROVE  /\ pc'[v] = pc[v] /\ job'[v] = job[v]
         /\ epoch'[v] = epoch[v] /\ nextSeq'[v] = nextSeq[v]
         /\ reply'[v] = reply[v]
<1>1. /\ \A p, j : Goto(w, p, j) => pc'[v] = pc[v] /\ job'[v] = job[v]
      /\ Return(w) => pc'[v] = pc[v] /\ job'[v] = job[v]
  BY DEF WriterTypeOK, Goto, Return
<1>2. /\ \A code, seq : Report(w, code, seq) => reply'[v] = reply[v]
      /\ \A x : epoch' = [epoch EXCEPT ![w] = x] => epoch'[v] = epoch[v]
      /\ \A x : nextSeq' = [nextSeq EXCEPT ![w] = x] => nextSeq'[v] = nextSeq[v]
      /\ \A x : reply' = [reply EXCEPT ![w] = x] => reply'[v] = reply[v]
  BY Zenon DEF WriterTypeOK, Report
<1>3. Written(w) => /\ pc'[v] = pc[v] /\ job'[v] = job[v]
                    /\ nextSeq'[v] = nextSeq[v] /\ reply'[v] = reply[v]
  BY <1>1, <1>2, Zenon DEF Written
<1>4. CASE StartLoad(w) \/ InitializeManifest(w) \/ InitializeCurrent(w)
             \/ StartReload(w) \/ Acquire(w) \/ FenceLoad(w)
  BY <1>1, <1>4, Zenon DEF StartLoad, InitializeManifest, InitializeCurrent,
                    StartReload, Acquire, FenceLoad
<1>5. CASE FenceSlot(w) \/ FenceLanded(w) \/ Confirm(w) \/ Throw(w) \/ Restart(w)
  BY <1>1, <1>2, <1>5, Zenon DEF FenceSlot, FenceLanded, Confirm, Throw, Restart
<1>6. CASE (\E r \in Requests, vis \in Visibility : ImportLoad(w, r, vis)) \/ Dedup(w)
  BY <1>1, <1>2, <1>6, Zenon DEF ImportLoad, Dedup
<1>7. CASE Create(w) \/ Landed(w)
  BY <1>1, <1>2, <1>3, <1>7, Zenon DEF Create, Landed
<1>8. CASE PublishLoad(w) \/ PublishCas(w)
  BY <1>1, <1>2, <1>8, Zenon DEF PublishLoad, PublishCas
<1> QED
  BY <1>4, <1>5, <1>6, <1>7, <1>8, Zenon DEF WriterNext

\* Writers write no manifest but the initial one.
LEMMA WriterManifests ==
  ASSUME NEW w \in Writers, WriterNext(w)
  PROVE  DOMAIN manifests' \subseteq DOMAIN manifests \cup {InitialKey}
<1>1. CASE InitializeManifest(w)
  BY <1>1 DEF InitializeManifest, Stored
<1>2. CASE ~InitializeManifest(w)
  <2>1. manifests' = manifests
    BY <1>2, ZenonT(40) DEF WriterNext, storeVars, StartLoad, InitializeCurrent, StartReload,
       Acquire, FenceLoad, FenceSlot, FenceLanded, Confirm, ImportLoad, Dedup,
       Create, Landed, PublishLoad, PublishCas, Throw, Restart
  <2> QED
    BY <2>1, Zenon
<1> QED
  BY <1>1, <1>2

\* The initial state satisfies the invariant.
LEMMA IInvInit == Init => IInv
<1> SUFFICES ASSUME Init PROVE IInv
  OBVIOUS
<1>1. TypeOK
  BY TypeInit, Zenon
<1>2. StoreInv
  BY DEF Init, StoreInit, Empty, StoreInv, WalInv, MetaInv, LateInv,
         WalContiguous, EpochsNondecreasing, ExactlyOnce
<1>3. \A w \in Writers : WriterOK(w)
  BY Zenon DEF Init, WriterInit, WriterOK, ReplyOK, FencingPc, SnapPc, ImportPc
<1>4. (\A i \in Indexers : IndexerOK(i)) /\ KeysDistinct
  BY Zenon DEF Init, IndexerInit, IndexerOK, KeysDistinct
<1>5. (\A r \in Readers : ReaderOK(r)) /\ ProbeLimitInPolicy
  BY ProbeAssumption DEF Init, ReaderInit, ReaderOK, NoQuery, ProbeLimitInPolicy
<1> QED
  BY <1>1, <1>2, <1>3, <1>4, <1>5, ZenonT(40) DEF IInv

\* Every step keeps the invariant, and the store grows.
LEMMA IInvStep ==
  ASSUME IInv, [Next]_vars
  PROVE  Grows /\ IInv'
<1> USE DEF writerVars, indexerVars, readerVars
<1>0. /\ TypeOK /\ TypeOK' /\ StoreInv /\ WriterTypeOK /\ IndexerTypeOK
      /\ \A w \in Writers : WriterOK(w)
      /\ \A i \in Indexers : IndexerOK(i)
      /\ \A r \in Readers : ReaderOK(r)
      /\ KeysDistinct /\ ProbeLimitInPolicy
  BY TypeStep DEF IInv, TypeOK
<1>1. SafeStep => Grows /\ StoreInv'
  BY <1>0, StoreInvStep
<1>2. ASSUME Grows, UNCHANGED writerVars
      PROVE  (\A w \in Writers : WriterOK(w))'
  BY <1>0, <1>2, WriterStable, Zenon
<1>3. ASSUME Grows, UNCHANGED indexerVars,
             DOMAIN manifests' \subseteq DOMAIN manifests \cup {InitialKey}
      PROVE  (\A i \in Indexers : IndexerOK(i))' /\ KeysDistinct'
  <2>1. ASSUME NEW i \in Indexers
        PROVE  ipc[i] = "manifest" => idx[i].key \notin DOMAIN manifests'
    BY <1>0, <1>3 DEF IndexerOK
  <2> QED
    BY <1>0, <1>3, <2>1, IndexerStable, ZenonT(40) DEF KeysDistinct
<1>4. ASSUME Grows, UNCHANGED readerVars
      PROVE  (\A r \in Readers : ReaderOK(r))' /\ ProbeLimitInPolicy'
  BY <1>0, <1>4, ReaderStable DEF ProbeLimitInPolicy
<1>5. ASSUME NEW w \in Writers, WriterStep(w)
      PROVE  Grows /\ IInv'
  <2>1. Grows /\ StoreInv'
    BY <1>1, <1>5, WriterSafe DEF WriterStep
  <2>2. ASSUME NEW v \in Writers
        PROVE  WriterOK(v)'
    <3>1. CASE v = w
      BY <1>0, <1>5, <2>1, <3>1, WriterOwn, Zenon DEF WriterStep
    <3>2. CASE v # w
      BY <1>0, <1>5, <2>1, <3>2, WriterOthers, WriterStable, ZenonT(40) DEF WriterStep
    <3> QED
      BY <3>1, <3>2
  <2>3. (\A i \in Indexers : IndexerOK(i))' /\ KeysDistinct'
    BY <1>3, <1>5, <2>1, WriterManifests DEF WriterStep
  <2>4. (\A r \in Readers : ReaderOK(r))' /\ ProbeLimitInPolicy'
    BY <1>4, <1>5, <2>1 DEF WriterStep
  <2> QED
    BY <1>0, <2>1, <2>2, <2>3, <2>4, Zenon DEF IInv
<1>6. ASSUME NEW i \in Indexers, IndexerStep(i)
      PROVE  Grows /\ IInv'
  <2>1. Grows /\ StoreInv'
    BY <1>1, <1>6, IndexerSafe, Zenon DEF IndexerStep
  <2>2. /\ IndexerOK(i)'
        /\ \A k \in Indexers : k # i => ipc'[k] = ipc[k] /\ idx'[k] = idx[k]
        /\ ipc'[i] = "manifest" => idx'[i].key = keys
        /\ \/ manifests' = manifests
           \/ /\ ipc[i] = "manifest"
              /\ DOMAIN manifests' = DOMAIN manifests \cup {idx[i].key}
    BY <1>0, <1>6, <2>1, IndexerOwn, Zenon DEF IndexerStep
  <2>3. ASSUME NEW k \in Indexers
        PROVE  IndexerOK(k)'
    <3>1. CASE k = i
      BY <2>2, <3>1, Zenon
    <3>2. CASE k # i
      <4>1. ipc[k] = "manifest" => idx[k].key \notin DOMAIN manifests'
        BY <1>0, <2>2, <3>2, Zenon DEF IndexerOK, KeysDistinct
      <4> QED
        BY <1>0, <2>1, <2>2, <3>2, <4>1, IndexerStable, ZenonT(40)
    <3> QED
      BY <3>1, <3>2
  <2>4. KeysDistinct'
    <3>1. \A k \in Indexers : ipc[k] = "manifest" => idx[k].key < keys /\ idx[k].key \in Nat
      BY <1>0, Zenon DEF IndexerOK, IndexerTypeOK, IndexJob
    <3>2. keys \in Nat
      BY <1>0, Zenon DEF TypeOK, StoreTypeOK
    <3>3. \A k \in Indexers : k # i /\ ipc[k] = "manifest" => idx[k].key # keys
      BY <3>1, <3>2
    <3> SUFFICES ASSUME NEW a \in Indexers, NEW b \in Indexers, a # b,
                        ipc'[a] = "manifest", ipc'[b] = "manifest"
                 PROVE  idx'[a].key # idx'[b].key
      BY Zenon DEF KeysDistinct
    <3>4. CASE a = i
      BY <2>2, <3>3, <3>4, Zenon
    <3>5. CASE b = i
      BY <2>2, <3>3, <3>5, Zenon
    <3>6. CASE a # i /\ b # i
      BY <1>0, <2>2, <3>6, ZenonT(40) DEF KeysDistinct
    <3> QED
      BY <3>4, <3>5, <3>6, Zenon
  <2>5. (\A w \in Writers : WriterOK(w))'
    BY <1>2, <1>6, <2>1, Zenon DEF IndexerStep
  <2>6. (\A r \in Readers : ReaderOK(r))' /\ ProbeLimitInPolicy'
    BY <1>4, <1>6, <2>1, Zenon DEF IndexerStep
  <2> QED
    BY <1>0, <2>1, <2>3, <2>4, <2>5, <2>6, ZenonT(40) DEF IInv
<1>7. ASSUME NEW r \in Readers, ReaderStep(r)
      PROVE  Grows /\ IInv'
  <2>0. UNCHANGED storeVars
    BY <1>7 DEF ReaderStep, ReaderNext
  <2>1. Grows /\ StoreInv'
    BY <1>1, <2>0, IdleSafe, Zenon DEF storeVars
  <2>2. /\ ReaderOK(r)' /\ ProbeLimitInPolicy'
        /\ \A k \in Readers : k # r =>
             rpc'[k] = rpc[k] /\ query'[k] = query[k] /\ view'[k] = view[k]
    BY <1>7, ReaderOwn DEF ReaderStep
  <2>3. ASSUME NEW k \in Readers
        PROVE  ReaderOK(k)'
    <3>1. CASE k = r
      BY <2>2, <3>1, Zenon
    <3>2. CASE k # r
      BY <1>0, <2>1, <2>2, <3>2, ReaderStable, ZenonT(40)
    <3> QED
      BY <3>1, <3>2
  <2>4. (\A w \in Writers : WriterOK(w))'
    BY <1>2, <1>7, <2>1 DEF ReaderStep
  <2>5. (\A i \in Indexers : IndexerOK(i))' /\ KeysDistinct'
    BY <1>3, <1>7, <2>0, <2>1, Zenon DEF ReaderStep, storeVars
  <2> QED
    BY <1>0, <2>1, <2>2, <2>3, <2>4, <2>5, ZenonT(40) DEF IInv
<1>8. CASE StoreStep
  <2>1. Grows /\ StoreInv'
    BY <1>1, <1>8, LateSafe
  <2>2. (\A w \in Writers : WriterOK(w))'
    BY <1>2, <1>8, <2>1, Zenon DEF StoreStep
  <2>3. (\A i \in Indexers : IndexerOK(i))' /\ KeysDistinct'
    BY <1>3, <1>8, <2>1, Zenon DEF StoreStep, LandWal, LandCurrent
  <2>4. (\A r \in Readers : ReaderOK(r))' /\ ProbeLimitInPolicy'
    BY <1>4, <1>8, <2>1, ZenonT(40) DEF StoreStep
  <2> QED
    BY <1>0, <2>1, <2>2, <2>3, <2>4, ZenonT(40) DEF IInv
<1>9. CASE UNCHANGED vars
  <2>0. UNCHANGED storeVars /\ UNCHANGED <<writerVars, indexerVars, readerVars>>
    BY <1>9 DEF vars
  <2>1. Grows /\ StoreInv'
    BY <1>1, <2>0, IdleSafe DEF storeVars
  <2>2. (\A w \in Writers : WriterOK(w))'
    BY <1>2, <2>0, <2>1
  <2>3. (\A i \in Indexers : IndexerOK(i))' /\ KeysDistinct'
    BY <1>3, <2>0, <2>1 DEF storeVars
  <2>4. (\A r \in Readers : ReaderOK(r))' /\ ProbeLimitInPolicy'
    BY <1>4, <2>0, <2>1
  <2> QED
    BY <1>0, <2>1, <2>2, <2>3, <2>4, Zenon DEF IInv
<1> QED
  BY <1>5, <1>6, <1>7, <1>8, <1>9, ZenonT(40) DEF Next

-----------------------------------------------------------------------------
(* What follows from it *)

\* Every step does to the store only what a safe step may do.
LEMMA StepSafe ==
  ASSUME IInv, [Next]_vars
  PROVE  SafeStep
<1>1. ASSUME NEW w \in Writers, WriterStep(w)
      PROVE  SafeStep
  BY <1>1, WriterSafe DEF WriterStep
<1>2. ASSUME NEW i \in Indexers, IndexerStep(i)
      PROVE  SafeStep
  BY <1>2, IndexerSafe DEF IndexerStep
<1>3. ASSUME NEW r \in Readers, ReaderStep(r)
      PROVE  SafeStep
  BY <1>3, IdleSafe DEF ReaderStep, ReaderNext, storeVars
<1>4. CASE StoreStep
  BY <1>4, LateSafe
<1>5. CASE UNCHANGED vars
  BY <1>5, IdleSafe DEF vars, storeVars
<1> QED
  BY <1>1, <1>2, <1>3, <1>4, <1>5, ZenonT(40) DEF Next

\* The invariant holds in every reachable state.
THEOREM Invariance == Spec => []IInv
<1>1. IInv /\ [Next]_vars => IInv'
  BY IInvStep
<1> QED
  BY <1>1, IInvInit, PTL DEF Spec

\* Every variable keeps its type, whatever calls of Start, Import, Index and
\* LoadSnapshot interleave.
THEOREM TypesCorrect == Spec => []TypeOK
<1>1. IInv => TypeOK
  BY DEF IInv
<1> QED
  BY <1>1, Invariance, PTL

\* The WAL has no gap: Import and Start create a slot only behind existing
\* ones, and so do PUTs whose replies were lost.
THEOREM LogContiguous == Spec => []WalContiguous
<1>1. IInv => WalContiguous
  BY DEF IInv, StoreInv, WalInv
<1> QED
  BY <1>1, Invariance, PTL

\* Fencing works: no record of an older epoch lies behind a newer one, so the
\* conditional create of a superseded writer fails.
THEOREM FencingHolds == Spec => []EpochsNondecreasing
<1>1. IInv => EpochsNondecreasing
  BY DEF IInv, StoreInv, WalInv
<1> QED
  BY <1>1, Invariance, PTL

\* Import is idempotent: a batch id is in at most one slot of the log.
THEOREM ImportedOnce == Spec => []ExactlyOnce
<1>1. IInv => ExactlyOnce
  BY ZenonT(40) DEF IInv, StoreInv, WalInv
<1> QED
  BY <1>1, Invariance, PTL

\* What Import reported as durable or committed stays so.
THEOREM AcknowledgedStays == Spec => []AcksHold
<1>1. IInv => AcksHold
  BY ZenonT(40) DEF IInv, WriterOK, ReplyOK, AcksHold
<1> QED
  BY <1>1, Invariance, PTL

\* C <= P in CURRENT and every published slot exists.
THEOREM PublishedBacked == Spec => []WatermarksBacked
<1>1. IInv => WatermarksBacked
  BY DEF IInv, StoreInv, GoodState, Through, WatermarksBacked
<1> QED
  BY <1>1, Invariance, PTL

\* CompareExchange never throws for an invalid transition.
THEOREM NoInvalidTransition == Spec => []TransitionsValid
<1>1. ASSUME IInv PROVE TransitionsValid
  <2>0. /\ \A w \in Writers : job[w] \in Job /\ WriterOK(w)
        /\ \A i \in Indexers : idx[i] \in IndexJob /\ IndexerOK(i)
    BY <1>1 DEF IInv, TypeOK, WriterTypeOK, IndexerTypeOK
  <2>1. ASSUME NEW w \in Writers, pc[w] = "acquire"
        PROVE  ValidTransition(job[w].snap, AcquireEpoch(job[w].snap))
    <3>1. job[w].snap # None /\ job[w].snap.indexed <= job[w].snap.published
      BY <2>0, <2>1, Zenon DEF WriterOK, SnapPc, GoodState
    <3>2. PICK s \in State : s = job[w].snap
      BY <2>0, <3>1, Zenon DEF Job
    <3>3. /\ s.version \in Nat /\ s.epoch \in Nat /\ s.indexed \in Nat
          /\ s.published \in Nat /\ s.indexed <= s.published
      BY <3>1, <3>2, Zenon DEF State
    <3>4. PICK t : t = AcquireEpoch(s)
      BY Zenon
    <3>5. /\ t.version = s.version + 1 /\ t.epoch = s.epoch + 1
          /\ t.indexed = s.indexed /\ t.published = s.published
      BY <3>4, StateFields
    <3>6. ValidTransition(s, t)
      BY <3>3, <3>5 DEF ValidTransition
    <3> QED
      BY <3>2, <3>4, <3>6, Zenon
  <2>2. ASSUME NEW w \in Writers, pc[w] = "pubCas"
        PROVE  ValidTransition(job[w].snap, PublishTo(job[w].snap, job[w].seq))
    <3>1. /\ job[w].snap # None
          /\ job[w].snap.indexed <= job[w].snap.published
          /\ job[w].snap.published < job[w].seq
      BY <2>0, <2>2, ZenonT(40) DEF WriterOK, SnapPc, GoodState
    <3>2. PICK s \in State, n \in Nat : s = job[w].snap /\ n = job[w].seq
      BY <2>0, <3>1, Zenon DEF Job
    <3>3. /\ s.version \in Nat /\ s.epoch \in Nat /\ s.indexed \in Nat
          /\ s.published \in Nat /\ s.indexed <= s.published /\ s.published < n
      BY <3>1, <3>2, Zenon DEF State
    <3>4. PICK t : t = PublishTo(s, n)
      BY Zenon
    <3>5. /\ t.version = s.version + 1 /\ t.epoch = s.epoch
          /\ t.indexed = s.indexed /\ t.published = n
      BY <3>4, StateFields
    <3>6. ValidTransition(s, t)
      BY <3>3, <3>5 DEF ValidTransition
    <3> QED
      BY <3>2, <3>4, <3>6, ZenonT(40)
  <2>3. ASSUME NEW i \in Indexers, ipc[i] = "cas"
        PROVE  ValidTransition(idx[i].snap,
                               IndexTo(idx[i].snap, idx[i].end, idx[i].key))
    <3>1. /\ idx[i].snap # None
          /\ idx[i].end > idx[i].snap.indexed
      BY <2>0, <2>3, Zenon DEF IndexerOK, IndexPc
    <3>2. PICK s \in State, n \in Nat : s = idx[i].snap /\ n = idx[i].end
      BY <2>0, <3>1, Zenon DEF IndexJob
    <3>3. /\ s.version \in Nat /\ s.epoch \in Nat /\ s.indexed \in Nat
          /\ s.published \in Nat /\ n > s.indexed
      BY <3>1, <3>2, Zenon DEF State
    <3>4. PICK t : t = IndexTo(s, n, idx[i].key)
      BY Zenon
    <3>5. /\ t.version = s.version + 1 /\ t.epoch = s.epoch /\ t.indexed = n
          /\ t.published = IF n > s.published THEN n ELSE s.published
      BY <3>4, Zenon DEF IndexTo
    <3>6. ValidTransition(s, t)
      BY <3>3, <3>5 DEF ValidTransition
    <3> QED
      BY <3>2, <3>4, <3>6, Zenon
  <2> QED
    BY <2>1, <2>2, <2>3, ZenonT(40) DEF TransitionsValid
<1> QED
  BY <1>1, Invariance, PTL

\* CURRENT only moves along valid transitions, late writes included.
THEOREM CurrentAdvances == Spec => StateVersionsIncrease
<1>1. ASSUME IInv, [Next]_vars
      PROVE  [current' # current /\ current # None =>
                current' # None /\ ValidTransition(current, current')]_vars
  BY <1>1, StepSafe, NoneAssumption DEF SafeStep, SafeCurrent
<1> QED
  BY <1>1, Invariance, PTL DEF Spec, StateVersionsIncrease

\* No slot of the WAL is ever overwritten or removed.
THEOREM LogImmutable == Spec => WalImmutable
<1>1. ASSUME IInv, [Next]_vars
      PROVE  [\A s \in DOMAIN wal : s \in DOMAIN wal' /\ wal'[s] = wal[s]]_vars
  BY <1>1, IInvStep, Zenon DEF Grows
<1> QED
  BY <1>1, Invariance, PTL DEF Spec, WalImmutable

-----------------------------------------------------------------------------
(* The data files *)

\* A writer adds no manifest but the initial one, which is exact: it covers no
\* slot and has no file.
LEMMA InitialExact ==
  ASSUME IInv, FilesInv, Grows, DataGrows, IInv',
         DOMAIN manifests' \subseteq DOMAIN manifests \cup {InitialKey}
  PROVE  (\A k \in DOMAIN manifests : ManifestExact(manifests[k]))'
<1> SUFFICES ASSUME NEW k \in DOMAIN manifests'
             PROVE  ManifestExact(manifests[k])'
  BY Zenon
<1>1. CASE k \in DOMAIN manifests
  <2>1. /\ manifests'[k] = manifests[k]
        /\ ManifestExact(manifests[k]) /\ ManifestGood(manifests[k])
    BY <1>1, Zenon DEF Grows, FilesInv, IInv, StoreInv, MetaInv
  <2>2. PICK m : m = manifests[k]
    BY Zenon
  <2>3. ManifestExact(m)'
    BY <2>1, <2>2, ManifestExactStable, Zenon
  <2> QED
    BY <2>1, <2>2, <2>3, ZenonT(40) DEF ManifestExact, FilesExact, BatchIndexOf,
       EntriesOf, AppendsIn, Exists
<1>2. CASE k \notin DOMAIN manifests
  <2>1. manifests'[k] = InitialManifest
    BY <1>2, Zenon DEF IInv, StoreInv, MetaInv
  <2>2. /\ manifests'[k].covered = 0 /\ manifests'[k].files = {}
        /\ manifests'[k].index = {}
    BY <2>1 DEF InitialManifest
  <2>3. 1..0 = {}
    OBVIOUS
  <2>4. AppendsIn(1, 0)' = {} /\ EntriesOf(1, 0)' = {}
    BY <2>3 DEF AppendsIn, EntriesOf
  <2>5. BatchIndexOf(manifests[k])' = {}
    BY <2>2 DEF BatchIndexOf
  <2>6. FilesExact(manifests[k].files, manifests[k].covered)'
    BY <2>2, <2>4 DEF FilesExact
  <2>7. EntriesOf(1, manifests[k].covered)' = {}
    BY <2>2, <2>4
  <2> QED
    BY <2>5, <2>6, <2>7, Zenon DEF ManifestExact
<1> QED
  BY <1>1, <1>2

\* Every step keeps the data files and batch indexes exact.
LEMMA FilesStep ==
  ASSUME IInv, FilesInv, [Next]_vars
  PROVE  FilesInv'
<1>0. Grows /\ IInv' /\ DataGrows /\ \A k \in DOMAIN data' : k < keys'
  <2>1. Grows /\ IInv'
    BY IInvStep, Zenon
  <2> QED
    BY <2>1, DataStep, Zenon
<1>1. ASSUME UNCHANGED indexerVars
      PROVE  (\A i \in Indexers : IndexerExact(i))'
  BY <1>0, <1>1, IndexerExactStable, Zenon DEF indexerVars, FilesInv
<1>2. ASSUME UNCHANGED readerVars
      PROVE  \A r \in Readers :
               view'[r] # None => view'[r].snap.published <= view'[r].through
  BY <1>2, Zenon DEF readerVars, FilesInv
<1>3. ASSUME DOMAIN manifests' \subseteq DOMAIN manifests \cup {InitialKey}
      PROVE  (\A k \in DOMAIN manifests : ManifestExact(manifests[k]))'
  BY <1>0, <1>3, InitialExact, Zenon
<1>4. ASSUME NEW w \in Writers, WriterStep(w)
      PROVE  FilesInv'
  <2>1. /\ DOMAIN manifests' \subseteq DOMAIN manifests \cup {InitialKey}
        /\ UNCHANGED indexerVars /\ UNCHANGED readerVars
    BY <1>4, WriterManifests DEF WriterStep
  <2> QED
    BY <1>0, <1>1, <1>2, <1>3, <2>1, ZenonT(40) DEF FilesInv
<1>5. ASSUME NEW i \in Indexers, IndexerStep(i)
      PROVE  FilesInv'
  <2>1. /\ IndexerExact(i)'
        /\ (\A k \in DOMAIN manifests : ManifestExact(manifests[k]))'
    BY <1>0, <1>5, IndexerExactOwn, Zenon DEF IndexerStep
  <2>2. \A j \in Indexers : j # i => ipc'[j] = ipc[j] /\ idx'[j] = idx[j]
    BY <1>0, <1>5, IndexerOwn, Zenon DEF IndexerStep, IInv
  <2>3. (\A j \in Indexers : IndexerExact(j))'
    BY <1>0, <2>1, <2>2, IndexerExactStable, ZenonT(40) DEF FilesInv
  <2>4. UNCHANGED readerVars
    BY <1>5 DEF IndexerStep
  <2> QED
    BY <1>0, <1>2, <2>1, <2>3, <2>4, ZenonT(40) DEF FilesInv
<1>6. ASSUME NEW r \in Readers, ReaderStep(r)
      PROVE  FilesInv'
  <2>1. manifests' = manifests /\ UNCHANGED indexerVars
    BY <1>6 DEF ReaderStep, ReaderNext, storeVars
  <2> QED
    BY <1>0, <1>1, <1>3, <1>6, <2>1, ViewStep, ZenonT(40) DEF FilesInv
<1>7. CASE StoreStep \/ UNCHANGED vars
  <2>1. manifests' = manifests /\ UNCHANGED indexerVars /\ UNCHANGED readerVars
    BY <1>7 DEF StoreStep, LandWal, LandCurrent, vars, storeVars
  <2> QED
    BY <1>0, <1>1, <1>2, <1>3, <2>1, ZenonT(40) DEF FilesInv
<1> QED
  BY <1>4, <1>5, <1>6, <1>7 DEF Next

\* The data files and batch indexes are exact in every reachable state: of
\* every manifest ever written, not only the one CURRENT names.
THEOREM FilesAlwaysExact == Spec => []FilesInv
<1>1. Init => FilesInv
  BY DEF Init, StoreInit, Empty, IndexerInit, ReaderInit, FilesInv, IndexerExact
<1>2. IInv /\ FilesInv /\ [Next]_vars => FilesInv'
  BY FilesStep
<1> QED
  BY <1>1, <1>2, Invariance, PTL DEF Spec

\* The manifest CURRENT names covers its indexed slots exactly: indexing
\* loses and repeats no row and no batch.
THEOREM IndexingComplete == Spec => []ManifestComplete
<1>1. ASSUME IInv, FilesInv, current # None
      PROVE  ManifestComplete
  <2> DEFINE m == ManifestOf(current)
  <2>1. /\ current.manifest \in DOMAIN manifests /\ m.covered = current.indexed
        /\ ManifestExact(m) /\ ManifestGood(m)
    BY <1>1 DEF IInv, StoreInv, GoodState, MetaInv, FilesInv, ManifestOf
  <2> HIDE DEF m
  <2>2. /\ \A f \in m.files : f.path \in DOMAIN data
        /\ \A f, g \in m.files : f # g => data[f.path] \cap data[g.path] = {}
        /\ BatchIndexOf(m) = EntriesOf(1, current.indexed)
        /\ m.index \subseteq DOMAIN dedups
    BY <2>1, Zenon DEF ManifestExact, FilesExact, ManifestGood
  <2>3. UNION {data[f.path] : f \in m.files} = AppendsIn(1, current.indexed)
    BY <2>1 DEF ManifestExact, FilesExact
  <2> QED
    BY <2>1, <2>2, <2>3, ZenonT(40) DEF ManifestComplete, m
<1>2. IInv /\ FilesInv => ManifestComplete
  BY <1>1 DEF ManifestComplete
<1> QED
  BY <1>2, Invariance, FilesAlwaysExact, PTL

-----------------------------------------------------------------------------
(* Refinement: the cloud path implements the commit log. *)

\* The empty table is the empty log.
LEMMA PromiseInit ==
  ASSUME Init
  PROVE  Promise!Init
BY DEF Init, StoreInit, WriterInit, Empty, Promise!Init

\* A slot created in the WAL is an entry appended to the log.
LEMMA PromiseAppend ==
  ASSUME IInv, SafeStep, wal' # wal
  PROVE  \E e \in Requests \cup {None} : Promise!AppendEntry(e)
<1> DEFINE log == [s \in DOMAIN wal |-> wal[s].req]
<1>1. PICK s \in Nat \ {0}, rec \in Wal :
        ~Exists(s) /\ PutOK(s, rec) /\ wal' = Stored(wal, s, rec)
  BY DEF SafeStep, SafeWal
<1>2. WalContiguous /\ DOMAIN wal \subseteq Nat \ {0}
  BY DEF IInv, StoreInv, WalInv, TypeOK, StoreTypeOK
<1>3. PICK n \in Nat : n = s - 1
  BY <1>1
<1>4. DOMAIN wal = 1..n
  <2>1. \A t \in 1..n : t \in DOMAIN wal
    BY <1>1, <1>3 DEF PutOK, Through, Exists
  <2>2. \A t \in DOMAIN wal : s \notin 1..t
    BY <1>1, <1>2 DEF WalContiguous, Exists
  <2>3. \A t \in DOMAIN wal : t \in 1..n
    BY <1>2, <1>3, <2>2
  <2> QED
    BY <2>1, <2>3, Zenon
<1>5. n \in DOMAIN log \cup {0}
  BY <1>4
<1>6. \A t \in 1..n : Promise!Ids(log[t]) \cap Promise!Ids(rec.req) = {}
  <2>1. \A t \in 1..n : BatchIds(wal[t]) \cap BatchIds(rec) = {}
    BY <1>1, <1>3 DEF PutOK
  <2>2. \A t \in 1..n : Promise!Ids(log[t]) = BatchIds(wal[t])
    BY <1>4 DEF Promise!Ids, BatchIds, IsAppend
  <2>3. Promise!Ids(rec.req) = BatchIds(rec)
    BY DEF Promise!Ids, BatchIds, IsAppend
  <2> QED
    BY <2>1, <2>2, <2>3
<1>7. [t \in DOMAIN wal' |-> wal'[t].req]
        = [t \in 1..n + 1 |-> IF t = n + 1 THEN rec.req ELSE log[t]]
  <2>1. DOMAIN wal' = 1..n + 1
    BY <1>1, <1>3, <1>4 DEF Stored
  <2>2. \A t \in 1..n + 1 : wal'[t].req = IF t = n + 1 THEN rec.req ELSE log[t]
    BY <1>1, <1>3, <1>4 DEF Stored
  <2> QED
    BY <2>1, <2>2
<1>8. rec.req \in Requests \cup {None}
  BY DEF Wal
<1> QED
  BY <1>4, <1>5, <1>6, <1>7, <1>8, ZenonT(40) DEF Promise!AppendEntry

\* Every step of the cloud path is a step of the commit log or leaves it alone.
LEMMA PromiseStep ==
  ASSUME IInv, [Next]_vars
  PROVE  Promise!Next
<1>0. IInv' /\ SafeStep /\ Grows /\ TypeOK /\ TypeOK'
  BY IInvStep, StepSafe DEF IInv
<1>1. \/ [s \in DOMAIN wal' |-> wal'[s].req] = [s \in DOMAIN wal |-> wal[s].req]
      \/ \E e \in Requests \cup {None} : Promise!AppendEntry(e)
  <2>1. CASE wal' # wal
    BY <1>0, <2>1, PromiseAppend, Zenon
  <2>2. CASE wal' = wal
    BY <2>2, Zenon
  <2> QED
    BY <2>1, <2>2, Zenon
<1>2. Promise!Publish
  <2>1. /\ current' # None => \A s \in 1..current'.published : s \in DOMAIN wal'
        /\ current # None => current' # None /\ current.published <= current'.published
    BY <1>0, Zenon DEF Grows, IInv, StoreInv, GoodState, Through, Exists
  <2>2. /\ current # None => current.published \in Nat
        /\ current' # None => current'.published \in Nat
    BY <1>0 DEF TypeOK, StoreTypeOK, State
  <2> QED
    BY <2>1, <2>2 DEF Promise!Publish
<1>3. \A w \in Writers : reply'[w] # None => Promise!Truthful(reply[w])'
  BY <1>0, ZenonT(40) DEF IInv, WriterOK, ReplyOK, Exists, Promise!Truthful
<1> QED
  BY <1>1, <1>2, <1>3 DEF Promise!Next

\* Clients of the cloud path see a commit log: one sequence of batches, each
\* at most once, a visible prefix that only grows, and true answers.
THEOREM ImplementsPromise == Spec => ImplementsCommitLog
<1>1. Init => Promise!Init
  BY PromiseInit
<1>2. IInv /\ [Next]_vars => Promise!Next
  BY PromiseStep, Zenon
<1> QED
  BY <1>1, <1>2, Invariance, PTL DEF Spec, ImplementsCommitLog, Promise!Spec

-----------------------------------------------------------------------------
(* What queries see. *)

\* No query fails for want of a published slot.
THEOREM QueriesSucceed == Spec => []PublishedWalPresent
<1>1. IInv => PublishedWalPresent
  BY ZenonT(40) DEF IInv, ReaderOK, PublishedWalPresent
<1> QED
  BY <1>1, Invariance, PTL

\* A strict query sees every batch reported committed before it began.
THEOREM ReadsOwnCommits == Spec => []ReadYourCommits
<1>1. IInv => ReadYourCommits
  BY DEF IInv, ReaderOK, ReadYourCommits
<1> QED
  BY <1>1, Invariance, PTL

\* The unlocked load and store of probe_limit_ keep it within the policy.
THEOREM ProbeBounded == Spec => []ProbeLimitInPolicy
<1>1. IInv => ProbeLimitInPolicy
  BY Zenon DEF IInv
<1> QED
  BY <1>1, Invariance, PTL

\* A query that has loaded CURRENT loaded it no older than its last snapshot.
QueriesFresh ==
  \A r \in Readers : rpc[r] = "wals" /\ view[r] # None =>
    view[r].snap.version <= query[r].snap.version

\* A step keeps queries fresh, and a snapshot it finishes is no older than the
\* one before: a query takes CURRENT as it is, and CURRENT never goes back.
LEMMA FreshStep ==
  ASSUME IInv, QueriesFresh, [Next]_vars
  PROVE  /\ QueriesFresh'
         /\ \A r \in Readers : view[r] # None /\ view'[r] # view[r] =>
              view'[r].snap.version >= view[r].snap.version
<1>0. /\ ReaderTypeOK /\ current \in State \cup {None}
      /\ \A r \in Readers : view[r] # None => Past(view[r].snap)
  BY ZenonT(30) DEF IInv, TypeOK, StoreTypeOK, ReaderOK
<1>1. ASSUME NEW r \in Readers, ReaderStep(r)
      PROVE  /\ QueriesFresh'
             /\ \A k \in Readers : view[k] # None /\ view'[k] # view[k] =>
                  view'[k].snap.version >= view[k].snap.version
  <2>1. ASSUME NEW probe \in BOOLEAN, LoadSnapshot(r, probe, Reported)
        PROVE  /\ view' = view
               /\ rpc'[r] # "wals"
               /\ \A k \in Readers : k # r => rpc'[k] = rpc[k] /\ query'[k] = query[k]
    BY <1>0, <2>1, Zenon DEF LoadSnapshot, ReadGoto, ReaderTypeOK
  <2>2. CASE AdjustProbe(r) \/ ReadThrow(r)
    <3>1. /\ view' = view
          /\ rpc'[r] # "wals"
          /\ \A k \in Readers : k # r => rpc'[k] = rpc[k] /\ query'[k] = query[k]
      BY <1>0, <2>2, Zenon DEF AdjustProbe, ReadThrow, ReadGoto, ReaderTypeOK
    <3> QED
      BY <3>1 DEF QueriesFresh
  <2>3. CASE ReadCurrent(r)
    <3>1. /\ view' = view
          /\ \A k \in Readers : k # r => rpc'[k] = rpc[k] /\ query'[k] = query[k]
          /\ rpc'[r] = "wals" => query'[r].snap = current
      BY <1>0, <2>3, Zenon DEF ReadCurrent, ReadGoto, ReaderTypeOK, Query
    <3> QED
      BY <1>0, <3>1 DEF QueriesFresh, Past
  <2>4. CASE ReadWals(r)
    <3>1. /\ \A k \in Readers : k # r => /\ rpc'[k] = rpc[k]
                                         /\ query'[k] = query[k]
                                         /\ view'[k] = view[k]
          /\ rpc'[r] # "wals" /\ rpc[r] = "wals"
          /\ view'[r] # view[r] => view'[r].snap = query[r].snap
      BY <1>0, <2>4 DEF ReadWals, ReadGoto, ReaderTypeOK
    <3>2. \A k \in Readers : k # r => view'[k] = view[k]
      BY <3>1, Zenon
    <3> QED
      BY <1>0, <3>1, <3>2, ZenonT(40) DEF QueriesFresh, ReaderTypeOK, Query, View, State
  <2> QED
    BY <1>1, <2>1, <2>2, <2>3, <2>4, Zenon DEF ReaderStep, ReaderNext, QueriesFresh
<1>2. CASE UNCHANGED readerVars
  BY <1>2 DEF readerVars, QueriesFresh
<1>3. (\E r \in Readers : ReaderStep(r)) \/ UNCHANGED readerVars
  BY DEF Next, WriterStep, IndexerStep, StoreStep, vars
<1> QED
  BY <1>1, <1>2, <1>3, Zenon

\* Successive snapshots of one query never go back: the CURRENT a query loads
\* is at least as new as the one of the snapshot before.
THEOREM SnapshotsAdvance == Spec => ReadsMonotonic
<1> DEFINE Forward ==
      \A r \in Readers : view[r] # None /\ view'[r] # view[r] =>
        view'[r].snap.version >= view[r].snap.version
<1>1. Init => QueriesFresh
  BY DEF Init, ReaderInit, QueriesFresh
<1>2. IInv /\ QueriesFresh /\ [Next]_vars => QueriesFresh'
  BY FreshStep
<1>3. IInv /\ QueriesFresh /\ [Next]_vars => [Forward]_vars
  BY FreshStep, ZenonT(40)
<1> QED
  BY <1>1, <1>2, <1>3, Invariance, PTL DEF Spec, ReadsMonotonic

\* The data files a snapshot reads that hold the rows of slot s.
Sources(v, s) == {f \in ManifestOf(v.snap).files : s \in data[f.path]}

\* It reads slot s of the WAL.
InTail(v, s) == s \in v.snap.indexed + 1 .. v.through

\* An Append is in one data file of a snapshot, or it is in none and the
\* snapshot reads its slot of the WAL if it reaches that far.
LEMMA SourcesExact ==
  ASSUME IInv, FilesInv, NEW r \in Readers, view[r] # None,
         NEW s \in DOMAIN wal, IsAppend(wal[s])
  PROVE  \/ /\ s <= view[r].through /\ ~InTail(view[r], s)
            /\ \E f : Sources(view[r], s) = {f}
         \/ /\ InTail(view[r], s) <=> s <= view[r].through
            /\ Sources(view[r], s) = {}
<1>1. PICK F, c, p, e : /\ F = ManifestOf(view[r].snap).files
                        /\ c = view[r].snap.indexed
                        /\ p = view[r].snap.published
                        /\ e = view[r].through
  BY Zenon
<1>2. c \in Nat /\ p \in Nat /\ e \in Nat /\ c <= p /\ p <= e /\ s \in Nat \ {0}
  <2>1. view[r].snap \in State /\ view[r].through \in Nat
    BY DEF IInv, TypeOK, ReaderTypeOK, View
  <2>2. s \in Nat \ {0}
    BY DEF IInv, TypeOK, StoreTypeOK
  <2>3. c <= p /\ p <= e
    BY <1>1, ZenonT(40) DEF IInv, ReaderOK, GoodState, FilesInv
  <2> QED
    BY <1>1, <2>1, <2>2, <2>3, ZenonT(40) DEF State
<1>3. FilesExact(F, c)
  BY <1>1, ZenonT(40) DEF IInv, ReaderOK, GoodState, FilesInv, ManifestExact, ManifestOf
<1>4. Sources(view[r], s) = {f \in F : s \in data[f.path]}
  BY <1>1, Zenon DEF Sources
<1>5. CASE s <= c
  <2>1. s \in AppendsIn(1, c)
    BY <1>2, <1>5 DEF AppendsIn, Exists
  <2>2. PICK f \in F : s \in data[f.path]
    BY <1>3, <2>1, Zenon DEF FilesExact
  <2>3. \A g \in F : s \in data[g.path] => g = f
    BY <1>3, <2>2, Zenon DEF FilesExact
  <2>4. Sources(view[r], s) = {f}
    BY <1>4, <2>2, <2>3, ZenonT(40)
  <2>5. s \notin c + 1 .. e /\ s <= e
    BY <1>2, <1>5
  <2> QED
    BY <1>1, <2>4, <2>5, Zenon DEF InTail
<1>6. CASE s > c
  <2>1. s \notin AppendsIn(1, c)
    BY <1>2, <1>6 DEF AppendsIn
  <2>2. Sources(view[r], s) = {}
    BY <1>3, <1>4, <2>1, Zenon DEF FilesExact
  <2>3. s \in c + 1 .. e <=> s <= e
    BY <1>2, <1>6
  <2> QED
    BY <1>1, <2>2, <2>3, Zenon DEF InTail
<1> QED
  BY <1>2, <1>5, <1>6

\* The empty set has no element.
LEMMA CountNone == Cardinality({}) = 0
<1> DEFINE body(f) == [T \in SUBSET {} |->
                         IF T = {} THEN 0 ELSE 1 + f[T \ {CHOOSE y : y \in T}]]
           count == [T \in SUBSET {} |-> 0]
<1>1. count = body(count)
  BY Zenon
<1>2. PICK CS : CS = (CHOOSE f : f = body(f)) /\ CS = body(CS)
  BY <1>1, Zenon
<1>3. CS[{}] = 0
  BY <1>2, Zenon
<1> QED
  BY <1>2, <1>3, Zenon DEF Cardinality

\* A singleton has one.
LEMMA CountOne == ASSUME NEW x PROVE Cardinality({x}) = 1
<1> DEFINE body(f) == [T \in SUBSET {x} |->
                         IF T = {} THEN 0 ELSE 1 + f[T \ {CHOOSE y : y \in T}]]
           count == [T \in SUBSET {x} |-> IF T = {} THEN 0 ELSE 1]
<1>1. \A T \in SUBSET {x} : T # {} => T = {x} /\ T \ {CHOOSE y : y \in T} = {}
  BY Zenon
<1>2. 1 + 0 = 1
  OBVIOUS
<1>3. count[{}] = 0 /\ {} \in SUBSET {x} /\ {x} \in SUBSET {x} /\ {x} # {}
  BY Zenon
<1>4. ASSUME NEW T \in SUBSET {x}
      PROVE  count[T] = IF T = {} THEN 0 ELSE 1 + count[T \ {CHOOSE y : y \in T}]
  BY <1>1, <1>2, <1>3, Zenon
<1>5. count = body(count)
  BY <1>4, Zenon
<1>6. PICK CS : CS = (CHOOSE f : f = body(f)) /\ CS = body(CS)
  <2> HIDE DEF body, count
  <2> QED
    BY <1>5, Zenon
<1>7. CS[{}] = 0 /\ CS[{x}] = 1 + CS[{x} \ {CHOOSE y : y \in {x}}]
  BY <1>3, <1>6, Zenon
<1>8. CS[{x}] = 1
  BY <1>1, <1>2, <1>3, <1>7, ZenonT(40)
<1> QED
  BY <1>6, <1>8, Zenon DEF Cardinality

\* A snapshot yields the rows of each Append up to its last slot once, from a
\* data file or from the WAL, and none beyond, however late it is read.
THEOREM SnapshotsExact == Spec => []SnapshotExact
<1>1. ASSUME IInv, FilesInv, NEW r \in Readers, view[r] # None,
             NEW s \in DOMAIN wal, IsAppend(wal[s])
      PROVE  Copies(view[r], s) = IF s <= view[r].through THEN 1 ELSE 0
  <2>1. PICK n, e : n = Cardinality(Sources(view[r], s)) /\ e = view[r].through
    BY Zenon
  <2>2. Copies(view[r], s) = n + (IF InTail(view[r], s) THEN 1 ELSE 0)
    BY <2>1, Zenon DEF Copies, Sources, InTail
  <2>3. \/ /\ s <= e /\ ~InTail(view[r], s)
           /\ \E f : Sources(view[r], s) = {f}
        \/ /\ InTail(view[r], s) <=> s <= e
           /\ Sources(view[r], s) = {}
    BY <1>1, <2>1, SourcesExact, Zenon
  <2>4. (\E f : Sources(view[r], s) = {f}) => n = 1
    BY <2>1, CountOne, Zenon
  <2>5. Sources(view[r], s) = {} => n = 0
    BY <2>1, CountNone, Zenon
  <2> QED
    BY <2>1, <2>2, <2>3, <2>4, <2>5
<1>2. IInv /\ FilesInv => SnapshotExact
  BY <1>1, Zenon DEF SnapshotExact
<1> QED
  BY <1>2, Invariance, FilesAlwaysExact, PTL
=============================================================================
