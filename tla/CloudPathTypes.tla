--------------------------- MODULE CloudPathTypes ---------------------------
(*****************************************************************************)
(* Every step of a writer, of an indexer, of a query and of a late request   *)
(* keeps the types, given the inductive invariant: a call that uses CURRENT  *)
(* or a loaded state has one.                                                *)
(*****************************************************************************)
EXTENDS CloudPathInvariant, TLAPS

USE DEF InitialKey

(* Writers *)

\* The three changes of CURRENT build states, with these fields.
LEMMA StateTypes ==
  ASSUME NEW s \in State, NEW m \in Nat, NEW k \in Nat
  PROVE  /\ AcquireEpoch(s) \in State
         /\ PublishTo(s, m) \in State
         /\ IndexTo(s, m, k) \in State
         /\ InitialState \in State
<1> DEFINE t == [s EXCEPT !.epoch = @ + 1]
           u == [s EXCEPT !.published = m]
<1>1. t \in State /\ u \in State
  BY DEF State
<1>2. /\ AcquireEpoch(s) = [t EXCEPT !.version = @ + 1]
      /\ PublishTo(s, m) = [u EXCEPT !.version = @ + 1]
  BY DEF AcquireEpoch, PublishTo, State
<1> HIDE DEF t, u
<1>3. /\ [t EXCEPT !.version = @ + 1] \in State
      /\ [u EXCEPT !.version = @ + 1] \in State
  BY <1>1 DEF State
<1>4. IndexTo(s, m, k) \in State
  BY DEF State, IndexTo
<1>5. InitialState \in State
  BY DEF State, InitialState
<1> QED
  BY <1>2, <1>3, <1>4, <1>5

\* The fields of the states that Start and Publish put in CURRENT.
LEMMA StateFields ==
  ASSUME NEW s \in State, NEW m \in Nat, NEW k \in Nat
  PROVE  /\ AcquireEpoch(s).version = s.version + 1
         /\ AcquireEpoch(s).epoch = s.epoch + 1
         /\ AcquireEpoch(s).indexed = s.indexed
         /\ AcquireEpoch(s).published = s.published
         /\ AcquireEpoch(s).manifest = s.manifest
         /\ PublishTo(s, m).version = s.version + 1
         /\ PublishTo(s, m).epoch = s.epoch
         /\ PublishTo(s, m).indexed = s.indexed
         /\ PublishTo(s, m).published = m
         /\ PublishTo(s, m).manifest = s.manifest
BY DEF AcquireEpoch, PublishTo, State

\* Storing an object keeps a store a function into its kind of object.
LEMMA StoredType ==
  ASSUME NEW S, NEW f, f \in [DOMAIN f -> S], NEW k, NEW v \in S
  PROVE  /\ DOMAIN Stored(f, k, v) = DOMAIN f \cup {k}
         /\ Stored(f, k, v) \in [DOMAIN Stored(f, k, v) -> S]
BY DEF Stored

\* None is not a state, a request or an object of the store.
LEMMA NoneFacts == None \notin State /\ None \notin Requests
BY NoneAssumption

\* The locals of every call have their type.
LEMMA JobTypes ==
  ASSUME NEW s \in State \cup {None}, NEW e \in Nat, NEW n \in Nat,
         NEW r \in Requests \cup {None}, NEW v \in Visibility, NEW t \in Nat
  PROVE  /\ StartJob(s, t) \in Job
         /\ FenceJob(e, n) \in Job
         /\ ImportJob(s, r, v) \in Job
         /\ PublishJob(s, e, n, r, t) \in Job
BY DEF StartJob, FenceJob, ImportJob, PublishJob, Job, Visibility

\* The locals of an idle writer, indexer and query have their type.
LEMMA NoJobTypes ==
  NoJob \in Job /\ NoIndexJob \in IndexJob /\ NoQuery \in Query
BY DEF NoJob, StartJob, Job, Visibility, NoIndexJob, IndexJob, NoQuery, Query

\* The empty table has its types.
LEMMA TypeInit == Init => TypeOK
<1> SUFFICES ASSUME Init PROVE TypeOK
  OBVIOUS
<1>1. StoreTypeOK
  BY MaxFaultsAssumption DEF Init, StoreInit, StoreTypeOK, Empty
<1>2. WriterTypeOK
  BY NoJobTypes DEF Init, WriterInit, WriterTypeOK
<1>3. IndexerTypeOK
  BY NoJobTypes DEF Init, IndexerInit, IndexerTypeOK, IndexPc
<1>4. ReaderTypeOK
  BY NoJobTypes, ProbeAssumption DEF Init, ReaderInit, ReaderTypeOK, ReadPc
<1> QED
  BY <1>1, <1>2, <1>3, <1>4 DEF TypeOK

-----------------------------------------------------------------------------
(* Conditional writes. *)

\* Whatever its outcome, a compare-and-exchange leaves a state in CURRENT.
LEMMA CompareExchangeType ==
  ASSUME StoreTypeOK, NEW expected \in State \cup {None}, NEW next \in State,
         NEW out, CompareExchange(expected, next, out)
  PROVE  /\ current' \in State \cup {None}
         /\ lateCurrent' \subseteq LateCurrent
         /\ faults' \in 0..MaxFaults
BY MaxFaultsAssumption
   DEF CompareExchange, StoreTypeOK, Fault, LateCurrent

\* Whatever its outcome, a conditional create leaves records in the slots.
LEMMA CreateIfAbsentType ==
  ASSUME StoreTypeOK, NEW s \in Nat \ {0}, NEW rec \in Wal,
         NEW out, CreateIfAbsent(s, rec, out)
  PROVE  /\ DOMAIN wal' \subseteq Nat \ {0}
         /\ wal' \in [DOMAIN wal' -> Wal]
         /\ lateWal' \subseteq LateWal
         /\ faults' \in 0..MaxFaults
<1>1. CASE wal' = Stored(wal, s, rec) /\ UNCHANGED <<lateWal, faults>>
  <2>1. wal \in [DOMAIN wal -> Wal] /\ DOMAIN wal \subseteq Nat \ {0}
    BY DEF StoreTypeOK
  <2>2. /\ DOMAIN Stored(wal, s, rec) = DOMAIN wal \cup {s}
        /\ Stored(wal, s, rec) \in [DOMAIN Stored(wal, s, rec) -> Wal]
    BY <2>1, StoredType, Zenon
  <2> QED
    BY <1>1, <2>1, <2>2 DEF StoreTypeOK
<1>2. CASE UNCHANGED <<wal, lateWal, faults>>
  BY <1>2 DEF StoreTypeOK
<1>3. CASE Fault /\ lateWal' = lateWal \cup {[slot |-> s, rec |-> rec]} /\ UNCHANGED wal
  BY <1>3, MaxFaultsAssumption DEF StoreTypeOK, Fault, LateWal
<1> QED
  BY <1>1, <1>2, <1>3 DEF CreateIfAbsent

\* The records Start and Import create are WAL records.
LEMMA WalTypes ==
  ASSUME NEW e \in Nat, NEW r \in Requests \cup {None}
  PROVE  Fence(e) \in Wal /\ AppendWal(e, r) \in Wal
BY DEF Fence, AppendWal, Wal

-----------------------------------------------------------------------------
(* Writers *)

WriterPc == StartPc \cup ImportPc \cup {"idle"}

\* A writer that goes on with typed locals is typed.
LEMMA GotoType ==
  ASSUME WriterTypeOK, NEW w \in Writers, NEW p \in WriterPc, NEW j \in Job,
         Goto(w, p, j)
  PROVE  pc' \in [Writers -> WriterPc] /\ job' \in [Writers -> Job]
BY DEF WriterTypeOK, Goto, WriterPc

\* A writer that returns is typed.
LEMMA ReturnType ==
  ASSUME WriterTypeOK, NEW w \in Writers, Return(w)
  PROVE  pc' \in [Writers -> WriterPc] /\ job' \in [Writers -> Job]
BY GotoType, NoJobTypes DEF Return, WriterPc

\* A report of Import for an existing slot is typed.
LEMMA ReportType ==
  ASSUME WriterTypeOK, NEW w \in Writers, job[w].req \in Requests,
         NEW code \in {"Durable", "Committed"}, NEW seq \in Nat \ {0},
         Report(w, code, seq)
  PROVE  reply' \in [Writers -> Reply \cup {None}]
BY DEF WriterTypeOK, Report, Reply

\* The steps of Start but the CAS of the epoch and the create of the fence
\* keep the types.
LEMMA StartTypes ==
  ASSUME IInv, NEW w \in Writers,
         StartLoad(w) \/ InitializeManifest(w) \/ InitializeCurrent(w)
           \/ StartReload(w) \/ FenceLoad(w) \/ FenceLanded(w) \/ Confirm(w)
  PROVE  StoreTypeOK' /\ WriterTypeOK'
<1> USE DEF storeVars
<1>0. StoreTypeOK /\ WriterTypeOK /\ WriterOK(w)
  BY DEF IInv, TypeOK
<1>a. /\ job[w] \in Job /\ epoch[w] \in Nat /\ nextSeq[w] \in Nat
      /\ job[w].tries \in Nat /\ job[w].epoch \in Nat /\ job[w].seq \in Nat
  BY <1>0 DEF WriterTypeOK, Job
<1>b. current # None => current \in State /\ current.indexed \in Nat
                          /\ current.epoch \in Nat
  BY <1>0 DEF StoreTypeOK, State
<1>1. CASE StartLoad(w)
  <2>1. StartJob(current, 0) \in Job
    BY <1>0, JobTypes, Zenon DEF StoreTypeOK, Visibility
  <2>2. pc' \in [Writers -> WriterPc] /\ job' \in [Writers -> Job]
    BY <1>0, <1>1, <2>1, GotoType, NoJobTypes, Zenon DEF StartLoad, WriterPc, StartPc
  <2>u. UNCHANGED <<storeVars, epoch, nextSeq, reply>>
    BY <1>1, Zenon DEF StartLoad
  <2> QED
    BY <1>0, <2>2, <2>u DEF StoreTypeOK, WriterTypeOK, WriterPc
<1>2. CASE InitializeManifest(w)
  <2>1. pc' \in [Writers -> WriterPc] /\ job' \in [Writers -> Job]
    BY <1>0, <1>2, GotoType, ReturnType, NoJobTypes, Zenon
    DEF InitializeManifest, WriterPc, StartPc
  <2>2. InitialManifest \in Manifest
    BY DEF InitialManifest, Manifest
  <2>3. /\ DOMAIN Stored(manifests, InitialKey, InitialManifest) \subseteq Nat
        /\ Stored(manifests, InitialKey, InitialManifest) \in
             [DOMAIN Stored(manifests, InitialKey, InitialManifest) -> Manifest]
    <3>1. manifests \in [DOMAIN manifests -> Manifest] /\ DOMAIN manifests \subseteq Nat
      BY <1>0 DEF StoreTypeOK
    <3>2. /\ DOMAIN Stored(manifests, InitialKey, InitialManifest)
               = DOMAIN manifests \cup {InitialKey}
          /\ Stored(manifests, InitialKey, InitialManifest) \in
               [DOMAIN Stored(manifests, InitialKey, InitialManifest) -> Manifest]
      BY <2>2, <3>1, StoredType, Zenon
    <3> QED BY <3>1, <3>2
  <2>4. DOMAIN manifests' \subseteq Nat
        /\ manifests' \in [DOMAIN manifests' -> Manifest]
        /\ faults' \in 0..MaxFaults
    BY <1>0, <1>2, <2>3, MaxFaultsAssumption
    DEF InitializeManifest, StoreTypeOK, Fault
  <2> QED
    BY <1>0, <1>2, <2>1, <2>4, Zenon
    DEF InitializeManifest, StoreTypeOK, WriterTypeOK, WriterPc
<1>3. CASE InitializeCurrent(w)
  <2>1. pc' \in [Writers -> WriterPc] /\ job' \in [Writers -> Job]
    BY <1>0, <1>3, GotoType, ReturnType, NoJobTypes, Zenon
    DEF InitializeCurrent, WriterPc, StartPc
  <2>2. PICK out : CompareExchange(None, InitialState, out)
    BY <1>3 DEF InitializeCurrent
  <2>3. /\ current' \in State \cup {None}
        /\ lateCurrent' \subseteq LateCurrent
        /\ faults' \in 0..MaxFaults
    BY <1>0, <2>2, CompareExchangeType, StateTypes DEF InitialState, State
  <2> QED
    BY <1>0, <1>3, <2>1, <2>3, Zenon
    DEF InitializeCurrent, StoreTypeOK, WriterTypeOK, WriterPc
<1>4. CASE StartReload(w)
  <2>1. StartJob(current, job[w].tries) \in Job
    BY <1>0, <1>a, JobTypes, ZenonT(40) DEF StoreTypeOK, Visibility
  <2>2. pc' \in [Writers -> WriterPc] /\ job' \in [Writers -> Job]
    BY <1>0, <1>4, <2>1, GotoType, ReturnType, Zenon DEF StartReload, WriterPc, StartPc
  <2>u. UNCHANGED <<storeVars, epoch, nextSeq, reply>>
    BY <1>4, Zenon DEF StartReload
  <2> QED
    BY <1>0, <2>2, <2>u DEF StoreTypeOK, WriterTypeOK, WriterPc
<1>5. CASE FenceLoad(w)
  <2>1. current \in State /\ current.indexed \in Nat
    BY <1>0, <1>5, <1>b, Zenon DEF FenceLoad, WriterOK, FencingPc
  <2> DEFINE seq == IF job[w].seq <= current.indexed THEN current.indexed + 1
                                                     ELSE job[w].seq
  <2>a. seq \in Nat
    BY <1>a, <2>1
  <2>2. FenceJob(job[w].epoch, seq) \in Job
    <3> HIDE DEF seq
    <3> QED BY <1>a, <2>a, ZenonT(40) DEF FenceJob, Job, Visibility
  <2>3. pc' \in [Writers -> WriterPc] /\ job' \in [Writers -> Job]
    BY <1>0, <1>5, <2>2, GotoType, ReturnType, Zenon DEF FenceLoad, WriterPc, StartPc
  <2>u. UNCHANGED <<storeVars, epoch, nextSeq, reply>>
    BY <1>5, Zenon DEF FenceLoad
  <2> QED
    BY <1>0, <2>3, <2>u, Zenon DEF StoreTypeOK, WriterTypeOK, WriterPc
<1>6. CASE FenceLanded(w)
  <2>1. pc' \in [Writers -> WriterPc] /\ job' \in [Writers -> Job]
    <3>1. Goto(w, "confirm", job[w]) \/ Return(w)
      BY <1>6, Zenon DEF FenceLanded
    <3> QED
      BY <1>0, <1>a, <3>1, GotoType, ReturnType, Zenon DEF WriterPc, StartPc
  <2>u. UNCHANGED <<storeVars, epoch, nextSeq, reply>>
    BY <1>6, Zenon DEF FenceLanded
  <2> QED
    BY <1>0, <2>1, <2>u, Zenon DEF StoreTypeOK, WriterTypeOK, WriterPc
<1>7. CASE Confirm(w)
  <2>1. pc' \in [Writers -> WriterPc] /\ job' \in [Writers -> Job]
    BY <1>0, <1>7, ReturnType, Zenon DEF Confirm
  <2>2. epoch' \in [Writers -> Nat] /\ nextSeq' \in [Writers -> Nat]
    BY <1>0, <1>a, <1>7 DEF Confirm, WriterTypeOK
  <2>u. UNCHANGED <<storeVars, reply>>
    BY <1>7, Zenon DEF Confirm
  <2> QED
    BY <1>0, <2>1, <2>2, <2>u, ZenonT(40) DEF StoreTypeOK, WriterTypeOK, WriterPc
<1> QED
  BY <1>1, <1>2, <1>3, <1>4, <1>5, <1>6, <1>7

\* The CAS of the epoch and the create of the fence keep the types.
LEMMA AcquireTypes ==
  ASSUME IInv, NEW w \in Writers, Acquire(w) \/ FenceSlot(w)
  PROVE  StoreTypeOK' /\ WriterTypeOK'
<1> USE DEF storeVars
<1>0. StoreTypeOK /\ WriterTypeOK /\ WriterOK(w)
  BY DEF IInv, TypeOK
<1>a. /\ job[w] \in Job
      /\ job[w].tries \in Nat /\ job[w].epoch \in Nat /\ job[w].seq \in Nat
  BY <1>0 DEF WriterTypeOK, Job
<1>1. CASE Acquire(w)
  <2> DEFINE snap == job[w].snap
             next == AcquireEpoch(snap)
  <2>1. snap \in State
    BY <1>0, <1>1, Zenon DEF Acquire, WriterOK, SnapPc, WriterTypeOK, Job
  <2>2. next \in State /\ next.epoch \in Nat /\ next.indexed \in Nat
    BY <2>1, StateTypes, Zenon DEF State
  <2>3. FenceJob(next.epoch, next.indexed + 1) \in Job
    BY <2>2, <1>a DEF FenceJob, Job, Visibility
  <2>4. StartJob(None, job[w].tries + 1) \in Job
    BY <1>a DEF StartJob, Job, Visibility
  <2> HIDE DEF next
  <2>5. CASE Return(w) /\ UNCHANGED <<storeVars, epoch, nextSeq, reply>>
    <3>1. pc' \in [Writers -> WriterPc] /\ job' \in [Writers -> Job]
      BY <1>0, <2>5, ReturnType
    <3> QED
      BY <1>0, <2>5, <3>1 DEF StoreTypeOK, WriterTypeOK, WriterPc
  <2>6. ASSUME NEW out \in ConditionalWriteResult,
               CompareExchange(snap, next, out),
               \/ Goto(w, "fenceLoad", FenceJob(next.epoch, next.indexed + 1))
               \/ Goto(w, "reload", StartJob(None, job[w].tries + 1))
               \/ Return(w),
               UNCHANGED <<wal, manifests, dedups, data, keys, lateWal,
                           epoch, nextSeq, reply>>
        PROVE  StoreTypeOK' /\ WriterTypeOK'
    <3>1. pc' \in [Writers -> WriterPc] /\ job' \in [Writers -> Job]
      BY <1>0, <2>3, <2>4, <2>6, GotoType, ReturnType, Zenon DEF WriterPc, StartPc
    <3>2. /\ current' \in State \cup {None}
          /\ lateCurrent' \subseteq LateCurrent
          /\ faults' \in 0..MaxFaults
      BY <1>0, <2>1, <2>2, <2>6, CompareExchangeType, Zenon
    <3> QED
      BY <1>0, <2>6, <3>1, <3>2, Zenon DEF StoreTypeOK, WriterTypeOK, WriterPc
  <2> QED
    BY <1>1, <2>5, <2>6, ZenonT(40) DEF Acquire, next
<1>2. CASE FenceSlot(w)
  <2>1. PICK out \in CreateFileResult :
          /\ CreateIfAbsent(job[w].seq, Fence(job[w].epoch), out)
          /\ \/ Goto(w, "confirm", job[w])
             \/ Goto(w, "fenceLoad", FenceJob(job[w].epoch, job[w].seq + 1))
             \/ Goto(w, "fenceLanded", job[w])
    BY <1>2, ZenonT(40) DEF FenceSlot
  <2>2. job[w].seq \in Nat \ {0}
    <3>1. pc[w] \in FencingPc => job[w].seq >= 1
      BY <1>0, Zenon DEF WriterOK
    <3> QED
      BY <1>a, <1>2, <3>1 DEF FenceSlot, FencingPc
  <2>3. /\ DOMAIN wal' \subseteq Nat \ {0}
        /\ wal' \in [DOMAIN wal' -> Wal]
        /\ lateWal' \subseteq LateWal
        /\ faults' \in 0..MaxFaults
    BY <1>0, <1>a, <2>1, <2>2, CreateIfAbsentType, WalTypes, ZenonT(40)
  <2>4. FenceJob(job[w].epoch, job[w].seq + 1) \in Job
    BY <1>a DEF FenceJob, Job, Visibility
  <2>5. pc' \in [Writers -> WriterPc] /\ job' \in [Writers -> Job]
    BY <1>0, <1>a, <2>1, <2>4, GotoType, Zenon DEF WriterPc, StartPc
  <2>u. UNCHANGED <<current, manifests, dedups, data, keys, lateCurrent, epoch,
                  nextSeq, reply>>
    BY <1>2, Zenon DEF FenceSlot
  <2> QED
    BY <1>0, <2>3, <2>5, <2>u, Zenon DEF StoreTypeOK, WriterTypeOK, WriterPc
<1> QED
  BY <1>1, <1>2

-----------------------------------------------------------------------------
(* What the scan of the WAL and the batch index yields. *)

\* The entries a scan of existing slots yields are sound.
LEMMA EntriesOfSound ==
  ASSUME StoreTypeOK, NEW first, NEW last, NEW e \in EntriesOf(first, last)
  PROVE  /\ EntrySound(e)
         /\ e.seq \in first..last
         /\ e.req \in Requests
<1>1. PICK s \in first..last : 
        /\ Exists(s)
        /\ \E b \in BatchIds(wal[s]) : e = [id |-> b, seq |-> s, req |-> wal[s].req]
  BY DEF EntriesOf
<1>2. PICK b \in BatchIds(wal[s]) : e = [id |-> b, seq |-> s, req |-> wal[s].req]
  BY <1>1
<1>3. wal[s].req # None /\ b \in wal[s].req.ids
  BY <1>2 DEF BatchIds, IsAppend
<1>4. wal[s].req \in Requests
  BY <1>1, <1>3 DEF StoreTypeOK, Wal, Exists
<1> QED
  BY <1>1, <1>2, <1>3, <1>4, Zenon DEF EntrySound

\* A scan of existing slots misses none of their batches.
LEMMA EntriesOfComplete ==
  ASSUME NEW first \in Int, NEW last \in Int, NEW s \in first..last, Exists(s),
         NEW b \in BatchIds(wal[s])
  PROVE  \E e \in EntriesOf(first, last) : e.id = b
<1> DEFINE e == [id |-> b, seq |-> s, req |-> wal[s].req]
<1>1. e \in EntriesOf(first, last)
  BY DEF EntriesOf
<1>2. e.id = b
  OBVIOUS
<1> QED
  BY <1>1, <1>2

\* The batch index of a manifest is sound.
LEMMA BatchIndexSound ==
  ASSUME StoreTypeOK, MetaInv, NEW k \in DOMAIN manifests,
         NEW e \in BatchIndexOf(manifests[k])
  PROVE  EntrySound(e) /\ e \in BatchEntry
<1>1. PICK d \in manifests[k].index : e \in dedups[d]
  BY DEF BatchIndexOf
<1>2. d \in DOMAIN dedups
  BY <1>1 DEF MetaInv, ManifestGood
<1>3. EntrySound(e)
  BY <1>1, <1>2 DEF MetaInv
<1>4. dedups[d] \in SUBSET BatchEntry
  BY <1>2 DEF StoreTypeOK
<1> QED
  BY <1>1, <1>3, <1>4

\* Import's map of known batches is sound.
LEMMA KnownSound ==
  ASSUME IInv, NEW w \in Writers, pc[w] = "dedup", NEW e \in Known(w)
  PROVE  EntrySound(e) /\ e.seq \in Nat \ {0} /\ e.req \in Requests
<1>0. StoreTypeOK /\ WriterTypeOK /\ WriterOK(w) /\ MetaInv
  BY Zenon DEF IInv, TypeOK, StoreInv
<1>1. job[w].snap.manifest \in DOMAIN manifests
  BY <1>0, Zenon DEF WriterOK, SnapPc, GoodState
<1>2. EntrySound(e) /\ e.req \in Requests
  <2>1. CASE e \in BatchIndexOf(ManifestOf(job[w].snap))
    BY <1>0, <1>1, <2>1, BatchIndexSound DEF ManifestOf, BatchEntry
  <2>2. CASE e \in EntriesOf(job[w].snap.indexed + 1, nextSeq[w] - 1)
    BY <1>0, <2>2, EntriesOfSound, Zenon
  <2> QED
    BY <2>1, <2>2 DEF Known
<1> QED
  BY <1>0, <1>2 DEF EntrySound, Exists, StoreTypeOK

\* Advancing next_seq_ behind the written WAL keeps the types.
LEMMA WrittenType ==
  ASSUME WriterTypeOK, NEW w \in Writers, job[w].req \in Requests,
         nextSeq[w] \in Nat \ {0}, Written(w)
  PROVE  /\ pc' \in [Writers -> WriterPc] /\ job' \in [Writers -> Job]
         /\ nextSeq' \in [Writers -> Nat]
         /\ reply' \in [Writers -> Reply \cup {None}]
<1>0. epoch[w] \in Nat
  BY DEF WriterTypeOK
<1>1. PublishJob(None, epoch[w], nextSeq[w], job[w].req, 0) \in Job
  BY <1>0 DEF PublishJob, Job, Visibility
<1>2. nextSeq' \in [Writers -> Nat]
  BY DEF Written, WriterTypeOK
<1>3. CASE Report(w, "Durable", nextSeq[w]) /\ Return(w)
  BY <1>2, <1>3, ReportType, ReturnType
<1>4. CASE /\ Goto(w, "pubLoad", PublishJob(None, epoch[w], nextSeq[w],
                                            job[w].req, 0))
           /\ UNCHANGED reply
  BY <1>1, <1>2, <1>4, GotoType DEF WriterPc, ImportPc, WriterTypeOK
<1> QED
  BY <1>3, <1>4 DEF Written

\* Import's second step: the search among the known batches.
LEMMA DedupTypes ==
  ASSUME IInv, NEW w \in Writers, Dedup(w)
  PROVE  StoreTypeOK' /\ WriterTypeOK'
<1> USE DEF storeVars
<1>0. StoreTypeOK /\ WriterTypeOK /\ WriterOK(w)
  BY Zenon DEF IInv, TypeOK
<1>a. /\ job[w] \in Job /\ job[w].vis \in Visibility
      /\ job[w].req \in Requests \cup {None} /\ job[w].snap \in State \cup {None}
  BY <1>0, Zenon DEF WriterTypeOK, Job
<1>c. pc[w] = "dedup" /\ job[w].req \in Requests
  <2>1. pc[w] = "dedup"
    BY Zenon DEF Dedup
  <2>2. job[w].req # None
    BY <1>0, <2>1, Zenon DEF WriterOK, ImportPc
  <2> QED
    BY <1>a, <2>1, <2>2, Zenon
<1>1. ImportJob(None, job[w].req, job[w].vis) \in Job
  BY <1>a, <1>c, Zenon DEF ImportJob, Job
<1>2. job[w].snap.epoch \in Nat
  <2>1. job[w].snap # None
    BY <1>0, <1>c, Zenon DEF WriterOK, SnapPc
  <2> QED
    BY <1>a, <2>1, Zenon DEF State
<1>u. UNCHANGED <<storeVars, epoch, nextSeq>>
  BY Zenon DEF Dedup
<1>3. CASE Return(w) /\ UNCHANGED reply
  BY <1>0, <1>3, <1>u, ReturnType, Zenon DEF StoreTypeOK, WriterTypeOK, WriterPc
<1>4. CASE /\ Goto(w, "create", ImportJob(None, job[w].req, job[w].vis))
           /\ UNCHANGED reply
  <2>1. pc' \in [Writers -> WriterPc] /\ job' \in [Writers -> Job]
    BY <1>0, <1>1, <1>4, GotoType DEF WriterPc, ImportPc
  <2> QED
    BY <1>0, <1>4, <1>u, <2>1, Zenon DEF StoreTypeOK, WriterTypeOK, WriterPc
<1>5. ASSUME NEW e \in FirstKnown(w),
             \/ /\ Report(w, "Committed", e.seq) \/ Report(w, "Durable", e.seq)
                /\ Return(w)
             \/ /\ Goto(w, "pubLoad", PublishJob(None, job[w].snap.epoch,
                                                  e.seq, job[w].req, 0))
                /\ UNCHANGED reply
      PROVE  StoreTypeOK' /\ WriterTypeOK'
  <2>1. e.seq \in Nat \ {0}
    BY <1>c, KnownSound DEF FirstKnown
  <2>2. PublishJob(None, job[w].snap.epoch, e.seq, job[w].req, 0) \in Job
    BY <1>c, <1>2, <2>1, Zenon DEF PublishJob, Job, Visibility
  <2>3. pc' \in [Writers -> WriterPc] /\ job' \in [Writers -> Job]
    BY <1>0, <1>5, <2>2, ReturnType, GotoType, Zenon DEF WriterPc, ImportPc
  <2>4. reply' \in [Writers -> Reply \cup {None}]
    BY <1>0, <1>c, <1>5, <2>1, ReportType DEF WriterTypeOK
  <2> QED
    BY <1>0, <1>u, <2>3, <2>4, Zenon DEF StoreTypeOK, WriterTypeOK, WriterPc
<1> QED
  BY <1>3, <1>4, <1>5, ZenonT(40) DEF Dedup

\* The steps of Import keep the types.
LEMMA ImportTypes ==
  ASSUME IInv, NEW w \in Writers,
         \/ \E r \in Requests, v \in Visibility : ImportLoad(w, r, v)
         \/ Dedup(w) \/ Create(w) \/ Landed(w)
  PROVE  StoreTypeOK' /\ WriterTypeOK'
<1> USE DEF storeVars
<1>0. StoreTypeOK /\ WriterTypeOK /\ WriterOK(w)
  BY DEF IInv, TypeOK
<1>a. /\ job[w] \in Job /\ job[w].vis \in Visibility
      /\ epoch[w] \in Nat /\ nextSeq[w] \in Nat
  BY <1>0, Zenon DEF WriterTypeOK, Job
<1>b. pc[w] \in ImportPc => job[w].req \in Requests /\ nextSeq[w] \in Nat \ {0}
  <2>1. pc[w] \in ImportPc => epoch[w] # 0 /\ job[w].req # None
    BY <1>0, Zenon DEF WriterOK
  <2>2. epoch[w] # 0 => nextSeq[w] >= 1
    BY <1>0, Zenon DEF WriterOK, Started
  <2> QED
    BY <1>a, <2>1, <2>2 DEF Job
<1>1. ASSUME NEW r \in Requests, NEW v \in Visibility, ImportLoad(w, r, v)
      PROVE  StoreTypeOK' /\ WriterTypeOK'
  <2>1. current \in State \cup {None}
    BY <1>0 DEF StoreTypeOK
  <2>2. ImportJob(current, r, v) \in Job
    BY <2>1 DEF ImportJob, Job
  <2>3. pc' \in [Writers -> WriterPc] /\ job' \in [Writers -> Job]
    BY <1>0, <1>1, <2>2, GotoType, Zenon DEF ImportLoad, WriterPc, ImportPc, WriterTypeOK
  <2>4. epoch' \in [Writers -> Nat]
        /\ reply' \in [Writers -> Reply \cup {None}]
    BY <1>0, <1>1 DEF ImportLoad, WriterTypeOK
  <2>5. UNCHANGED <<storeVars, nextSeq>>
    BY <1>1 DEF ImportLoad
  <2> QED
    BY <1>0, <2>3, <2>4, <2>5, Zenon DEF StoreTypeOK, WriterTypeOK, WriterPc
<1>2. CASE Dedup(w)
  BY <1>2, DedupTypes, Zenon
<1>3. CASE Create(w)
  <2>0. job[w].req \in Requests /\ nextSeq[w] \in Nat \ {0}
    <3>1. pc[w] = "create"
      BY <1>3, Zenon DEF Create
    <3> QED
      BY <3>1, <1>b DEF ImportPc
  <2>1. PICK out \in CreateFileResult :
          /\ CreateIfAbsent(nextSeq[w], AppendWal(epoch[w], job[w].req), out)
          /\ \/ Written(w)
             \/ Goto(w, "landed", job[w]) /\ UNCHANGED <<nextSeq, reply>>
    BY <1>3, Zenon DEF Create
  <2>2. /\ DOMAIN wal' \subseteq Nat \ {0}
        /\ wal' \in [DOMAIN wal' -> Wal]
        /\ lateWal' \subseteq LateWal
        /\ faults' \in 0..MaxFaults
    BY <1>0, <1>a, <2>0, <2>1, CreateIfAbsentType, WalTypes
  <2>3. /\ pc' \in [Writers -> WriterPc] /\ job' \in [Writers -> Job]
        /\ nextSeq' \in [Writers -> Nat]
        /\ reply' \in [Writers -> Reply \cup {None}]
    BY <1>0, <1>a, <2>0, <2>1, WrittenType, GotoType, ZenonT(40)
    DEF WriterPc, ImportPc, WriterTypeOK
  <2>u. UNCHANGED <<current, manifests, dedups, data, keys, lateCurrent, epoch>>
    BY <1>3, Zenon DEF Create
  <2> QED
    BY <1>0, <2>2, <2>3, <2>u, Zenon DEF StoreTypeOK, WriterTypeOK, WriterPc
<1>4. CASE Landed(w)
  <2>0. job[w].req \in Requests /\ nextSeq[w] \in Nat \ {0}
    <3>1. pc[w] = "landed"
      BY <1>4, Zenon DEF Landed
    <3> QED
      BY <3>1, <1>b DEF ImportPc
  <2>1. \/ Written(w) /\ UNCHANGED epoch
        \/ /\ Return(w) /\ UNCHANGED <<nextSeq, reply>>
           /\ epoch' \in {epoch, [epoch EXCEPT ![w] = 0]}
    BY <1>4, Zenon DEF Landed
  <2>2. /\ pc' \in [Writers -> WriterPc] /\ job' \in [Writers -> Job]
        /\ nextSeq' \in [Writers -> Nat]
        /\ reply' \in [Writers -> Reply \cup {None}]
        /\ epoch' \in [Writers -> Nat]
    <3>1. CASE Written(w) /\ UNCHANGED epoch
      BY <1>0, <2>0, <3>1, WrittenType, Zenon DEF WriterTypeOK
    <3>2. CASE /\ Return(w) /\ UNCHANGED <<nextSeq, reply>>
               /\ epoch' \in {epoch, [epoch EXCEPT ![w] = 0]}
      <4>1. pc' \in [Writers -> WriterPc] /\ job' \in [Writers -> Job]
        BY <1>0, <3>2, ReturnType, Zenon
      <4> QED
        BY <1>0, <3>2, <4>1 DEF WriterTypeOK
    <3> QED
      BY <2>1, <3>1, <3>2, Zenon
  <2>u. UNCHANGED <<storeVars>>
    BY <1>4, Zenon DEF Landed
  <2> QED
    BY <1>0, <2>2, <2>u, Zenon DEF StoreTypeOK, WriterTypeOK, WriterPc
<1> QED
  BY <1>1, <1>2, <1>3, <1>4

\* The epoch and the report Publish leaves are typed.
LEMMA PublishedType ==
  ASSUME WriterTypeOK, NEW w \in Writers, job[w].req \in Requests,
         NEW seq \in Nat \ {0}, NEW e \in Nat,
         \/ epoch' = [epoch EXCEPT ![w] = e] /\ Report(w, "Committed", seq)
         \/ UNCHANGED <<epoch, reply>>
  PROVE  epoch' \in [Writers -> Nat] /\ reply' \in [Writers -> Reply \cup {None}]
<1>1. CASE epoch' = [epoch EXCEPT ![w] = e] /\ Report(w, "Committed", seq)
  BY <1>1, ReportType DEF WriterTypeOK
<1>2. CASE UNCHANGED <<epoch, reply>>
  BY <1>2 DEF WriterTypeOK
<1> QED
  BY <1>1, <1>2

\* The steps of Publish, an exception and a restart keep the types.
LEMMA PublishTypes ==
  ASSUME IInv, NEW w \in Writers,
         PublishLoad(w) \/ PublishCas(w) \/ Throw(w) \/ Restart(w)
  PROVE  StoreTypeOK' /\ WriterTypeOK'
<1> USE DEF storeVars
<1>0. StoreTypeOK /\ WriterTypeOK /\ WriterOK(w)
  BY DEF IInv, TypeOK
<1>a. /\ job[w] \in Job /\ job[w].epoch \in Nat /\ job[w].seq \in Nat
      /\ job[w].tries \in Nat
      /\ epoch[w] \in Nat /\ nextSeq[w] \in Nat
  BY <1>0, Zenon DEF WriterTypeOK, Job
<1>b. pc[w] \in {"pubLoad", "pubCas"} =>
        /\ job[w].req \in Requests /\ job[w].seq \in Nat \ {0}
        /\ current \in State
  BY <1>0, <1>a DEF WriterOK, ImportPc, InLog, Started, Job, StoreTypeOK
<1>1. CASE PublishLoad(w)
  <2>0. job[w].req \in Requests /\ job[w].seq \in Nat \ {0} /\ current \in State
    BY <1>1, <1>b, Zenon DEF PublishLoad
  <2>1. [job[w] EXCEPT !.snap = current] \in Job
    BY <1>a, <2>0 DEF Job
  <2>2. pc' \in [Writers -> WriterPc] /\ job' \in [Writers -> Job]
    BY <1>0, <1>1, <2>1, ReturnType, GotoType, Zenon DEF PublishLoad, WriterPc, ImportPc
  <2>3. epoch' \in [Writers -> Nat] /\ reply' \in [Writers -> Reply \cup {None}]
    <3>1. \/ /\ epoch' = [epoch EXCEPT ![w] = current.epoch]
             /\ Report(w, "Committed", job[w].seq)
          \/ UNCHANGED <<epoch, reply>>
      BY <1>1, ZenonT(40) DEF PublishLoad
    <3>2. current.epoch \in Nat
      BY <2>0 DEF State
    <3> QED
      BY <1>0, <2>0, <3>1, <3>2, PublishedType, Zenon
  <2>4. UNCHANGED <<storeVars, nextSeq>>
    BY <1>1, Zenon DEF PublishLoad
  <2> QED
    BY <1>0, <2>2, <2>3, <2>4, Zenon DEF StoreTypeOK, WriterTypeOK, WriterPc
<1>2. CASE PublishCas(w)
  <2> DEFINE snap == job[w].snap
             next == PublishTo(snap, job[w].seq)
  <2>0. job[w].req \in Requests /\ job[w].seq \in Nat \ {0} /\ snap \in State
    <3>1. pc[w] = "pubCas"
      BY <1>2, Zenon DEF PublishCas
    <3>2. snap # None
      BY <1>0, <3>1, Zenon DEF WriterOK, SnapPc
    <3>3. snap \in State \cup {None}
      BY <1>a, ZenonT(40) DEF Job
    <3> QED
      BY <1>b, <3>1, <3>2, <3>3, Zenon
  <2>a. next \in State
    BY <2>0, StateTypes, Zenon
  <2> HIDE DEF next
  <2>1. next \in State /\ next.epoch \in Nat
    BY <2>a, Zenon DEF State
  <2> USE DEF next
  <2>2. \E out : CompareExchange(snap, next, out)
    BY <1>2, Zenon DEF PublishCas
  <2>3. \/ epoch' = [epoch EXCEPT ![w] = next.epoch] /\ Report(w, "Committed", job[w].seq)
        \/ UNCHANGED <<epoch, reply>>
    BY <1>2, Zenon DEF PublishCas
  <2>4. \/ Goto(w, "pubLoad", PublishJob(None, job[w].epoch, job[w].seq,
                                        job[w].req, job[w].tries + 1))
        \/ Return(w)
    BY <1>2, Zenon DEF PublishCas
  <2> HIDE DEF next, snap
  <2>5. pc' \in [Writers -> WriterPc] /\ job' \in [Writers -> Job]
    <3>1. job[w].tries + 1 \in Nat
      BY <1>a
    <3>2. PublishJob(None, job[w].epoch, job[w].seq, job[w].req, job[w].tries + 1)
            \in Job
      BY <1>a, <2>0, <3>1 DEF PublishJob, Job, Visibility
    <3> QED
      BY <1>0, <2>4, <3>2, ReturnType, GotoType, Zenon DEF WriterPc, ImportPc
  <2>6. epoch' \in [Writers -> Nat] /\ reply' \in [Writers -> Reply \cup {None}]
    BY <1>0, <2>0, <2>1, <2>3, PublishedType, Zenon
  <2>7. /\ current' \in State \cup {None}
        /\ lateCurrent' \subseteq LateCurrent
        /\ faults' \in 0..MaxFaults
    BY <1>0, <2>0, <2>1, <2>2, CompareExchangeType, Zenon
  <2>8. UNCHANGED <<wal, manifests, dedups, data, keys, lateWal, nextSeq>>
    BY <1>2, Zenon DEF PublishCas
  <2> QED
    BY <1>0, <2>5, <2>6, <2>7, <2>8, Zenon DEF StoreTypeOK, WriterTypeOK, WriterPc
<1>3. CASE Throw(w) \/ Restart(w)
  <2>1. /\ Fault \/ UNCHANGED faults
        /\ Return(w)
        /\ UNCHANGED <<current, wal, manifests, dedups, data, keys, lateWal,
                       lateCurrent, reply>>
        /\ epoch' \in {epoch, [epoch EXCEPT ![w] = 0]}
        /\ nextSeq' \in {nextSeq, [nextSeq EXCEPT ![w] = 0]}
    BY <1>3 DEF Throw, Restart
  <2>2. pc' \in [Writers -> WriterPc] /\ job' \in [Writers -> Job]
    BY <1>0, <2>1, ReturnType
  <2>3. faults' \in 0..MaxFaults
    BY <1>0, <2>1, MaxFaultsAssumption DEF Fault, StoreTypeOK
  <2>4. epoch' \in [Writers -> Nat] /\ nextSeq' \in [Writers -> Nat]
    BY <1>0, <2>1 DEF WriterTypeOK
  <2> QED
    BY <1>0, <2>1, <2>2, <2>3, <2>4, Zenon DEF StoreTypeOK, WriterTypeOK, WriterPc
<1> QED
  BY <1>1, <1>2, <1>3

\* Every step of a writer keeps the types.
LEMMA WriterTypes ==
  ASSUME IInv, NEW w \in Writers, WriterNext(w)
  PROVE  StoreTypeOK' /\ WriterTypeOK'
BY StartTypes, AcquireTypes, ImportTypes, PublishTypes DEF WriterNext

-----------------------------------------------------------------------------
(* Indexers *)

\* An indexer that goes on with typed locals is typed.
LEMMA IndexGotoType ==
  ASSUME IndexerTypeOK, NEW i \in Indexers, NEW p \in IndexPc, NEW j \in IndexJob,
         IndexGoto(i, p, j)
  PROVE  IndexerTypeOK'
BY DEF IndexerTypeOK, IndexGoto

\* An indexer that starts its next attempt is typed.
LEMMA IndexRetryType ==
  ASSUME IndexerTypeOK, NEW i \in Indexers, IndexRetry(i) \/ IndexReturn(i)
  PROVE  IndexerTypeOK'
<1>1. [NoIndexJob EXCEPT !.tries = idx[i].tries + 1] \in IndexJob
  <2>1. idx[i].tries + 1 \in Nat
    BY DEF IndexerTypeOK, IndexJob
  <2> QED
    BY <2>1, NoJobTypes DEF IndexJob
<1> QED
  BY <1>1, NoJobTypes, IndexGotoType DEF IndexRetry, IndexReturn, IndexPc

\* The merged batch index is sound.
LEMMA MergedSound ==
  ASSUME StoreTypeOK, MetaInv, NEW snap, snap.manifest \in DOMAIN manifests,
         NEW end, NEW e \in MergedEntries(snap, end)
  PROVE  EntrySound(e) /\ e \in BatchEntry
<1>1. CASE e \in BatchIndexOf(ManifestOf(snap))
  BY <1>1, BatchIndexSound, Zenon DEF ManifestOf
<1>2. CASE e \in EntriesOf(snap.indexed + 1, end)
  <2>1. EntrySound(e) /\ e.req \in Requests
    BY <1>2, EntriesOfSound, Zenon
  <2>2. PICK s, b : e = [id |-> b, seq |-> s, req |-> wal[s].req]
    BY <1>2 DEF EntriesOf
  <2>3. e.seq \in Nat /\ e.id \in BatchId
    BY <2>1, RequestsAssumption DEF EntrySound, BatchIds, Exists, StoreTypeOK
  <2> QED
    BY <2>1, <2>2, <2>3, Zenon DEF BatchEntry
<1> QED
  BY <1>1, <1>2, Zenon DEF MergedEntries

\* Every step of Index keeps the types.
LEMMA IndexerTypes ==
  ASSUME IInv, NEW i \in Indexers, IndexerNext(i)
  PROVE  StoreTypeOK' /\ IndexerTypeOK'
<1> USE DEF storeVars
<1>0. StoreTypeOK /\ IndexerTypeOK /\ IndexerOK(i) /\ MetaInv
  BY DEF IInv, TypeOK, StoreInv
<1>a. /\ idx[i] \in IndexJob /\ idx[i].end \in Nat /\ idx[i].key \in Nat
      /\ idx[i].tries \in Nat /\ idx[i].files \subseteq DataFile
  BY <1>0 DEF IndexerTypeOK, IndexJob
<1>b. ipc[i] \in IndexPc \ {"idle", "load"} =>
        /\ idx[i].snap \in State /\ idx[i].snap.indexed \in Nat
        /\ idx[i].snap.manifest \in DOMAIN manifests
        /\ ManifestOf(idx[i].snap) \in Manifest
  <2> SUFFICES ASSUME ipc[i] \in IndexPc \ {"idle", "load"}
               PROVE  /\ idx[i].snap \in State /\ idx[i].snap.indexed \in Nat
                      /\ idx[i].snap.manifest \in DOMAIN manifests
                      /\ ManifestOf(idx[i].snap) \in Manifest
    BY Zenon
  <2>1. idx[i].snap \in State
    BY <1>0, Zenon DEF IndexerOK, IndexerTypeOK, IndexJob
  <2>2. idx[i].snap.manifest \in DOMAIN manifests
    BY <1>0, Zenon DEF IndexerOK, GoodState
  <2> QED
    BY <1>0, <2>1, <2>2, Zenon DEF StoreTypeOK, State, ManifestOf
<1>1. CASE IndexLoad(i)
  <2>1. [idx[i] EXCEPT !.snap = current] \in IndexJob
    BY <1>0, <1>a, Zenon DEF StoreTypeOK, IndexJob
  <2> QED
    BY <1>0, <1>1, <2>1, IndexGotoType DEF IndexLoad, StoreTypeOK, IndexPc
<1>2. CASE Scan(i)
  <2>0. ipc[i] \in IndexPc \ {"idle", "load"}
    BY <1>2, ZenonT(40) DEF Scan, IndexPc
  <2>1. PICK end \in idx[i].snap.indexed .. idx[i].snap.indexed + MaxWalPerPass :
          \/ IndexReturn(i)
          \/ \E p \in {"dedup", "data"} : IndexGoto(i, p,
               [snap |-> idx[i].snap, end |-> end,
                files |-> ManifestOf(idx[i].snap).files, key |-> 0,
                tries |-> idx[i].tries])
    BY <1>2, ZenonT(40) DEF Scan
  <2>2. end \in Nat
    BY <1>b, <2>0, <2>1, IndexerAssumption, SMTT(30)
  <2>3. [snap |-> idx[i].snap, end |-> end,
         files |-> ManifestOf(idx[i].snap).files, key |-> 0,
         tries |-> idx[i].tries] \in IndexJob
    BY <1>a, <1>b, <2>0, <2>2, ZenonT(40) DEF IndexJob, Manifest
  <2>4. IndexerTypeOK'
    BY <1>0, <2>1, <2>3, IndexGotoType, IndexRetryType, Zenon DEF IndexPc
  <2> QED
    BY <1>0, <1>2, <2>4, Zenon DEF Scan, StoreTypeOK
<1>3. CASE WriteDataFile(i)
  <2> DEFINE f == [path |-> keys, first |-> idx[i].snap.indexed + 1,
                   last |-> idx[i].end]
             A == AppendsIn(idx[i].snap.indexed + 1, idx[i].end)
  <2>0. ipc[i] \in IndexPc \ {"idle", "load"}
    BY <1>3, Zenon DEF WriteDataFile, IndexPc
  <2>1. f \in DataFile /\ keys \in Nat
    BY <1>0, <1>a, <1>b, <2>0, SMTT(30) DEF StoreTypeOK, DataFile
  <2>2. [idx[i] EXCEPT !.files = @ \cup {f}] \in IndexJob
    BY <1>a, <2>1 DEF IndexJob
  <2>3. IndexerTypeOK'
    BY <1>0, <1>3, <2>2, IndexGotoType DEF WriteDataFile, IndexPc
  <2>4. A \in SUBSET Nat
    BY <1>0 DEF AppendsIn, Exists, StoreTypeOK
  <2>5. data \in [DOMAIN data -> SUBSET Nat] /\ DOMAIN data \subseteq Nat
    BY <1>0 DEF StoreTypeOK
  <2> HIDE DEF A
  <2>6. /\ DOMAIN Stored(data, keys, A) = DOMAIN data \cup {keys}
        /\ Stored(data, keys, A) \in [DOMAIN Stored(data, keys, A) -> SUBSET Nat]
    BY <2>4, <2>5, StoredType, Zenon
  <2>7. data' = Stored(data, keys, A) /\ keys' = keys + 1
    BY <1>3, Zenon DEF WriteDataFile, A
  <2>8. UNCHANGED <<current, wal, manifests, dedups, lateWal, lateCurrent, faults>>
    BY <1>3, Zenon DEF WriteDataFile
  <2>9. keys' \in Nat /\ DOMAIN data' \subseteq Nat /\ data' \in [DOMAIN data' -> SUBSET Nat]
    BY <2>1, <2>5, <2>6, <2>7
  <2> QED
    BY <1>0, <2>3, <2>8, <2>9, ZenonT(40) DEF StoreTypeOK
<1>4. CASE WriteBatchIndex(i)
  <2> DEFINE D == MergedEntries(idx[i].snap, idx[i].end)
  <2>0. ipc[i] \in IndexPc \ {"idle", "load"}
    BY <1>4, ZenonT(40) DEF WriteBatchIndex, IndexPc
  <2>1. D \in SUBSET BatchEntry
    BY <1>0, <1>b, <2>0, MergedSound
  <2>2. keys \in Nat /\ keys' = keys + 1 /\ dedups' = Stored(dedups, keys, D)
    BY <1>0, <1>4 DEF StoreTypeOK, WriteBatchIndex
  <2> HIDE DEF D
  <2>3. dedups \in [DOMAIN dedups -> SUBSET BatchEntry] /\ DOMAIN dedups \subseteq Nat
    BY <1>0 DEF StoreTypeOK
  <2>4. /\ DOMAIN Stored(dedups, keys, D) = DOMAIN dedups \cup {keys}
        /\ Stored(dedups, keys, D)
              \in [DOMAIN Stored(dedups, keys, D) -> SUBSET BatchEntry]
    BY <2>1, <2>3, StoredType, ZenonT(40)
  <2>5. [idx[i] EXCEPT !.key = keys] \in IndexJob
    BY <1>a, <2>2 DEF IndexJob
  <2>6. IndexerTypeOK'
    BY <1>0, <1>4, <2>5, IndexGotoType, IndexRetryType
    DEF WriteBatchIndex, PutFresh, IndexPc
  <2>7. faults' \in 0..MaxFaults
    <3>1. faults' = faults \/ Fault
      BY <1>4, ZenonT(40) DEF WriteBatchIndex, PutFresh
    <3> QED
      BY <1>0, <3>1, MaxFaultsAssumption DEF Fault, StoreTypeOK
  <2>8. UNCHANGED <<current, wal, manifests, data, lateWal, lateCurrent>>
    BY <1>4, Zenon DEF WriteBatchIndex
  <2>9. /\ keys' \in Nat /\ DOMAIN dedups' \subseteq Nat
        /\ dedups' \in [DOMAIN dedups' -> SUBSET BatchEntry]
    BY <2>2, <2>3, <2>4
  <2> QED
    BY <1>0, <2>6, <2>7, <2>8, <2>9, ZenonT(40) DEF StoreTypeOK
<1>5. CASE WriteManifest(i)
  <2> DEFINE m == [covered |-> idx[i].end, files |-> idx[i].files,
                   index |-> {idx[i].key}]
  <2>1. m \in Manifest
    BY <1>a DEF Manifest
  <2>2. manifests' = Stored(manifests, idx[i].key, m)
    BY <1>5, Zenon DEF WriteManifest
  <2> HIDE DEF m
  <2>3. /\ manifests \in [DOMAIN manifests -> Manifest]
        /\ DOMAIN manifests \subseteq Nat
    BY <1>0 DEF StoreTypeOK
  <2>4. /\ DOMAIN Stored(manifests, idx[i].key, m) = DOMAIN manifests \cup {idx[i].key}
        /\ Stored(manifests, idx[i].key, m)
              \in [DOMAIN Stored(manifests, idx[i].key, m) -> Manifest]
    BY <2>1, <2>3, StoredType, Zenon
  <2>5. [idx[i] EXCEPT !.key = idx[i].key] \in IndexJob
    BY <1>a DEF IndexJob
  <2>a. \/ IndexGoto(i, "cas", [idx[i] EXCEPT !.key = idx[i].key])
        \/ IndexRetry(i)
    BY <1>5 DEF WriteManifest, PutFresh
  <2>6. IndexerTypeOK'
    <3>1. "cas" \in IndexPc
      BY DEF IndexPc
    <3> QED
      BY <1>0, <2>5, <2>a, <3>1, IndexGotoType, IndexRetryType, Zenon
  <2>7. faults' \in 0..MaxFaults
    <3>1. faults' = faults \/ Fault
      BY <1>5, ZenonT(40) DEF WriteManifest, PutFresh
    <3> QED
      BY <1>0, <3>1, MaxFaultsAssumption DEF Fault, StoreTypeOK
  <2>8. UNCHANGED <<current, wal, dedups, data, keys, lateWal, lateCurrent>>
    BY <1>5 DEF WriteManifest
  <2>9. DOMAIN manifests' \subseteq Nat /\ manifests' \in [DOMAIN manifests' -> Manifest]
    BY <1>a, <2>2, <2>3, <2>4, Zenon
  <2> QED
    BY <1>0, <2>6, <2>7, <2>8, <2>9, ZenonT(40) DEF StoreTypeOK
<1>6. CASE PublishIndex(i)
  <2> DEFINE snap == idx[i].snap
             next == IndexTo(snap, idx[i].end, idx[i].key)
  <2>1. snap \in State
    BY <1>b, <1>6, Zenon DEF PublishIndex, IndexPc
  <2>2. next \in State
    BY <1>a, <2>1, StateTypes, Zenon
  <2> HIDE DEF next
  <2>3. PICK out : /\ CompareExchange(snap, next, out)
                   /\ IndexReturn(i) \/ IndexRetry(i)
    BY <1>6, Zenon DEF PublishIndex, next
  <2>4. IndexerTypeOK'
    BY <1>0, <2>3, IndexRetryType
  <2>5. /\ current' \in State \cup {None}
        /\ lateCurrent' \subseteq LateCurrent
        /\ faults' \in 0..MaxFaults
    BY <1>0, <2>1, <2>2, <2>3, CompareExchangeType, Zenon
  <2> QED
    BY <1>0, <1>6, <2>4, <2>5, Zenon DEF PublishIndex, StoreTypeOK
<1>7. CASE IndexThrow(i)
  <2>1. faults' \in 0..MaxFaults
    BY <1>0, <1>7, MaxFaultsAssumption DEF IndexThrow, Fault, StoreTypeOK
  <2>2. IndexerTypeOK'
    BY <1>0, <1>7, IndexRetryType, Zenon DEF IndexThrow
  <2> QED
    BY <1>0, <1>7, <2>1, <2>2, Zenon DEF IndexThrow, StoreTypeOK
<1> QED
  BY <1>1, <1>2, <1>3, <1>4, <1>5, <1>6, <1>7 DEF IndexerNext

-----------------------------------------------------------------------------
(* Queries and late requests *)

\* A query that goes on with typed locals is typed.
LEMMA ReadGotoType ==
  ASSUME ReaderTypeOK, NEW r \in Readers, NEW p \in ReadPc, NEW q \in Query,
         ReadGoto(r, p, q)
  PROVE  rpc' \in [Readers -> ReadPc] /\ query' \in [Readers -> Query]
BY DEF ReaderTypeOK, ReadGoto

\* The limit a query stores is within the policy if the shared one and its
\* own were: neither doubling nor halving leaves it.
LEMMA NextLimitInPolicy ==
  ASSUME NEW limit \in ProbeMinimum..ProbeMaximum, NEW probed \in Nat,
         probeLimit \in ProbeMinimum..ProbeMaximum
  PROVE  NextLimit(limit, probed) \in ProbeMinimum..ProbeMaximum
<1>1. CASE probed = limit /\ limit < ProbeMaximum
  BY <1>1, ProbeAssumption DEF NextLimit
<1>2. CASE /\ ~(probed = limit /\ limit < ProbeMaximum)
           /\ probed < limit \div 4 /\ limit > ProbeMinimum
  BY <1>2, ProbeAssumption DEF NextLimit
<1>3. CASE /\ ~(probed = limit /\ limit < ProbeMaximum)
           /\ ~(probed < limit \div 4 /\ limit > ProbeMinimum)
  BY <1>3, ProbeAssumption DEF NextLimit
<1> QED
  BY <1>1, <1>2, <1>3

\* Every step of LoadSnapshot keeps the types.
LEMMA ReaderTypes ==
  ASSUME IInv, NEW r \in Readers, ReaderNext(r, Reported)
  PROVE  ReaderTypeOK'
<1> USE DEF storeVars
<1>0. /\ StoreTypeOK /\ WriterTypeOK /\ ReaderTypeOK /\ ReaderOK(r)
      /\ probeLimit \in ProbeMinimum..ProbeMaximum
  BY DEF IInv, TypeOK, ProbeLimitInPolicy
<1>a. /\ query[r] \in Query /\ query[r].limit \in Nat /\ query[r].tries \in Nat
      /\ query[r].probed \in Nat /\ query[r].owed \subseteq Nat
  BY <1>0, ZenonT(40) DEF ReaderTypeOK, Query
<1>b. Reported \subseteq Nat
  BY <1>0 DEF Reported, WriterTypeOK, Reply
<1>1. ASSUME NEW probe \in BOOLEAN, LoadSnapshot(r, probe, Reported)
      PROVE  ReaderTypeOK'
  <2> DEFINE n == IF probe THEN probeLimit ELSE 0
             q == [snap |-> None, limit |-> n, tries |-> 0, probed |-> 0,
                   owed |-> Reported]
  <2>1. n \in Nat
    BY <1>0 DEF ReaderTypeOK
  <2> HIDE DEF n
  <2>2. q \in Query
    BY <1>b, <2>1 DEF Query
  <2>3. ReadGoto(r, "current", q) /\ UNCHANGED <<view, probeLimit>>
    BY <1>1 DEF LoadSnapshot, n
  <2> HIDE DEF q
  <2>4. rpc' \in [Readers -> ReadPc] /\ query' \in [Readers -> Query]
    BY <1>0, <2>2, <2>3, ReadGotoType DEF ReadPc
  <2> QED
    BY <1>0, <2>3, <2>4 DEF ReaderTypeOK
<1>2. CASE ReadCurrent(r)
  <2>1. [query[r] EXCEPT !.snap = current] \in Query
    BY <1>0, <1>a DEF StoreTypeOK, Query
  <2>2. rpc' \in [Readers -> ReadPc] /\ query' \in [Readers -> Query]
    BY <1>0, <1>2, <2>1, NoJobTypes, ReadGotoType DEF ReadCurrent, ReadPc
  <2> QED
    BY <1>0, <1>2, <2>2 DEF ReadCurrent, ReaderTypeOK
<1>3. CASE ReadWals(r)
  <2>1. query[r].snap \in State
    BY <1>0, <1>3, Zenon DEF ReadWals, ReaderOK, ReaderTypeOK, Query
  <2>2. CASE \E n \in 0..query[r].limit :
               /\ view' = [view EXCEPT ![r] =
                             [snap |-> query[r].snap,
                              through |-> query[r].snap.published + n,
                              owed |-> query[r].owed]]
               /\ \/ ReadGoto(r, "idle", NoQuery)
                  \/ ReadGoto(r, "adjust",
                              [snap |-> None, limit |-> query[r].limit,
                               tries |-> 0, probed |-> n, owed |-> {}])
    <3>1. PICK n \in 0..query[r].limit :
               /\ view' = [view EXCEPT ![r] =
                             [snap |-> query[r].snap,
                              through |-> query[r].snap.published + n,
                              owed |-> query[r].owed]]
               /\ \/ ReadGoto(r, "idle", NoQuery)
                  \/ ReadGoto(r, "adjust",
                              [snap |-> None, limit |-> query[r].limit,
                               tries |-> 0, probed |-> n, owed |-> {}])
      BY <2>2, Zenon
    <3>2. n \in Nat /\ query[r].snap.published + n \in Nat
      BY <1>a, <2>1 DEF State
    <3>3. [snap |-> query[r].snap, through |-> query[r].snap.published + n,
           owed |-> query[r].owed] \in View
      BY <1>a, <2>1, <3>2, ZenonT(40) DEF View
    <3>4. [snap |-> None, limit |-> query[r].limit, tries |-> 0, probed |-> n,
           owed |-> {}] \in Query
      BY <1>a, <3>2 DEF Query
    <3>5. rpc' \in [Readers -> ReadPc] /\ query' \in [Readers -> Query]
      BY <1>0, <3>1, <3>4, NoJobTypes, ReadGotoType, ZenonT(40) DEF ReadPc
    <3>6. view' \in [Readers -> View \cup {None}]
      BY <1>0, <3>1, <3>3, ZenonT(40) DEF ReaderTypeOK
    <3> QED
      BY <1>0, <1>3, <3>5, <3>6, ZenonT(40) DEF ReadWals, ReaderTypeOK
  <2>3. CASE /\ UNCHANGED view
             /\ \/ ReadGoto(r, "current",
                            [snap |-> None, limit |-> query[r].limit,
                             tries |-> 1, probed |-> 0, owed |-> query[r].owed])
                \/ ReadGoto(r, "failed", NoQuery)
    <3>1. [snap |-> None, limit |-> query[r].limit, tries |-> 1, probed |-> 0,
           owed |-> query[r].owed] \in Query
      BY <1>a DEF Query
    <3>2. rpc' \in [Readers -> ReadPc] /\ query' \in [Readers -> Query]
      BY <1>0, <2>3, <3>1, NoJobTypes, ReadGotoType DEF ReadPc
    <3> QED
      BY <1>0, <1>3, <2>3, <3>2, ZenonT(40) DEF ReadWals, ReaderTypeOK
  <2> QED
    BY <1>3, <2>2, <2>3, ZenonT(40) DEF ReadWals
<1>4. CASE AdjustProbe(r)
  <2>1. query[r].limit \in ProbeMinimum..ProbeMaximum
    <3>1. /\ query[r].limit \in {0} \cup ProbeMinimum..ProbeMaximum
          /\ rpc[r] = "adjust" => query[r].limit # 0
      BY <1>0, Zenon DEF ReaderOK
    <3> QED
      BY <1>4, <3>1 DEF AdjustProbe
  <2>2. probeLimit' \in Nat
    <3>1. NextLimit(query[r].limit, query[r].probed) \in ProbeMinimum..ProbeMaximum
      BY <1>0, <1>a, <2>1, NextLimitInPolicy, Zenon
    <3>2. probeLimit' = NextLimit(query[r].limit, query[r].probed)
      BY <1>4, Zenon DEF AdjustProbe
    <3>3. PICK n \in ProbeMinimum..ProbeMaximum : probeLimit' = n
      BY <3>1, <3>2, Zenon
    <3> QED
      BY <3>3, ProbeAssumption
  <2>3. rpc' \in [Readers -> ReadPc] /\ query' \in [Readers -> Query]
    BY <1>0, <1>4, NoJobTypes, ReadGotoType, Zenon DEF AdjustProbe, ReadPc
  <2> QED
    BY <1>0, <1>4, <2>2, <2>3, Zenon DEF AdjustProbe, ReaderTypeOK
<1>5. CASE ReadThrow(r)
  BY <1>0, <1>5, NoJobTypes, ReadGotoType DEF ReadThrow, ReadPc, ReaderTypeOK
<1> QED
  BY <1>1, <1>2, <1>3, <1>4, <1>5 DEF ReaderNext

\* A conditional write applied after its reply was lost keeps the types.
LEMMA LateTypes ==
  ASSUME IInv, StoreStep
  PROVE  StoreTypeOK'
<1>0. StoreTypeOK /\ LateInv
  BY DEF IInv, TypeOK, StoreInv
<1>1. ASSUME NEW p \in lateWal, LandWal(p)
      PROVE  StoreTypeOK'
  <2>1. p.slot \in Nat \ {0} /\ p.rec \in Wal
    BY <1>0 DEF StoreTypeOK, LateWal, LateInv, PutOK
  <2>2. wal \in [DOMAIN wal -> Wal] /\ DOMAIN wal \subseteq Nat \ {0}
    BY <1>0 DEF StoreTypeOK
  <2>3. /\ DOMAIN Stored(wal, p.slot, p.rec) = DOMAIN wal \cup {p.slot}
        /\ Stored(wal, p.slot, p.rec) \in [DOMAIN Stored(wal, p.slot, p.rec) -> Wal]
    BY <2>1, <2>2, StoredType, Zenon
  <2>4. DOMAIN wal' \subseteq Nat \ {0} /\ wal' \in [DOMAIN wal' -> Wal]
    BY <1>1, <2>1, <2>2, <2>3, ZenonT(40) DEF LandWal
  <2> QED
    BY <1>0, <1>1, <2>4, Zenon DEF LandWal, StoreTypeOK
<1>2. ASSUME NEW p \in lateCurrent, LandCurrent(p)
      PROVE  StoreTypeOK'
  <2>1. p.next \in State
    BY <1>0 DEF StoreTypeOK, LateCurrent
  <2> QED
    BY <1>0, <1>2, <2>1 DEF LandCurrent, StoreTypeOK
<1> QED
  BY <1>1, <1>2 DEF StoreStep

\* Types are kept by every step.
LEMMA TypeStep ==
  ASSUME IInv, [Next]_vars
  PROVE  TypeOK'
<1> USE DEF storeVars, writerVars, indexerVars, readerVars
<1>0. StoreTypeOK /\ WriterTypeOK /\ IndexerTypeOK /\ ReaderTypeOK
  BY DEF IInv, TypeOK
<1>1. ASSUME NEW w \in Writers, WriterStep(w)
      PROVE  TypeOK'
  <2>1. StoreTypeOK' /\ WriterTypeOK'
    BY <1>1, WriterTypes, Zenon DEF WriterStep
  <2> QED
    BY <1>0, <1>1, <2>1 DEF WriterStep, TypeOK, IndexerTypeOK, ReaderTypeOK
<1>2. ASSUME NEW i \in Indexers, IndexerStep(i)
      PROVE  TypeOK'
  <2>1. StoreTypeOK' /\ IndexerTypeOK'
    BY <1>2, IndexerTypes, Zenon DEF IndexerStep
  <2> QED
    BY <1>0, <1>2, <2>1 DEF IndexerStep, TypeOK, WriterTypeOK, ReaderTypeOK
<1>3. ASSUME NEW r \in Readers, ReaderStep(r)
      PROVE  TypeOK'
  <2>1. ReaderTypeOK'
    BY <1>3, ReaderTypes, Zenon DEF ReaderStep
  <2> QED
    BY <1>0, <1>3, <2>1, Zenon
    DEF ReaderStep, ReaderNext, TypeOK, StoreTypeOK, WriterTypeOK, IndexerTypeOK
<1>4. CASE StoreStep
  <2>1. StoreTypeOK'
    BY <1>4, LateTypes, Zenon
  <2> QED
    BY <1>0, <1>4, <2>1
    DEF StoreStep, TypeOK, WriterTypeOK, IndexerTypeOK, ReaderTypeOK
<1>5. CASE UNCHANGED vars
  BY <1>0, <1>5, Zenon DEF vars, TypeOK, StoreTypeOK, WriterTypeOK, IndexerTypeOK,
                    ReaderTypeOK
<1> QED
  BY <1>1, <1>2, <1>3, <1>4, <1>5 DEF Next
=============================================================================
