-------------------------- MODULE CloudPathWriter ---------------------------
(***************************************************************************)
(* What a writer knows after each step of Start and when it has written a  *)
(* slot; the store only grows, and what a caller knows about it stays true *)
(* while other callers take steps.                                         *)
(***************************************************************************)
EXTENDS CloudPathTypes

USE DEF InitialKey

\* No object changes or vanishes, and CURRENT does not go back.
Grows ==
  /\ \A s \in DOMAIN wal : s \in DOMAIN wal' /\ wal'[s] = wal[s]
  /\ \A k \in DOMAIN manifests :
       k \in DOMAIN manifests' /\ manifests'[k] = manifests[k]
  /\ \A k \in DOMAIN dedups : k \in DOMAIN dedups' /\ dedups'[k] = dedups[k]
  /\ keys' >= keys
  /\ current # None => /\ current' # None
                       /\ current'.version >= current.version
                       /\ current'.epoch >= current.epoch
                       /\ current'.published >= current.published

-----------------------------------------------------------------------------
(* What a caller knows stays true while it takes no step. *)

\* What a started writer knows of its slots survives others' steps.
LEMMA StartedStable ==
  ASSUME TypeOK, TypeOK', Grows, NEW w \in Writers, WriterOK(w),
         epoch'[w] = epoch[w], nextSeq'[w] = nextSeq[w]
  PROVE  (epoch[w] # 0 => Started(w))'
<1>a. epoch[w] \in Nat /\ nextSeq[w] \in Nat
  BY DEF TypeOK, WriterTypeOK
<1>b. current # None => current.epoch \in Nat /\ current'.epoch \in Nat
  BY DEF TypeOK, StoreTypeOK, State, Grows
<1> QED
  BY <1>a, <1>b, SMTT(30) DEF WriterOK, Started, Grows, Through, Exists

\* What Import reported survives others' steps.
LEMMA ReplyStable ==
  ASSUME TypeOK, TypeOK', Grows, NEW w \in Writers, WriterOK(w),
         reply'[w] = reply[w]
  PROVE  ReplyOK(w)'
<1>a. reply[w] # None => reply[w].seq \in Nat
  BY DEF TypeOK, WriterTypeOK, Reply
<1>b. current # None => current.published \in Nat /\ current'.published \in Nat
  BY DEF TypeOK, StoreTypeOK, State, Grows
<1> QED
  BY <1>a, <1>b, SMTT(30) DEF WriterOK, ReplyOK, Grows, Exists

-----------------------------------------------------------------------------
(* Start *)

\* A writer whose call has returned.
LEMMA WriterIdle ==
  ASSUME NEW w \in Writers, WriterTypeOK, Return(w),
         (epoch[w] # 0 => Started(w))', ReplyOK(w)'
  PROVE  WriterOK(w)'
<1>1. pc'[w] = "idle"
  BY DEF WriterTypeOK, Return, Goto
<1> QED
  BY <1>1 DEF WriterOK, FencingPc, SnapPc, ImportPc

\* Goto sets the locals.
LEMMA GotoValue ==
  ASSUME NEW w \in Writers, WriterTypeOK, NEW p, NEW j, Goto(w, p, j)
  PROVE  pc'[w] = p /\ job'[w] = j
BY DEF WriterTypeOK, Goto

\* The locals of a call that goes on to fence slot n.
LEMMA GotoFence ==
  ASSUME NEW w \in Writers, WriterTypeOK, NEW p, NEW e, NEW n,
         Goto(w, p, FenceJob(e, n))
  PROVE  pc'[w] = p /\ job'[w].epoch = e /\ job'[w].seq = n
BY GotoValue DEF FenceJob

\* A writer that is about to publish its slot.
LEMMA WriterPublishing ==
  ASSUME NEW w \in Writers, pc'[w] = "pubLoad", InLog(w)', epoch'[w] # 0,
         job'[w].req # None, (epoch[w] # 0 => Started(w))', ReplyOK(w)'
  PROVE  WriterOK(w)'
BY DEF WriterOK, FencingPc, SnapPc, ImportPc

\* A writer on its way through the fencing loop.
LEMMA WriterFencing ==
  ASSUME NEW w \in Writers, pc'[w] \in {"fenceLoad", "fenceSlot", "fenceLanded"},
         current' # None, job'[w].epoch <= current'.epoch, job'[w].seq >= 1,
         Through(job[w].seq - 1)',
         pc'[w] # "fenceLoad" => PutOK(job[w].seq, Fence(job[w].epoch))',
         (epoch[w] # 0 => Started(w))', ReplyOK(w)'
  PROVE  WriterOK(w)'
BY DEF WriterOK, FencingPc, SnapPc, ImportPc

\* Start.
LEMMA StartOwn ==
  ASSUME IInv, TypeOK', Grows, NEW w \in Writers,
         StartLoad(w) \/ InitializeManifest(w) \/ InitializeCurrent(w)
           \/ StartReload(w) \/ Acquire(w)
  PROVE  WriterOK(w)'
<1> USE DEF storeVars
<1>0. /\ TypeOK /\ StoreTypeOK /\ WriterTypeOK /\ WriterOK(w) /\ StoreInv
      /\ StoreTypeOK' /\ WriterTypeOK'
  BY DEF IInv, TypeOK
<1>1. (epoch[w] # 0 => Started(w))' /\ ReplyOK(w)'
  <2>1. epoch' = epoch /\ nextSeq' = nextSeq /\ reply' = reply
    BY Zenon DEF StartLoad, InitializeManifest, InitializeCurrent, StartReload, Acquire
  <2> QED
    BY <1>0, <2>1, StartedStable, ReplyStable, ZenonT(40)
<1>2. CASE Return(w)
  BY <1>0, <1>1, <1>2, WriterIdle, Zenon
<1>3. CASE Goto(w, "initManifest", NoJob)
  BY <1>0, <1>1, <1>3, GotoValue, Zenon DEF WriterOK, FencingPc, SnapPc, ImportPc
<1>4. CASE Goto(w, "initCurrent", NoJob) /\ InitialKey \in DOMAIN manifests'
  BY <1>0, <1>1, <1>4, GotoValue, Zenon DEF WriterOK, FencingPc, SnapPc, ImportPc
<1>5. ASSUME NEW j, Goto(w, "reload", j), current' # None
      PROVE  WriterOK(w)'
  BY <1>0, <1>1, <1>5, GotoValue, Zenon DEF WriterOK, FencingPc, SnapPc, ImportPc
<1>6. ASSUME NEW n, Goto(w, "acquire", StartJob(current, n)), current # None,
             UNCHANGED storeVars
      PROVE  WriterOK(w)'
  <2>1. pc'[w] = "acquire" /\ job'[w].snap = current
    BY <1>0, <1>6, GotoValue, SMTT(30) DEF StartJob
  <2>2. GoodState(current)' /\ Past(current)'
    BY <1>0, <1>6 DEF StoreInv, GoodState, Past, Through, Exists, StoreTypeOK, State
  <2>3. (GoodState(job[w].snap) /\ Past(job[w].snap))'
    BY <1>6, <2>1, <2>2, Zenon DEF GoodState, Past
  <2> QED
    BY <1>1, <1>6, <2>1, <2>3, Zenon DEF WriterOK, FencingPc, SnapPc, ImportPc
<1>7. ASSUME NEW e \in Nat, NEW n \in Nat \ {0}, Goto(w, "fenceLoad", FenceJob(e, n)),
             current' # None, e <= current'.epoch, \A t \in 1..n - 1 : Exists(t)
      PROVE  WriterOK(w)'
  <2>1. pc'[w] = "fenceLoad" /\ job'[w].epoch = e /\ job'[w].seq = n
    BY <1>0, <1>7, GotoFence, Zenon
  <2>2. Through(job[w].seq - 1)'
    BY <1>7, <2>1, Zenon DEF Through, Exists, Grows
  <2> QED
    <3>1. job'[w].epoch <= current'.epoch /\ job'[w].seq >= 1
      BY <1>7, <2>1, SMTT(30)
    <3> QED
      BY <1>1, <1>7, <2>1, <2>2, <3>1, WriterFencing, Zenon
<1>8. CASE StartLoad(w)
  BY <1>3, <1>6, <1>8, Zenon DEF StartLoad
<1>9. CASE InitializeManifest(w)
  BY <1>2, <1>4, <1>9, Zenon DEF InitializeManifest, Stored
<1>10. CASE InitializeCurrent(w)
  <2>1. InitialState # None
    BY StateTypes, NoneAssumption DEF InitialState, State
  <2> QED
    BY <1>2, <1>5, <1>10, <2>1, Zenon DEF InitializeCurrent, CompareExchange
<1>11. CASE StartReload(w)
  BY <1>0, <1>2, <1>6, <1>11, Zenon DEF StartReload, WriterOK
<1>12. CASE Acquire(w)
  <2> DEFINE snap == job[w].snap
             next == AcquireEpoch(snap)
  <2>1. snap \in State /\ GoodState(snap) /\ Past(snap)
    BY <1>0, <1>12, Zenon DEF Acquire, WriterOK, SnapPc, WriterTypeOK, Job
  <2>2. /\ next \in State /\ next.epoch \in Nat
        /\ next.indexed = snap.indexed /\ snap.indexed \in Nat
    BY <2>1, StateTypes, StateFields, Zenon DEF State
  <2>3. \A t \in 1..snap.indexed : Exists(t)
    BY <2>1, SMTT(30) DEF GoodState, Through, State
  <2> HIDE DEF next
  <2>4. ASSUME NEW out, CompareExchange(snap, next, out), out = "Applied",
               Goto(w, "fenceLoad", FenceJob(next.epoch, next.indexed + 1))
        PROVE  WriterOK(w)'
    <3>1. current' = next /\ next # None
      BY <2>2, <2>4, NoneAssumption, Zenon DEF CompareExchange
    <3>2. \A t \in 1..(next.indexed + 1) - 1 : Exists(t)
      BY <2>2, <2>3, SMTT(30)
    <3> QED
      BY <1>7, <2>2, <2>4, <3>1, <3>2, SMTT(30)
  <2>5. current' # None
    BY <2>1 DEF Past, Grows
  <2> QED
    BY <1>2, <1>5, <1>12, <2>4, <2>5, Zenon DEF Acquire, next
<1> QED
  BY <1>8, <1>9, <1>10, <1>11, <1>12

\* Fencing: the slot a fence goes to is the first free one, and every record
\* before it is of this epoch or an older one.
LEMMA FenceOwn ==
  ASSUME IInv, TypeOK', Grows, NEW w \in Writers,
         FenceLoad(w) \/ FenceSlot(w) \/ FenceLanded(w)
  PROVE  WriterOK(w)'
<1> USE DEF storeVars
<1>0. /\ TypeOK /\ StoreTypeOK /\ WriterTypeOK /\ WriterOK(w) /\ StoreInv
      /\ StoreTypeOK' /\ WriterTypeOK'
  BY DEF IInv, TypeOK
<1>1. (epoch[w] # 0 => Started(w))' /\ ReplyOK(w)'
  <2>1. epoch' = epoch /\ nextSeq' = nextSeq /\ reply' = reply
    BY Zenon DEF FenceLoad, FenceSlot, FenceLanded
  <2> QED
    BY <1>0, <2>1, StartedStable, ReplyStable
<1>2. /\ current # None /\ current \in State /\ GoodState(current)
      /\ job[w].epoch <= current.epoch /\ job[w].epoch \in Nat
      /\ job[w].seq \in Nat \ {0} /\ Through(job[w].seq - 1)
      /\ current.epoch \in Nat /\ current.indexed \in Nat /\ current.published \in Nat
  <2>1. pc[w] \in FencingPc
    BY Zenon DEF FenceLoad, FenceSlot, FenceLanded, FencingPc
  <2>2. /\ current # None /\ job[w].epoch <= current.epoch
        /\ job[w].seq >= 1 /\ Through(job[w].seq - 1)
    BY <1>0, <2>1, Zenon DEF WriterOK
  <2>3. current \in State /\ GoodState(current)
    BY <1>0, <2>2, Zenon DEF StoreInv, StoreTypeOK
  <2>4. job[w].epoch \in Nat /\ job[w].seq \in Nat
    BY <1>0, Zenon DEF WriterTypeOK, Job
  <2>5. job[w].seq \in Nat \ {0}
    BY <2>2, <2>4
  <2>6. current.epoch \in Nat /\ current.indexed \in Nat /\ current.published \in Nat
    BY <2>3, Zenon DEF State
  <2> QED
    BY <2>2, <2>3, <2>4, <2>5, <2>6, Zenon
<1>3. current' # None /\ job[w].epoch <= current'.epoch
  BY <1>0, <1>2 DEF Grows, StoreTypeOK, State
<1>4. CASE Return(w)
  BY <1>0, <1>1, <1>4, WriterIdle, Zenon
<1>5. CASE FenceLoad(w)
  <2> DEFINE seq == IF job[w].seq <= current.indexed THEN current.indexed + 1
                                                     ELSE job[w].seq
  <2>1. seq \in Nat \ {0}
    BY <1>2
  <2>2. Through(seq - 1)
    <3>1. CASE job[w].seq <= current.indexed
      <4>1. \A t \in 1..current.indexed : Exists(t)
        BY <1>2 DEF GoodState, Through
      <4> QED
        BY <1>2, <3>1, <4>1 DEF Through
    <3>2. CASE ~(job[w].seq <= current.indexed)
      BY <1>2, <3>2, Zenon
    <3> QED
      BY <3>1, <3>2
  <2>3. CASE current.epoch = job[w].epoch /\ Goto(w, "fenceSlot", FenceJob(job[w].epoch, seq))
    <3> HIDE DEF seq
    <3>1. pc'[w] = "fenceSlot" /\ job'[w].epoch = job[w].epoch /\ job'[w].seq = seq
      BY <1>0, <2>3, GotoFence, Zenon
    <3>2. PutOK(seq, Fence(job[w].epoch))
      <4>1. \A t \in 1..seq - 1 : wal[t].epoch <= job[w].epoch
        BY <1>0, <2>1, <2>2, <2>3 DEF StoreInv, WalInv, Through, Exists
      <4>2. BatchIds(Fence(job[w].epoch)) = {} /\ Fence(job[w].epoch).epoch = job[w].epoch
        BY Zenon DEF BatchIds, IsAppend, Fence
      <4> QED
        BY <2>1, <2>2, <4>1, <4>2 DEF PutOK
    <3>3. wal' = wal
      BY <1>5 DEF FenceLoad
    <3>4. PutOK(job[w].seq, Fence(job[w].epoch))' /\ Through(job[w].seq - 1)'
      BY <3>1, <3>2, <3>3, ZenonT(30) DEF PutOK, Through, Exists
    <3> QED
      <4>1. job'[w].epoch <= current'.epoch /\ job'[w].seq >= 1
        BY <1>3, <2>1, <3>1
      <4> QED
        BY <1>1, <1>3, <3>1, <3>4, <4>1, WriterFencing, Zenon
  <2> QED
    BY <1>4, <1>5, <2>3, Zenon DEF FenceLoad
<1>6. ASSUME Goto(w, "confirm", job[w]), job[w].seq \in DOMAIN wal',
             wal'[job[w].seq] = Fence(job[w].epoch), PutOK(job[w].seq, Fence(job[w].epoch))
      PROVE  WriterOK(w)'
  <2>1. pc'[w] = "confirm" /\ job'[w] = job[w]
    BY <1>0, <1>6, GotoValue, Zenon
  <2>2. \A t \in 1..job[w].seq : t \in DOMAIN wal' /\ wal'[t].epoch <= job[w].epoch
    <3> SUFFICES ASSUME NEW t \in 1..job[w].seq
                 PROVE  t \in DOMAIN wal' /\ wal'[t].epoch <= job[w].epoch
      BY ZenonT(40)
    <3>1. CASE t = job[w].seq
      BY <1>2, <1>6, <3>1, SMTT(60) DEF Exists, Fence
    <3>2. CASE t # job[w].seq
      <4>1. t \in 1..job[w].seq - 1
        BY <1>2, <3>2, SMTT(30)
      <4>2. t \in DOMAIN wal /\ wal[t].epoch <= job[w].epoch
        BY <1>6, <4>1, Zenon DEF PutOK, Through, Exists, Fence
      <4> QED
        BY <4>2, Zenon DEF Grows
    <3> QED
      BY <3>1, <3>2, Zenon
  <2>3. (Through(job[w].seq) /\ Through(job[w].seq - 1))'
    BY <1>2, <2>1, <2>2, SMTT(30) DEF Through, Exists
  <2> QED
    BY <1>1, <1>2, <1>3, <2>1, <2>2, <2>3, SMTT(60) DEF WriterOK, FencingPc, SnapPc, ImportPc
<1>7. CASE FenceSlot(w)
  <2>1. PICK out \in CreateFileResult :
          /\ CreateIfAbsent(job[w].seq, Fence(job[w].epoch), out)
          /\ \/ out = "Created" /\ Goto(w, "confirm", job[w])
             \/ /\ out = "AlreadyExists"
                /\ Goto(w, "fenceLoad", FenceJob(job[w].epoch, job[w].seq + 1))
             \/ out = "RetryableConflict" /\ Goto(w, "fenceLanded", job[w])
    BY <1>7, Zenon DEF FenceSlot
  <2>2. PutOK(job[w].seq, Fence(job[w].epoch))
    BY <1>0, <1>7, Zenon DEF FenceSlot, WriterOK
  <2>3. CASE out = "Created"
    <3>1. job[w].seq \in DOMAIN wal' /\ wal'[job[w].seq] = Fence(job[w].epoch)
      BY <2>1, <2>3, Zenon DEF CreateIfAbsent, Stored, Exists
    <3> QED
      BY <1>6, <2>1, <2>2, <2>3, <3>1, Zenon
  <2>4. CASE out = "AlreadyExists"
    <3>1. /\ pc'[w] = "fenceLoad" /\ job'[w].epoch = job[w].epoch
          /\ job'[w].seq = job[w].seq + 1
      BY <1>0, <2>1, <2>4, GotoFence, ZenonT(40)
    <3>2. \A t \in 1..job[w].seq : t \in DOMAIN wal'
      BY <1>2, <2>1, <2>4, SMTT(60) DEF CreateIfAbsent, Exists, Through
    <3>3. Through(job[w].seq - 1)'
      BY <1>2, <3>1, <3>2, SMTT(30) DEF Through, Exists
    <3>4. job'[w].epoch <= current'.epoch /\ job'[w].seq >= 1
      BY <1>2, <1>3, <3>1
    <3> QED
      BY <1>1, <1>3, <3>1, <3>3, <3>4, WriterFencing, Zenon
  <2>5. CASE out = "RetryableConflict"
    <3>1. pc'[w] = "fenceLanded" /\ job'[w] = job[w]
      BY <1>0, <2>1, <2>5, GotoValue, Zenon
    <3>2. PutOK(job[w].seq, Fence(job[w].epoch))' /\ Through(job[w].seq - 1)'
      BY <1>2, <2>2, <3>1, Zenon DEF PutOK, Through, Exists, Grows
    <3>3. job'[w].epoch <= current'.epoch /\ job'[w].seq >= 1
      BY <1>2, <1>3, <3>1
    <3> QED
      BY <1>1, <1>3, <3>1, <3>2, <3>3, WriterFencing, Zenon
  <2> QED
    BY <2>1, <2>3, <2>4, <2>5, Zenon
<1>8. CASE FenceLanded(w)
  <2>1. PutOK(job[w].seq, Fence(job[w].epoch)) /\ wal' = wal
    BY <1>0, <1>8, Zenon DEF FenceLanded, WriterOK
  <2> QED
    BY <1>4, <1>6, <1>8, <2>1, Zenon DEF FenceLanded, Exists
<1> QED
  BY <1>5, <1>7, <1>8

-----------------------------------------------------------------------------
(* Import and Publish, and the end of Start *)

\* A batch id that is not known below next_seq_ is in no slot there.
LEMMA UnknownIsNew ==
  ASSUME IInv, NEW w \in Writers, pc[w] = "dedup",
         Already(w) = {}, ConsistentRetry(w)
  PROVE  PutOK(nextSeq[w], AppendWal(epoch[w], job[w].req))
<1>0. /\ StoreTypeOK /\ WriterTypeOK /\ WriterOK(w) /\ StoreInv
  BY Zenon DEF IInv, TypeOK
<1>1. /\ job[w].req \in Requests /\ job[w].req # None /\ Started(w)
      /\ nextSeq[w] \in Nat /\ epoch[w] \in Nat
      /\ job[w].snap \in State /\ GoodState(job[w].snap)
  BY <1>0, Zenon DEF WriterOK, ImportPc, SnapPc, WriterTypeOK, Job
<1>2. /\ AppendWal(epoch[w], job[w].req).epoch = epoch[w]
      /\ BatchIds(AppendWal(epoch[w], job[w].req)) = job[w].req.ids
  BY <1>1, Zenon DEF AppendWal, BatchIds, IsAppend
<1>3. ASSUME NEW t \in 1..nextSeq[w] - 1, NEW b \in BatchIds(wal[t])
      PROVE  \E e \in Known(w) : e.id = b
  <2>0. job[w].snap.indexed \in Nat
    BY <1>1 DEF State
  <2>1. CASE t <= job[w].snap.indexed
    <3>1. /\ ManifestGood(ManifestOf(job[w].snap))
          /\ ManifestOf(job[w].snap).covered = job[w].snap.indexed
      BY <1>0, <1>1, Zenon DEF StoreInv, MetaInv, GoodState, ManifestOf
    <3>2. t \in 1..job[w].snap.indexed
      BY <2>0, <2>1
    <3>3. \E e \in BatchIndexOf(ManifestOf(job[w].snap)) : e.id = b
      BY <3>1, <3>2 DEF ManifestGood, Complete
    <3> QED
      BY <3>3, Zenon DEF Known
  <2>2. CASE t > job[w].snap.indexed
    <3>1. t \in job[w].snap.indexed + 1 .. nextSeq[w] - 1
      BY <1>1, <2>0, <2>2, SMTT(30)
    <3>2. Exists(t)
      BY <1>1 DEF Started, Through
    <3>3. \E e \in EntriesOf(job[w].snap.indexed + 1, nextSeq[w] - 1) : e.id = b
      <4>1. PICK first, last : first = job[w].snap.indexed + 1 /\ last = nextSeq[w] - 1
        BY Zenon
      <4>2. first \in Int /\ last \in Int /\ t \in first..last
        BY <1>1, <2>0, <3>1, <4>1, SMTT(30)
      <4>3. \E e \in EntriesOf(first, last) : e.id = b
        <5>1. Exists(t) /\ b \in BatchIds(wal[t])
          BY <1>3, <3>2
        <5> QED
          BY <4>2, <5>1, EntriesOfComplete
      <4> QED
        BY <4>1, <4>3
    <3> QED
      BY <3>3 DEF Known
  <2> QED
    BY <2>0, <2>1, <2>2, SMTT(30)
<1>4. \A t \in 1..nextSeq[w] - 1 : BatchIds(wal[t]) \cap job[w].req.ids = {}
  BY <1>3, Zenon DEF Already
<1> QED
  BY <1>1, <1>2, <1>4, Zenon DEF PutOK, Started

\* Advancing next_seq_ behind the record just written.
LEMMA WrittenOwn ==
  ASSUME IInv, TypeOK', Grows, NEW w \in Writers, pc[w] \in {"create", "landed"},
         Written(w), nextSeq[w] \in DOMAIN wal',
         wal'[nextSeq[w]] = AppendWal(epoch[w], job[w].req), epoch'[w] = epoch[w]
  PROVE  WriterOK(w)'
<1>0. /\ TypeOK /\ StoreTypeOK /\ WriterTypeOK /\ WriterOK(w)
      /\ StoreTypeOK' /\ WriterTypeOK'
  BY DEF IInv, TypeOK
<1>1. /\ Started(w) /\ epoch[w] # 0 /\ epoch[w] \in Nat /\ nextSeq[w] \in Nat
      /\ job[w].req # None /\ nextSeq'[w] = nextSeq[w] + 1
      /\ AppendWal(epoch[w], job[w].req).epoch = epoch[w]
      /\ AppendWal(epoch[w], job[w].req).req = job[w].req
  BY <1>0, Zenon DEF WriterOK, ImportPc, WriterTypeOK, Written, AppendWal
<1>2. \A t \in 1..nextSeq[w] : t \in DOMAIN wal' /\ wal'[t].epoch <= epoch[w]
  <2> SUFFICES ASSUME NEW t \in 1..nextSeq[w]
               PROVE  t \in DOMAIN wal' /\ wal'[t].epoch <= epoch[w]
    BY Zenon
  <2>1. CASE t = nextSeq[w]
    BY <1>1, <2>1
  <2>2. CASE t \in 1..nextSeq[w] - 1
    BY <1>1, <2>2, Zenon DEF Started, Through, Exists, Grows
  <2> QED
    BY <1>1, <2>1, <2>2
<1>3. current # None /\ current' # None /\ epoch[w] <= current'.epoch
  <2>1. PICK c, d : c = current.epoch /\ d = current'.epoch
    BY Zenon
  <2>2. /\ current # None /\ current' # None /\ c \in Nat /\ d \in Nat
        /\ epoch[w] <= c /\ d >= c
    BY <1>0, <1>1, <2>1, Zenon DEF Started, Grows, StoreTypeOK, State
  <2> QED
    BY <1>1, <2>1, <2>2
<1>4. Started(w)'
  BY <1>1, <1>2, <1>3, SMTT(60) DEF Started, Through, Exists
<1>5. CASE Report(w, "Durable", nextSeq[w]) /\ Return(w)
  <2>1. reply'[w] = [req |-> job[w].req, seq |-> nextSeq[w], code |-> "Durable"]
    BY <1>0, <1>5, Zenon DEF Report, WriterTypeOK
  <2>2. ReplyOK(w)'
    BY <1>1, <2>1, SMTT(60) DEF ReplyOK, Exists
  <2> QED
    BY <1>0, <1>4, <1>5, <2>2, WriterIdle, Zenon
<1>6. CASE /\ Goto(w, "pubLoad", PublishJob(None, epoch[w], nextSeq[w],
                                            job[w].req, 0))
           /\ UNCHANGED reply
  <2>1. pc'[w] = "pubLoad" /\ job'[w].seq = nextSeq[w] /\ job'[w].req = job[w].req
    <3>1. /\ pc'[w] = "pubLoad"
          /\ job'[w] = PublishJob(None, epoch[w], nextSeq[w], job[w].req, 0)
      BY <1>0, <1>6, GotoValue, Zenon
    <3> QED
      BY <3>1, SMTT(60) DEF PublishJob
  <2>2. InLog(w)'
    BY <1>1, <1>2, <2>1, Zenon DEF InLog, Through, Exists, Started
  <2>3. ReplyOK(w)'
    BY <1>0, <1>6, ReplyStable, Zenon
  <2> QED
    <3>1. epoch'[w] # 0 /\ job'[w].req # None
      BY <1>1, <2>1, Zenon
    <3> QED
      BY <1>4, <2>1, <2>2, <2>3, <3>1, WriterPublishing, Zenon
<1> QED
  BY <1>5, <1>6, Zenon DEF Written

-----------------------------------------------------------------------------
(* What a step may do to the store. *)

\* What a step may do to the WAL: create a safe record in a free slot.
SafeWal ==
  \/ wal' = wal
  \/ \E s \in Nat \ {0}, rec \in Wal :
       /\ ~Exists(s)
       /\ PutOK(s, rec)
       /\ current # None
       /\ rec.epoch <= current.epoch
       /\ wal' = Stored(wal, s, rec)

\* What a step may do to CURRENT: replace it by a valid successor.
SafeCurrent ==
  \/ current' = current
  \/ /\ current' \in State
     /\ GoodState(current')
     /\ current # None => ValidTransition(current, current')

\* What a step may do to the metadata: write sound objects to fresh keys.
SafeMeta ==
  /\ keys' \in {keys, keys + 1}
  /\ \/ manifests' = manifests
     \/ manifests' = Stored(manifests, InitialKey, InitialManifest)
     \/ \E k \in 1..keys - 1, m \in Manifest :
          /\ k \notin DOMAIN manifests
          /\ ManifestGood(m)
          /\ manifests' = Stored(manifests, k, m)
  /\ \/ dedups' = dedups
     \/ \E D \in SUBSET BatchEntry :
          /\ \A e \in D : EntrySound(e)
          /\ keys' = keys + 1
          /\ dedups' = Stored(dedups, keys, D)

\* The requests a step may leave on their way.
SafeLate ==
  /\ \A p \in lateWal' : p \in lateWal \/
       /\ current # None
       /\ p.rec.epoch <= current.epoch
       /\ PutOK(p.slot, p.rec)
  /\ \A p \in lateCurrent' : p \in lateCurrent \/
       /\ GoodState(p.next)
       /\ p.expected # None => ValidTransition(p.expected, p.next)

SafeStep == SafeWal /\ SafeCurrent /\ SafeMeta /\ SafeLate

-----------------------------------------------------------------------------
(* Stability of the predicates the invariant is built from. *)

\* A safe step makes the store grow.
LEMMA SafeGrows ==
  ASSUME TypeOK, StoreInv, SafeStep
  PROVE  Grows
<1>0. StoreTypeOK /\ MetaInv
  BY DEF TypeOK, StoreInv
<1>1. \A s \in DOMAIN wal : s \in DOMAIN wal' /\ wal'[s] = wal[s]
  BY Zenon DEF SafeStep, SafeWal, Exists, Stored
<1>2. \A k \in DOMAIN manifests :
        k \in DOMAIN manifests' /\ manifests'[k] = manifests[k]
  BY <1>0, Zenon DEF SafeStep, SafeMeta, MetaInv, Stored
<1>3. \A k \in DOMAIN dedups : k \in DOMAIN dedups' /\ dedups'[k] = dedups[k]
  <2>1. keys \notin DOMAIN dedups
    BY <1>0 DEF MetaInv, StoreTypeOK
  <2> QED
    BY <2>1 DEF SafeStep, SafeMeta, Stored
<1>4. keys' >= keys
  BY <1>0 DEF SafeStep, SafeMeta, StoreTypeOK
<1>5. current # None => /\ current' # None
                        /\ current'.version >= current.version
                        /\ current'.epoch >= current.epoch
                        /\ current'.published >= current.published
  BY <1>0, NoneAssumption DEF SafeStep, SafeCurrent, StoreTypeOK, ValidTransition, State
<1> QED
  BY <1>1, <1>2, <1>3, <1>4, <1>5 DEF Grows

\* A state that may be put in CURRENT stays one while the store grows.
LEMMA GoodStateStable ==
  ASSUME Grows, NEW s, GoodState(s)
  PROVE  GoodState(s)'
BY DEF Grows, GoodState, Through, Exists

\* A state CURRENT has been in remains one that it has been in.
LEMMA PastStable ==
  ASSUME StoreTypeOK, StoreTypeOK', Grows, NEW s, Past(s),
         s.version \in Nat, s.published \in Nat
  PROVE  Past(s)'
<1>1. /\ current # None /\ current' # None
      /\ current'.version >= current.version
      /\ current'.published >= current.published
  BY DEF Grows, Past
<1>2. current \in State /\ current' \in State
  BY <1>1 DEF StoreTypeOK
<1> QED
  BY <1>1, <1>2 DEF Past, State

\* A record that may go to a slot still may when the store has grown.
LEMMA PutStable ==
  ASSUME Grows, NEW s, NEW rec, PutOK(s, rec)
  PROVE  PutOK(s, rec)'
BY DEF Grows, PutOK, Through, Exists

\* A batch entry stays true while the store grows.
LEMMA EntryStable ==
  ASSUME Grows, NEW e, EntrySound(e)
  PROVE  EntrySound(e)'
BY DEF Grows, EntrySound, Exists

\* A manifest stays complete while the store grows.
LEMMA ManifestStable ==
  ASSUME Grows, NEW m, ManifestGood(m)
  PROVE  ManifestGood(m)'
BY DEF Grows, ManifestGood, Complete, BatchIndexOf, Through, Exists

-----------------------------------------------------------------------------
(* A safe step keeps the invariant of the store. *)

\* A safe step keeps the log contiguous, fenced and free of duplicates.
LEMMA WalInvStep ==
  ASSUME TypeOK, StoreInv, SafeStep, Grows
  PROVE  WalInv'
<1>0. StoreTypeOK /\ WalInv
  BY DEF TypeOK, StoreInv
<1>1. CASE wal' = wal
  <2>1. WalContiguous' /\ EpochsNondecreasing' /\ ExactlyOnce'
    BY <1>0, <1>1 DEF WalInv, WalContiguous, EpochsNondecreasing, ExactlyOnce
  <2>2. (\A s \in DOMAIN wal : current # None /\ wal[s].epoch <= current.epoch)'
    <3> SUFFICES ASSUME NEW s \in DOMAIN wal
                 PROVE  current' # None /\ wal[s].epoch <= current'.epoch
      BY <1>1
    <3>1. current # None /\ wal[s].epoch <= current.epoch
      BY <1>0 DEF WalInv
    <3>2. current' # None /\ current'.epoch >= current.epoch
      BY <3>1 DEF Grows
    <3>3. current.epoch \in Nat /\ wal[s].epoch \in Nat
      BY <1>0, <3>1 DEF StoreTypeOK, State, Wal
    <3>4. current' \in State
      BY <1>0, <3>1, <3>2 DEF SafeStep, SafeCurrent, StoreTypeOK
    <3> QED
      BY <3>1, <3>2, <3>3, <3>4 DEF State
  <2> QED
    BY <2>1, <2>2 DEF WalInv
<1>2. ASSUME NEW s \in Nat \ {0}, NEW rec \in Wal, ~Exists(s), PutOK(s, rec),
             current # None, rec.epoch <= current.epoch,
             wal' = Stored(wal, s, rec)
      PROVE  WalInv'
  <2>1. /\ DOMAIN wal' = DOMAIN wal \cup {s}
        /\ wal'[s] = rec
        /\ \A t \in DOMAIN wal : t # s /\ wal'[t] = wal[t]
    BY <1>2 DEF Stored, Exists
  <2>2. /\ \A t \in 1..s - 1 : t \in DOMAIN wal
        /\ \A t \in DOMAIN wal : t < s
    <3>1. \A t \in 1..s - 1 : t \in DOMAIN wal
      BY <1>2 DEF PutOK, Through, Exists
    <3>2. \A t \in DOMAIN wal : t \in Nat /\ \A u \in 1..t : u \in DOMAIN wal
      BY <1>0 DEF WalInv, WalContiguous, StoreTypeOK
    <3> QED
      BY <1>2, <3>1, <3>2 DEF Exists
  <2>3. \A t \in DOMAIN wal : /\ t \in 1..s - 1
                             /\ wal[t].epoch <= rec.epoch
                             /\ BatchIds(wal[t]) \cap BatchIds(rec) = {}
    BY <1>0, <1>2, <2>2 DEF PutOK, StoreTypeOK
  <2>4. WalContiguous'
    BY <1>0, <2>1, <2>2 DEF WalInv, WalContiguous, StoreTypeOK
  <2>5. EpochsNondecreasing'
    <3> SUFFICES ASSUME NEW t \in DOMAIN wal', NEW u \in DOMAIN wal', t <= u
                 PROVE  wal'[t].epoch <= wal'[u].epoch
      BY DEF EpochsNondecreasing
    <3>1. CASE t = s /\ u = s
      BY <3>1, <2>1, <1>2 DEF Wal
    <3>2. CASE t = s /\ u \in DOMAIN wal
      BY <1>0, <3>2, <2>2 DEF StoreTypeOK
    <3>3. CASE t \in DOMAIN wal /\ u = s
      BY <3>3, <2>1, <2>3, Zenon
    <3>4. CASE t \in DOMAIN wal /\ u \in DOMAIN wal
      BY <1>0, <3>4, <2>1, Zenon DEF WalInv, EpochsNondecreasing
    <3> QED
      BY <2>1, <3>1, <3>2, <3>3, <3>4
  <2>6. ExactlyOnce'
    <3> SUFFICES ASSUME NEW t \in DOMAIN wal', NEW u \in DOMAIN wal', t # u
                 PROVE  BatchIds(wal'[t]) \cap BatchIds(wal'[u]) = {}
      BY DEF ExactlyOnce
    <3>1. CASE t = s /\ u \in DOMAIN wal
      BY <3>1, <2>1, <2>3
    <3>2. CASE t \in DOMAIN wal /\ u = s
      BY <3>2, <2>1, <2>3, Zenon
    <3>3. CASE t \in DOMAIN wal /\ u \in DOMAIN wal
      BY <1>0, <3>3, <2>1 DEF WalInv, ExactlyOnce
    <3> QED
      BY <2>1, <3>1, <3>2, <3>3
  <2>7. (\A t \in DOMAIN wal : current # None /\ wal[t].epoch <= current.epoch)'
    <3> SUFFICES ASSUME NEW t \in DOMAIN wal'
                 PROVE  current' # None /\ wal'[t].epoch <= current'.epoch
      OBVIOUS
    <3>1. wal'[t].epoch <= current.epoch /\ wal'[t].epoch \in Nat
      BY <1>0, <1>2, <2>1, Zenon DEF WalInv, StoreTypeOK, Wal
    <3>2. current' # None /\ current'.epoch >= current.epoch
      BY <1>2 DEF Grows
    <3>3. current' \in State /\ current \in State
      BY <1>0, <1>2, <3>2, Zenon DEF SafeStep, SafeCurrent, StoreTypeOK
    <3> QED
      BY <3>1, <3>2, <3>3 DEF State
  <2> QED
    BY <2>4, <2>5, <2>6, <2>7 DEF WalInv
<1> QED
  BY <1>1, <1>2 DEF SafeStep, SafeWal

\* A safe step keeps manifests and batch indexes sound and complete.
LEMMA MetaInvStep ==
  ASSUME TypeOK, StoreInv, SafeStep, Grows
  PROVE  MetaInv'
<1>0. StoreTypeOK /\ MetaInv
  BY DEF TypeOK, StoreInv
<1>1. keys \in Nat /\ keys' \in Nat /\ keys' >= keys /\ keys' >= 1
  BY <1>0 DEF StoreTypeOK, SafeStep, SafeMeta, MetaInv
<1>2. (\A k \in DOMAIN dedups : k < keys /\ \A e \in dedups[k] : EntrySound(e))'
  <2> SUFFICES ASSUME NEW k \in DOMAIN dedups'
               PROVE  k < keys' /\ \A e \in dedups'[k] : EntrySound(e)'
    BY Zenon
  <2>1. CASE k \in DOMAIN dedups
    BY <1>0, <1>1, <2>1, EntryStable DEF MetaInv, Grows, StoreTypeOK
  <2>2. CASE k \notin DOMAIN dedups
    <3>1. PICK D : /\ \A e \in D : EntrySound(e)
                   /\ keys' = keys + 1
                   /\ dedups' = Stored(dedups, keys, D)
      BY <2>2 DEF SafeStep, SafeMeta
    <3>2. k = keys /\ dedups'[k] = D
      BY <2>2, <3>1, Zenon DEF Stored
    <3> QED
      BY <1>1, <3>1, <3>2, EntryStable
  <2> QED
    BY <2>1, <2>2
<1>3. (\A k \in DOMAIN manifests : k < keys /\ ManifestGood(manifests[k]))'
  <2> SUFFICES ASSUME NEW k \in DOMAIN manifests'
               PROVE  (k < keys /\ ManifestGood(manifests[k]))'
    OBVIOUS
  <2>1. CASE k \in DOMAIN manifests
    <3>1. PICK m : m = manifests[k]
      BY Zenon
    <3>2. k < keys /\ ManifestGood(m) /\ manifests'[k] = m
      BY <1>0, <2>1, <3>1 DEF MetaInv, Grows
    <3>3. ManifestGood(m)'
      BY <3>2, ManifestStable
    <3>4. k < keys'
      BY <1>0, <1>1, <2>1, <3>2 DEF StoreTypeOK
    <3> QED
      BY <3>2, <3>3, <3>4 DEF ManifestGood
  <2>2. CASE k \notin DOMAIN manifests /\ manifests'[k] = InitialManifest /\ k = InitialKey
    <3>1. ManifestGood(InitialManifest)'
      BY DEF ManifestGood, InitialManifest, Complete, Through
    <3> QED
      BY <1>1, <2>2, <3>1 DEF ManifestGood
  <2>3. CASE \E m \in Manifest : /\ k \in 1..keys - 1
                                 /\ ManifestGood(m)
                                 /\ manifests'[k] = m
    <3>1. PICK m \in Manifest : ManifestGood(m) /\ manifests'[k] = m
      BY <2>3
    <3>2. ManifestGood(m)'
      BY <3>1, ManifestStable
    <3>3. k < keys'
      BY <1>1, <2>3
    <3> QED
      BY <3>1, <3>2, <3>3 DEF ManifestGood
  <2> QED
    <3>1. CASE manifests' = manifests
      BY <3>1, <2>1
    <3>2. CASE manifests' = Stored(manifests, InitialKey, InitialManifest)
      BY <3>2, <2>1, <2>2 DEF Stored
    <3>3. CASE \E j \in 1..keys - 1, m \in Manifest :
                 ManifestGood(m) /\ manifests' = Stored(manifests, j, m)
      BY <3>3, <2>1, <2>3 DEF Stored
    <3> QED
      BY <3>1, <3>2, <3>3 DEF SafeStep, SafeMeta
<1>4. (InitialKey \in DOMAIN manifests => manifests[InitialKey] = InitialManifest)'
  <2>1. CASE InitialKey \in DOMAIN manifests
    BY <1>0, <2>1, ZenonT(40) DEF MetaInv, Grows
  <2>2. CASE InitialKey \notin DOMAIN manifests
    <3>1. CASE \E j \in 1..keys - 1, m \in Manifest : manifests' = Stored(manifests, j, m)
      <4>1. InitialKey \notin 1..keys - 1
        BY <1>1
      <4> QED
        BY <2>2, <3>1, <4>1 DEF Stored
    <3>2. CASE manifests' \in {manifests, Stored(manifests, InitialKey, InitialManifest)}
      BY <2>2, <3>2, Zenon DEF Stored
    <3> QED
      BY <3>1, <3>2 DEF SafeStep, SafeMeta
  <2> QED
    BY <2>1, <2>2, ZenonT(40)
<1> QED
  BY <1>1, <1>2, <1>3, <1>4 DEF MetaInv

\* A safe step keeps the requests on their way safe.
LEMMA LateInvStep ==
  ASSUME TypeOK, TypeOK', StoreInv, SafeStep, Grows
  PROVE  LateInv'
<1>0. StoreTypeOK /\ LateInv /\ StoreTypeOK'
  BY Zenon DEF TypeOK, StoreInv
<1>1. ASSUME NEW p \in lateWal'
      PROVE  (/\ current # None
              /\ p.rec.epoch <= current.epoch
              /\ PutOK(p.slot, p.rec))'
  <2>1. current # None /\ p.rec.epoch <= current.epoch /\ PutOK(p.slot, p.rec)
    BY <1>0, <1>1, Zenon DEF LateInv, SafeStep, SafeLate
  <2>2. p.rec.epoch \in Nat /\ current.epoch \in Nat
    BY <1>0, <1>1, <2>1, ZenonT(40) DEF StoreTypeOK, LateWal, Wal, State
  <2>3. current' # None /\ current'.epoch >= current.epoch /\ current'.epoch \in Nat
    BY <1>0, <2>1, Zenon DEF Grows, StoreTypeOK, State
  <2>4. PutOK(p.slot, p.rec)'
    BY <2>1, PutStable
  <2> QED
    BY <2>1, <2>2, <2>3, <2>4
<1>2. ASSUME NEW p \in lateCurrent'
      PROVE  (/\ GoodState(p.next)
              /\ p.expected # None => ValidTransition(p.expected, p.next))'
  <2>1. /\ GoodState(p.next)
        /\ p.expected # None => ValidTransition(p.expected, p.next)
    BY <1>0, <1>2 DEF LateInv, SafeStep, SafeLate
  <2> QED
    BY <2>1, GoodStateStable, ZenonT(40)
<1> QED
  BY <1>1, <1>2 DEF LateInv

\* A safe step keeps the invariant of the store.
LEMMA StoreInvStep ==
  ASSUME TypeOK, TypeOK', StoreInv, SafeStep
  PROVE  Grows /\ StoreInv'
<1>1. Grows
  BY SafeGrows
<1>2. WalInv' /\ MetaInv' /\ LateInv'
  BY <1>1, WalInvStep, MetaInvStep, LateInvStep, Zenon
<1>3. (current # None => GoodState(current))'
  <2> SUFFICES ASSUME current' # None
               PROVE  GoodState(current)'
    OBVIOUS
  <2>1. PICK s : s = current'
    OBVIOUS
  <2>2. GoodState(s)
    BY <2>1 DEF SafeStep, SafeCurrent, StoreInv
  <2>3. GoodState(s)'
    BY <1>1, <2>2, GoodStateStable
  <2> QED
    BY <2>1, <2>3 DEF GoodState
<1> QED
  BY <1>1, <1>2, <1>3 DEF StoreInv

-----------------------------------------------------------------------------
(* What a caller knows stays true while it takes no step. *)

\* What a running call of a writer knows survives others' steps.
LEMMA WriterStable ==
  ASSUME TypeOK, TypeOK', Grows, NEW w \in Writers, WriterOK(w),
         pc'[w] = pc[w], epoch'[w] = epoch[w], nextSeq'[w] = nextSeq[w],
         job'[w] = job[w], reply'[w] = reply[w]
  PROVE  WriterOK(w)'
<1>0. StoreTypeOK /\ StoreTypeOK' /\ WriterTypeOK
  BY ZenonT(40) DEF TypeOK
<1>a. /\ epoch[w] \in Nat /\ nextSeq[w] \in Nat /\ job[w].epoch \in Nat
      /\ job[w].seq \in Nat
      /\ reply[w] # None => reply[w].seq \in Nat
      /\ job[w].snap # None => /\ job[w].snap.version \in Nat
                              /\ job[w].snap.published \in Nat
  BY <1>0 DEF WriterTypeOK, Job, Reply, State
<1>b. current # None =>
        /\ current.epoch \in Nat /\ current'.epoch \in Nat
        /\ current.version \in Nat /\ current'.version \in Nat
        /\ current.published \in Nat /\ current'.published \in Nat
  BY <1>0, Zenon DEF StoreTypeOK, State, Grows
<1>1. (epoch[w] # 0 => Started(w))'
  BY StartedStable, ZenonT(40)
<1>2. (/\ pc[w] = "initCurrent" => InitialKey \in DOMAIN manifests
       /\ pc[w] \in {"reload"} \cup FencingPc => current # None)'
  <2>1. /\ pc[w] = "initCurrent" => InitialKey \in DOMAIN manifests
        /\ pc[w] \in {"reload"} \cup FencingPc => current # None
    BY ZenonT(40) DEF WriterOK
  <2> QED
    BY <2>1 DEF Grows, FencingPc
<1>3. (pc[w] \in SnapPc =>
         job[w].snap # None /\ GoodState(job[w].snap) /\ Past(job[w].snap))'
  <2>1. pc[w] \in SnapPc =>
          job[w].snap # None /\ GoodState(job[w].snap) /\ Past(job[w].snap)
    BY Zenon DEF WriterOK
  <2>2. PICK s : s = job[w].snap
    BY Zenon
  <2>3. pc[w] \in SnapPc => GoodState(s)' /\ Past(s)'
    BY <1>0, <1>a, <2>1, <2>2, GoodStateStable, PastStable, Zenon
  <2> QED
    BY <2>1, <2>2, <2>3, Zenon DEF GoodState, Past, SnapPc
<1>4. (pc[w] \in FencingPc =>
         /\ job[w].epoch <= current.epoch
         /\ job[w].seq >= 1
         /\ Through(job[w].seq - 1))'
  <2>1. pc[w] \in FencingPc =>
          /\ current # None
          /\ job[w].epoch <= current.epoch
          /\ job[w].seq >= 1
          /\ Through(job[w].seq - 1)
    BY Zenon DEF WriterOK
  <2>2. current # None /\ job[w].epoch <= current.epoch =>
          job[w].epoch <= current'.epoch
    <3>1. PICK n, c, d : n = job[w].epoch /\ c = current.epoch /\ d = current'.epoch
      BY Zenon
    <3>2. current # None => n \in Nat /\ c \in Nat /\ d \in Nat /\ d >= c
      BY <1>a, <1>b, <3>1, ZenonT(40) DEF Grows
    <3>3. current # None /\ n <= c => n <= d
      BY <3>2
    <3> QED
      BY <3>1, <3>3, Zenon
  <2> QED
    BY <2>1, <2>2, Zenon DEF Grows, Through, Exists, FencingPc
<1>5. (pc[w] \in {"fenceSlot", "fenceLanded"} =>
         PutOK(job[w].seq, Fence(job[w].epoch)))'
  <2>1. pc[w] \in {"fenceSlot", "fenceLanded"} =>
          PutOK(job[w].seq, Fence(job[w].epoch))
    BY Zenon DEF WriterOK
  <2>2. PICK s, rec : s = job[w].seq /\ rec = Fence(job[w].epoch)
    BY Zenon
  <2>3. pc[w] \in {"fenceSlot", "fenceLanded"} => PutOK(s, rec)'
    BY <2>1, <2>2, PutStable, Zenon
  <2> QED
    BY <2>2, <2>3, Zenon DEF PutOK, Fence
<1>6. (pc[w] = "confirm" =>
         /\ Through(job[w].seq)
         /\ \A t \in 1..job[w].seq : wal[t].epoch <= job[w].epoch)'
  <2>1. pc[w] = "confirm" =>
          /\ Through(job[w].seq)
          /\ \A t \in 1..job[w].seq : wal[t].epoch <= job[w].epoch
    BY Zenon DEF WriterOK
  <2> QED
    BY <2>1, Zenon DEF Grows, Through, Exists
<1>7. (/\ pc[w] \in ImportPc => epoch[w] # 0 /\ job[w].req # None
       /\ pc[w] = "pubCas" => job[w].snap.published < job[w].seq)'
  <2>1. /\ pc[w] \in ImportPc => epoch[w] # 0 /\ job[w].req # None
        /\ pc[w] = "pubCas" => job[w].snap.published < job[w].seq
    BY ZenonT(40) DEF WriterOK
  <2> QED
    BY <2>1 DEF ImportPc
<1>8. (pc[w] = "create" => PutOK(nextSeq[w], AppendWal(epoch[w], job[w].req)))'
  <2>1. pc[w] = "create" => PutOK(nextSeq[w], AppendWal(epoch[w], job[w].req))
    BY ZenonT(40) DEF WriterOK
  <2>2. PICK s, rec : s = nextSeq[w] /\ rec = AppendWal(epoch[w], job[w].req)
    OBVIOUS
  <2>3. pc[w] = "create" => PutOK(s, rec)'
    BY <2>1, <2>2, PutStable, ZenonT(40)
  <2> QED
    BY <2>2, <2>3 DEF PutOK, AppendWal
<1>9. (pc[w] \in {"pubLoad", "pubCas"} => InLog(w))'
  <2>1. pc[w] \in {"pubLoad", "pubCas"} => InLog(w)
    BY Zenon DEF WriterOK
  <2> QED
    BY <1>a, <2>1 DEF Grows, InLog, Through, Exists
<1>10. ReplyOK(w)'
  BY ReplyStable
<1> QED
  BY <1>1, <1>2, <1>3, <1>4, <1>5, <1>6, <1>7, <1>8, <1>9, <1>10, ZenonT(40) DEF WriterOK

\* What a running Index call knows survives others' steps, as long as none
\* of them takes its manifest key.
LEMMA IndexerStable ==
  ASSUME TypeOK, TypeOK', Grows, NEW i \in Indexers, IndexerOK(i),
         ipc'[i] = ipc[i], idx'[i] = idx[i],
         ipc[i] = "manifest" => idx[i].key \notin DOMAIN manifests'
  PROVE  IndexerOK(i)'
<1>0. keys \in Nat /\ keys' \in Nat /\ idx[i].key \in Nat
  BY ZenonT(40) DEF TypeOK, StoreTypeOK, IndexerTypeOK, IndexJob
<1>1. (ipc[i] \in IndexPc \ {"idle", "load"} =>
         idx[i].snap # None /\ GoodState(idx[i].snap))'
  <2>1. ipc[i] \in IndexPc \ {"idle", "load"} =>
          idx[i].snap # None /\ GoodState(idx[i].snap)
    BY Zenon DEF IndexerOK
  <2>2. PICK s : s = idx[i].snap
    BY Zenon
  <2>3. ipc[i] \in IndexPc \ {"idle", "load"} => GoodState(s)'
    BY <2>1, <2>2, GoodStateStable, ZenonT(40)
  <2> QED
    BY <2>1, <2>2, <2>3, Zenon DEF GoodState, IndexPc
<1>2. (ipc[i] \in {"data", "dedup", "manifest", "cas"} =>
         idx[i].end > idx[i].snap.indexed /\ Through(idx[i].end))'
  <2>1. ipc[i] \in {"data", "dedup", "manifest", "cas"} =>
          idx[i].end > idx[i].snap.indexed /\ Through(idx[i].end)
    BY ZenonT(40) DEF IndexerOK
  <2> QED
    BY <2>1 DEF Grows, Through, Exists
<1>3. (ipc[i] \in {"manifest", "cas"} =>
         /\ idx[i].key >= 1
         /\ idx[i].key < keys
         /\ idx[i].key \in DOMAIN dedups
         /\ Complete(dedups[idx[i].key], idx[i].end))'
  <2>1. ipc[i] \in {"manifest", "cas"} =>
          /\ idx[i].key >= 1
          /\ idx[i].key < keys
          /\ idx[i].key \in DOMAIN dedups
          /\ Complete(dedups[idx[i].key], idx[i].end)
    BY ZenonT(40) DEF IndexerOK
  <2> QED
    BY <1>0, <2>1 DEF Grows, Complete, Through, Exists
<1>4. (/\ ipc[i] = "manifest" => idx[i].key \notin DOMAIN manifests
       /\ ipc[i] = "cas" =>
            /\ idx[i].key \in DOMAIN manifests
            /\ manifests[idx[i].key].covered = idx[i].end)'
  <2>1. ipc[i] = "cas" =>
          /\ idx[i].key \in DOMAIN manifests
          /\ manifests[idx[i].key].covered = idx[i].end
    BY Zenon DEF IndexerOK
  <2> QED
    BY <2>1 DEF Grows
<1> QED
  BY <1>1, <1>2, <1>3, <1>4, Zenon DEF IndexerOK

\* What a running query knows survives others' steps.
LEMMA ReaderStable ==
  ASSUME TypeOK, TypeOK', Grows, NEW r \in Readers, ReaderOK(r),
         rpc'[r] = rpc[r], query'[r] = query[r], view'[r] = view[r]
  PROVE  ReaderOK(r)'
<1>0. StoreTypeOK /\ StoreTypeOK' /\ ReaderTypeOK
  BY ZenonT(40) DEF TypeOK
<1>a. /\ query[r].owed \subseteq Nat
      /\ query[r].snap # None => /\ query[r].snap.version \in Nat
                                /\ query[r].snap.published \in Nat
      /\ view[r] # None => /\ view[r].snap.version \in Nat
                          /\ view[r].snap.published \in Nat
  BY <1>0 DEF ReaderTypeOK, Query, View, State
<1>b. current # None =>
        /\ current.version \in Nat /\ current'.version \in Nat
        /\ current.published \in Nat /\ current'.published \in Nat
  BY <1>0, ZenonT(40) DEF StoreTypeOK, State, Grows
<1>1. (/\ rpc[r] # "failed"
       /\ query[r].limit \in {0} \cup ProbeMinimum..ProbeMaximum
       /\ rpc[r] = "adjust" => query[r].limit # 0)'
  <2>1. /\ rpc[r] # "failed"
        /\ query[r].limit \in {0} \cup ProbeMinimum..ProbeMaximum
        /\ rpc[r] = "adjust" => query[r].limit # 0
    BY Zenon DEF ReaderOK
  <2> QED
    BY <2>1
<1>2. (rpc[r] = "wals" =>
         /\ query[r].snap # None
         /\ GoodState(query[r].snap)
         /\ Past(query[r].snap)
         /\ \A s \in query[r].owed : s <= query[r].snap.published)'
  <2>1. rpc[r] = "wals" =>
          /\ query[r].snap # None
          /\ GoodState(query[r].snap)
          /\ Past(query[r].snap)
          /\ \A s \in query[r].owed : s <= query[r].snap.published
    BY Zenon DEF ReaderOK
  <2>2. PICK q : q = query[r].snap
    BY Zenon
  <2>3. rpc[r] = "wals" => GoodState(q)' /\ Past(q)'
    BY <1>0, <1>a, <2>1, <2>2, GoodStateStable, PastStable, ZenonT(40)
  <2> QED
    BY <2>1, <2>2, <2>3, Zenon DEF GoodState, Past
<1>3. (\A s \in query[r].owed : current # None /\ s <= current.published)'
  <2>1. \A s \in query[r].owed : current # None /\ s <= current.published
    BY ZenonT(40) DEF ReaderOK
  <2> QED
    BY <1>a, <1>b, <2>1 DEF Grows
<1>4. (view[r] # None =>
         /\ GoodState(view[r].snap)
         /\ Past(view[r].snap)
         /\ \A s \in view[r].owed : s <= view[r].snap.published)'
  <2>1. view[r] # None =>
          /\ GoodState(view[r].snap)
          /\ Past(view[r].snap)
          /\ \A s \in view[r].owed : s <= view[r].snap.published
    BY Zenon DEF ReaderOK
  <2>2. PICK q : q = view[r].snap
    BY Zenon
  <2>3. view[r] # None => GoodState(q)' /\ Past(q)'
    BY <1>0, <1>a, <2>1, <2>2, GoodStateStable, PastStable, Zenon
  <2> QED
    BY <2>1, <2>2, <2>3, Zenon DEF GoodState, Past
<1> QED
  BY <1>1, <1>2, <1>3, <1>4, Zenon DEF ReaderOK

-----------------------------------------------------------------------------
(* The data files and batch indexes. *)

\* Data files are written under fresh keys and never change.
DataGrows ==
  \A k \in DOMAIN data : k \in DOMAIN data' /\ data'[k] = data[k]

\* What the existing slots 1..n hold does not change while the store grows.
LEMMA SlotsStable ==
  ASSUME Grows, NEW n, Through(n)
  PROVE  AppendsIn(1, n)' = AppendsIn(1, n) /\ EntriesOf(1, n)' = EntriesOf(1, n)
<1>1. \A t \in 1..n : t \in DOMAIN wal /\ t \in DOMAIN wal' /\ wal'[t] = wal[t]
  BY DEF Grows, Through, Exists
<1>2. AppendsIn(1, n)' = AppendsIn(1, n)
  BY <1>1, Zenon DEF AppendsIn, Exists, IsAppend
<1>3. EntriesOf(1, n)' = EntriesOf(1, n)
  <2> DEFINE E(t) == {[id |-> b, seq |-> t, req |-> wal[t].req] : b \in BatchIds(wal[t])}
             Later(t) == {[id |-> b, seq |-> t, req |-> wal'[t].req] : b \in BatchIds(wal'[t])}
  <2>1. {t \in 1..n : t \in DOMAIN wal'} = 1..n /\ {t \in 1..n : t \in DOMAIN wal} = 1..n
    BY <1>1, Zenon
  <2>2. \A t \in 1..n : Later(t) = E(t)
    BY <1>1, Zenon
  <2>3. /\ EntriesOf(1, n) = UNION {E(t) : t \in 1..n}
        /\ EntriesOf(1, n)' = UNION {Later(t) : t \in 1..n}
    BY <2>1, Zenon DEF EntriesOf, Exists
  <2> HIDE DEF E, Later
  <2>4. {Later(t) : t \in 1..n} = {E(t) : t \in 1..n}
    BY <2>2, Zenon
  <2> QED
    BY <2>3, <2>4, Zenon
<1> QED
  BY <1>2, <1>3, ZenonT(40)

\* A set of data files stays exact while the store grows.
LEMMA FilesStable ==
  ASSUME Grows, DataGrows, NEW F, NEW n, Through(n), FilesExact(F, n)
  PROVE  FilesExact(F, n)'
<1>1. AppendsIn(1, n)' = AppendsIn(1, n)
  BY SlotsStable, Zenon
<1>2. \A f \in F : f.path \in DOMAIN data' /\ data'[f.path] = data[f.path]
  BY Zenon DEF FilesExact, DataGrows
<1> QED
  BY <1>1, <1>2 DEF FilesExact

\* A manifest stays exact while the store grows.
LEMMA ManifestExactStable ==
  ASSUME Grows, DataGrows, NEW m, ManifestGood(m), ManifestExact(m)
  PROVE  ManifestExact(m)'
<1>1. Through(m.covered) /\ m.index \subseteq DOMAIN dedups
  BY Zenon DEF ManifestGood, Complete
<1>2. FilesExact(m.files, m.covered)'
  BY <1>1, FilesStable, Zenon DEF ManifestExact
<1>3. EntriesOf(1, m.covered)' = EntriesOf(1, m.covered)
  BY <1>1, SlotsStable, Zenon
<1>4. \A k \in m.index : dedups'[k] = dedups[k]
  BY <1>1, Zenon DEF Grows
<1>5. BatchIndexOf(m)' = BatchIndexOf(m)
  <2>1. {dedups'[k] : k \in m.index} = {dedups[k] : k \in m.index}
    BY <1>4, Zenon
  <2> QED
    BY <2>1, Zenon DEF BatchIndexOf
<1> QED
  BY <1>2, <1>3, <1>5, Zenon DEF ManifestExact

\* The step of another process leaves what an indexer has built alone.
LEMMA IndexerExactStable ==
  ASSUME IInv, Grows, DataGrows, NEW i \in Indexers, IndexerExact(i),
         ipc'[i] = ipc[i], idx'[i] = idx[i]
  PROVE  IndexerExact(i)'
<1>1. PICK snap, end, F, K : /\ snap = idx[i].snap /\ end = idx[i].end
                             /\ F = idx[i].files /\ K = idx[i].key
  BY Zenon
<1>2. IndexerOK(i)
  BY Zenon DEF IInv
<1>3. CASE ipc[i] = "data"
  <2>1. snap.manifest \in DOMAIN manifests
    BY <1>1, <1>2, <1>3, Zenon DEF IndexerOK, IndexPc, GoodState
  <2>2. manifests'[snap.manifest] = manifests[snap.manifest]
    BY <2>1, Zenon DEF Grows
  <2>3. idx[i].files = manifests[idx[i].snap.manifest].files
    BY <1>3, ZenonT(40) DEF IndexerExact, ManifestOf
  <2> QED
    BY <1>1, <1>3, <2>2, <2>3, Zenon DEF IndexerExact, ManifestOf
<1>4. CASE ipc[i] \in {"dedup", "manifest"}
  <2>1. Through(end) /\ FilesExact(F, end)
    BY <1>1, <1>2, <1>4, Zenon DEF IndexerOK, IndexerExact
  <2>2. FilesExact(F, end)' /\ EntriesOf(1, end)' = EntriesOf(1, end)
    BY <2>1, FilesStable, SlotsStable, Zenon
  <2>3. FilesExact(idx[i].files, idx[i].end)'
    BY <1>1, <2>2, Zenon DEF FilesExact, AppendsIn, Exists
  <2>4. ipc[i] = "manifest" => dedups'[K] = EntriesOf(1, end)'
    BY <1>1, <1>2, <2>2, Zenon DEF IndexerOK, IndexerExact, Grows
  <2>5. ipc[i] = "manifest" => dedups'[idx'[i].key] = EntriesOf(1, idx[i].end)'
    BY <1>1, <2>4, Zenon DEF EntriesOf, Exists
  <2> QED
    BY <1>4, <2>3, <2>5, Zenon DEF IndexerExact
<1> QED
  BY <1>3, <1>4, Zenon DEF IndexerExact
=============================================================================
