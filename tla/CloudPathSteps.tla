--------------------------- MODULE CloudPathSteps ---------------------------
(***************************************************************************)
(* What each step of a caller establishes: what a writer knows after the rest*)
(* of Import and after Publish, what each step does to the store, and what an*)
(* indexer and a query know after their own steps.                         *)
(***************************************************************************)
EXTENDS CloudPathWriter

USE DEF InitialKey

(* Import and Publish *)

\* What a writer knows after a step of Import other than Dedup, at the end of
\* Start, and after an exception or a restart.
LEMMA ImportOwn ==
  ASSUME IInv, TypeOK', Grows, NEW w \in Writers,
         \/ Confirm(w) \/ Create(w) \/ Landed(w) \/ Throw(w) \/ Restart(w)
         \/ \E r \in Requests, v \in Visibility : ImportLoad(w, r, v)
  PROVE  WriterOK(w)'
<1> USE DEF storeVars
<1>0. /\ TypeOK /\ StoreTypeOK /\ WriterTypeOK /\ WriterOK(w) /\ StoreInv
      /\ StoreTypeOK' /\ WriterTypeOK'
  BY DEF IInv, TypeOK
<1>a. nextSeq[w] \in Nat /\ epoch[w] \in Nat /\ job[w].seq \in Nat
  BY <1>0 DEF WriterTypeOK, Job
<1>1. CASE Throw(w) \/ Restart(w)
  <2>1. /\ Return(w) /\ reply' = reply
        /\ \/ epoch' = epoch /\ nextSeq' = nextSeq
           \/ epoch'[w] = 0
    BY <1>0, <1>1, Zenon DEF Throw, Restart, WriterTypeOK
  <2>2. (epoch[w] # 0 => Started(w))' /\ ReplyOK(w)'
    BY <1>0, <2>1, StartedStable, ReplyStable, Zenon
  <2> QED
    BY <1>0, <2>1, <2>2, WriterIdle, Zenon
<1>2. CASE Confirm(w)
  <2>1. ReplyOK(w)'
    BY <1>0, <1>2, ReplyStable, Zenon DEF Confirm
  <2>2. CASE UNCHANGED <<epoch, nextSeq>>
    <3>1. (epoch[w] # 0 => Started(w))'
      BY <1>0, <2>2, StartedStable, Zenon
    <3> QED
      BY <1>0, <1>2, <2>1, <3>1, WriterIdle, Zenon DEF Confirm
  <2>3. CASE /\ current.epoch = job[w].epoch
             /\ epoch' = [epoch EXCEPT ![w] = current.epoch]
             /\ nextSeq' = [nextSeq EXCEPT ![w] = job[w].seq + 1]
    <3>1. /\ epoch'[w] = job[w].epoch /\ nextSeq'[w] = job[w].seq + 1
          /\ current' = current /\ wal' = wal /\ current # None
          /\ job[w].epoch <= current.epoch
      BY <1>0, <1>2, <2>3, Zenon DEF Confirm, WriterTypeOK, WriterOK, FencingPc
    <3>2. \A t \in 1..job[w].seq : Exists(t) /\ wal[t].epoch <= job[w].epoch
      BY <1>0, <1>2, Zenon DEF Confirm, WriterOK, Through
    <3>3. Started(w)'
      BY <1>a, <3>1, <3>2, SMTT(30) DEF Started, Through, Exists
    <3> QED
      BY <1>0, <1>2, <2>1, <3>3, WriterIdle, Zenon DEF Confirm
  <2> QED
    BY <1>2, <2>2, <2>3, Zenon DEF Confirm
<1>3. ASSUME NEW r \in Requests, NEW v \in Visibility, ImportLoad(w, r, v)
      PROVE  WriterOK(w)'
  <2>1. reply'[w] = None /\ nextSeq' = nextSeq /\ UNCHANGED storeVars
    BY <1>0, <1>3, Zenon DEF ImportLoad, WriterTypeOK
  <2>2. ReplyOK(w)'
    BY <2>1, Zenon DEF ReplyOK
  <2>3. CASE epoch' = [epoch EXCEPT ![w] = 0] /\ UNCHANGED <<pc, job>>
    <3>1. pc'[w] = "idle" /\ epoch'[w] = 0
      BY <1>0, <1>3, <2>3, Zenon DEF ImportLoad, WriterTypeOK
    <3> QED
      BY <2>2, <3>1, Zenon DEF WriterOK, FencingPc, SnapPc, ImportPc
  <2>4. CASE Goto(w, "dedup", ImportJob(current, r, v)) /\ UNCHANGED epoch
    <3>1. pc'[w] = "dedup" /\ job'[w].snap = current /\ job'[w].req = r
      BY <1>0, <2>4, GotoValue, SMTT(30) DEF ImportJob
    <3>2. (epoch[w] # 0 => Started(w))' /\ epoch[w] # 0 /\ current # None
      BY <1>0, <1>3, <2>1, <2>4, StartedStable, ZenonT(40) DEF ImportLoad, WriterOK, Started
    <3>3. GoodState(current)' /\ Past(current)'
      BY <1>0, <2>1, <3>2 DEF StoreInv, GoodState, Past, Through, Exists, StoreTypeOK, State
    <3>4. (GoodState(job[w].snap) /\ Past(job[w].snap))'
      BY <2>1, <3>1, <3>3, Zenon DEF GoodState, Past
    <3>5. r # None
      BY NoneAssumption, Zenon
    <3> QED
      BY <2>1, <2>2, <2>4, <3>1, <3>2, <3>4, <3>5, ZenonT(40) DEF WriterOK, FencingPc, SnapPc, ImportPc
  <2> QED
    BY <1>3, <2>3, <2>4, Zenon DEF ImportLoad
<1>4. CASE Create(w)
  <2>1. PICK out \in CreateFileResult :
       /\ CreateIfAbsent(nextSeq[w], AppendWal(epoch[w], job[w].req), out)
       /\ \/ out = "Created" /\ Written(w)
          \/ Goto(w, "landed", job[w]) /\ UNCHANGED <<nextSeq, reply>>
    BY <1>4, Zenon DEF Create
  <2>2. CASE out = "Created" /\ Written(w)
    <3>1. /\ nextSeq[w] \in DOMAIN wal'
          /\ wal'[nextSeq[w]] = AppendWal(epoch[w], job[w].req)
      BY <2>1, <2>2, Zenon DEF CreateIfAbsent, Stored
    <3> QED
      BY <1>4, <2>2, <3>1, WrittenOwn, Zenon DEF Create
  <2>3. CASE Goto(w, "landed", job[w]) /\ UNCHANGED <<nextSeq, reply>>
    <3>1. pc'[w] = "landed" /\ job'[w] = job[w]
      BY <1>0, <2>3, GotoValue, Zenon
    <3>2. (epoch[w] # 0 => Started(w))' /\ ReplyOK(w)' /\ epoch' = epoch
      BY <1>0, <1>4, <2>3, StartedStable, ReplyStable, Zenon DEF Create
    <3> QED
      BY <1>0, <1>4, <3>1, <3>2, Zenon DEF Create, WriterOK, FencingPc, SnapPc, ImportPc
  <2> QED
    BY <2>1, <2>2, <2>3, Zenon
<1>5. CASE Landed(w)
  <2>1. CASE /\ Exists(nextSeq[w])
             /\ wal[nextSeq[w]] = AppendWal(epoch[w], job[w].req)
             /\ Written(w)
             /\ UNCHANGED epoch
    BY <1>5, <2>1, WrittenOwn, Zenon DEF Landed, Exists
  <2>2. CASE epoch' = [epoch EXCEPT ![w] = 0] /\ Return(w) /\ UNCHANGED <<nextSeq, reply>>
    <3>1. epoch'[w] = 0 /\ ReplyOK(w)'
      BY <1>0, <2>2, ReplyStable, Zenon DEF WriterTypeOK
    <3> QED
      BY <1>0, <2>2, <3>1, WriterIdle
  <2>3. CASE Return(w) /\ UNCHANGED <<epoch, nextSeq, reply>>
    BY <1>0, <2>3, StartedStable, ReplyStable, WriterIdle, Zenon
  <2> QED
    BY <1>5, <2>1, <2>2, <2>3, Zenon DEF Landed
<1> QED
  BY <1>1, <1>2, <1>3, <1>4, <1>5, Zenon

\* A retry is answered from the entry of its first copy.
LEMMA DedupOwn ==
  ASSUME IInv, TypeOK', Grows, NEW w \in Writers, Dedup(w)
  PROVE  WriterOK(w)'
<1> USE DEF storeVars
<1>0. /\ TypeOK /\ StoreTypeOK /\ WriterTypeOK /\ WriterOK(w) /\ StoreInv
      /\ StoreTypeOK' /\ WriterTypeOK'
  BY Zenon DEF IInv, TypeOK
<1>1. /\ pc[w] = "dedup" /\ epoch[w] # 0 /\ job[w].req # None
      /\ job[w].snap \in State /\ Past(job[w].snap)
      /\ UNCHANGED <<storeVars, epoch, nextSeq>>
  BY <1>0, Zenon DEF Dedup, WriterOK, ImportPc, SnapPc, WriterTypeOK, Job
<1>2. (epoch[w] # 0 => Started(w))'
  BY <1>0, <1>1, StartedStable, Zenon
<1>3. CASE Return(w) /\ UNCHANGED reply
  BY <1>0, <1>2, <1>3, ReplyStable, WriterIdle, Zenon
<1>4. CASE /\ ConsistentRetry(w)
           /\ Already(w) = {}
           /\ Goto(w, "create", ImportJob(None, job[w].req, job[w].vis))
           /\ UNCHANGED reply
  <2>1. pc'[w] = "create" /\ job'[w].req = job[w].req
    BY <1>0, <1>4, GotoValue, SMTT(30) DEF ImportJob
  <2>2. PutOK(nextSeq[w], AppendWal(epoch[w], job[w].req))
    BY <1>1, <1>4, UnknownIsNew, Zenon
  <2>3. PutOK(nextSeq[w], AppendWal(epoch[w], job[w].req))'
    BY <1>1, <2>1, <2>2, Zenon DEF PutOK, Through, Exists
  <2>4. ReplyOK(w)'
    BY <1>0, <1>4, ReplyStable, Zenon
  <2> QED
    BY <1>1, <1>2, <2>1, <2>3, <2>4, Zenon DEF WriterOK, FencingPc, SnapPc, ImportPc
<1>5. ASSUME NEW e \in FirstKnown(w), ConsistentRetry(w)
      PROVE  /\ e.seq \in Nat \ {0} /\ Exists(e.seq)
             /\ \A t \in 1..e.seq : Exists(t)
             /\ wal[e.seq].req = job[w].req
  <2>1. EntrySound(e) /\ e.seq \in Nat \ {0}
    BY <1>1, KnownSound, Zenon DEF FirstKnown
  <2>2. e.req = job[w].req
    BY <1>5, Zenon DEF ConsistentRetry
  <2> QED
    BY <1>0, <2>1, <2>2, Zenon DEF EntrySound, StoreInv, WalInv, WalContiguous, Exists
<1>6. ASSUME NEW e \in FirstKnown(w), ConsistentRetry(w), Return(w),
             \/ e.seq <= job[w].snap.published /\ Report(w, "Committed", e.seq)
             \/ Report(w, "Durable", e.seq)
      PROVE  WriterOK(w)'
  <2>1. /\ e.seq \in Nat \ {0} /\ Exists(e.seq)
        /\ wal[e.seq].req = job[w].req
    BY <1>5, <1>6, Zenon
  <2>2. \E code \in {"Committed", "Durable"} :
          /\ reply'[w] = [req |-> job[w].req, seq |-> e.seq, code |-> code]
          /\ code = "Committed" => e.seq <= job[w].snap.published
    BY <1>0, <1>6, Zenon DEF Report, WriterTypeOK
  <2>3. PICK code \in {"Committed", "Durable"} :
          /\ reply'[w].req = job[w].req /\ reply'[w].seq = e.seq
          /\ reply'[w].code = code
          /\ code = "Committed" => e.seq <= job[w].snap.published
    BY <2>2, SMTT(30)
  <2>4. current # None /\ job[w].snap.published <= current.published
        /\ job[w].snap.published \in Nat /\ current.published \in Nat
    BY <1>0, <1>1, Zenon DEF Past, State, StoreTypeOK
  <2>5. code = "Committed" => e.seq <= current.published
    BY <2>1, <2>3, <2>4, SMTT(30)
  <2>6. ReplyOK(w)'
    BY <1>1, <2>1, <2>3, <2>4, <2>5, Zenon DEF ReplyOK, Exists
  <2> QED
    BY <1>0, <1>2, <1>6, <2>6, WriterIdle, Zenon
<1>7. ASSUME NEW e \in FirstKnown(w), ConsistentRetry(w), UNCHANGED reply,
             Goto(w, "pubLoad", PublishJob(None, job[w].snap.epoch, e.seq,
                                           job[w].req, 0))
      PROVE  WriterOK(w)'
  <2>1. /\ e.seq \in Nat \ {0} /\ \A t \in 1..e.seq : Exists(t)
        /\ wal[e.seq].req = job[w].req
    BY <1>5, <1>7, Zenon
  <2>2. pc'[w] = "pubLoad" /\ job'[w].seq = e.seq /\ job'[w].req = job[w].req
    <3>1. /\ pc'[w] = "pubLoad"
          /\ job'[w] = PublishJob(None, job[w].snap.epoch, e.seq, job[w].req, 0)
      BY <1>0, <1>7, GotoValue, Zenon
    <3> QED
      BY <3>1, SMTT(30) DEF PublishJob
  <2>3. InLog(w)'
    BY <1>1, <2>1, <2>2 DEF InLog, Through, Exists
  <2>4. ReplyOK(w)'
    BY <1>0, <1>7, ReplyStable, Zenon
  <2> QED
    <3>1. epoch'[w] # 0 /\ job'[w].req # None
      BY <1>1, <2>2, Zenon
    <3> QED
      BY <1>2, <2>2, <2>3, <2>4, <3>1, WriterPublishing, Zenon
<1> QED
  BY <1>3, <1>4, <1>6, <1>7, Zenon DEF Dedup

\* What a writer knows after a step of Publish: the slot it publishes holds
\* its request, so the report is true.
LEMMA PublishOwn ==
  ASSUME IInv, TypeOK', Grows, NEW w \in Writers, PublishLoad(w) \/ PublishCas(w)
  PROVE  WriterOK(w)'
<1> USE DEF storeVars
<1>0. /\ TypeOK /\ StoreTypeOK /\ WriterTypeOK /\ WriterOK(w) /\ StoreInv
      /\ StoreTypeOK' /\ WriterTypeOK'
  BY Zenon DEF IInv, TypeOK
<1>1. /\ pc[w] \in {"pubLoad", "pubCas"} /\ epoch[w] # 0 /\ job[w].req # None
      /\ InLog(w) /\ Started(w) /\ nextSeq' = nextSeq /\ wal' = wal
      /\ job[w].seq \in Nat \ {0} /\ epoch[w] \in Nat
  <2>1. pc[w] \in {"pubLoad", "pubCas"} /\ nextSeq' = nextSeq /\ wal' = wal
    BY Zenon DEF PublishLoad, PublishCas, CompareExchange
  <2>2. epoch[w] # 0 /\ job[w].req # None /\ InLog(w) /\ Started(w)
    BY <1>0, <2>1, Zenon DEF WriterOK, ImportPc
  <2>3. job[w].seq \in Nat /\ epoch[w] \in Nat
    BY <1>0, Zenon DEF WriterTypeOK, Job
  <2>4. job[w].seq \in Nat \ {0}
    BY <2>2, <2>3 DEF InLog
  <2> QED
    BY <2>1, <2>2, <2>3, <2>4, Zenon
<1>2. current # None /\ current' # None /\ current.epoch \in Nat
      /\ current'.epoch \in Nat /\ current.epoch <= current'.epoch
      /\ current.published \in Nat /\ current'.published \in Nat
      /\ current.published <= current'.published /\ epoch[w] <= current.epoch
  BY <1>0, <1>1, Zenon DEF Started, Grows, StoreTypeOK, State
<1>3. CASE Return(w) /\ UNCHANGED <<epoch, reply>>
  BY <1>0, <1>1, <1>3, StartedStable, ReplyStable, WriterIdle, Zenon
<1>4. ASSUME epoch'[w] >= epoch[w], epoch'[w] <= current'.epoch, Report(w, "Committed", job[w].seq), Return(w),
             job[w].seq <= current'.published
      PROVE  WriterOK(w)'
  <2>1. /\ reply'[w].req = job[w].req /\ reply'[w].seq = job[w].seq
        /\ reply'[w].code = "Committed" /\ epoch'[w] \in Nat /\ nextSeq'[w] = nextSeq[w]
    BY <1>0, <1>1, <1>4, Zenon DEF Report, WriterTypeOK
  <2>2. ReplyOK(w)'
    BY <1>1, <1>2, <1>4, <2>1, SMTT(30) DEF ReplyOK, Exists, InLog, Through
  <2>3. \A t \in 1..nextSeq[w] - 1 : wal[t].epoch <= epoch'[w]
    <3> SUFFICES ASSUME NEW t \in 1..nextSeq[w] - 1 PROVE wal[t].epoch <= epoch'[w]
      BY Zenon
    <3>1. Exists(t) /\ wal[t].epoch <= epoch[w]
      BY <1>1, Zenon DEF Started, Through
    <3>2. wal[t].epoch \in Nat
      BY <1>0, <3>1, Zenon DEF StoreTypeOK, Wal, Exists
    <3> QED
      BY <1>1, <1>4, <2>1, <3>1, <3>2, SMTT(30)
  <2>4. Started(w)'
    BY <1>1, <1>2, <1>4, <2>1, <2>3, Zenon DEF Started, Through, Exists
  <2> QED
    BY <1>0, <1>4, <2>2, <2>4, WriterIdle, Zenon
<1>5. CASE PublishLoad(w)
  <2>1. CASE /\ current.published >= job[w].seq
             /\ epoch' = [epoch EXCEPT ![w] = current.epoch]
             /\ Report(w, "Committed", job[w].seq)
             /\ Return(w)
    <3>1. epoch'[w] = current.epoch /\ current' = current
      BY <1>0, <1>5, <2>1, Zenon DEF PublishLoad, WriterTypeOK, storeVars
    <3> QED
      BY <1>1, <1>2, <1>4, <2>1, <3>1, Zenon
  <2>2. CASE /\ current.published < job[w].seq
             /\ Goto(w, "pubCas", [job[w] EXCEPT !.snap = current])
             /\ UNCHANGED <<epoch, reply>>
    <3>1. /\ pc'[w] = "pubCas" /\ job'[w].snap = current
          /\ job'[w].seq = job[w].seq /\ job'[w].req = job[w].req
      <4>1. pc'[w] = "pubCas" /\ job'[w] = [job[w] EXCEPT !.snap = current]
        BY <1>0, <2>2, GotoValue, Zenon
      <4>2. job[w] \in Job
        BY <1>0, Zenon DEF WriterTypeOK
      <4> QED
        BY <4>1, <4>2 DEF Job
    <3>2. UNCHANGED storeVars
      BY <1>5 DEF PublishLoad
    <3>3. GoodState(current)' /\ Past(current)'
      BY <1>0, <1>2, <3>2, SMTT(30) DEF StoreInv, GoodState, Past, Through, Exists, StoreTypeOK, State
    <3>4. (GoodState(job[w].snap) /\ Past(job[w].snap))'
      BY <3>1, <3>2, <3>3, Zenon DEF GoodState, Past
    <3>5. InLog(w)'
      BY <1>1, <3>1 DEF InLog, Through, Exists
    <3>6. (epoch[w] # 0 => Started(w))' /\ ReplyOK(w)'
      BY <1>0, <1>1, <2>2, StartedStable, ReplyStable, Zenon
    <3> QED
      BY <1>1, <1>2, <2>2, <3>1, <3>4, <3>5, <3>6, ZenonT(40) DEF WriterOK, FencingPc, SnapPc, ImportPc
  <2> QED
    BY <1>3, <1>5, <2>1, <2>2, Zenon DEF PublishLoad
<1>6. CASE PublishCas(w)
  <2> DEFINE snap == job[w].snap
             next == PublishTo(snap, job[w].seq)
  <2>1. snap \in State
    BY <1>0, <1>6, Zenon DEF PublishCas, WriterOK, SnapPc, WriterTypeOK, Job
  <2>2. next.epoch = snap.epoch /\ next.published = job[w].seq /\ snap.epoch \in Nat
    BY <1>1, <2>1, StateFields, Zenon DEF State
  <2> HIDE DEF next
  <2>3. PICK out \in ConditionalWriteResult :
       /\ CompareExchange(snap, next, out)
       /\ \/ /\ out = "Applied"
             /\ epoch' = [epoch EXCEPT ![w] = next.epoch]
             /\ Report(w, "Committed", job[w].seq)
             /\ Return(w)
          \/ /\ Goto(w, "pubLoad", PublishJob(None, job[w].epoch, job[w].seq,
                                              job[w].req, job[w].tries + 1))
             /\ UNCHANGED <<epoch, reply>>
          \/ Return(w) /\ UNCHANGED <<epoch, reply>>
    BY <1>6, Zenon DEF PublishCas, next
  <2>4. CASE /\ out = "Applied"
             /\ epoch' = [epoch EXCEPT ![w] = next.epoch]
             /\ Report(w, "Committed", job[w].seq)
             /\ Return(w)
    <3>1. current = snap /\ current' = next /\ epoch'[w] = next.epoch
      BY <1>0, <2>3, <2>4, Zenon DEF CompareExchange, WriterTypeOK
    <3>2. /\ epoch'[w] >= epoch[w] /\ epoch'[w] <= current'.epoch
          /\ job[w].seq <= current'.published
      BY <1>1, <1>2, <2>2, <3>1
    <3> QED
      BY <1>4, <2>4, <3>2, Zenon
  <2>5. CASE /\ Goto(w, "pubLoad", PublishJob(None, job[w].epoch, job[w].seq,
                                              job[w].req, job[w].tries + 1))
             /\ UNCHANGED <<epoch, reply>>
    <3>1. pc'[w] = "pubLoad" /\ job'[w].seq = job[w].seq /\ job'[w].req = job[w].req
      <4>1. /\ pc'[w] = "pubLoad"
            /\ job'[w] = PublishJob(None, job[w].epoch, job[w].seq, job[w].req,
                                   job[w].tries + 1)
        BY <1>0, <2>5, GotoValue, Zenon
      <4> QED
        BY <4>1, SMTT(30) DEF PublishJob
    <3>2. InLog(w)'
      BY <1>1, <3>1, Zenon DEF InLog, Through, Exists
    <3>3. (epoch[w] # 0 => Started(w))' /\ ReplyOK(w)'
      BY <1>0, <2>5, <1>1, StartedStable, ReplyStable, Zenon
    <3> QED
      <4>1. epoch'[w] # 0 /\ job'[w].req # None
        BY <1>1, <2>5, <3>1, Zenon
      <4> QED
        BY <3>1, <3>2, <3>3, <4>1, WriterPublishing, Zenon
  <2> QED
    BY <1>3, <2>3, <2>4, <2>5, Zenon
<1> QED
  BY <1>5, <1>6

\* What a writer knows after its own step.
LEMMA WriterOwn ==
  ASSUME IInv, TypeOK', Grows, NEW w \in Writers, WriterNext(w)
  PROVE  WriterOK(w)'
BY StartOwn, FenceOwn, ImportOwn, DedupOwn, PublishOwn, Zenon DEF WriterNext

-----------------------------------------------------------------------------
(* What each step does to the store. *)

\* A compare-and-exchange of CURRENT is safe if the new state is good and a
\* valid successor of the expected one.
LEMMA CasSafe ==
  ASSUME NEW expected, NEW next \in State, NEW out,
         CompareExchange(expected, next, out),
         GoodState(next),
         expected # None => ValidTransition(expected, next)
  PROVE  /\ SafeCurrent
         /\ \A p \in lateCurrent' : p \in lateCurrent \/
              /\ GoodState(p.next)
              /\ p.expected # None => ValidTransition(p.expected, p.next)
<1>1. SafeCurrent
  BY DEF CompareExchange, SafeCurrent
<1>2. ASSUME NEW p \in lateCurrent', p \notin lateCurrent
      PROVE  p.expected = expected /\ p.next = next
  BY <1>2 DEF CompareExchange
<1> QED
  BY <1>1, <1>2

\* A conditional create of a WAL slot is safe if the record may be there.
LEMMA CreateSafe ==
  ASSUME NEW s \in Nat \ {0}, NEW rec \in Wal, NEW out,
         CreateIfAbsent(s, rec, out),
         PutOK(s, rec), current # None, rec.epoch <= current.epoch
  PROVE  /\ SafeWal
         /\ \A p \in lateWal' : p \in lateWal \/
              /\ current # None
              /\ p.rec.epoch <= current.epoch
              /\ PutOK(p.slot, p.rec)
<1>1. SafeWal
  BY DEF CreateIfAbsent, SafeWal
<1>2. ASSUME NEW p \in lateWal', p \notin lateWal
      PROVE  p.slot = s /\ p.rec = rec
  BY <1>2 DEF CreateIfAbsent
<1> QED
  BY <1>1, <1>2

\* A step that leaves the objects alone is safe.
LEMMA IdleSafe ==
  ASSUME UNCHANGED <<current, wal, manifests, dedups, keys, lateWal, lateCurrent>>
  PROVE  SafeStep
BY DEF SafeStep, SafeWal, SafeCurrent, SafeMeta, SafeLate

\* Every step of a writer, Start, Import and Publish alike, is safe.
LEMMA WriterSafe ==
  ASSUME IInv, NEW w \in Writers, WriterNext(w)
  PROVE  SafeStep
<1> USE DEF storeVars
<1>0. StoreTypeOK /\ WriterTypeOK /\ WriterOK(w) /\ StoreInv
  BY DEF IInv, TypeOK
<1>a. /\ job[w].seq \in Nat /\ job[w].epoch \in Nat
      /\ epoch[w] \in Nat /\ nextSeq[w] \in Nat
      /\ job[w].snap \in State \cup {None} /\ job[w].req \in Requests \cup {None}
  BY <1>0, ZenonT(40) DEF WriterTypeOK, Job
<1>1. CASE \/ StartLoad(w) \/ StartReload(w) \/ FenceLoad(w) \/ FenceLanded(w)
           \/ Confirm(w) \/ (\E r \in Requests, v \in Visibility : ImportLoad(w, r, v))
           \/ Dedup(w) \/ Landed(w) \/ PublishLoad(w) \/ Throw(w) \/ Restart(w)
  BY <1>1, IdleSafe, Zenon
  DEF StartLoad, StartReload, FenceLoad, FenceLanded, Confirm, ImportLoad,
      Dedup, Landed, PublishLoad, Throw, Restart
<1>2. CASE InitializeManifest(w)
  BY <1>2, ZenonT(40) DEF InitializeManifest, SafeStep, SafeWal, SafeCurrent, SafeMeta, SafeLate
<1>3. CASE InitializeCurrent(w)
  <2>1. PICK out : CompareExchange(None, InitialState, out)
    BY <1>3, ZenonT(40) DEF InitializeCurrent
  <2>2. InitialState \in State /\ GoodState(InitialState)
    <3>1. /\ InitialKey \in DOMAIN manifests
          /\ manifests[InitialKey] = InitialManifest
      BY <1>0, <1>3, Zenon DEF InitializeCurrent, WriterOK, StoreInv, MetaInv
    <3> QED
      BY <3>1 DEF InitialState, State, GoodState, Through, InitialManifest
  <2>3. /\ SafeCurrent
        /\ \A p \in lateCurrent' : p \in lateCurrent \/
             /\ GoodState(p.next)
             /\ p.expected # None => ValidTransition(p.expected, p.next)
    BY <2>1, <2>2, CasSafe, Zenon
  <2> QED
    BY <1>3, <2>3 DEF InitializeCurrent, SafeStep, SafeWal, SafeMeta, SafeLate
<1>4. CASE Acquire(w)
  <2>1. CASE UNCHANGED storeVars
    BY <2>1, IdleSafe, ZenonT(40)
  <2> DEFINE next == AcquireEpoch(job[w].snap)
  <2>2. job[w].snap \in State /\ GoodState(job[w].snap)
    BY <1>0, <1>a, <1>4, Zenon DEF Acquire, WriterOK, SnapPc
  <2>3. next \in State
    BY <2>2, StateTypes
  <2>4. GoodState(next)
    BY <2>2, StateFields, ZenonT(40) DEF GoodState
  <2> HIDE DEF next
  <2>5. ASSUME NEW out, CompareExchange(job[w].snap, next, out),
               ValidTransition(job[w].snap, next),
               UNCHANGED <<wal, manifests, dedups, data, keys, lateWal>>
        PROVE  SafeStep
    <3>1. /\ SafeCurrent
          /\ \A p \in lateCurrent' : p \in lateCurrent \/
               /\ GoodState(p.next)
               /\ p.expected # None => ValidTransition(p.expected, p.next)
      BY <2>3, <2>4, <2>5, CasSafe, Zenon
    <3> QED
      BY <2>5, <3>1 DEF SafeStep, SafeWal, SafeMeta, SafeLate
  <2> QED
    BY <1>4, <2>1, <2>5, Zenon DEF Acquire, next
<1>5. CASE FenceSlot(w)
  <2>1. PICK out : CreateIfAbsent(job[w].seq, Fence(job[w].epoch), out)
    BY <1>5, ZenonT(30) DEF FenceSlot
  <2>2. /\ job[w].seq \in Nat \ {0} /\ current # None
        /\ job[w].epoch <= current.epoch
        /\ PutOK(job[w].seq, Fence(job[w].epoch))
    <3>1. pc[w] \in FencingPc /\ pc[w] \in {"fenceSlot", "fenceLanded"}
      BY <1>5, Zenon DEF FenceSlot, FencingPc
    <3>2. /\ current # None /\ job[w].epoch <= current.epoch /\ job[w].seq >= 1
          /\ PutOK(job[w].seq, Fence(job[w].epoch))
      BY <1>0, <3>1, Zenon DEF WriterOK
    <3>3. job[w].seq \in Nat \ {0}
      BY <1>a, <3>2
    <3> QED
      BY <3>2, <3>3, Zenon
  <2>3. Fence(job[w].epoch) \in Wal /\ Fence(job[w].epoch).epoch = job[w].epoch
    BY <1>a, WalTypes, Zenon DEF Fence
  <2>4. /\ SafeWal
        /\ \A p \in lateWal' : p \in lateWal \/
              /\ current # None
              /\ p.rec.epoch <= current.epoch
              /\ PutOK(p.slot, p.rec)
    BY <2>1, <2>2, <2>3, CreateSafe, Zenon
  <2> QED
    BY <1>5, <2>4, Zenon DEF FenceSlot, SafeStep, SafeCurrent, SafeMeta, SafeLate
<1>6. CASE Create(w)
  <2>1. PICK out : CreateIfAbsent(nextSeq[w], AppendWal(epoch[w], job[w].req), out)
    BY <1>6, ZenonT(40) DEF Create
  <2>2. /\ nextSeq[w] \in Nat \ {0} /\ current # None
        /\ epoch[w] <= current.epoch
        /\ PutOK(nextSeq[w], AppendWal(epoch[w], job[w].req))
    <3>1. pc[w] = "create" /\ pc[w] \in ImportPc
      BY <1>6, Zenon DEF Create, ImportPc
    <3>2. Started(w) /\ PutOK(nextSeq[w], AppendWal(epoch[w], job[w].req))
      BY <1>0, <3>1, Zenon DEF WriterOK
    <3>3. nextSeq[w] \in Nat \ {0}
      BY <1>a, <3>2 DEF Started
    <3> QED
      BY <3>2, <3>3, Zenon DEF Started
  <2>3. /\ AppendWal(epoch[w], job[w].req) \in Wal
        /\ AppendWal(epoch[w], job[w].req).epoch = epoch[w]
    BY <1>a, WalTypes DEF AppendWal
  <2>4. /\ SafeWal
        /\ \A p \in lateWal' : p \in lateWal \/
              /\ current # None
              /\ p.rec.epoch <= current.epoch
              /\ PutOK(p.slot, p.rec)
    BY <2>1, <2>2, <2>3, CreateSafe, Zenon
  <2> QED
    BY <1>6, <2>4, Zenon DEF Create, SafeStep, SafeCurrent, SafeMeta, SafeLate
<1>7. CASE PublishCas(w)
  <2> DEFINE next == PublishTo(job[w].snap, job[w].seq)
  <2>2. /\ job[w].snap \in State /\ GoodState(job[w].snap) /\ InLog(w)
        /\ job[w].snap.published < job[w].seq
    BY <1>0, <1>a, <1>7, Zenon DEF PublishCas, WriterOK, SnapPc
  <2>3. next \in State
    BY <1>a, <2>2, StateTypes, Zenon
  <2>4. GoodState(next)
    <3>1. /\ next.indexed = job[w].snap.indexed
          /\ next.published = job[w].seq
          /\ next.manifest = job[w].snap.manifest
      BY <1>a, <2>2, StateFields, Zenon
    <3>2. job[w].snap.indexed <= job[w].seq
      BY <1>a, <2>2 DEF GoodState, State
    <3> HIDE DEF next
    <3> QED
      BY <2>2, <3>1, <3>2, Zenon DEF GoodState, InLog
  <2>5. PICK out : CompareExchange(job[w].snap, next, out)
    BY <1>7, Zenon DEF PublishCas
  <2>6. ValidTransition(job[w].snap, next)
    BY <1>7, Zenon DEF PublishCas
  <2> HIDE DEF next
  <2>7. /\ SafeCurrent
        /\ \A p \in lateCurrent' : p \in lateCurrent \/
             /\ GoodState(p.next)
             /\ p.expected # None => ValidTransition(p.expected, p.next)
    BY <2>3, <2>4, <2>5, <2>6, CasSafe, Zenon
  <2> QED
    BY <1>7, <2>7, Zenon DEF PublishCas, SafeStep, SafeWal, SafeMeta, SafeLate
<1> QED
  BY <1>1, <1>2, <1>3, <1>4, <1>5, <1>6, <1>7, Zenon DEF WriterNext

\* The batch index an indexer writes knows every batch of the slots it covers:
\* by ExactlyOnce the entries of one batch id agree, so dropping the later
\* ones of a batch id loses none.
LEMMA MergedComplete ==
  ASSUME StoreTypeOK, StoreInv, NEW snap \in State, GoodState(snap),
         NEW end \in Nat, Through(end)
  PROVE  Complete(MergedEntries(snap, end), end)
<1> DEFINE all == BatchIndexOf(ManifestOf(snap)) \cup EntriesOf(snap.indexed + 1, end)
<1>1. \A e \in all : EntrySound(e) /\ e.seq \in Nat
  <2>1. \A e \in BatchIndexOf(ManifestOf(snap)) : EntrySound(e)
    BY BatchIndexSound DEF StoreInv, GoodState, ManifestOf
  <2>2. \A e \in EntriesOf(snap.indexed + 1, end) : EntrySound(e)
    BY EntriesOfSound
  <2> QED
    BY <2>1, <2>2 DEF EntrySound, Exists, StoreTypeOK
<1>2. \A e, f \in all : f.id = e.id => e.seq = f.seq
  <2> SUFFICES ASSUME NEW e \in all, NEW f \in all, f.id = e.id
               PROVE  e.seq = f.seq
    OBVIOUS
  <2> HIDE DEF all
  <2>1. /\ Exists(e.seq) /\ e.id \in BatchIds(wal[e.seq])
        /\ Exists(f.seq) /\ f.id \in BatchIds(wal[f.seq])
    BY <1>1 DEF EntrySound
  <2> QED
    BY <2>1 DEF StoreInv, WalInv, ExactlyOnce, Exists
<1>3. all = MergedEntries(snap, end)
  <2> HIDE DEF all
  <2>1. all = {e \in all : \A f \in all : f.id = e.id => e.seq <= f.seq}
    BY <1>1, <1>2
  <2> QED
    BY <2>1 DEF MergedEntries, all
<1>4. ASSUME NEW s \in 1..end, NEW b \in BatchIds(wal[s])
      PROVE  \E e \in all : e.id = b
  <2>1. CASE s <= snap.indexed
    <3>1. snap.indexed \in Nat /\ s \in 1..snap.indexed
      BY <2>1 DEF State
    <3>2. ManifestGood(ManifestOf(snap)) /\ ManifestOf(snap).covered = snap.indexed
      BY DEF StoreInv, MetaInv, GoodState, ManifestOf
    <3> QED
      BY <3>1, <3>2 DEF ManifestGood, Complete
  <2>2. CASE s > snap.indexed
    <3>1. s \in snap.indexed + 1 .. end /\ Exists(s)
      BY <2>2 DEF State, Through
    <3>2. \E e \in EntriesOf(snap.indexed + 1, end) : e.id = b
      BY <1>4, <3>1, EntriesOfComplete DEF State
    <3> QED
      BY <3>2
  <2> QED
    BY <2>1, <2>2 DEF State
<1> QED
  BY <1>3, <1>4 DEF Complete

\* Every step of Index is safe.
LEMMA IndexerSafe ==
  ASSUME IInv, NEW i \in Indexers, IndexerNext(i)
  PROVE  SafeStep
<1> USE DEF storeVars
<1>0. StoreTypeOK /\ IndexerTypeOK /\ IndexerOK(i) /\ StoreInv /\ MetaInv
  BY DEF IInv, TypeOK, StoreInv
<1>a. /\ idx[i].end \in Nat /\ idx[i].key \in Nat /\ idx[i].files \subseteq DataFile
      /\ idx[i].snap \in State \cup {None} /\ keys \in Nat
  BY <1>0, Zenon DEF IndexerTypeOK, IndexJob, StoreTypeOK
<1>b. ipc[i] \in IndexPc \ {"idle", "load"} =>
        idx[i].snap \in State /\ GoodState(idx[i].snap)
  BY <1>0, <1>a, Zenon DEF IndexerOK
<1>1. CASE IndexLoad(i) \/ Scan(i) \/ IndexThrow(i)
  BY <1>1, IdleSafe, Zenon DEF IndexLoad, Scan, IndexThrow
<1>2. CASE WriteDataFile(i)
  BY <1>2 DEF WriteDataFile, SafeStep, SafeWal, SafeCurrent, SafeMeta, SafeLate
<1>3. CASE WriteBatchIndex(i)
  <2>1. idx[i].snap.manifest \in DOMAIN manifests
    BY <1>b, <1>3, Zenon DEF WriteBatchIndex, IndexPc, GoodState
  <2>2. \A e \in MergedEntries(idx[i].snap, idx[i].end) : EntrySound(e) /\ e \in BatchEntry
    BY <1>0, <2>1, MergedSound
  <2>3. PICK D : D = MergedEntries(idx[i].snap, idx[i].end)
    OBVIOUS
  <2>4. D \in SUBSET BatchEntry /\ \A e \in D : EntrySound(e)
    BY <2>2, <2>3, Zenon
  <2>5. keys' = keys + 1 /\ dedups' = Stored(dedups, keys, D)
    BY <1>3, <2>3, Zenon DEF WriteBatchIndex
  <2>6. SafeMeta
    BY <1>3, <2>4, <2>5, Zenon DEF WriteBatchIndex, SafeMeta
  <2> QED
    BY <1>3, <2>6, ZenonT(40) DEF WriteBatchIndex, SafeStep, SafeWal, SafeCurrent, SafeLate
<1>4. CASE WriteManifest(i)
  <2> DEFINE m == [covered |-> idx[i].end, files |-> idx[i].files,
                   index |-> {idx[i].key}]
  <2>1. /\ idx[i].key \in 1..keys - 1 /\ idx[i].key \notin DOMAIN manifests
        /\ idx[i].key \in DOMAIN dedups
        /\ Complete(dedups[idx[i].key], idx[i].end)
    <3>1. /\ idx[i].key >= 1 /\ idx[i].key < keys
          /\ idx[i].key \notin DOMAIN manifests /\ idx[i].key \in DOMAIN dedups
          /\ Complete(dedups[idx[i].key], idx[i].end)
      BY <1>0, <1>4, Zenon DEF WriteManifest, IndexerOK
    <3>2. idx[i].key \in 1..keys - 1
      BY <1>a, <3>1
    <3> QED
      BY <3>1, <3>2, Zenon
  <2>2. m \in Manifest
    BY <1>a, Zenon DEF Manifest
  <2>3. ManifestGood(m)
    <3>1. BatchIndexOf(m) = dedups[idx[i].key]
      BY Zenon DEF BatchIndexOf
    <3> QED
      BY <2>1, <3>1, Zenon DEF ManifestGood
  <2>4. manifests' = Stored(manifests, idx[i].key, m)
    BY <1>4, Zenon DEF WriteManifest
  <2> HIDE DEF m
  <2>5. SafeMeta
    BY <1>4, <2>1, <2>2, <2>3, <2>4, Zenon DEF WriteManifest, SafeMeta
  <2> QED
    BY <1>4, <2>5, ZenonT(40) DEF WriteManifest, SafeStep, SafeWal, SafeCurrent, SafeLate
<1>5. CASE PublishIndex(i)
  <2> DEFINE snap == idx[i].snap
             next == IndexTo(snap, idx[i].end, idx[i].key)
  <2>1. snap \in State /\ GoodState(snap)
    BY <1>b, <1>5, Zenon DEF PublishIndex, IndexPc
  <2>2. next \in State
    BY <1>a, <2>1, StateTypes, Zenon
  <2>3. GoodState(next)
    <3>1. /\ next.indexed = idx[i].end /\ next.manifest = idx[i].key
          /\ next.published = IF idx[i].end > snap.published THEN idx[i].end
                                                            ELSE snap.published
      BY Zenon DEF IndexTo
    <3>2. /\ Through(idx[i].end) /\ idx[i].key \in DOMAIN manifests
          /\ manifests[idx[i].key].covered = idx[i].end
      BY <1>0, <1>5, ZenonT(40) DEF PublishIndex, IndexerOK
    <3>3. Through(snap.published) /\ snap.published \in Nat /\ idx[i].end \in Nat
      BY <1>a, <2>1, Zenon DEF GoodState, State
    <3>4. Through(next.published)
      BY <3>1, <3>2, <3>3, ZenonT(40)
    <3>5. next.indexed <= next.published
      BY <3>1, <3>3
    <3> QED
      BY <3>1, <3>2, <3>4, <3>5, Zenon DEF GoodState
  <2>4. PICK out : CompareExchange(snap, next, out)
    BY <1>5, Zenon DEF PublishIndex
  <2>5. ValidTransition(snap, next)
    BY <1>5, ZenonT(40) DEF PublishIndex
  <2> HIDE DEF next
  <2>6. /\ SafeCurrent
        /\ \A p \in lateCurrent' : p \in lateCurrent \/
             /\ GoodState(p.next)
             /\ p.expected # None => ValidTransition(p.expected, p.next)
    BY <2>2, <2>3, <2>4, <2>5, CasSafe, Zenon
  <2> QED
    BY <1>5, <2>6, Zenon DEF PublishIndex, SafeStep, SafeWal, SafeMeta, SafeLate
<1> QED
  BY <1>1, <1>2, <1>3, <1>4, <1>5 DEF IndexerNext

\* A conditional write applied after its reply was lost is safe: its
\* condition protects the log and CURRENT as if it had been in time.
LEMMA LateSafe ==
  ASSUME IInv, StoreStep
  PROVE  SafeStep
<1>0. StoreTypeOK /\ LateInv
  BY Zenon DEF IInv, TypeOK, StoreInv
<1>1. ASSUME NEW p \in lateWal, LandWal(p)
      PROVE  SafeStep
  <2>1. p.slot \in Nat \ {0} /\ p.rec \in Wal
    BY <1>0 DEF StoreTypeOK, LateWal, LateInv, PutOK
  <2>2. current # None /\ p.rec.epoch <= current.epoch /\ PutOK(p.slot, p.rec)
    BY <1>0 DEF LateInv
  <2>3. SafeWal
    BY <1>1, <2>1, <2>2, Zenon DEF LandWal, SafeWal
  <2> QED
    BY <1>1, <2>3, Zenon DEF LandWal, SafeStep, SafeCurrent, SafeMeta, SafeLate
<1>2. ASSUME NEW p \in lateCurrent, LandCurrent(p)
      PROVE  SafeStep
  <2>1. p.next \in State /\ GoodState(p.next)
        /\ (p.expected # None => ValidTransition(p.expected, p.next))
    BY <1>0, Zenon DEF StoreTypeOK, LateCurrent, LateInv
  <2>2. SafeCurrent
    BY <1>2, <2>1 DEF LandCurrent, SafeCurrent
  <2> QED
    BY <1>2, <2>2 DEF LandCurrent, SafeStep, SafeWal, SafeMeta, SafeLate
<1> QED
  BY <1>1, <1>2 DEF StoreStep

-----------------------------------------------------------------------------
(* What the caller of a step knows afterwards. *)

\* An indexer that goes on with request p and locals j.
LEMMA IndexGotoValue ==
  ASSUME NEW i \in Indexers, IndexerTypeOK, NEW p, NEW j, IndexGoto(i, p, j)
  PROVE  /\ ipc'[i] = p /\ idx'[i] = j
         /\ \A k \in Indexers : k # i => ipc'[k] = ipc[k] /\ idx'[k] = idx[k]
BY ZenonT(40) DEF IndexerTypeOK, IndexGoto

\* What an indexer knows when it returns or starts over: nothing.
LEMMA IndexBack ==
  ASSUME NEW i \in Indexers, IndexerTypeOK, IndexReturn(i) \/ IndexRetry(i)
  PROVE  IndexerOK(i)' /\ ipc'[i] \in {"idle", "load"}
         /\ \A k \in Indexers : k # i => ipc'[k] = ipc[k] /\ idx'[k] = idx[k]
<1>1. /\ ipc'[i] \in {"idle", "load"}
      /\ \A k \in Indexers : k # i => ipc'[k] = ipc[k] /\ idx'[k] = idx[k]
  BY IndexGotoValue, Zenon DEF IndexReturn, IndexRetry
<1> QED
  BY <1>1 DEF IndexerOK

\* Replacing one field of an indexer's locals leaves the others.
LEMMA IndexJobExcept ==
  ASSUME NEW q \in IndexJob, NEW x
  PROVE  /\ [q EXCEPT !.snap = x].snap = x
         /\ [q EXCEPT !.files = x].snap = q.snap /\ [q EXCEPT !.files = x].end = q.end
         /\ [q EXCEPT !.key = x].snap = q.snap /\ [q EXCEPT !.key = x].end = q.end
         /\ [q EXCEPT !.key = x].key = x
  BY DEF IndexJob

\* What an indexer knows after its own step; the step leaves the locals of
\* the others alone, adds no manifest but under its own key, and takes a
\* manifest key only from the generator.
LEMMA IndexerOwn ==
  ASSUME IInv, TypeOK', Grows, NEW i \in Indexers, IndexerNext(i)
  PROVE  /\ IndexerOK(i)'
         /\ \A k \in Indexers : k # i => ipc'[k] = ipc[k] /\ idx'[k] = idx[k]
         /\ ipc'[i] = "manifest" => idx'[i].key = keys
         /\ \/ manifests' = manifests
            \/ /\ ipc[i] = "manifest"
               /\ DOMAIN manifests' = DOMAIN manifests \cup {idx[i].key}
<1> USE DEF storeVars
<1>0. /\ TypeOK /\ StoreTypeOK /\ IndexerTypeOK /\ IndexerOK(i) /\ StoreInv
      /\ StoreTypeOK' /\ IndexerTypeOK'
  BY DEF IInv, TypeOK
<1>a. /\ idx[i] \in IndexJob /\ idx[i].end \in Nat /\ idx[i].key \in Nat
      /\ keys \in Nat /\ keys >= 1
  BY <1>0, Zenon DEF IndexerTypeOK, IndexJob, StoreTypeOK, StoreInv, MetaInv
<1>b. ipc[i] \in IndexPc \ {"idle", "load"} =>
        /\ idx[i].snap \in State /\ idx[i].snap # None /\ GoodState(idx[i].snap)
        /\ idx[i].snap.indexed \in Nat /\ idx[i].snap.published \in Nat
  BY <1>0, Zenon DEF IndexerOK, IndexerTypeOK, IndexJob, State
<1>1. CASE IndexLoad(i)
  <2>1. /\ ipc'[i] = "scan" /\ idx'[i].snap = current
        /\ \A k \in Indexers : k # i => ipc'[k] = ipc[k] /\ idx'[k] = idx[k]
    <3>1. IndexGoto(i, "scan", [idx[i] EXCEPT !.snap = current])
      BY <1>1, Zenon DEF IndexLoad
    <3>2. /\ ipc'[i] = "scan" /\ idx'[i] = [idx[i] EXCEPT !.snap = current]
          /\ \A k \in Indexers : k # i => ipc'[k] = ipc[k] /\ idx'[k] = idx[k]
      BY <1>0, <3>1, IndexGotoValue, Zenon
    <3> QED
      BY <1>a, <3>2, IndexJobExcept
  <2>2. current # None /\ UNCHANGED storeVars
    BY <1>1, Zenon DEF IndexLoad
  <2>3. GoodState(idx[i].snap)'
    BY <1>0, <2>1, <2>2, Zenon DEF StoreInv, GoodState, Through, Exists
  <2> QED
    BY <2>1, <2>2, <2>3, Zenon DEF IndexerOK
<1>2. CASE Scan(i)
  <2>1. PICK end \in idx[i].snap.indexed .. idx[i].snap.indexed + MaxWalPerPass :
          /\ ScanEnd(idx[i].snap, end)
          /\ \/ IndexReturn(i)
             \/ /\ end # idx[i].snap.indexed
                /\ \E p \in {"dedup", "data"} : IndexGoto(i, p,
                     [snap |-> idx[i].snap, end |-> end,
                      files |-> ManifestOf(idx[i].snap).files, key |-> 0,
                      tries |-> idx[i].tries])
    BY <1>2, Zenon DEF Scan
  <2>2. UNCHANGED storeVars
    BY <1>2, Zenon DEF Scan
  <2>3. CASE IndexReturn(i)
    BY <1>0, <2>2, <2>3, IndexBack, Zenon
  <2>4. ASSUME NEW p \in {"dedup", "data"}, end # idx[i].snap.indexed,
               IndexGoto(i, p,
                     [snap |-> idx[i].snap, end |-> end,
                      files |-> ManifestOf(idx[i].snap).files, key |-> 0,
                      tries |-> idx[i].tries])
        PROVE  /\ IndexerOK(i)' /\ ipc'[i] # "manifest"
               /\ \A k \in Indexers : k # i => ipc'[k] = ipc[k] /\ idx'[k] = idx[k]
    <3>1. /\ ipc'[i] = p /\ idx'[i].snap = idx[i].snap /\ idx'[i].end = end
          /\ \A k \in Indexers : k # i => ipc'[k] = ipc[k] /\ idx'[k] = idx[k]
      BY <1>0, <2>4, IndexGotoValue
    <3>2. /\ idx[i].snap # None /\ GoodState(idx[i].snap)
          /\ idx[i].snap.indexed \in Nat /\ idx[i].snap.published \in Nat
      BY <1>b, <1>2, ZenonT(40) DEF Scan, IndexPc
    <3>a. PICK c, q : c = idx[i].snap.indexed /\ q = idx[i].snap.published
      BY Zenon
    <3>b. /\ end \in c .. c + MaxWalPerPass /\ end # c /\ c \in Nat
          /\ \A t \in c + 1 .. end : Exists(t)
      BY <2>1, <2>4, <3>2, <3>a, Zenon DEF ScanEnd
    <3>c. q \in Nat /\ c <= q /\ \A t \in 1..q : Exists(t)
      BY <3>2, <3>a, ZenonT(40) DEF GoodState, Through
    <3>3. end > idx[i].snap.indexed /\ end \in Nat
      BY <3>a, <3>b, IndexerAssumption
    <3>4. \A t \in 1..end : Exists(t)
      BY <3>3, <3>b, <3>c
    <3>5. Through(idx[i].end)' /\ GoodState(idx[i].snap)'
      BY <2>2, <3>1, <3>2, <3>4, Zenon DEF Through, Exists, GoodState
    <3> QED
      BY <2>4, <3>1, <3>2, <3>3, <3>5, ZenonT(40) DEF IndexerOK
  <2> QED
    BY <2>1, <2>2, <2>3, <2>4, Zenon
<1>3. CASE WriteDataFile(i)
  <2> DEFINE F == idx[i].files \cup {[path |-> keys, first |-> idx[i].snap.indexed + 1,
                                     last |-> idx[i].end]}
  <2>1. IndexGoto(i, "dedup", [idx[i] EXCEPT !.files = F])
    BY <1>3 DEF WriteDataFile
  <2> HIDE DEF F
  <2>2. /\ ipc'[i] = "dedup" /\ idx'[i].snap = idx[i].snap /\ idx'[i].end = idx[i].end
        /\ \A k \in Indexers : k # i => ipc'[k] = ipc[k] /\ idx'[k] = idx[k]
    <3>1. /\ ipc'[i] = "dedup" /\ idx'[i] = [idx[i] EXCEPT !.files = F]
          /\ \A k \in Indexers : k # i => ipc'[k] = ipc[k] /\ idx'[k] = idx[k]
      BY <1>0, <2>1, IndexGotoValue, Zenon
    <3> QED
      BY <1>a, <3>1, IndexJobExcept
  <2>3. UNCHANGED <<wal, manifests>> /\ ipc[i] = "data"
    BY <1>3, Zenon DEF WriteDataFile
  <2>4. (GoodState(idx[i].snap) /\ Through(idx[i].end))'
    BY <1>0, <1>b, <2>2, <2>3, ZenonT(40) DEF IndexerOK, IndexPc, GoodState, Through, Exists
  <2> QED
    BY <1>0, <1>b, <2>2, <2>3, <2>4, ZenonT(40) DEF IndexerOK, IndexPc
<1>4. CASE WriteBatchIndex(i)
  <2>1. /\ ipc[i] = "dedup" /\ keys' = keys + 1 /\ UNCHANGED <<wal, manifests>>
        /\ dedups' = Stored(dedups, keys, MergedEntries(idx[i].snap, idx[i].end))
    BY <1>4, Zenon DEF WriteBatchIndex
  <2>2. CASE IndexRetry(i)
    BY <1>0, <2>1, <2>2, IndexBack, ZenonT(30)
  <2>3. CASE IndexGoto(i, "manifest", [idx[i] EXCEPT !.key = keys])
    <3>1. /\ ipc'[i] = "manifest" /\ idx'[i].snap = idx[i].snap
          /\ idx'[i].end = idx[i].end /\ idx'[i].key = keys
          /\ \A k \in Indexers : k # i => ipc'[k] = ipc[k] /\ idx'[k] = idx[k]
      <4>1. /\ ipc'[i] = "manifest" /\ idx'[i] = [idx[i] EXCEPT !.key = keys]
            /\ \A k \in Indexers : k # i => ipc'[k] = ipc[k] /\ idx'[k] = idx[k]
        BY <1>0, <2>3, IndexGotoValue, Zenon
      <4> QED
        BY <1>a, <4>1, IndexJobExcept
    <3>2. /\ idx[i].snap \in State /\ GoodState(idx[i].snap) /\ idx[i].snap # None
          /\ Through(idx[i].end) /\ idx[i].end > idx[i].snap.indexed
      BY <1>0, <1>b, <2>1, Zenon DEF IndexerOK, IndexPc
    <3>3. Complete(MergedEntries(idx[i].snap, idx[i].end), idx[i].end)
      BY <1>0, <1>a, <3>2, MergedComplete, Zenon
    <3>4. keys \in DOMAIN dedups' /\ dedups'[keys] = MergedEntries(idx[i].snap, idx[i].end)
      BY <2>1, Zenon DEF Stored
    <3>5. Complete(dedups[idx[i].key], idx[i].end)'
      BY <2>1, <3>1, <3>3, <3>4, Zenon DEF Complete, Through, Exists
    <3>6. (GoodState(idx[i].snap) /\ Through(idx[i].end))'
      BY <2>1, <3>1, <3>2, ZenonT(40) DEF GoodState, Through, Exists
    <3>7. keys \notin DOMAIN manifests
      BY <1>0, <1>a, SMTT(30) DEF StoreInv, MetaInv
    <3>8. keys >= 1 /\ keys < keys'
      BY <1>0, <1>a, <2>1 DEF StoreInv, MetaInv
    <3>9. keys \notin DOMAIN manifests'
      BY <2>1, <3>7, Zenon
    <3>10. IndexerOK(i)'
      BY <3>1, <3>2, <3>4, <3>5, <3>6, <3>8, <3>9, ZenonT(40) DEF IndexerOK
    <3> QED
      BY <2>1, <3>1, <3>10, Zenon
  <2> QED
    BY <1>4, <2>2, <2>3, Zenon DEF WriteBatchIndex, PutFresh
<1>5. CASE WriteManifest(i)
  <2> DEFINE m == [covered |-> idx[i].end, files |-> idx[i].files,
                   index |-> {idx[i].key}]
  <2>1. /\ ipc[i] = "manifest" /\ UNCHANGED <<wal, dedups, keys>>
        /\ manifests' = Stored(manifests, idx[i].key, m)
    BY <1>5, Zenon DEF WriteManifest
  <2>2. /\ DOMAIN manifests' = DOMAIN manifests \cup {idx[i].key}
        /\ manifests'[idx[i].key].covered = idx[i].end
    BY <2>1, Zenon DEF Stored
  <2>3. CASE IndexRetry(i)
    BY <1>0, <2>1, <2>2, <2>3, IndexBack, Zenon
  <2>4. CASE IndexGoto(i, "cas", [idx[i] EXCEPT !.key = idx[i].key])
    <3>1. /\ ipc'[i] = "cas" /\ idx'[i].snap = idx[i].snap
          /\ idx'[i].end = idx[i].end /\ idx'[i].key = idx[i].key
          /\ \A k \in Indexers : k # i => ipc'[k] = ipc[k] /\ idx'[k] = idx[k]
      <4>1. /\ ipc'[i] = "cas" /\ idx'[i] = [idx[i] EXCEPT !.key = idx[i].key]
            /\ \A k \in Indexers : k # i => ipc'[k] = ipc[k] /\ idx'[k] = idx[k]
        BY <1>0, <2>4, IndexGotoValue, Zenon
      <4> QED
        BY <1>a, <4>1, IndexJobExcept
    <3>2. /\ GoodState(idx[i].snap) /\ idx[i].snap # None
          /\ Through(idx[i].end) /\ idx[i].end > idx[i].snap.indexed
          /\ idx[i].key >= 1 /\ idx[i].key < keys /\ idx[i].key \in DOMAIN dedups
          /\ Complete(dedups[idx[i].key], idx[i].end)
      BY <1>0, <1>b, <2>1, ZenonT(40) DEF IndexerOK, IndexPc
    <3>3. (/\ Complete(dedups[idx[i].key], idx[i].end)
           /\ GoodState(idx[i].snap) /\ Through(idx[i].end))'
      BY <2>1, <3>1, <3>2, ZenonT(40) DEF Complete, GoodState, Through, Exists, Grows
    <3> QED
      BY <2>1, <2>2, <3>1, <3>2, <3>3, ZenonT(40) DEF IndexerOK
  <2> QED
    BY <1>5, <2>3, <2>4, Zenon DEF WriteManifest, PutFresh
<1>6. CASE PublishIndex(i) \/ IndexThrow(i)
  <2>1. manifests' = manifests /\ (IndexReturn(i) \/ IndexRetry(i))
    BY <1>6 DEF PublishIndex, IndexThrow
  <2> QED
    BY <1>0, <2>1, IndexBack, Zenon
<1> QED
  BY <1>1, <1>2, <1>3, <1>4, <1>5, <1>6, ZenonT(40) DEF IndexerNext

\* ReadGoto sets the locals.
LEMMA ReadGotoValue ==
  ASSUME NEW r \in Readers, ReaderTypeOK, NEW p, NEW q, ReadGoto(r, p, q)
  PROVE  /\ rpc'[r] = p /\ query'[r] = q
         /\ \A k \in Readers : k # r => rpc'[k] = rpc[k] /\ query'[k] = query[k]
BY Zenon DEF ReaderTypeOK, ReadGoto

\* What a query knows after its own step.
LEMMA ReaderOwn ==
  ASSUME IInv, NEW r \in Readers, ReaderNext(r, Reported)
  PROVE  /\ ReaderOK(r)'
         /\ ProbeLimitInPolicy'
         /\ \A k \in Readers : k # r =>
              rpc'[k] = rpc[k] /\ query'[k] = query[k] /\ view'[k] = view[k]
<1> USE DEF storeVars
<1>0. /\ StoreTypeOK /\ ReaderTypeOK /\ WriterTypeOK /\ ReaderOK(r) /\ StoreInv
      /\ probeLimit \in ProbeMinimum..ProbeMaximum /\ UNCHANGED storeVars
  BY DEF IInv, TypeOK, ProbeLimitInPolicy, ReaderNext
<1>a. query[r] \in Query /\ query[r].limit \in Nat /\ query[r].probed \in Nat
  BY <1>0, Zenon DEF ReaderTypeOK, Query
<1> DEFINE Others == \A k \in Readers : k # r =>
                 rpc'[k] = rpc[k] /\ query'[k] = query[k] /\ view'[k] = view[k]
           ViewOK == view[r] # None =>
                        /\ GoodState(view[r].snap)
                        /\ Past(view[r].snap)
                        /\ \A s \in view[r].owed : s <= view[r].snap.published
<1>b. ViewOK
  BY <1>0, Zenon DEF ReaderOK
<1>c. view' = view => ViewOK'
  BY <1>0, <1>b, Zenon DEF GoodState, Past, Through, Exists
<1> HIDE DEF ViewOK
<1>1. ASSUME ReadGoto(r, "idle", NoQuery), ViewOK'
      PROVE  ReaderOK(r)'
  <2>1. rpc'[r] = "idle" /\ query'[r].limit = 0 /\ query'[r].owed = {}
    <3>1. rpc'[r] = "idle" /\ query'[r] = NoQuery
      BY <1>0, <1>1, ReadGotoValue, Zenon
    <3> QED
      BY <3>1, SMTT(30) DEF NoQuery
  <2> QED
    BY <1>1, <2>1, ZenonT(40) DEF ReaderOK, ViewOK
<1>2. ASSUME NEW probe \in BOOLEAN, LoadSnapshot(r, probe, Reported)
      PROVE  ReaderOK(r)' /\ ProbeLimitInPolicy' /\ Others
  <2> DEFINE n == IF probe THEN probeLimit ELSE 0
  <2>1. n \in {0} \cup ProbeMinimum..ProbeMaximum
    BY <1>0
  <2>2. /\ ReadGoto(r, "current", [snap |-> None, limit |-> n, tries |-> 0,
                                   probed |-> 0, owed |-> Reported])
        /\ UNCHANGED <<view, probeLimit>>
    BY <1>2, Zenon DEF LoadSnapshot
  <2> HIDE DEF n
  <2>3. /\ rpc'[r] = "current" /\ query'[r].limit = n /\ query'[r].owed = Reported
        /\ Others
    <3>1. PICK q : q = [snap |-> None, limit |-> n, tries |-> 0, probed |-> 0,
                        owed |-> Reported]
      BY Zenon
    <3>2. q.limit = n /\ q.owed = Reported
      BY <3>1
    <3>3. ReadGoto(r, "current", q) /\ view' = view
      BY <2>2, <3>1, Zenon
    <3>4. rpc'[r] = "current" /\ query'[r] = q /\ Others
      BY <1>0, <3>3, ReadGotoValue, Zenon
    <3> QED
      BY <3>2, <3>4, Zenon
  <2>4. \A s \in Reported : current # None /\ s <= current.published
    BY Zenon DEF Reported, IInv, WriterOK, ReplyOK
  <2>5. ViewOK' /\ ProbeLimitInPolicy'
    BY <1>0, <1>c, <2>2, Zenon DEF ProbeLimitInPolicy
  <2> QED
    BY <1>0, <2>1, <2>3, <2>4, <2>5, ZenonT(40) DEF ReaderOK, ViewOK
<1>3. CASE ReadCurrent(r)
  <2>1. ViewOK' /\ ProbeLimitInPolicy' /\ view' = view
    BY <1>0, <1>c, <1>3, Zenon DEF ReadCurrent, ProbeLimitInPolicy
  <2>2. CASE ReadGoto(r, "idle", NoQuery)
    BY <1>0, <1>1, <2>1, <2>2, ReadGotoValue, Zenon
  <2>3. CASE current # None /\ ReadGoto(r, "wals", [query[r] EXCEPT !.snap = current])
    <3>1. /\ rpc'[r] = "wals" /\ query'[r].snap = current
          /\ query'[r].limit = query[r].limit /\ query'[r].owed = query[r].owed
          /\ Others
      BY <1>0, <1>a, <2>1, <2>3, ReadGotoValue DEF Query
    <3>2. GoodState(current) /\ Past(current)
      BY <1>0, <2>3 DEF StoreInv, Past, StoreTypeOK, State
    <3>3. (GoodState(query[r].snap) /\ Past(query[r].snap))'
      BY <1>0, <3>1, <3>2, Zenon DEF GoodState, Past, Through, Exists
    <3> QED
      BY <1>0, <2>1, <2>3, <3>1, <3>3, Zenon DEF ReaderOK, ViewOK
  <2> QED
    BY <1>3, <2>2, <2>3 DEF ReadCurrent
<1>4. CASE ReadWals(r)
  <2>1. /\ GoodState(query[r].snap) /\ Past(query[r].snap) /\ query[r].snap \in State
        /\ \A s \in query[r].owed : s <= query[r].snap.published
        /\ ProbeLimitInPolicy'
    BY <1>0, <1>a, <1>4, ZenonT(40) DEF ReadWals, ReaderOK, ProbeLimitInPolicy, Query
  <2>2. \A s \in query[r].snap.indexed + 1 .. query[r].snap.published : Exists(s)
    BY <2>1 DEF GoodState, Through, State
  <2>3. PICK n \in 0..query[r].limit :
          /\ view' = [view EXCEPT ![r] = [snap |-> query[r].snap,
                                          through |-> query[r].snap.published + n,
                                          owed |-> query[r].owed]]
          /\ IF query[r].limit = 0
             THEN ReadGoto(r, "idle", NoQuery)
             ELSE ReadGoto(r, "adjust",
                           [snap |-> None, limit |-> query[r].limit,
                            tries |-> 0, probed |-> n, owed |-> {}])
    BY <1>4, <2>2, Zenon DEF ReadWals
  <2>4. /\ view'[r].snap = query[r].snap /\ view'[r].owed = query[r].owed
        /\ \A k \in Readers : k # r => view'[k] = view[k]
    BY <1>0, <2>3, Zenon DEF ReaderTypeOK
  <2>5. ViewOK'
    BY <1>0, <2>1, <2>4, Zenon DEF ViewOK, GoodState, Past, Through, Exists
  <2>6. CASE ReadGoto(r, "idle", NoQuery)
    BY <1>0, <1>1, <2>1, <2>4, <2>5, <2>6, ReadGotoValue, ZenonT(40)
  <2>7. CASE /\ query[r].limit # 0
             /\ ReadGoto(r, "adjust",
                           [snap |-> None, limit |-> query[r].limit,
                            tries |-> 0, probed |-> n, owed |-> {}])
    <3>1. /\ rpc'[r] = "adjust" /\ query'[r].limit = query[r].limit
          /\ query'[r].owed = {} /\ Others
      <4>1. PICK q : /\ q = [snap |-> None, limit |-> query[r].limit,
                            tries |-> 0, probed |-> n, owed |-> {}]
                     /\ ReadGoto(r, "adjust", q)
        BY <2>7, Zenon
      <4>2. q.limit = query[r].limit /\ q.owed = {}
        BY <4>1
      <4>3. ReadGoto(r, "adjust", q)
        BY <4>1, Zenon
      <4>4. /\ rpc'[r] = "adjust" /\ query'[r] = q
            /\ \A k \in Readers : k # r => rpc'[k] = rpc[k] /\ query'[k] = query[k]
        BY <1>0, <4>3, ReadGotoValue, Zenon
      <4> QED
        BY <2>4, <4>2, <4>4, Zenon
    <3> QED
      BY <1>0, <2>1, <2>5, <2>7, <3>1, Zenon DEF ReaderOK, ViewOK
  <2> QED
    BY <2>3, <2>6, <2>7, Zenon
<1>5. CASE AdjustProbe(r)
  <2>1. query[r].limit \in ProbeMinimum..ProbeMaximum
    BY <1>0, <1>5, Zenon DEF AdjustProbe, ReaderOK
  <2>2. ProbeLimitInPolicy' /\ view' = view
    BY <1>0, <1>a, <1>5, <2>1, NextLimitInPolicy, Zenon DEF AdjustProbe, ProbeLimitInPolicy
  <2> QED
    BY <1>0, <1>1, <1>c, <1>5, <2>2, ReadGotoValue, Zenon DEF AdjustProbe
<1>6. CASE ReadThrow(r)
  <2>1. ProbeLimitInPolicy' /\ view' = view
    BY <1>0, <1>6, Zenon DEF ReadThrow, ProbeLimitInPolicy
  <2> QED
    BY <1>0, <1>1, <1>c, <1>6, <2>1, ReadGotoValue, ZenonT(40) DEF ReadThrow
<1> QED
  BY <1>2, <1>3, <1>4, <1>5, <1>6, Zenon DEF ReaderNext
=============================================================================
