-------------------------- MODULE CloudTableWriter --------------------------
(***************************************************************************)
(* CloudTableWriter (src/Cloud/CloudTableWriter.cpp): Start takes a new    *)
(* writer epoch and fences the log, Import appends a batch to the WAL and  *)
(* Publish moves published_seq.  One action per storage request, so that   *)
(* other writers, the indexer and late requests interleave between any two *)
(* of them.  Reads of objects that exist are stable (nothing is deleted or *)
(* overwritten), so a scan of consecutive slots is one step.  CURRENT is   *)
(* never deleted either, so the checks for its absence after the first     *)
(* Load are left out.  A coordinator serialises the calls on one writer.   *)
(***************************************************************************)
EXTENDS ObjectStore

CONSTANTS
  Writers,       \* CloudTableWriter objects
  MaxAttempts    \* max_publish_attempts_

ASSUME MaxAttemptsAssumption == MaxAttempts \in Nat \ {0}

VARIABLES
  pc,        \* the next storage request of the running call, or "idle"
  epoch,     \* current_state_->state.writer_epoch, 0 without current_state_
  nextSeq,   \* next_seq_
  job,       \* the locals of the running call
  reply      \* the success the last Import reported, or None

writerVars == <<pc, epoch, nextSeq, job, reply>>

Visibility == {"Immediate", "Deferred"}

StartPc == {"initManifest", "initCurrent", "reload", "acquire", "fenceLoad",
            "fenceSlot", "fenceLanded", "confirm"}
ImportPc == {"dedup", "create", "landed", "pubLoad", "pubCas"}

\* snap: the loaded state while it is still used; epoch: the epoch acquired or
\* published under; seq: the slot being fenced or published; tries: attempts
\* used up.
Job == [snap : State \cup {None}, epoch : Nat, seq : Nat,
        req : Requests \cup {None}, vis : Visibility, tries : Nat]

StartJob(snap, tries) ==
  [snap |-> snap, epoch |-> 0, seq |-> 0, req |-> None, vis |-> "Immediate",
   tries |-> tries]

FenceJob(e, seq) ==
  [snap |-> None, epoch |-> e, seq |-> seq, req |-> None, vis |-> "Immediate",
   tries |-> 0]

ImportJob(snap, r, v) ==
  [snap |-> snap, epoch |-> 0, seq |-> 0, req |-> r, vis |-> v, tries |-> 0]

PublishJob(snap, e, seq, r, tries) ==
  [snap |-> snap, epoch |-> e, seq |-> seq, req |-> r, vis |-> "Immediate",
   tries |-> tries]

NoJob == StartJob(None, 0)

\* A report of success for req; "Committed" stands for AlreadyCommitted too.
Reply == [req : Requests, seq : Nat \ {0}, code : {"Durable", "Committed"}]

WriterTypeOK ==
  /\ pc \in [Writers -> StartPc \cup ImportPc \cup {"idle"}]
  /\ epoch \in [Writers -> Nat]
  /\ nextSeq \in [Writers -> Nat]
  /\ job \in [Writers -> Job]
  /\ reply \in [Writers -> Reply \cup {None}]

WriterInit ==
  /\ pc = [w \in Writers |-> "idle"]
  /\ epoch = [w \in Writers |-> 0]
  /\ nextSeq = [w \in Writers |-> 0]
  /\ job = [w \in Writers |-> NoJob]
  /\ reply = [w \in Writers |-> None]

-----------------------------------------------------------------------------
(* The call of w goes on with request p and locals j, or returns. *)

Goto(w, p, j) ==
  /\ pc' = [pc EXCEPT ![w] = p]
  /\ job' = [job EXCEPT ![w] = j]

Return(w) == Goto(w, "idle", NoJob)

\* Result(code) with wal_seq set.
ReportMutant(w, code, seq) ==
  reply' = [reply EXCEPT ![w] = [req |-> job[w].req, seq |-> 0,
                                 code |-> code]]

Report(w, code, seq) ==
  reply' = [reply EXCEPT ![w] = [req |-> job[w].req, seq |-> seq,
                                 code |-> code]]

-----------------------------------------------------------------------------
(* Start *)

\* Load CURRENT; a writer that is already started returns at once.
StartLoad(w) ==
  /\ pc[w] = "idle"
  /\ epoch[w] = 0
  /\ IF current = None
     THEN Goto(w, "initManifest", NoJob)
     ELSE Goto(w, "acquire", StartJob(current, 0))
  /\ UNCHANGED <<storeVars, epoch, nextSeq, reply>>

\* Initialize: put the initial manifest.  An existing one has the same bytes.
InitializeManifest(w) ==
  /\ pc[w] = "initManifest"
  /\ \/ /\ manifests' = Stored(manifests, InitialKey, InitialManifest)
        /\ Goto(w, "initCurrent", NoJob)
        /\ UNCHANGED faults
     \/ /\ Fault
        /\ manifests' \in {manifests,
                           Stored(manifests, InitialKey, InitialManifest)}
        /\ Return(w)
  /\ UNCHANGED <<current, wal, dedups, data, keys, lateWal, lateCurrent,
                 epoch, nextSeq, reply>>

\* Initialize: put CURRENT if absent.
InitializeCurrent(w) ==
  /\ pc[w] = "initCurrent"
  /\ \E out \in ConditionalWriteResult :
       /\ CompareExchange(None, InitialState, out)
       /\ IF out = "RetryableConflict" THEN Return(w)
                                       ELSE Goto(w, "reload", NoJob)
  /\ UNCHANGED <<wal, manifests, dedups, data, keys, lateWal,
                 epoch, nextSeq, reply>>

\* Load CURRENT after Initialize or a failed CAS; Contended once the attempts
\* are used up.
StartReload(w) ==
  /\ pc[w] = "reload"
  /\ IF job[w].tries = MaxAttempts
     THEN Return(w)
     ELSE Goto(w, "acquire", StartJob(current, job[w].tries))
  /\ UNCHANGED <<storeVars, epoch, nextSeq, reply>>

\* CAS the next epoch into CURRENT; InvalidTable when the epochs are used up.
Acquire(w) ==
  LET snap == job[w].snap
      next == AcquireEpoch(snap)
  IN
  /\ pc[w] = "acquire"
  /\ \/ /\ snap.epoch = MaxEpoch
        /\ Return(w)
        /\ UNCHANGED storeVars
     \/ /\ snap.epoch # MaxEpoch
        /\ ValidTransition(snap, next)
        /\ \E out \in ConditionalWriteResult :
             /\ CompareExchange(snap, next, out)
             /\ \/ /\ out = "Applied"
                   /\ Goto(w, "fenceLoad",
                           FenceJob(next.epoch, next.indexed + 1))
                \/ /\ out = "PreconditionFailed"
                   /\ Goto(w, "reload", StartJob(None, job[w].tries + 1))
                \/ /\ out = "RetryableConflict"
                   /\ Return(w)
        /\ UNCHANGED <<wal, manifests, dedups, data, keys, lateWal>>
  /\ UNCHANGED <<epoch, nextSeq, reply>>

\* The fencing loop: load CURRENT, give up if another writer has taken over,
\* and skip the slots indexed meanwhile.
FenceLoadMutant(w) ==
  /\ pc[w] = "fenceLoad"
  /\ Goto(w, "fenceSlot", FenceJob(job[w].epoch,
            IF job[w].seq <= current.indexed THEN current.indexed + 1
                                             ELSE job[w].seq))
  /\ UNCHANGED <<storeVars, epoch, nextSeq, reply>>

FenceLoad(w) ==
  /\ pc[w] = "fenceLoad"
  /\ IF current.epoch # job[w].epoch
     THEN Return(w)
     ELSE Goto(w, "fenceSlot", FenceJob(job[w].epoch,
            IF job[w].seq <= current.indexed THEN current.indexed + 1
                                             ELSE job[w].seq))
  /\ UNCHANGED <<storeVars, epoch, nextSeq, reply>>

\* A faulty variant: a slot is skipped.
FenceSlotSkipMutant(w) ==
  LET seq == job[w].seq IN
  /\ pc[w] = "fenceSlot"
  /\ \E out \in CreateFileResult :
       /\ CreateIfAbsent(seq, Fence(job[w].epoch), out)
       /\ IF out = "Created"
          THEN Goto(w, "confirm", job[w])
          ELSE Goto(w, "fenceLoad", FenceJob(job[w].epoch, seq + 2))
  /\ UNCHANGED <<current, manifests, dedups, data, keys, lateCurrent,
                 epoch, nextSeq, reply>>

\* Probe the slot and create the fence if it is free.  A slot found by the
\* probe and one found by the conditional create are handled alike.
FenceSlot(w) ==
  LET seq == job[w].seq IN
  /\ pc[w] = "fenceSlot"
  /\ Loadable(seq)
  /\ \E out \in CreateFileResult :
       /\ Exists(seq) => out = "AlreadyExists"
       /\ CreateIfAbsent(seq, Fence(job[w].epoch), out)
       /\ \/ /\ out = "Created"
             /\ Goto(w, "confirm", job[w])
          \/ /\ out = "AlreadyExists"
             /\ Goto(w, "fenceLoad", FenceJob(job[w].epoch, seq + 1))
          \/ /\ out = "RetryableConflict"
             /\ Goto(w, "fenceLanded", job[w])
  /\ UNCHANGED <<current, manifests, dedups, data, keys, lateCurrent,
                 epoch, nextSeq, reply>>

\* The reply was lost: go on only if the slot holds this writer's own fence.
FenceLanded(w) ==
  LET seq == job[w].seq IN
  /\ pc[w] = "fenceLanded"
  /\ Loadable(seq)
  /\ IF Exists(seq) /\ wal[seq] = Fence(job[w].epoch)
     THEN Goto(w, "confirm", job[w])
     ELSE Return(w)
  /\ UNCHANGED <<storeVars, epoch, nextSeq, reply>>

\* Load CURRENT once more; Started if the epoch is still this writer's.
Confirm(w) ==
  /\ pc[w] = "confirm"
  /\ Return(w)
  /\ \/ /\ current.epoch = job[w].epoch
        /\ epoch' = [epoch EXCEPT ![w] = current.epoch]
        /\ nextSeq' = [nextSeq EXCEPT ![w] = job[w].seq + 1]
     \/ /\ current.epoch # job[w].epoch
        /\ UNCHANGED <<epoch, nextSeq>>
  /\ UNCHANGED <<storeVars, reply>>

-----------------------------------------------------------------------------
(* Import.  A request IsValidBatch refuses changes nothing. *)

\* Load CURRENT; Fenced if the epoch has changed.
ImportLoad(w, r, v) ==
  /\ pc[w] = "idle"
  /\ epoch[w] # 0
  /\ \/ /\ current.epoch # epoch[w]
        /\ epoch' = [epoch EXCEPT ![w] = 0]
        /\ UNCHANGED <<pc, job>>
     \/ /\ current.epoch = epoch[w]
        /\ Goto(w, "dedup", ImportJob(current, r, v))
        /\ UNCHANGED epoch
  /\ reply' = [reply EXCEPT ![w] = None]
  /\ UNCHANGED <<storeVars, nextSeq>>

\* The batches already in the log below next_seq_: the index of the manifest
\* and the slots it does not cover.
KnownMutant(w) == EntriesOf(job[w].snap.indexed + 1, nextSeq[w] - 1)

Known(w) ==
  LET snap == job[w].snap IN
  BatchIndexOf(ManifestOf(snap)) \cup EntriesOf(snap.indexed + 1, nextSeq[w] - 1)

\* known keeps the first entry of each batch id.
FirstKnown(w) ==
  {e \in Known(w) : /\ e.id \in job[w].req.ids
                    /\ \A f \in Known(w) : f.id = e.id => e.seq <= f.seq}

Already(w) == {b \in job[w].req.ids : \E e \in Known(w) : e.id = b}

\* The slots to scan are all there, and the batch ids found belong to one
\* earlier copy of this very request.
ConsistentRetryMutant(w) ==
  \A s \in job[w].snap.indexed + 1 .. nextSeq[w] - 1 : Exists(s)

ConsistentRetry(w) ==
  /\ \A s \in job[w].snap.indexed + 1 .. nextSeq[w] - 1 : Exists(s)
  /\ Already(w) \in {{}, job[w].req.ids}
  /\ \A e \in FirstKnown(w) :
       e.req = job[w].req /\ \A f \in FirstKnown(w) : e.seq = f.seq

\* Look the batch ids up: refuse the request, answer a retry from the log, or
\* go on to write the WAL.
Dedup(w) ==
  /\ pc[w] = "dedup"
  /\ \A s \in job[w].snap.indexed + 1 .. nextSeq[w] - 1 : Loadable(s)
  /\ \/ /\ ~ConsistentRetry(w)
        /\ Return(w)
        /\ UNCHANGED reply
     \/ /\ ConsistentRetry(w)
        /\ Already(w) = {}
        /\ Goto(w, "create", ImportJob(None, job[w].req, job[w].vis))
        /\ UNCHANGED reply
     \/ /\ ConsistentRetry(w)
        /\ \E e \in FirstKnown(w) :
             \/ /\ e.seq <= job[w].snap.published
                /\ Report(w, "Committed", e.seq)
                /\ Return(w)
             \/ /\ e.seq > job[w].snap.published
                /\ job[w].vis = "Immediate"
                /\ Goto(w, "pubLoad", PublishJob(None, job[w].snap.epoch,
                                                 e.seq, job[w].req, 0))
                /\ UNCHANGED reply
             \/ /\ e.seq > job[w].snap.published
                /\ job[w].vis = "Deferred"
                /\ Report(w, "Durable", e.seq)
                /\ Return(w)
  /\ UNCHANGED <<storeVars, epoch, nextSeq>>

\* The WAL is in slot next_seq_: advance, then report or publish.
Written(w) ==
  /\ nextSeq' = [nextSeq EXCEPT ![w] = @ + 1]
  /\ \/ /\ job[w].vis = "Deferred"
        /\ Report(w, "Durable", nextSeq[w])
        /\ Return(w)
     \/ /\ job[w].vis = "Immediate"
        /\ Goto(w, "pubLoad", PublishJob(None, epoch[w], nextSeq[w],
                                         job[w].req, 0))
        /\ UNCHANGED reply

\* Conditional create of the WAL in slot next_seq_.
Create(w) ==
  /\ pc[w] = "create"
  /\ \E out \in CreateFileResult :
       /\ CreateIfAbsent(nextSeq[w], AppendWal(epoch[w], job[w].req), out)
       /\ \/ out = "Created" /\ Written(w)
          \/ /\ out # "Created"
             /\ Goto(w, "landed", job[w])
             /\ UNCHANGED <<nextSeq, reply>>
  /\ UNCHANGED <<current, manifests, dedups, data, keys, lateCurrent, epoch>>

\* Not created, or the reply was lost: what is in the slot decides.
Landed(w) ==
  LET seq == nextSeq[w] IN
  /\ pc[w] = "landed"
  /\ Loadable(seq)
  /\ \/ /\ Exists(seq)
        /\ wal[seq] = AppendWal(epoch[w], job[w].req)
        /\ Written(w)
        /\ UNCHANGED epoch
     \/ /\ Exists(seq)
        /\ wal[seq].epoch # epoch[w]
        /\ epoch' = [epoch EXCEPT ![w] = 0]
        /\ Return(w)
        /\ UNCHANGED <<nextSeq, reply>>
     \/ /\ Exists(seq) => /\ wal[seq].epoch = epoch[w]
                          /\ wal[seq].req # job[w].req
        /\ Return(w)
        /\ UNCHANGED <<epoch, nextSeq, reply>>
  /\ UNCHANGED storeVars

-----------------------------------------------------------------------------
(* Publish(seq, epoch): job.seq and job.epoch. *)

\* Load CURRENT: Committed if it already covers seq, whatever its epoch; a
\* changed epoch ends the attempt otherwise.
PublishLoad(w) ==
  /\ pc[w] = "pubLoad"
  /\ \/ /\ current.published >= job[w].seq
        /\ epoch' = [epoch EXCEPT ![w] = current.epoch]
        /\ Report(w, "Committed", job[w].seq)
        /\ Return(w)
     \/ /\ current.published < job[w].seq
        /\ current.epoch # job[w].epoch
        /\ Return(w)
        /\ UNCHANGED <<epoch, reply>>
     \/ /\ current.published < job[w].seq
        /\ current.epoch = job[w].epoch
        /\ Goto(w, "pubCas", [job[w] EXCEPT !.snap = current])
        /\ UNCHANGED <<epoch, reply>>
  /\ UNCHANGED <<storeVars, nextSeq>>

\* CAS published_seq = seq; on any other outcome try again.
PublishCas(w) ==
  LET snap == job[w].snap
      next == PublishTo(snap, job[w].seq)
  IN
  /\ pc[w] = "pubCas"
  /\ ValidTransition(snap, next)
  /\ \E out \in ConditionalWriteResult :
       /\ CompareExchange(snap, next, out)
       /\ \/ /\ out = "Applied"
             /\ epoch' = [epoch EXCEPT ![w] = next.epoch]
             /\ Report(w, "Committed", job[w].seq)
             /\ Return(w)
          \/ /\ out # "Applied"
             /\ job[w].tries + 1 < MaxAttempts
             /\ Goto(w, "pubLoad", PublishJob(None, job[w].epoch, job[w].seq,
                                              job[w].req, job[w].tries + 1))
             /\ UNCHANGED <<epoch, reply>>
          \/ /\ out # "Applied"
             /\ job[w].tries + 1 >= MaxAttempts
             /\ Return(w)
             /\ UNCHANGED <<epoch, reply>>
  /\ UNCHANGED <<wal, manifests, dedups, data, keys, lateWal, nextSeq>>

-----------------------------------------------------------------------------
\* The slots the next step of w loads.
WalsRead(w) ==
  CASE pc[w] \in {"fenceSlot", "fenceLanded"} -> {job[w].seq}
    [] pc[w] = "dedup" -> job[w].snap.indexed + 1 .. nextSeq[w] - 1
    [] pc[w] = "landed" -> {nextSeq[w]}
    [] OTHER -> {}

\* A read fails, or ReadAll refuses a slot, and the exception leaves the call;
\* the members keep their values.
Throw(w) ==
  /\ pc[w] # "idle"
  /\ \/ Fault
     \/ /\ \E s \in WalsRead(w) : ~Loadable(s)
        /\ UNCHANGED faults
  /\ Return(w)
  /\ UNCHANGED <<current, wal, manifests, dedups, data, keys, lateWal,
                 lateCurrent, epoch, nextSeq, reply>>

\* The process dies; a new writer object takes its place.
Restart(w) ==
  /\ Fault
  /\ Return(w)
  /\ epoch' = [epoch EXCEPT ![w] = 0]
  /\ nextSeq' = [nextSeq EXCEPT ![w] = 0]
  /\ UNCHANGED <<current, wal, manifests, dedups, data, keys, lateWal,
                 lateCurrent, reply>>

WriterNext(w) ==
  \/ StartLoad(w) \/ InitializeManifest(w) \/ InitializeCurrent(w)
  \/ StartReload(w) \/ Acquire(w) \/ FenceLoad(w) \/ FenceSlot(w)
  \/ FenceLanded(w) \/ Confirm(w)
  \/ \E r \in Requests, v \in Visibility : ImportLoad(w, r, v)
  \/ Dedup(w) \/ Create(w) \/ Landed(w) \/ PublishLoad(w) \/ PublishCas(w)
  \/ Throw(w) \/ Restart(w)
=============================================================================
