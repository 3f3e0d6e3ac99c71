---------------------- MODULE ReaderWriterLatchProofs ----------------------
(***************************************************************************)
(* The latch excludes, counts and loses no wake-up for any finite set of   *)
(* threads.                                                                *)
(***************************************************************************)
EXTENDS ReaderWriterLatch, FiniteSetTheorems, TLAPS

\* Writers are past the readers: the second loop of WLock ends with none, and
\* none comes in while writer_entered is set.
IInv ==
  /\ TypeOK
  /\ FieldsTell
  /\ In("writing") # {} => reader_count = 0

\* The sets of threads in a state are finite.
LEMMA InFinite ==
  ASSUME NEW s PROVE IsFiniteSet(In(s)) /\ Cardinality(In(s)) \in Nat
<1>1. IsFiniteSet(In(s))
  BY LatchAssumption, FS_Subset DEF In
<1> QED BY <1>1, FS_CardinalityType

\* Initially no thread uses the latch.
LEMMA InitInv == Init => IInv
<1> SUFFICES ASSUME Init PROVE IInv
  OBVIOUS
<1>1. \A s : s # "idle" => In(s) = {}
  BY DEF Init, In
<1>2. Cardinality({}) = 0
  BY FS_EmptySet
<1>3. TypeOK
  <2>1. pc \in [Threads -> States]
    BY DEF Init, States
  <2>2. reader_count \in 0..MaxReaders
    BY LatchAssumption DEF Init
  <2>3. writer_entered \in BOOLEAN /\ asleep = {}
    BY Zenon DEF Init
  <2> QED BY <2>1, <2>2, <2>3 DEF TypeOK
<1>4. FieldsTell
  BY <1>1, <1>2, LatchAssumption DEF Init, FieldsTell
<1> QED BY <1>1, <1>3, <1>4 DEF IInv

\* RLock keeps the invariant: a reader comes in only while no writer has.
LEMMA RLockInv == ASSUME IInv, NEW t \in Threads, RLock(t) PROVE IInv'
<1> USE DEF IInv
<1>1. pc \in [Threads -> States] /\ pc[t] \in {"idle", "wantRead"} /\ reader_count \in 0..MaxReaders
  BY DEF RLock, Tests, TypeOK
<1>2. CASE writer_entered \/ reader_count = MaxReaders
  <2>1. /\ pc' = [pc EXCEPT ![t] = "wantRead"] /\ asleep' = asleep \cup {t}
        /\ UNCHANGED <<reader_count, writer_entered>>
    BY <1>2 DEF RLock
  <2>2. \A s : s \notin {"idle", "wantRead"} => In(s)' = In(s)
    BY <1>1, <2>1 DEF In
  <2>3. pc' \in [Threads -> States] /\ In("wantRead")' = In("wantRead") \cup {t}
    BY <1>1, <2>1 DEF In, States
  <2> QED BY <2>1, <2>2, <2>3 DEF TypeOK, FieldsTell
<1>3. CASE ~(writer_entered \/ reader_count = MaxReaders)
  <2>1. /\ pc' = [pc EXCEPT ![t] = "reading"] /\ reader_count' = reader_count + 1
        /\ UNCHANGED <<asleep, writer_entered>> /\ ~writer_entered /\ reader_count # MaxReaders
        /\ t \notin asleep
    BY <1>1, <1>3 DEF RLock, Tests, TypeOK, In
  <2>2. \A s : s \notin {"idle", "wantRead", "reading"} => In(s)' = In(s)
    BY <1>1, <2>1 DEF In
  <2>3. /\ pc' \in [Threads -> States] /\ In("wantRead") \ {t} \subseteq In("wantRead")'
        /\ In("reading")' = In("reading") \cup {t} /\ t \notin In("reading")
    BY <1>1, <2>1 DEF In, States
  <2>4. Cardinality(In("reading")') = Cardinality(In("reading")) + 1
    BY <2>3, InFinite, FS_AddElement
  <2>5. In("entered")' = {} /\ In("writing")' = {}
    BY <2>1, <2>2 DEF FieldsTell
  <2>6. reader_count' \in 0..MaxReaders
    BY <1>1, <2>1, LatchAssumption
  <2>7. TypeOK'
    BY <2>1, <2>2, <2>3, <2>6 DEF TypeOK
  <2> QED BY <2>1, <2>4, <2>5, <2>6, <2>7 DEF FieldsTell
<1> QED BY <1>2, <1>3

\* RUnlock keeps the invariant: the count goes down with the reader.
LEMMA RUnlockInv == ASSUME IInv, NEW t \in Threads, RUnlock(t) PROVE IInv'
<1> USE DEF IInv
<1>1. /\ pc \in [Threads -> States] /\ pc[t] = "reading" /\ pc' = [pc EXCEPT ![t] = "idle"]
      /\ reader_count' = reader_count - 1 /\ UNCHANGED writer_entered
  BY DEF RUnlock, TypeOK
<1>2. asleep' \subseteq asleep
  BY DEF RUnlock, NotifyOne
<1>3. /\ In("reading")' = In("reading") \ {t} /\ t \in In("reading")
      /\ \A s : s \notin {"idle", "reading"} => In(s)' = In(s)
      /\ pc' \in [Threads -> States]
  BY <1>1 DEF In, States
<1>4. Cardinality(In("reading")') = Cardinality(In("reading")) - 1 /\ Cardinality(In("reading")) # 0
  BY <1>3, InFinite, FS_RemoveElement, FS_EmptySet
<1>5. reader_count' \in 0..MaxReaders
  BY <1>1, <1>4, InFinite, LatchAssumption DEF TypeOK, FieldsTell
<1>6. In("writing") = {}
  BY <1>4 DEF FieldsTell
<1> QED BY <1>1, <1>2, <1>3, <1>4, <1>5, <1>6 DEF TypeOK, FieldsTell

\* The second loop keeps it, for a thread that alone has entered.
LEMMA DrainInv ==
  ASSUME IInv, NEW t \in Threads, Drain(t), writer_entered',
         pc[t] \in {"idle", "wantWrite", "entered"}, t \notin asleep,
         (In("entered") \cup In("writing")) \ {t} = {}
  PROVE  IInv'
<1> USE DEF IInv
<1>1. /\ pc \in [Threads -> States] /\ UNCHANGED reader_count
      /\ reader_count \in 0..MaxReaders
      /\ pc' = [pc EXCEPT ![t] = IF reader_count > 0 THEN "entered" ELSE "writing"]
  BY DEF Drain, TypeOK
<1>2. /\ pc' \in [Threads -> States] /\ In("reading")' = In("reading")
      /\ In("wantRead")' = In("wantRead") /\ In("wantWrite") \ {t} \subseteq In("wantWrite")'
      /\ In("entered")' \cup In("writing")' = {t}
      /\ In("entered") \ {t} \subseteq In("entered")'
  BY <1>1 DEF In, States
<1>3. asleep' \subseteq asleep \cup {t} /\ (t \in asleep' => t \in In("entered")')
  BY <1>1 DEF Drain, In
<1>4. TypeOK'
  BY <1>1, <1>2, <1>3 DEF TypeOK
<1>5. In("writing")' # {} => reader_count' = 0
  <2> SUFFICES ASSUME In("writing")' # {} PROVE reader_count = 0
    BY <1>1
  <2>1. pc'[t] = "writing"
    BY <1>2 DEF In
  <2> QED BY <1>1, <2>1 DEF TypeOK
<1>6. FieldsTell'
  BY <1>1, <1>2 DEF FieldsTell
<1> QED BY <1>4, <1>5, <1>6

\* WLock keeps it: a thread passes the first loop only when none is past it.
LEMMA WLockInv == ASSUME IInv, NEW t \in Threads, WLock(t) PROVE IInv'
<1>1. pc \in [Threads -> States] /\ pc[t] \in {"idle", "wantWrite"}
  BY DEF WLock, Tests, IInv, TypeOK
<1>2. CASE writer_entered
  <2>1. /\ pc' = [pc EXCEPT ![t] = "wantWrite"] /\ asleep' = asleep \cup {t}
        /\ UNCHANGED <<reader_count, writer_entered>>
    BY <1>2 DEF WLock
  <2>2. /\ \A s : s \notin {"idle", "wantWrite"} => In(s)' = In(s)
        /\ In("wantWrite")' = In("wantWrite") \cup {t} /\ pc' \in [Threads -> States]
    BY <1>1, <2>1 DEF In, States
  <2> QED BY <2>1, <2>2 DEF IInv, TypeOK, FieldsTell
<1>3. CASE ~writer_entered
  <2>1. Drain(t) /\ writer_entered' = TRUE
    BY <1>3 DEF WLock
  <2>2. t \notin asleep
    BY <1>1 DEF WLock, Tests, IInv, TypeOK, In
  <2>3. In("entered") \cup In("writing") = {}
    BY <1>3 DEF IInv, FieldsTell
  <2> QED BY <1>1, <2>1, <2>2, <2>3, DrainInv
<1> QED BY <1>2, <1>3

\* A writer that wakes is the one that had entered.
LEMMA WakeEnteredInv == ASSUME IInv, NEW t \in Threads, WakeEntered(t) PROVE IInv'
<1>1. pc[t] = "entered" /\ t \notin asleep /\ Drain(t) /\ UNCHANGED writer_entered
  BY DEF WakeEntered
<1>2. t \in In("entered")
  BY <1>1 DEF In
<1>3. (In("entered") \cup In("writing")) \ {t} = {} /\ writer_entered
  BY <1>2 DEF IInv, FieldsTell
<1> QED BY <1>1, <1>3, DrainInv

\* WUnlock keeps it: the writer was the only one past the first loop.
LEMMA WUnlockInv == ASSUME IInv, NEW t \in Threads, WUnlock(t) PROVE IInv'
<1> USE DEF IInv
<1>1. /\ pc \in [Threads -> States] /\ pc[t] = "writing" /\ pc' = [pc EXCEPT ![t] = "idle"]
      /\ writer_entered' = FALSE /\ UNCHANGED reader_count /\ asleep' \subseteq asleep
  BY DEF WUnlock, TypeOK
<1>2. /\ In("writing")' = In("writing") \ {t} /\ t \in In("writing")
      /\ \A s : s \notin {"idle", "writing"} => In(s)' = In(s)
      /\ pc' \in [Threads -> States]
  BY <1>1 DEF In, States
<1>3. In("entered")' = {} /\ In("writing")' = {}
  <2>1. \A u \in In("entered") \cup In("writing") : u = t
    BY <1>2 DEF FieldsTell
  <2>2. t \notin In("entered")
    BY <1>1 DEF In
  <2> QED BY <1>2, <2>1, <2>2
<1> QED BY <1>1, <1>2, <1>3, Zenon DEF TypeOK, FieldsTell

\* Every step keeps the invariant.
LEMMA NextInv == IInv /\ [Next]_vars => IInv'
<1> SUFFICES ASSUME IInv, [Next]_vars PROVE IInv'
  OBVIOUS
<1>1. CASE UNCHANGED vars
  BY <1>1 DEF vars, IInv, TypeOK, FieldsTell, In
<1>2. ASSUME NEW t \in Threads, Spurious(t) PROVE IInv'
  BY <1>2 DEF Spurious, IInv, TypeOK, FieldsTell, In
<1> QED BY <1>1, <1>2, RLockInv, RUnlockInv, WLockInv, WakeEnteredInv, WUnlockInv DEF Next

\* The inductive invariant holds of every reachable state of the latch.
THEOREM Invariance == Spec => []IInv
BY InitInv, NextInv, PTL DEF Spec

\* A writer is alone, whatever the number of threads: the conjuncts of IInv say
\* that one thread is past the first loop of WLock and that it writes only when
\* no reader is counted.
THEOREM Exclusion == Spec => []MutualExclusion
<1>1. IInv => MutualExclusion
  <2> SUFFICES ASSUME IInv, NEW t \in In("writing")
               PROVE  In("reading") = {} /\ In("writing") = {t}
    BY DEF MutualExclusion
  <2>1. Cardinality(In("reading")) = 0
    BY DEF IInv, FieldsTell
  <2>2. In("reading") = {}
    BY <2>1, InFinite, FS_EmptySet
  <2> QED BY <2>2 DEF IInv, FieldsTell
<1> QED BY <1>1, Invariance, PTL

\* The latch's fields count its readers and tell its writer.
THEOREM FieldsExact == Spec => [](TypeOK /\ FieldsTell)
<1>1. IInv => TypeOK /\ FieldsTell
  BY DEF IInv
<1> QED BY <1>1, Invariance, PTL

-----------------------------------------------------------------------------
\* With at most one thread more than may read, all but one read when the latch
\* is full.
LEMMA OneLeftOut ==
  ASSUME IInv, Cardinality(Threads) <= MaxReaders + 1, reader_count = MaxReaders,
         NEW t \in Threads, pc[t] # "reading",
         NEW u \in Threads, pc[u] # "reading"
  PROVE  t = u
<1> SUFFICES ASSUME t # u PROVE FALSE
  OBVIOUS
<1>1. In("reading") \subseteq (Threads \ {t}) \ {u}
  BY DEF In
<1>2. /\ IsFiniteSet(Threads \ {t})
      /\ Cardinality(Threads \ {t}) = Cardinality(Threads) - 1
      /\ Cardinality(Threads) \in Nat
  BY LatchAssumption, FS_RemoveElement, FS_CardinalityType
<1>3. /\ IsFiniteSet((Threads \ {t}) \ {u})
      /\ Cardinality((Threads \ {t}) \ {u}) = Cardinality(Threads \ {t}) - 1
  BY <1>2, FS_RemoveElement, Zenon
<1>4. Cardinality(In("reading")) <= Cardinality((Threads \ {t}) \ {u})
  BY <1>1, <1>3, FS_Subset
<1> QED BY <1>2, <1>3, <1>4, InFinite, LatchAssumption DEF IInv, FieldsTell

\* With at most one thread more than may read, no step leaves a thread asleep
\* without a reason: the reader that leaves a full latch wakes the one left out.
LEMMA WakeupStep ==
  ASSUME IInv, Cardinality(Threads) <= MaxReaders + 1, NoLostWakeup, [Next]_vars, IInv'
  PROVE  NoLostWakeup'
<1> USE DEF NoLostWakeup, WaitReader, WaitWriter
<1>0. pc \in [Threads -> States] /\ reader_count \in 0..MaxReaders /\ MaxReaders \in Nat
  BY LatchAssumption DEF IInv, TypeOK
<1>1. CASE UNCHANGED vars
  BY <1>1 DEF vars, In
<1>2. ASSUME NEW t \in Threads, RLock(t) PROVE NoLostWakeup'
  <2>2. CASE writer_entered \/ reader_count = MaxReaders
    <3>1. /\ pc' = [pc EXCEPT ![t] = "wantRead"] /\ asleep' = asleep \cup {t}
          /\ UNCHANGED <<reader_count, writer_entered>> /\ pc[t] # "entered"
      BY <1>2, <2>2 DEF RLock, Tests
    <3>2. In("entered")' = In("entered") /\ t \notin In("entered")
      BY <1>0, <3>1 DEF In
    <3> QED BY <2>2, <3>1, <3>2
  <2>3. CASE ~(writer_entered \/ reader_count = MaxReaders)
    <3>1. /\ pc' = [pc EXCEPT ![t] = "reading"] /\ UNCHANGED asleep
          /\ reader_count' = reader_count + 1 /\ UNCHANGED writer_entered
      BY <1>2, <2>3 DEF RLock
    <3>2. In("wantRead")' \subseteq In("wantRead") /\ In("wantWrite")' \subseteq In("wantWrite")
      BY <1>0, <3>1 DEF In
    <3> QED BY <1>0, <2>3, <3>1, <3>2
  <2> QED BY <2>2, <2>3
<1>3. ASSUME NEW t \in Threads, RUnlock(t) PROVE NoLostWakeup'
  <2>1. /\ pc[t] = "reading" /\ pc' = [pc EXCEPT ![t] = "idle"]
        /\ reader_count' = reader_count - 1 /\ UNCHANGED writer_entered
        /\ asleep' \subseteq asleep
    BY <1>3 DEF RUnlock, NotifyOne
  <2>2. \A s : s \notin {"idle", "reading"} => In(s)' = In(s)
    BY <1>0, <2>1 DEF In
  <2>3. ASSUME WaitReader' # {}, ~writer_entered PROVE FALSE
    <3>1. PICK u : u \in WaitReader /\ u \in asleep'
      BY <2>1, <2>2, <2>3
    <3>2. reader_count = MaxReaders
      BY <2>3, <3>1
    <3>3. \A v \in WaitReader : v = u
      BY <3>1, <3>2, OneLeftOut DEF In
    <3>4. NotifyOne(WaitReader)
      BY <1>3, <2>1, <2>3, <3>2 DEF RUnlock
    <3> QED BY <3>1, <3>3, <3>4 DEF NotifyOne
  <2>4. ASSUME WaitWriter' # {} PROVE reader_count' > 0
    <3>1. reader_count' \in Nat
      BY DEF IInv, TypeOK
    <3>2. SUFFICES ASSUME reader_count' = 0 PROVE FALSE
      BY <3>1
    <3>3. PICK u : u \in asleep' /\ u \in In("entered")
      BY <2>2, <2>4
    <3>4. writer_entered /\ \A v \in In("entered") : v = u
      BY <3>3 DEF IInv, FieldsTell
    <3>5. WaitWriter = {u}
      BY <2>1, <3>3, <3>4
    <3>6. asleep' = asleep \ {u}
      BY <1>3, <3>2, <3>4, <3>5, Zenon DEF RUnlock, NotifyOne
    <3> QED BY <3>3, <3>6
  <2> QED BY <2>1, <2>3, <2>4
<1>4. ASSUME NEW t \in Threads, Drain(t), writer_entered' PROVE NoLostWakeup'
  <2>1. CASE reader_count > 0
    BY <1>4, <2>1 DEF Drain
  <2>2. CASE ~(reader_count > 0)
    <3>1. /\ pc' = [pc EXCEPT ![t] = "writing"] /\ asleep' = asleep
          /\ reader_count' = reader_count
      BY <1>4, <2>2 DEF Drain
    <3>2. In("entered")' \subseteq In("entered")
      BY <1>0, <3>1 DEF In
    <3> QED BY <1>4, <2>2, <3>1, <3>2
  <2> QED BY <2>1, <2>2
<1>5. ASSUME NEW t \in Threads, WLock(t) PROVE NoLostWakeup'
  <2>1. CASE writer_entered
    <3>1. /\ pc' = [pc EXCEPT ![t] = "wantWrite"] /\ asleep' = asleep \cup {t}
          /\ UNCHANGED <<reader_count, writer_entered>> /\ pc[t] # "entered"
      BY <1>5, <2>1 DEF WLock, Tests
    <3>2. In("entered")' = In("entered") /\ t \notin In("entered")
      BY <1>0, <3>1 DEF In
    <3> QED BY <2>1, <3>1, <3>2
  <2>2. CASE ~writer_entered
    BY <1>4, <1>5, <2>2 DEF WLock
  <2> QED BY <2>1, <2>2
<1>6. ASSUME NEW t \in Threads, WakeEntered(t) PROVE NoLostWakeup'
  <2>1. t \in In("entered") /\ Drain(t) /\ UNCHANGED writer_entered
    BY <1>6 DEF WakeEntered, In
  <2>2. writer_entered
    BY <2>1 DEF IInv, FieldsTell
  <2> QED BY <1>4, <2>1, <2>2
<1>7. ASSUME NEW t \in Threads, WUnlock(t) PROVE NoLostWakeup'
  <2>1. /\ pc[t] = "writing" /\ pc' = [pc EXCEPT ![t] = "idle"]
        /\ asleep' = asleep \ WaitReader /\ UNCHANGED reader_count
    BY <1>7 DEF WUnlock
  <2>2. \A s : s \notin {"idle", "writing"} => In(s)' = In(s)
    BY <1>0, <2>1 DEF In
  <2>3. WaitReader' = {}
    BY <2>1, <2>2
  <2>4. WaitWriter' \subseteq WaitWriter
    BY <2>1, <2>2
  <2> QED BY <2>1, <2>3, <2>4
<1>8. ASSUME NEW t \in Threads, Spurious(t) PROVE NoLostWakeup'
  BY <1>8 DEF Spurious, In
<1> QED BY <1>1, <1>2, <1>3, <1>5, <1>6, <1>7, <1>8 DEF Next

\* No wake-up is lost when the process has at most one thread more than
\* MaxReaders (2^32 - 1 in the code): a thread sleeps only while a writer is past
\* the first loop or the latch is full or, that writer itself, while readers are
\* left.
THEOREM WakeupsKept ==
  ASSUME Cardinality(Threads) <= MaxReaders + 1 PROVE Spec => []NoLostWakeup
<1>1. Init => NoLostWakeup
  BY DEF Init, NoLostWakeup, WaitReader, WaitWriter
<1>2. IInv /\ IInv' /\ NoLostWakeup /\ [Next]_vars => NoLostWakeup'
  BY WakeupStep
<1> QED BY <1>1, <1>2, Invariance, PTL DEF Spec
=============================================================================
