------------------------- MODULE ReaderWriterLatch -------------------------
(***************************************************************************)
(* src/Base/ReaderWriterLatch.h and the threads that use it, as the page   *)
(* latches of the B+ tree are used: a thread takes the latch to read or to *)
(* write, and gives it back.                                               *)
(*                                                                         *)
(* A method holds mutex_ from its first to its last line except while it   *)
(* waits, so the code between two waits is one step.  A thread that waits  *)
(* is in asleep; a notification takes it out, and then it tests its        *)
(* condition again at some later time, when others have had the mutex in   *)
(* between.  Waits may also end without a notification.                    *)
(***************************************************************************)
EXTENDS Integers, FiniteSets

CONSTANTS
  Threads,
  MaxReaders   \* MAX_READERS

ASSUME LatchAssumption == IsFiniteSet(Threads) /\ MaxReaders \in Nat \ {0}

VARIABLES
  pc,              \* what each thread is doing
  asleep,          \* threads waiting on reader_ or writer_
  reader_count,
  writer_entered

vars == <<pc, asleep, reader_count, writer_entered>>

In(state) == {t \in Threads : pc[t] = state}

\* Waiting on reader_ are those kept out, on writer_ the writer that has
\* entered and waits for the readers to leave.
WaitReader == asleep \cap (In("wantRead") \cup In("wantWrite"))
WaitWriter == asleep \cap In("entered")

\* notify_one wakes one of the waiting threads, if there is any.
NotifyOne(waiting) ==
  IF waiting = {} THEN asleep' = asleep
  ELSE \E t \in waiting : asleep' = asleep \ {t}

Init ==
  /\ pc = [t \in Threads |-> "idle"]
  /\ asleep = {}
  /\ reader_count = 0
  /\ writer_entered = FALSE

\* A thread tests the condition of its wait when it calls and when it wakes.
Tests(t, state) == pc[t] = "idle" \/ (pc[t] = state /\ t \notin asleep)

RLock(t) ==
  /\ Tests(t, "wantRead")
  /\ IF writer_entered \/ reader_count = MaxReaders
     THEN /\ pc' = [pc EXCEPT ![t] = "wantRead"]
          /\ asleep' = asleep \cup {t}
          /\ UNCHANGED reader_count
     ELSE /\ pc' = [pc EXCEPT ![t] = "reading"]
          /\ reader_count' = reader_count + 1
          /\ UNCHANGED asleep
  /\ UNCHANGED writer_entered

\* A faulty variant: the last reader out does not wake the writer.
RUnlockMutant(t) ==
  /\ pc[t] = "reading"
  /\ pc' = [pc EXCEPT ![t] = "idle"]
  /\ reader_count' = reader_count - 1
  /\ UNCHANGED <<asleep, writer_entered>>

RUnlock(t) ==
  /\ pc[t] = "reading"
  /\ pc' = [pc EXCEPT ![t] = "idle"]
  /\ reader_count' = reader_count - 1
  /\ IF writer_entered
     THEN IF reader_count' = 0 THEN NotifyOne(WaitWriter) ELSE UNCHANGED asleep
     ELSE IF reader_count' = MaxReaders - 1 THEN NotifyOne(WaitReader) ELSE UNCHANGED asleep
  /\ UNCHANGED writer_entered

\* A faulty variant: a writer waits for the readers once, not until none is left.
DrainMutant(t) ==
  /\ pc' = [pc EXCEPT ![t] = IF reader_count > 0 /\ pc[t] # "entered" THEN "entered" ELSE "writing"]
  /\ asleep' = IF reader_count > 0 /\ pc[t] # "entered" THEN asleep \cup {t} ELSE asleep
  /\ UNCHANGED reader_count

\* The second loop of WLock: wait until no reader is left.
Drain(t) ==
  /\ pc' = [pc EXCEPT ![t] = IF reader_count > 0 THEN "entered" ELSE "writing"]
  /\ asleep' = IF reader_count > 0 THEN asleep \cup {t} ELSE asleep
  /\ UNCHANGED reader_count

\* A faulty variant: a woken writer does not look whether another has entered.
WLockMutant(t) ==
  /\ Tests(t, "wantWrite")
  /\ IF writer_entered /\ pc[t] = "idle"
     THEN /\ pc' = [pc EXCEPT ![t] = "wantWrite"]
          /\ asleep' = asleep \cup {t}
          /\ UNCHANGED <<reader_count, writer_entered>>
     ELSE writer_entered' = TRUE /\ Drain(t)

WLock(t) ==
  /\ Tests(t, "wantWrite")
  /\ IF writer_entered
     THEN /\ pc' = [pc EXCEPT ![t] = "wantWrite"]
          /\ asleep' = asleep \cup {t}
          /\ UNCHANGED <<reader_count, writer_entered>>
     ELSE writer_entered' = TRUE /\ Drain(t)

WakeEntered(t) ==
  /\ pc[t] = "entered" /\ t \notin asleep
  /\ Drain(t)
  /\ UNCHANGED writer_entered

\* A faulty variant: one of the threads kept out is woken.
WUnlockMutant(t) ==
  /\ pc[t] = "writing"
  /\ pc' = [pc EXCEPT ![t] = "idle"]
  /\ writer_entered' = FALSE
  /\ NotifyOne(WaitReader)
  /\ UNCHANGED reader_count

WUnlock(t) ==
  /\ pc[t] = "writing"
  /\ pc' = [pc EXCEPT ![t] = "idle"]
  /\ writer_entered' = FALSE
  /\ asleep' = asleep \ WaitReader
  /\ UNCHANGED reader_count

Spurious(t) ==
  /\ t \in asleep
  /\ asleep' = asleep \ {t}
  /\ UNCHANGED <<pc, reader_count, writer_entered>>

Next == \E t \in Threads :
  RLock(t) \/ RUnlock(t) \/ WLock(t) \/ WakeEntered(t) \/ WUnlock(t) \/ Spurious(t)

Spec == Init /\ [][Next]_vars

\* A thread that is awake gets the mutex some time, and one that holds the
\* latch gives it back.  No thread has to call, and no wait ends by itself.
Progress(t) ==
  \/ pc[t] = "wantRead" /\ RLock(t)
  \/ pc[t] = "wantWrite" /\ WLock(t)
  \/ WakeEntered(t) \/ RUnlock(t) \/ WUnlock(t)

FairSpec == Spec /\ \A t \in Threads : WF_vars(Progress(t))

-----------------------------------------------------------------------------
States == {"idle", "wantRead", "wantWrite", "entered", "reading", "writing"}

\* Every variable has its type, and only waiting threads sleep.
TypeOK ==
  /\ pc \in [Threads -> States]
  /\ asleep \subseteq In("wantRead") \cup In("wantWrite") \cup In("entered")
  /\ reader_count \in 0..MaxReaders
  /\ writer_entered \in BOOLEAN

\* A thread that writes is alone: no other thread reads or writes.
MutualExclusion ==
  \A t \in In("writing") : In("reading") = {} /\ In("writing") = {t}

\* The fields of the latch tell who uses it: reader_count counts the readers, at
\* most MaxReaders, and writer_entered is set for exactly one thread, past the first loop of
\* WLock and not past WUnlock.
FieldsTell ==
  /\ reader_count = Cardinality(In("reading")) /\ reader_count <= MaxReaders
  /\ \A t, u \in In("entered") \cup In("writing") : t = u
  /\ writer_entered <=> In("entered") \cup In("writing") # {}

\* No wake-up is lost: whoever sleeps has still a reason to, so that some
\* thread that holds the latch is there to wake it.
NoLostWakeup ==
  /\ WaitReader # {} => writer_entered \/ reader_count = MaxReaders
  /\ WaitWriter # {} => reader_count > 0

\* A writer that has entered gets the latch: later readers are kept out, and
\* the last of the earlier ones wakes it.
WriterGetsIn == \A t \in Threads : pc[t] = "entered" ~> pc[t] = "writing"

=============================================================================
