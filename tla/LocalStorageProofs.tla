------------------------- MODULE LocalStorageProofs -------------------------
(***************************************************************************)
(* LocalStorage::CreateIfAbsent, for any number of writers and readers and *)
(* any sizes: nobody sees part of a file, no call that ends leaves its     *)
(* temporary file, and the calls implement an atomic creation.             *)
(***************************************************************************)
EXTENDS LocalStorage, TLAPS

Places == {"start", "write", "fsync", "link", "unlink", "done", "killed"}
Results == {"open", "created", "exists", "failed"}

TypeOK ==
  /\ path \in Writers \cup {NoFile}
  /\ bytes \in [Writers -> Nat]
  /\ temps \in SUBSET Writers
  /\ pc \in [Writers -> Places]
  /\ outcome \in [Writers -> Results]
  /\ handle \in [Readers -> [file : Writers \cup {NoFile}, size : Nat \cup {-1}]]
  /\ got \in [Readers -> Nat \cup {-1}]
  /\ deleted \in BOOLEAN

\* A file that the path names or a reader has open: its writer is past the link
\* and all its bytes are there.
Sealed(w) == pc[w] \in {"unlink", "done", "killed"} /\ bytes[w] = Size[w]

WriterInv(w) ==
  /\ pc[w] \in {"fsync", "link"} => bytes[w] = Size[w]
  /\ pc[w] \in {"start", "write", "fsync", "link"} => outcome[w] = "open"
  /\ w \in temps => pc[w] \notin {"start", "done"}

\* While nothing is deleted the path keeps naming the file a reader opened, so
\* the size it is told is the size of that file.
ReaderInv(r) ==
  /\ handle[r].file = NoFile => handle[r].size = -1
  /\ handle[r].file # NoFile => Sealed(handle[r].file)
  /\ handle[r].file # NoFile /\ ~deleted => path = handle[r].file
  /\ handle[r].size # -1 /\ ~deleted => handle[r].size = Size[handle[r].file]
  /\ got[r] # -1 => got[r] = handle[r].size

IInv ==
  /\ TypeOK
  /\ path # NoFile => Sealed(path)
  /\ \A w \in Writers : WriterInv(w)
  /\ \A r \in Readers : ReaderInv(r)

-----------------------------------------------------------------------------
LEMMA InitialInv == Init => IInv
<1> SUFFICES ASSUME Init PROVE IInv
  OBVIOUS
<1>1. TypeOK
  BY Zenon DEF Init, TypeOK, Places, Results, Closed
<1>2. ASSUME NEW w \in Writers PROVE WriterInv(w)
  BY DEF Init, WriterInv
<1>3. ASSUME NEW r \in Readers PROVE ReaderInv(r)
  BY DEF Init, ReaderInv, Closed
<1> QED
  BY <1>1, <1>2, <1>3 DEF Init, IInv

LEMMA TypeStep == ASSUME IInv, [Next]_vars PROVE TypeOK'
<1> USE LocalAssumption DEF IInv, TypeOK, Places, Results, Goto, Settle
<1>1. ASSUME NEW w \in Writers, Mkstemp(w) PROVE TypeOK'
  BY <1>1 DEF Mkstemp
<1>2. ASSUME NEW w \in Writers, Write(w) PROVE TypeOK'
  BY <1>2 DEF Write
<1>3. ASSUME NEW w \in Writers, Fsync(w) PROVE TypeOK'
  BY <1>3 DEF Fsync
<1>4. ASSUME NEW w \in Writers, Link(w) PROVE TypeOK'
  BY <1>4 DEF Link
<1>5. ASSUME NEW w \in Writers, Fail(w) \/ Unlink(w) \/ Kill(w) PROVE TypeOK'
  BY <1>5 DEF Fail, Unlink, Kill
<1>6. ASSUME NEW r \in Readers, OpenInput(r) PROVE TypeOK'
  BY <1>6 DEF OpenInput
<1>7. ASSUME NEW r \in Readers, FileSize(r) PROVE TypeOK'
  BY <1>7 DEF FileSize, Closed
<1>8. ASSUME NEW r \in Readers, ReadAt(r) PROVE TypeOK'
  BY <1>8 DEF ReadAt
<1>9. CASE Delete
  BY <1>9 DEF Delete
<1>10. CASE UNCHANGED vars
  BY <1>10 DEF vars
<1> QED
  BY <1>1, <1>2, <1>3, <1>4, <1>5, <1>6, <1>7, <1>8, <1>9, <1>10 DEF Next

\* No step touches a file that is sealed.
LEMMA SealedStays ==
  ASSUME IInv, [Next]_vars, NEW v \in Writers, Sealed(v)
  PROVE  Sealed(v)'
<1> USE DEF IInv, TypeOK, Sealed, Goto
<1>1. ASSUME NEW w \in Writers, Mkstemp(w) \/ Write(w) \/ Fsync(w) \/ Link(w)
      PROVE  Sealed(v)'
  BY <1>1 DEF Mkstemp, Write, Fsync, Link
<1>2. ASSUME NEW w \in Writers, Fail(w) \/ Unlink(w) \/ Kill(w)
      PROVE  Sealed(v)'
  BY <1>2 DEF Fail, Unlink, Kill
<1>3. ASSUME NEW r \in Readers, OpenInput(r) \/ FileSize(r) \/ ReadAt(r)
      PROVE  Sealed(v)'
  BY <1>3 DEF OpenInput, FileSize, ReadAt
<1>4. CASE Delete \/ UNCHANGED vars
  BY <1>4 DEF Delete, vars
<1> QED
  BY <1>1, <1>2, <1>3, <1>4 DEF Next

LEMMA PathStep ==
  ASSUME IInv, [Next]_vars, path' # NoFile
  PROVE  Sealed(path)'
<1>1. CASE path' = path
  <2>1. PICK v \in Writers : path = v /\ Sealed(v)
    BY <1>1 DEF IInv, TypeOK
  <2>2. Sealed(v)'
    BY <2>1, SealedStays
  <2> QED
    BY <1>1, <2>1, <2>2 DEF Sealed
<1>2. ASSUME NEW w \in Writers, Link(w), path' # path PROVE Sealed(path)'
  BY <1>2 DEF Link, Goto, IInv, TypeOK, WriterInv, Sealed
<1> QED
  BY <1>1, <1>2 DEF Next, Mkstemp, Write, Fsync, Fail, Unlink, Kill, OpenInput,
       FileSize, ReadAt, Delete, vars

LEMMA WriterStep ==
  ASSUME IInv, [Next]_vars, NEW v \in Writers
  PROVE  WriterInv(v)'
<1> USE DEF IInv, TypeOK, WriterInv, Goto, Settle
<1>1. ASSUME NEW w \in Writers, Mkstemp(w) PROVE WriterInv(v)'
  BY <1>1 DEF Mkstemp
<1>2. ASSUME NEW w \in Writers, Write(w) PROVE WriterInv(v)'
  BY <1>2 DEF Write
<1>3. ASSUME NEW w \in Writers, Fsync(w) PROVE WriterInv(v)'
  BY <1>3 DEF Fsync
<1>4. ASSUME NEW w \in Writers, Link(w) PROVE WriterInv(v)'
  BY <1>4 DEF Link
<1>5. ASSUME NEW w \in Writers, Fail(w) \/ Unlink(w) \/ Kill(w) PROVE WriterInv(v)'
  BY <1>5 DEF Fail, Unlink, Kill
<1>6. ASSUME NEW r \in Readers, OpenInput(r) \/ FileSize(r) \/ ReadAt(r)
      PROVE  WriterInv(v)'
  BY <1>6 DEF OpenInput, FileSize, ReadAt
<1>7. CASE Delete \/ UNCHANGED vars
  BY <1>7 DEF Delete, vars
<1> QED
  BY <1>1, <1>2, <1>3, <1>4, <1>5, <1>6, <1>7 DEF Next

\* Another's step: the handle stays, and the path with it unless it is deleted.
LEMMA ReaderKept ==
  ASSUME IInv, [Next]_vars, NEW q \in Readers,
         handle'[q] = handle[q], got'[q] = got[q]
  PROVE  ReaderInv(q)'
<1>1. ReaderInv(q) /\ handle[q].file \in Writers \cup {NoFile}
  BY DEF IInv, TypeOK
<1>2. handle[q].file # NoFile => Sealed(handle[q].file)'
  BY <1>1, SealedStays DEF ReaderInv
<1>3. deleted \/ (deleted' = deleted /\ (path # NoFile => path' = path)) \/ deleted'
  BY DEF Next, Mkstemp, Write, Fsync, Link, Fail, Unlink, Kill, OpenInput, FileSize,
       ReadAt, Delete, vars
<1>4. deleted => deleted'
  BY Zenon DEF Next, Mkstemp, Write, Fsync, Link, Fail, Unlink, Kill, OpenInput, FileSize,
       ReadAt, Delete, vars
<1> QED
  BY <1>1, <1>2, <1>3, <1>4 DEF ReaderInv, Sealed

LEMMA ReaderStep ==
  ASSUME IInv, [Next]_vars, NEW q \in Readers
  PROVE  ReaderInv(q)'
<1>1. CASE handle'[q] = handle[q] /\ got'[q] = got[q]
  BY <1>1, ReaderKept
<1>2. CASE OpenInput(q)
  <2>1. /\ path \in Writers /\ path # NoFile /\ Sealed(path) /\ path' = path
        /\ handle'[q] = [file |-> path, size |-> -1] /\ got'[q] = got[q] /\ got[q] = -1
    BY <1>2, LocalAssumption DEF OpenInput, IInv, TypeOK, Closed, ReaderInv
  <2>2. Sealed(path)'
    BY <2>1, PathStep
  <2> QED
    BY <2>1, <2>2 DEF ReaderInv, Sealed
<1>3. CASE FileSize(q)
  <2>1. /\ ReaderInv(q) /\ got'[q] = got[q] /\ got[q] = -1
        /\ UNCHANGED <<path, bytes, pc, deleted>>
    BY <1>3 DEF FileSize, IInv, ReaderInv
  <2>2. CASE path = NoFile
    <3>1. handle'[q] = Closed
      BY <1>3, <2>2 DEF FileSize, IInv, TypeOK
    <3> QED
      BY <2>1, <3>1 DEF ReaderInv, Closed
  <2>3. CASE path # NoFile
    <3>1. /\ handle'[q].file = handle[q].file /\ handle'[q].size = bytes[path]
          /\ handle[q].file # NoFile
      BY <1>3, <2>3 DEF FileSize, IInv, TypeOK
    <3>2. bytes[path] = Size[path]
      BY <2>3 DEF IInv, Sealed
    <3> QED
      BY <2>1, <3>1, <3>2 DEF ReaderInv, Sealed
  <2> QED
    BY <2>2, <2>3
<1>4. CASE ReadAt(q)
  <2>1. /\ ReaderInv(q) /\ handle' = handle /\ got'[q] = handle[q].size
        /\ UNCHANGED <<path, bytes, pc, deleted>>
    BY <1>4 DEF ReadAt, IInv, TypeOK
  <2> QED
    BY <2>1 DEF ReaderInv, Sealed
<1> QED
  <2>1. ASSUME NEW r \in Readers, r # q, OpenInput(r) \/ FileSize(r) \/ ReadAt(r)
        PROVE  handle'[q] = handle[q] /\ got'[q] = got[q]
    BY <2>1 DEF OpenInput, FileSize, ReadAt, IInv, TypeOK
  <2> QED
    BY <1>1, <1>2, <1>3, <1>4, <2>1 DEF Next, Mkstemp, Write, Fsync, Link, Fail,
         Unlink, Kill, Delete, vars

\* The invariant is inductive.
THEOREM Invariance == Spec => []IInv
<1>1. IInv /\ [Next]_vars => IInv'
  <2> SUFFICES ASSUME IInv, [Next]_vars PROVE IInv'
    OBVIOUS
  <2> QED
    BY TypeStep, PathStep, WriterStep, ReaderStep DEF IInv
<1> QED
  BY InitialInv, <1>1, PTL DEF Spec

-----------------------------------------------------------------------------
\* The comment of IStorage::CreateIfAbsent holds for any number of processes that
\* race for the path and die between any two of their system calls.
THEOREM NobodySeesPart == Spec => []NeverPartial
<1>1. IInv => NeverPartial
  BY DEF IInv, ReaderInv, Sealed, NeverPartial
<1> QED
  BY <1>1, Invariance, PTL

\* Every CreateIfAbsent that returns or throws has unlinked its temporary file.
THEOREM CallsCleanUp == Spec => []NoLitter
<1>1. IInv => NoLitter
  BY Zenon DEF IInv, TypeOK, WriterInv, NoLitter
<1> QED
  BY <1>1, Invariance, PTL

\* A step of CreateIfAbsent decides a call as the abstract creation would, at the
\* link, or changes nothing a caller can see.
LEMMA RefinementStep ==
  ASSUME IInv, [Next]_vars
  PROVE  [Atomic!Next]_<<path, outcome>>
<1> USE DEF Atomic!Next, Atomic!Create, Atomic!Exists, Atomic!Fail, Atomic!Decide,
        Atomic!Delete, Settle, Goto, IInv, WriterInv
<1>1. ASSUME NEW w \in Writers, Mkstemp(w) PROVE [Atomic!Next]_<<path, outcome>>
  BY <1>1 DEF Mkstemp
<1>2. ASSUME NEW w \in Writers, Link(w) PROVE [Atomic!Next]_<<path, outcome>>
  BY <1>2 DEF Link
<1>3. ASSUME NEW w \in Writers, Fail(w) PROVE [Atomic!Next]_<<path, outcome>>
  BY <1>3, Zenon DEF Fail
<1>4. CASE Delete
  BY <1>4 DEF Delete
<1>5. ASSUME NEW w \in Writers, Write(w) \/ Fsync(w) \/ Unlink(w) \/ Kill(w)
      PROVE  [Atomic!Next]_<<path, outcome>>
  BY <1>5 DEF Write, Fsync, Unlink, Kill
<1>6. ASSUME NEW r \in Readers, OpenInput(r) \/ FileSize(r) \/ ReadAt(r)
      PROVE  [Atomic!Next]_<<path, outcome>>
  BY <1>6 DEF OpenInput, FileSize, ReadAt
<1>7. CASE UNCHANGED vars
  BY <1>7 DEF vars
<1> QED
  BY <1>1, <1>2, <1>3, <1>4, <1>5, <1>6, <1>7 DEF Next

\* CreateIfAbsent is atomic: of the calls that race for the path the one whose
\* bytes are there, and no other, is told Created.
THEOREM ImplementsPromise == Spec => ImplementsAtomicCreate
<1>1. Init => Atomic!Init
  BY DEF Init, Atomic!Init
<1>2. IInv /\ [Next]_vars => [Atomic!Next]_<<path, outcome>>
  BY RefinementStep
<1> QED
  BY <1>1, <1>2, Invariance, PTL DEF Spec, ImplementsAtomicCreate, Atomic!Spec
=============================================================================
