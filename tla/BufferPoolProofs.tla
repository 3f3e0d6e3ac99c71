-------------------------- MODULE BufferPoolProofs --------------------------
(***************************************************************************)
(* The buffer pool for any number of frames, threads, pages and contents:  *)
(* pointers stay valid, pins are counted, a full pool is one whose frames  *)
(* are all pinned or were left pinned by a deletion, and the pool          *)
(* implements the store of pages.  The ids of all pages have offsets that  *)
(* fit an int.                                                             *)
(***************************************************************************)
EXTENDS BufferPool, FiniteSetTheorems, TLAPS

NoDup(u) == \A i, j \in 1..Len(u) : u[i] = u[j] => i = j

\* The pool's own structures: a frame is in the free list or has one page, and a
\* page without a pin is in the replacer's list.  The frame of a page that was
\* deleted is in both lists and keeps its pin count.
PoolOK(b) ==
  /\ b.pages \in [Frames -> PageRec]
  /\ b.table \in [DOMAIN b.table -> Frames]
  /\ b.free \in Seq(Frames) /\ NoDup(b.free)
  /\ b.unpinned \in Seq(Frames) /\ NoDup(b.unpinned)
  /\ \A p \in DOMAIN b.table : b.pages[b.table[p]].id = p
  /\ \A f \in Frames : Listed(b.free, f) <=> \A p \in DOMAIN b.table : b.table[p] # f
  /\ \A f \in Frames : Listed(b.free, f) => b.pages[f] = WipedPage(b.pages[f].pin)
  /\ \A f \in Frames : Listed(b.unpinned, f) /\ ~Listed(b.free, f) => b.pages[f].pin = 0
  /\ \A p \in DOMAIN b.table : b.pages[b.table[p]].pin = 0 => Listed(b.unpinned, b.table[p])

\* The file is no longer than the ids handed out, all of which fit.
DiskOK(d) ==
  /\ d = [file |-> d.file, size |-> d.size, next |-> d.next]
  /\ d.size \in Nat /\ d.next \in Nat
  /\ d.size <= d.next /\ d.next <= MaxPages
  /\ d.file \in [DOMAIN d.file -> PageData]
  /\ DOMAIN d.file \subseteq 0..(d.size - 1)

\* The pages that exist are those in the pool and some in the file.
LiveOK(b, L) ==
  /\ DOMAIN b.table \subseteq L
  /\ L \subseteq 0..(b.disk.next - 1)
  /\ L \ DOMAIN b.table \subseteq DOMAIN b.disk.file

Holding(h, p) == {t \in Threads : p \in DOMAIN h[t]}

\* The pointers h of the threads are those to their pages' frames, and with the
\* pins k that deletions left behind as many as the pins.
PinsOK(b, h, k) ==
  /\ DOMAIN h = Threads
  /\ k \in [Frames -> Nat]
  /\ \A f \in Frames : Listed(b.free, f) => b.pages[f].pin = k[f]
  /\ \A t \in Threads : \A p \in DOMAIN h[t] :
       /\ p \in DOMAIN b.table
       /\ h[t][p].frame = b.table[p]
       /\ h[t][p].dirty \in BOOLEAN
  /\ \A p \in DOMAIN b.table : b.pages[b.table[p]].pin = Cardinality(Holding(h, p)) + k[b.table[p]]

\* A page that differs from the file is dirty, or will be when it is unpinned.
Synced(b, h) ==
  \A p \in DOMAIN b.table :
    \/ b.pages[b.table[p]].dirty
    \/ \E t \in Threads : p \in DOMAIN h[t] /\ h[t][p].dirty
    \/ p \in DOMAIN b.disk.file /\ b.disk.file[p] = b.pages[b.table[p]].data

Inv(b, L, h, k) ==
  PoolOK(b) /\ DiskOK(b.disk) /\ LiveOK(b, L) /\ PinsOK(b, h, k) /\ Synced(b, h)

IInv == Inv(pool, live, held, leaked)

\* Content, of any pool.
ContentOf(b, L) ==
  [p \in L |-> IF InPool(b, p) THEN b.pages[b.table[p]].data ELSE b.disk.file[p]]

-----------------------------------------------------------------------------
(* Sets of numbers. *)

\* The CHOOSE of FlushAllPages finds the largest end.
LEMMA Largest ==
  ASSUME NEW M \in Nat, NEW T \in SUBSET (0..M), T # {}
  PROVE  \E n \in T : \A m \in T : m <= n
<1> DEFINE above == [n \in T |-> n..M]
           F == {above[n] : n \in T}
<1>1. F \subseteq FiniteSubsetsOf(Nat)
  <2> SUFFICES ASSUME NEW n \in T PROVE above[n] \in FiniteSubsetsOf(Nat)
    OBVIOUS
  <2>1. IsFiniteSet(n..M) /\ n..M \subseteq Nat
    BY FS_Interval
  <2> QED
    BY <2>1 DEF FiniteSubsetsOf
<1>2. F # {}
  BY Zenon
<1>3. PICK X \in F : \A Y \in F : <<Y, X>> \notin StrictSubsetOrdering(Nat)
  BY <1>1, <1>2, FS_StrictSubsetOrderingWellFounded, WFMin, Zenon
<1>4. PICK n \in T : X = above[n]
  BY <1>3
<1>5. ASSUME NEW m \in T PROVE m <= n
  <2> SUFFICES ASSUME m > n PROVE FALSE
    OBVIOUS
  <2>1. m..M \subseteq n..M /\ n \in n..M /\ n \notin m..M
    OBVIOUS
  <2>2. m..M \in SUBSET Nat /\ n..M \in SUBSET Nat
    OBVIOUS
  <2>3. <<m..M, n..M>> \in StrictSubsetOrdering(Nat)
    BY <2>1, <2>2 DEF StrictSubsetOrdering
  <2> QED
    BY <1>3, <1>4, <2>3, Zenon
<1> QED
  BY <1>5

\* Offsets in range do not wrap.
LEMMA NoWrap ==
  ASSUME NEW n \in Nat, n < IntPages
  PROVE  Wrap(n) = n
<1>1. n + IntPages \in 0..(2 * IntPages - 1) /\ IntPages \in Nat
  BY IntPagesAssumption
<1>2. (n + IntPages) % (2 * IntPages) = n + IntPages
  BY <1>1
<1> QED
  BY <1>1, <1>2 DEF Wrap

-----------------------------------------------------------------------------
(* Lists of frames. *)

\* A list without duplicates that lacks a frame has room for it.
LEMMA RoomInList ==
  ASSUME NEW u \in Seq(Frames), NoDup(u), NEW f \in Frames, ~Listed(u, f)
  PROVE  Len(u) < SlotNum
<1>0. SlotNum \in Nat /\ SlotNum # 0 /\ Len(u) \in Nat
  BY SlotNumAssumption
<1> SUFFICES ASSUME Len(u) >= SlotNum PROVE FALSE
  BY <1>0
<1> DEFINE S == 1..Len(u)
           T == Frames \ {f}
<1>1. IsFiniteSet(S) /\ Cardinality(S) = Len(u)
  BY <1>0, FS_Interval
<1>2. IsFiniteSet(Frames) /\ Cardinality(Frames) = SlotNum
  BY <1>0, FS_Interval DEF Frames
<1>3. IsFiniteSet(T) /\ Cardinality(T) = SlotNum - 1
  BY <1>2, FS_RemoveElement
<1>4. u \in [S -> T]
  BY DEF Listed
<1>5. Cardinality(T) < Cardinality(S)
  BY <1>0, <1>1, <1>3
<1>6. \E x, y \in S : x # y /\ u[x] = u[y]
  <2> HIDE DEF S, T
  <2> QED
    BY <1>1, <1>3, <1>4, <1>5, FS_PigeonHole
<1> QED
  BY <1>6 DEF NoDup

\* LRUReplacer::Pin takes one frame off the list.
LEMMA PinList ==
  ASSUME NEW u \in Seq(Frames), NoDup(u), NEW f \in Frames
  PROVE  LET w == Pin(u, f)
         IN  /\ w \in Seq(Frames) /\ NoDup(w)
             /\ \A g \in Frames : Listed(w, g) <=> Listed(u, g) /\ g # f
<1>1. CASE ~Listed(u, f)
  BY <1>1 DEF Pin
<1>2. CASE Listed(u, f)
  <2> DEFINE i == CHOOSE j \in 1..Len(u) : u[j] = f
             n == Len(u) - 1
             w == [j \in 1..n |-> IF j < i THEN u[j] ELSE u[j + 1]]
  <2>1. i \in 1..Len(u) /\ u[i] = f
    BY <1>2 DEF Listed
  <2> HIDE DEF i
  <2>2. n \in Nat /\ Len(u) = n + 1
    BY <2>1
  <2>3. \A j \in 1..n : u[j] \in Frames /\ u[j + 1] \in Frames
    BY <2>2
  <2> HIDE DEF n
  <2>4. w \in [1..n -> Frames]
    BY <2>3
  <2>5. w \in Seq(Frames) /\ Len(w) = n
    BY <2>2, <2>4
  <2>6. \A j \in 1..n : w[j] = IF j < i THEN u[j] ELSE u[j + 1]
    OBVIOUS
  <2> HIDE DEF w
  <2>7. NoDup(w)
    BY <2>1, <2>2, <2>5, <2>6 DEF NoDup
  <2>8. ASSUME NEW g \in Frames, Listed(w, g)
        PROVE  Listed(u, g) /\ g # f
    BY <2>1, <2>2, <2>5, <2>6, <2>8 DEF NoDup, Listed
  <2>9. ASSUME NEW g \in Frames, Listed(u, g), g # f
        PROVE  Listed(w, g)
    <3>1. PICK j \in 1..Len(u) : u[j] = g
      BY <2>9 DEF Listed
    <3>2. j # i
      BY <2>1, <2>9, <3>1
    <3>3. CASE j < i
      <4>1. j \in 1..n /\ w[j] = g
        BY <2>1, <2>2, <2>6, <3>1, <3>3
      <4> QED
        BY <2>5, <4>1 DEF Listed
    <3>4. CASE j > i
      <4>1. j - 1 \in 1..n /\ w[j - 1] = g
        BY <2>1, <2>2, <2>6, <3>1, <3>4
      <4> QED
        BY <2>5, <4>1 DEF Listed
    <3> QED
      BY <2>1, <3>1, <3>2, <3>3, <3>4
  <2>10. Pin(u, f) = w
    BY <1>2 DEF Pin, w, n, i
  <2> QED
    BY <2>5, <2>7, <2>8, <2>9, <2>10
<1> QED
  BY <1>1, <1>2

\* push_back of a frame that is not in the list.
LEMMA AppendList ==
  ASSUME NEW u \in Seq(Frames), NoDup(u), NEW f \in Frames, ~Listed(u, f)
  PROVE  LET w == Append(u, f)
         IN  /\ w \in Seq(Frames) /\ NoDup(w)
             /\ \A g \in Frames : Listed(w, g) <=> Listed(u, g) \/ g = f
<1> DEFINE w == Append(u, f)
<1>1. /\ w \in Seq(Frames) /\ Len(w) = Len(u) + 1 /\ w[Len(u) + 1] = f
      /\ \A j \in 1..Len(u) : w[j] = u[j]
  OBVIOUS
<1>2. Len(u) \in Nat
  OBVIOUS
<1> HIDE DEF w
<1>3. NoDup(w)
  BY <1>1, <1>2 DEF NoDup, Listed
<1>4. \A g \in Frames : Listed(w, g) <=> Listed(u, g) \/ g = f
  BY <1>1, <1>2 DEF Listed
<1> QED
  BY <1>1, <1>3, <1>4 DEF w

\* LRUReplacer::Unpin puts a frame on the list, which is never full.
LEMMA UnpinList ==
  ASSUME NEW u \in Seq(Frames), NoDup(u), NEW f \in Frames
  PROVE  LET w == Unpin(u, f)
         IN  /\ w \in Seq(Frames) /\ NoDup(w)
             /\ \A g \in Frames : Listed(w, g) <=> Listed(u, g) \/ g = f
<1>1. CASE Listed(u, f)
  BY <1>1 DEF Unpin
<1>2. CASE ~Listed(u, f)
  <2>1. Unpin(u, f) = Append(u, f)
    BY <1>2, RoomInList, SlotNumAssumption DEF Unpin
  <2> QED
    BY <1>2, <2>1, AppendList
<1> QED
  BY <1>1, <1>2

\* Victim and pop_front take the first frame.
LEMMA TailList ==
  ASSUME NEW u \in Seq(Frames), NoDup(u), u # << >>
  PROVE  /\ Tail(u) \in Seq(Frames) /\ NoDup(Tail(u))
         /\ Head(u) \in Frames /\ Head(u) = u[1] /\ Listed(u, Head(u))
         /\ \A g \in Frames : Listed(Tail(u), g) <=> Listed(u, g) /\ g # Head(u)
<1> DEFINE w == Tail(u)
<1>1. /\ w \in Seq(Frames) /\ Len(w) = Len(u) - 1 /\ Len(u) \in Nat /\ Len(u) >= 1
      /\ Head(u) = u[1] /\ u[1] \in Frames /\ \A j \in 1..Len(w) : w[j] = u[j + 1]
  OBVIOUS
<1> HIDE DEF w
<1>2. NoDup(w)
  BY <1>1 DEF NoDup
<1>3. Listed(u, Head(u))
  BY <1>1 DEF Listed
<1>4. ASSUME NEW g \in Frames, Listed(w, g) PROVE Listed(u, g) /\ g # Head(u)
  BY <1>1, <1>4 DEF Listed, NoDup
<1>5. ASSUME NEW g \in Frames, Listed(u, g), g # Head(u) PROVE Listed(w, g)
  <2>1. PICK j \in 1..Len(u) : u[j] = g
    BY <1>5 DEF Listed
  <2>2. j - 1 \in 1..Len(w) /\ w[j - 1] = g
    BY <1>1, <1>5, <2>1
  <2> QED
    BY <2>2 DEF Listed
<1> QED
  BY <1>1, <1>2, <1>3, <1>4, <1>5 DEF w

\* pop_back takes the last frame.
LEMMA FrontList ==
  ASSUME NEW u \in Seq(Frames), NoDup(u), u # << >>
  PROVE  LET w == SubSeq(u, 1, Len(u) - 1)
             f == u[Len(u)]
         IN  /\ w \in Seq(Frames) /\ NoDup(w) /\ f \in Frames /\ Listed(u, f)
             /\ \A g \in Frames : Listed(w, g) <=> Listed(u, g) /\ g # f
<1> DEFINE w == SubSeq(u, 1, Len(u) - 1)
           f == u[Len(u)]
<1>0. Len(u) \in Nat /\ Len(u) >= 1
  OBVIOUS
<1>1. /\ w \in Seq(Frames) /\ Len(w) = Len(u) - 1
      /\ f \in Frames /\ \A j \in 1..Len(w) : w[j] = u[j]
  <2> DEFINE n == Len(u) - 1
  <2>1. n \in Nat /\ n <= Len(u)
    BY <1>0
  <2>2. f \in Frames
    BY <1>0
  <2> HIDE DEF n, f
  <2>3. /\ SubSeq(u, 1, n) \in Seq(Frames) /\ Len(SubSeq(u, 1, n)) = n
        /\ \A j \in 1..n : SubSeq(u, 1, n)[j] = u[j]
    BY <2>1
  <2> QED
    BY <2>2, <2>3 DEF n
<1> HIDE DEF w
<1>2. NoDup(w) /\ Listed(u, f)
  BY <1>0, <1>1 DEF NoDup, Listed
<1>3. \A g \in Frames : Listed(w, g) <=> Listed(u, g) /\ g # f
  BY <1>0, <1>1 DEF NoDup, Listed
<1> QED
  BY <1>1, <1>2, <1>3 DEF w

-----------------------------------------------------------------------------
(* The disk and the pointers. *)

\* WritePage changes one page of the file.
LEMMA WritePageKeeps ==
  ASSUME NEW d, DiskOK(d), NEW p \in Nat, p < d.next, NEW v \in PageData
  PROVE  LET w == WritePage(d, p, v)
         IN  /\ DiskOK(w) /\ w.next = d.next
             /\ DOMAIN w.file = DOMAIN d.file \cup {p} /\ w.file[p] = v
             /\ \A q \in DOMAIN d.file : q # p => w.file[q] = d.file[q]
<1> DEFINE w == WritePage(d, p, v)
<1>1. /\ w = [file |-> w.file, size |-> w.size, next |-> w.next]
      /\ w.file = [q \in DOMAIN d.file \cup {p} |-> IF q = p THEN v ELSE d.file[q]]
      /\ w.size = IF p < d.size THEN d.size ELSE p + 1
      /\ w.next = d.next
  BY DEF WritePage
<1> HIDE DEF w
<1>2. w.file \in [DOMAIN w.file -> PageData]
  BY <1>1 DEF DiskOK
<1>3. w.size \in Nat /\ w.size <= w.next /\ d.size <= w.size /\ p < w.size
  BY <1>1 DEF DiskOK
<1>4. DOMAIN w.file \subseteq 0..(w.size - 1)
  BY <1>1, <1>3 DEF DiskOK
<1>5. DiskOK(w)
  BY <1>1, <1>2, <1>3, <1>4, Zenon DEF DiskOK
<1> QED
  BY <1>1, <1>5 DEF w

\* Hold, of any pointers.
Taken(h, t, p, x) ==
  [h EXCEPT ![t] = [q \in DOMAIN h[t] \cup {p} |-> IF q = p THEN x ELSE h[t][q]]]

\* What Release leaves.
Given(h, t, p) == [h EXCEPT ![t] = [q \in DOMAIN h[t] \ {p} |-> h[t][q]]]

LEMMA TakenHolds ==
  ASSUME NEW h, DOMAIN h = Threads, NEW t \in Threads, NEW p, NEW x, IsFiniteSet(Threads)
  PROVE  LET g == Taken(h, t, p, x)
         IN  /\ DOMAIN g = Threads /\ DOMAIN g[t] = DOMAIN h[t] \cup {p} /\ g[t][p] = x
             /\ \A q \in DOMAIN h[t] : q # p => g[t][q] = h[t][q]
             /\ \A u \in Threads : u # t => g[u] = h[u]
             /\ \A q : q # p => Holding(g, q) = Holding(h, q)
             /\ Cardinality(Holding(h, p)) \in Nat
             /\ Cardinality(Holding(g, p)) =
                  IF p \in DOMAIN h[t] THEN Cardinality(Holding(h, p))
                  ELSE Cardinality(Holding(h, p)) + 1
<1> DEFINE g == Taken(h, t, p, x)
<1>1. /\ DOMAIN g = Threads /\ DOMAIN g[t] = DOMAIN h[t] \cup {p} /\ g[t][p] = x
      /\ \A q \in DOMAIN h[t] : q # p => g[t][q] = h[t][q]
      /\ \A u \in Threads : u # t => g[u] = h[u]
  BY DEF Taken
<1> HIDE DEF g
<1>2. \A q : q # p => Holding(g, q) = Holding(h, q)
  BY <1>1 DEF Holding
<1>3. Holding(g, p) = Holding(h, p) \cup {t}
  BY <1>1 DEF Holding
<1>4. IsFiniteSet(Holding(h, p))
  BY FS_Subset DEF Holding
<1>5. Cardinality(Holding(h, p)) \in Nat
  BY <1>4, FS_CardinalityType
<1>6. t \in Holding(h, p) <=> p \in DOMAIN h[t]
  BY DEF Holding
<1>7. Cardinality(Holding(g, p)) =
        IF p \in DOMAIN h[t] THEN Cardinality(Holding(h, p))
        ELSE Cardinality(Holding(h, p)) + 1
  BY <1>3, <1>4, <1>6, FS_AddElement, Zenon
<1> QED
  BY <1>1, <1>2, <1>5, <1>7, Zenon DEF g

LEMMA GivenHolds ==
  ASSUME NEW h, DOMAIN h = Threads, NEW t \in Threads, NEW p \in DOMAIN h[t],
         IsFiniteSet(Threads)
  PROVE  LET g == Given(h, t, p)
         IN  /\ DOMAIN g = Threads /\ DOMAIN g[t] = DOMAIN h[t] \ {p}
             /\ \A q \in DOMAIN g[t] : g[t][q] = h[t][q]
             /\ \A u \in Threads : u # t => g[u] = h[u]
             /\ \A q : q # p => Holding(g, q) = Holding(h, q)
             /\ Cardinality(Holding(g, p)) \in Nat
             /\ Cardinality(Holding(h, p)) = Cardinality(Holding(g, p)) + 1
<1> DEFINE g == Given(h, t, p)
<1>1. /\ DOMAIN g = Threads /\ DOMAIN g[t] = DOMAIN h[t] \ {p}
      /\ \A q \in DOMAIN g[t] : g[t][q] = h[t][q]
      /\ \A u \in Threads : u # t => g[u] = h[u]
  BY DEF Given
<1> HIDE DEF g
<1>2. \A q : q # p => Holding(g, q) = Holding(h, q)
  BY <1>1 DEF Holding
<1>3. Holding(h, p) = Holding(g, p) \cup {t} /\ t \notin Holding(g, p)
  BY <1>1 DEF Holding
<1>4. IsFiniteSet(Holding(g, p))
  BY FS_Subset DEF Holding
<1>5. Cardinality(Holding(g, p)) \in Nat
  BY <1>4, FS_CardinalityType
<1>6. Cardinality(Holding(h, p)) = Cardinality(Holding(g, p)) + 1
  BY <1>3, <1>4, FS_AddElement, Zenon
<1> QED
  BY <1>1, <1>2, <1>5, <1>6, Zenon DEF g

\* A page without a pin has no holder.
LEMMA NoPinNoHolder ==
  ASSUME NEW b, NEW h, NEW k, PinsOK(b, h, k), IsFiniteSet(Threads), NEW p \in DOMAIN b.table,
         b.table[p] \in Frames, b.pages[b.table[p]].pin = 0
  PROVE  k[b.table[p]] = 0 /\ \A t \in Threads : p \notin DOMAIN h[t]
<1>1. 0 = Cardinality(Holding(h, p)) + k[b.table[p]] /\ k[b.table[p]] \in Nat
  BY DEF PinsOK
<1>2. IsFiniteSet(Holding(h, p))
  BY FS_Subset DEF Holding
<1>3. Cardinality(Holding(h, p)) \in Nat
  BY <1>2, FS_CardinalityType
<1>4. Cardinality(Holding(h, p)) = 0 /\ k[b.table[p]] = 0
  BY <1>1, <1>3
<1>5. Holding(h, p) = {}
  BY <1>2, <1>4, FS_EmptySet
<1> QED
  BY <1>4, <1>5, Zenon DEF Holding

-----------------------------------------------------------------------------
(* The methods of the pool. *)

\* The fields of a frame.
LEMMA FrameFields ==
  ASSUME NEW b, PoolOK(b), NEW f \in Frames
  PROVE  /\ b.pages[f] = [id |-> b.pages[f].id, pin |-> b.pages[f].pin,
                          dirty |-> b.pages[f].dirty, data |-> b.pages[f].data]
         /\ b.pages[f].id \in Int /\ b.pages[f].pin \in Nat
         /\ b.pages[f].dirty \in BOOLEAN /\ b.pages[f].data \in PageData
<1>1. b.pages[f] \in PageRec
  BY DEF PoolOK
<1> QED
  BY <1>1 DEF PageRec

LEMMA WipedPageType ==
  ASSUME NEW n \in Nat
  PROVE  /\ WipedPage(n) \in PageRec
         /\ WipedPage(n).pin = n /\ WipedPage(n).data = Zero
BY PoolAssumption DEF WipedPage, PageRec, INVALID_PAGE_ID

LEMMA EmptyPageType ==
  EmptyPage \in PageRec /\ EmptyPage.pin = 0 /\ EmptyPage = WipedPage(EmptyPage.pin)
BY WipedPageType DEF EmptyPage

\* Eviction: the victim's page stays what it was, in the file.
LEMMA EvictKeeps ==
  ASSUME NEW b, NEW L, NEW h, NEW k, Inv(b, L, h, k), IsFiniteSet(Threads), HasFrame(b),
         b.free = << >>
  PROVE  LET m == MakeRoom(b)
         IN  /\ Inv(m, L, h, k) /\ m.free # << >> /\ m.disk.next = b.disk.next
             /\ DOMAIN m.table \subseteq DOMAIN b.table
             /\ ContentOf(m, L) = ContentOf(b, L)
<1> DEFINE m == MakeRoom(b)
           f == Head(b.unpinned)
           data == b.pages[f].data
<1>0. /\ PoolOK(b) /\ DiskOK(b.disk) /\ LiveOK(b, L) /\ PinsOK(b, h, k) /\ Synced(b, h)
  BY DEF Inv
<1>1. b.unpinned \in Seq(Frames) /\ NoDup(b.unpinned) /\ b.unpinned # << >>
  BY <1>0, Zenon DEF HasFrame, PoolOK
<1>2. /\ f \in Frames /\ Listed(b.unpinned, f)
      /\ Tail(b.unpinned) \in Seq(Frames) /\ NoDup(Tail(b.unpinned))
      /\ \A g \in Frames : Listed(Tail(b.unpinned), g) <=> Listed(b.unpinned, g) /\ g # f
  BY <1>1, TailList
<1> HIDE DEF f
<1>3. \A g \in Frames : ~Listed(b.free, g)
  BY DEF Listed
<1>4. PICK q \in DOMAIN b.table : b.table[q] = f
  BY <1>0, <1>2, <1>3, Zenon DEF PoolOK
<1>5. b.pages[f].id = q /\ b.pages[f].pin = 0 /\ data \in PageData
  BY <1>0, <1>2, <1>3, <1>4, FrameFields, Zenon DEF PoolOK
<1>6. k[f] = 0 /\ \A t \in Threads : q \notin DOMAIN h[t]
  <2>1. b.table[q] \in Frames /\ b.pages[b.table[q]].pin = 0
    BY <1>2, <1>4, <1>5, Zenon
  <2>2. k[b.table[q]] = 0 /\ \A t \in Threads : q \notin DOMAIN h[t]
    BY <1>0, <2>1, NoPinNoHolder, Zenon
  <2> QED
    BY <1>4, <2>2, Zenon
<1>7. \A p \in DOMAIN b.table : p # q => b.table[p] # f
  BY <1>0, <1>4, <1>5, Zenon DEF PoolOK
<1>8. q \in L /\ q \in Nat /\ q < b.disk.next
  <2>1. b.disk.next \in Nat
    BY <1>0 DEF DiskOK
  <2>2. q \in L /\ q \in 0..(b.disk.next - 1)
    BY <1>0, <1>4, Zenon DEF LiveOK
  <2> QED
    BY <2>1, <2>2
<1>9. /\ m.pages = [b.pages EXCEPT ![f] = EmptyPage]
      /\ m.table = Unmapped(b.table, q)
      /\ m.free = << f >>
      /\ m.unpinned = Tail(b.unpinned)
      /\ m.disk = IF b.pages[f].dirty THEN WritePage(b.disk, q, data) ELSE b.disk
  <2>1. WipedPage(b.pages[f].pin) = EmptyPage
    BY <1>5 DEF EmptyPage
  <2>2. Append(b.free, f) = << f >>
    OBVIOUS
  <2>3. /\ m.pages = [b.pages EXCEPT ![f] = WipedPage(b.pages[f].pin)]
        /\ m.table = Unmapped(b.table, b.pages[f].id)
        /\ m.free = Append(b.free, f)
        /\ m.unpinned = Tail(b.unpinned)
        /\ m.disk = WriteBack(b, f)
    BY DEF MakeRoom, Victim, AfterVictim, f
  <2> QED
    BY <1>5, <2>1, <2>2, <2>3, Zenon DEF WriteBack
<1> HIDE DEF m, data
<1>10. /\ DiskOK(m.disk) /\ m.disk.next = b.disk.next
       /\ q \in DOMAIN m.disk.file /\ m.disk.file[q] = data
       /\ DOMAIN b.disk.file \subseteq DOMAIN m.disk.file
       /\ \A p \in DOMAIN b.disk.file : p # q => m.disk.file[p] = b.disk.file[p]
  <2>1. CASE b.pages[f].dirty
    BY <1>0, <1>5, <1>8, <1>9, <2>1, WritePageKeeps
  <2>2. CASE ~b.pages[f].dirty
    BY <1>0, <1>4, <1>6, <1>9, <2>2, Zenon DEF Synced, data
  <2> QED
    BY <2>1, <2>2, Zenon
<1>11. /\ DOMAIN m.table = DOMAIN b.table \ {q}
       /\ \A p \in DOMAIN m.table : m.table[p] = b.table[p] /\ m.table[p] # f
  BY <1>7, <1>9 DEF Unmapped
<1>12. /\ m.pages \in [Frames -> PageRec] /\ m.pages[f] = EmptyPage
       /\ \A g \in Frames : g # f => m.pages[g] = b.pages[g]
  BY <1>0, <1>2, <1>9, EmptyPageType DEF PoolOK
<1>13. /\ m.free \in Seq(Frames) /\ NoDup(m.free) /\ m.free # << >>
       /\ \A g \in Frames : Listed(m.free, g) <=> g = f
  <2>1. m.free \in Seq(Frames) /\ Len(m.free) = 1 /\ m.free[1] = f
    BY <1>2, <1>9
  <2> QED
    BY <2>1 DEF NoDup, Listed
<1>14. m.table \in [DOMAIN m.table -> Frames]
  BY <1>0, <1>9, <1>11 DEF PoolOK, Unmapped
<1>15. PoolOK(m)
  <2>1. \A p \in DOMAIN m.table : m.pages[m.table[p]] = b.pages[b.table[p]]
    BY <1>11, <1>12, <1>14
  <2>2. \A p \in DOMAIN m.table : m.pages[m.table[p]].id = p
    BY <1>0, <1>11, <2>1, Zenon DEF PoolOK
  <2>3. \A g \in Frames : Listed(m.free, g) <=> \A p \in DOMAIN m.table : m.table[p] # g
    BY <1>0, <1>3, <1>4, <1>11, <1>13, ZenonT(40) DEF PoolOK
  <2>4. \A g \in Frames : Listed(m.unpinned, g) /\ ~Listed(m.free, g) => m.pages[g].pin = 0
    BY <1>0, <1>2, <1>3, <1>9, <1>12 DEF PoolOK
  <2>5. \A p \in DOMAIN m.table :
          m.pages[m.table[p]].pin = 0 => Listed(m.unpinned, m.table[p])
    BY <1>0, <1>2, <1>9, <1>11, <1>14, <2>1 DEF PoolOK
  <2>6. \A g \in Frames : Listed(m.free, g) => m.pages[g] = WipedPage(m.pages[g].pin)
    BY <1>12, <1>13, EmptyPageType, Zenon
  <2> QED
    BY <1>2, <1>9, <1>12, <1>13, <1>14, <2>2, <2>3, <2>4, <2>5, <2>6, Zenon DEF PoolOK
<1>16. \A p \in DOMAIN m.table : m.pages[m.table[p]] = b.pages[b.table[p]]
  BY <1>11, <1>12, <1>14
<1>17. LiveOK(m, L)
  BY <1>0, <1>10, <1>11, Zenon DEF LiveOK
<1>18. PinsOK(m, h, k)
  <2>1. \A g \in Frames : Listed(m.free, g) => m.pages[g].pin = k[g]
    BY <1>6, <1>12, <1>13, EmptyPageType, Zenon
  <2> QED
    BY <1>0, <1>6, <1>11, <1>16, <2>1, Zenon DEF PinsOK
<1>19. Synced(m, h)
  BY <1>0, <1>10, <1>11, <1>16, Zenon DEF Synced
<1>20. ContentOf(m, L) = ContentOf(b, L)
  <2> SUFFICES ASSUME NEW p \in L
               PROVE  (IF InPool(m, p) THEN m.pages[m.table[p]].data ELSE m.disk.file[p])
                        = IF InPool(b, p) THEN b.pages[b.table[p]].data ELSE b.disk.file[p]
    BY Zenon DEF ContentOf
  <2>1. CASE p = q
    BY <1>4, <1>10, <1>11, <2>1, Zenon DEF InPool, data
  <2>2. CASE p # q /\ p \in DOMAIN b.table
    BY <1>11, <1>16, <2>2, Zenon DEF InPool
  <2>3. CASE p \notin DOMAIN b.table
    BY <1>0, <1>4, <1>10, <1>11, <2>3, Zenon DEF InPool, LiveOK
  <2> QED
    BY <2>1, <2>2, <2>3, Zenon
<1> QED
  BY <1>10, <1>11, <1>13, <1>15, <1>17, <1>18, <1>19, <1>20, Zenon DEF Inv, m

\* The part FetchPage and NewPage share.
LEMMA MakeRoomKeeps ==
  ASSUME NEW b, NEW L, NEW h, NEW k, Inv(b, L, h, k), IsFiniteSet(Threads), HasFrame(b)
  PROVE  LET m == MakeRoom(b)
         IN  /\ Inv(m, L, h, k) /\ m.free # << >> /\ m.disk.next = b.disk.next
             /\ DOMAIN m.table \subseteq DOMAIN b.table
             /\ ContentOf(m, L) = ContentOf(b, L)
<1>1. CASE b.free = << >>
  BY <1>1, EvictKeeps, Zenon
<1>2. CASE b.free # << >>
  BY <1>2 DEF MakeRoom
<1> QED
  BY <1>1, <1>2

\* The free frame f of b has taken page p with n pins, which made it r: what
\* FetchPage and NewPage do when there is room.
Placed(b, r, f, p, v, n) ==
  /\ f \in Frames /\ Listed(b.free, f)
  /\ p \in Int /\ p \notin DOMAIN b.table /\ v \in PageData /\ n \in Nat /\ n # 0
  /\ r.pages = [b.pages EXCEPT ![f] = [id |-> p, pin |-> n, dirty |-> FALSE, data |-> v]]
  /\ r.table = Mapped(b.table, p, f)
  /\ r.free \in Seq(Frames) /\ NoDup(r.free)
  /\ \A g \in Frames : Listed(r.free, g) <=> Listed(b.free, g) /\ g # f
  /\ r.unpinned = Pin(b.unpinned, f)

LEMMA PlaceKeeps ==
  ASSUME NEW b, PoolOK(b), NEW f, NEW p, NEW v, NEW r, NEW n, Placed(b, r, f, p, v, n)
  PROVE  /\ PoolOK(r)
         /\ DOMAIN r.table = DOMAIN b.table \cup {p} /\ r.table[p] = f
         /\ r.pages[f].pin = n /\ r.pages[f].data = v
         /\ \A q \in DOMAIN b.table :
              /\ r.table[q] = b.table[q] /\ r.pages[r.table[q]] = b.pages[b.table[q]]
              /\ b.table[q] # f /\ b.table[q] \in Frames
         /\ \A e \in Frames : e # f => r.pages[e] = b.pages[e]
<1> DEFINE rec == [id |-> p, pin |-> n, dirty |-> FALSE, data |-> v]
<1>0. /\ f \in Frames /\ Listed(b.free, f)
      /\ p \in Int /\ p \notin DOMAIN b.table /\ v \in PageData /\ n \in Nat /\ n # 0
      /\ r.pages = [b.pages EXCEPT ![f] = rec]
      /\ r.table = Mapped(b.table, p, f)
      /\ r.free \in Seq(Frames) /\ NoDup(r.free)
      /\ \A g \in Frames : Listed(r.free, g) <=> Listed(b.free, g) /\ g # f
      /\ r.unpinned = Pin(b.unpinned, f)
  BY DEF Placed
<1>1. rec \in PageRec /\ rec.id = p /\ rec.pin = n /\ rec.pin # 0 /\ rec.data = v
  BY <1>0 DEF PageRec
<1> HIDE DEF rec
<1>2. /\ r.pages \in [Frames -> PageRec] /\ r.pages[f] = rec
      /\ \A g \in Frames : g # f => r.pages[g] = b.pages[g]
  BY <1>0, <1>1, ZenonT(40) DEF PoolOK
<1>3. /\ r.unpinned \in Seq(Frames) /\ NoDup(r.unpinned)
      /\ \A g \in Frames : Listed(r.unpinned, g) <=> Listed(b.unpinned, g) /\ g # f
  <2>1. b.unpinned \in Seq(Frames) /\ NoDup(b.unpinned)
    BY DEF PoolOK
  <2>2. /\ Pin(b.unpinned, f) \in Seq(Frames) /\ NoDup(Pin(b.unpinned, f))
        /\ \A g \in Frames : Listed(Pin(b.unpinned, f), g) <=> Listed(b.unpinned, g) /\ g # f
    BY <1>0, <2>1, PinList, Zenon
  <2> QED
    BY <1>0, <2>2
<1>4. /\ DOMAIN r.table = DOMAIN b.table \cup {p} /\ r.table[p] = f
      /\ \A q \in DOMAIN b.table : r.table[q] = b.table[q] /\ b.table[q] # f /\ b.table[q] \in Frames
  <2>1. \A q \in DOMAIN b.table : b.table[q] # f /\ b.table[q] \in Frames
    BY <1>0, Zenon DEF PoolOK
  <2> QED
    BY <1>0, <2>1 DEF Mapped
<1>5. r.table \in [DOMAIN r.table -> Frames]
  <2>1. r.table = [q \in DOMAIN r.table |-> r.table[q]]
    BY <1>0 DEF Mapped
  <2>2. \A q \in DOMAIN r.table : r.table[q] \in Frames
    BY <1>0, <1>4
  <2> QED
    BY <2>1, <2>2
<1>6. \A q \in DOMAIN b.table : r.pages[r.table[q]] = b.pages[b.table[q]]
  BY <1>2, <1>4
<1>7. \A q \in DOMAIN r.table : r.pages[r.table[q]].id = q
  BY <1>1, <1>2, <1>4, <1>6, Zenon DEF PoolOK
<1>8. \A g \in Frames : Listed(r.free, g) <=> \A q \in DOMAIN r.table : r.table[q] # g
  BY <1>0, <1>4 DEF PoolOK
<1>9. \A g \in Frames : Listed(r.free, g) => r.pages[g] = WipedPage(r.pages[g].pin)
  BY <1>0, <1>2, Zenon DEF PoolOK
<1>10. \A g \in Frames : Listed(r.unpinned, g) /\ ~Listed(r.free, g) => r.pages[g].pin = 0
  BY <1>0, <1>2, <1>3, Zenon DEF PoolOK
<1>11. \A q \in DOMAIN r.table :
         r.pages[r.table[q]].pin = 0 => Listed(r.unpinned, r.table[q])
  BY <1>0, <1>1, <1>2, <1>3, <1>4, <1>6 DEF PoolOK
<1>12. PoolOK(r)
  BY <1>0, <1>2, <1>3, <1>5, <1>7, <1>8, <1>9, <1>10, <1>11, ZenonT(40) DEF PoolOK
<1> QED
  BY <1>1, <1>2, <1>4, <1>6, <1>12, ZenonT(40)

\* The pins of r after that: c are those that deletions left behind, on the
\* frame f the pins that p started with.
PlacedPins(b, k, r, f, p, c) ==
  /\ f \in Frames /\ p \notin DOMAIN b.table
  /\ c \in [Frames -> Nat] /\ \A e \in Frames : e # f => c[e] = k[e]
  /\ DOMAIN r.table = DOMAIN b.table \cup {p} /\ r.table[p] = f
  /\ r.pages[f].pin = c[f] + 1
  /\ \A q \in DOMAIN b.table :
       /\ r.table[q] = b.table[q] /\ r.pages[r.table[q]] = b.pages[b.table[q]]
       /\ b.table[q] # f /\ b.table[q] \in Frames
  /\ \A e \in Frames : e # f => r.pages[e] = b.pages[e]
  /\ \A e \in Frames : Listed(r.free, e) <=> Listed(b.free, e) /\ e # f

\* The thread that asked for the page has the only pointer to it.
LEMMA PlacePins ==
  ASSUME NEW b, NEW h, NEW k, PinsOK(b, h, k), IsFiniteSet(Threads), NEW t \in Threads,
         NEW r, NEW f, NEW p, NEW c, NEW x \in BOOLEAN, PlacedPins(b, k, r, f, p, c)
  PROVE  PinsOK(r, Taken(h, t, p, [frame |-> f, dirty |-> x]), c)
<1> DEFINE y == [frame |-> f, dirty |-> x]
           g == Taken(h, t, p, y)
<1>0. y.frame = f /\ y.dirty = x
  OBVIOUS
<1> HIDE DEF y
<1>a. /\ f \in Frames /\ p \notin DOMAIN b.table
      /\ c \in [Frames -> Nat] /\ \A e \in Frames : e # f => c[e] = k[e]
      /\ DOMAIN r.table = DOMAIN b.table \cup {p} /\ r.table[p] = f
      /\ r.pages[f].pin = c[f] + 1
  BY Zenon DEF PlacedPins
<1>b. \A q \in DOMAIN b.table :
        /\ r.table[q] = b.table[q] /\ r.pages[r.table[q]] = b.pages[b.table[q]]
        /\ b.table[q] # f /\ b.table[q] \in Frames
  BY Zenon DEF PlacedPins
<1>c. /\ \A e \in Frames : e # f => r.pages[e] = b.pages[e]
      /\ \A e \in Frames : Listed(r.free, e) <=> Listed(b.free, e) /\ e # f
  BY Zenon DEF PlacedPins
<1>1. \A u \in Threads : p \notin DOMAIN h[u]
  BY <1>a, Zenon DEF PinsOK
<1>2. Holding(h, p) = {}
  BY <1>1 DEF Holding
<1>3. Cardinality(Holding(h, p)) = 0
  BY <1>2, FS_EmptySet, Zenon
<1>4. /\ DOMAIN g = Threads /\ DOMAIN g[t] = DOMAIN h[t] \cup {p} /\ g[t][p] = y
      /\ \A q \in DOMAIN h[t] : q # p => g[t][q] = h[t][q]
      /\ \A u \in Threads : u # t => g[u] = h[u]
      /\ \A q : q # p => Holding(g, q) = Holding(h, q)
      /\ Cardinality(Holding(g, p)) = 1
  BY <1>1, <1>3, TakenHolds DEF PinsOK
<1> HIDE DEF g
<1>5. \A u \in Threads : \A q \in DOMAIN g[u] :
        q \in DOMAIN r.table /\ g[u][q].frame = r.table[q] /\ g[u][q].dirty \in BOOLEAN
  <2> SUFFICES ASSUME NEW u \in Threads, NEW q \in DOMAIN g[u]
               PROVE  /\ q \in DOMAIN r.table /\ g[u][q].frame = r.table[q]
                      /\ g[u][q].dirty \in BOOLEAN
    OBVIOUS
  <2>1. CASE u = t /\ q = p
    BY <1>0, <1>4, <1>a, <2>1, Zenon
  <2>2. CASE ~(u = t /\ q = p)
    <3>1. q \in DOMAIN h[u] /\ g[u][q] = h[u][q]
      BY <1>1, <1>4, <2>2
    <3>2. q \in DOMAIN b.table /\ h[u][q].frame = b.table[q] /\ h[u][q].dirty \in BOOLEAN
      BY <3>1, Zenon DEF PinsOK
    <3> QED
      BY <1>a, <1>b, <3>1, <3>2, Zenon
  <2> QED
    BY <2>1, <2>2, Zenon
<1>6. ASSUME NEW q \in DOMAIN r.table
      PROVE  r.pages[r.table[q]].pin = Cardinality(Holding(g, q)) + c[r.table[q]]
  <2>1. CASE q = p
    BY <1>4, <1>a, <2>1
  <2>2. CASE q # p
    <3>1. q \in DOMAIN b.table /\ b.table[q] # f /\ b.table[q] \in Frames
          /\ r.table[q] = b.table[q] /\ r.pages[r.table[q]] = b.pages[b.table[q]]
      BY <1>a, <1>b, <2>2, Zenon
    <3>2. b.pages[b.table[q]].pin = Cardinality(Holding(h, q)) + k[b.table[q]]
      BY <3>1, Zenon DEF PinsOK
    <3>3. c[r.table[q]] = k[b.table[q]] /\ Holding(g, q) = Holding(h, q)
      BY <1>4, <1>a, <2>2, <3>1, Zenon
    <3> QED
      BY <3>1, <3>2, <3>3, Zenon
  <2> QED
    BY <2>1, <2>2
<1>7. \A e \in Frames : Listed(r.free, e) => r.pages[e].pin = c[e]
  BY <1>a, <1>c, Zenon DEF PinsOK
<1>8. PinsOK(r, g, c)
  <2>1. DOMAIN g = Threads /\ c \in [Frames -> Nat]
    BY <1>4, <1>a, Zenon
  <2> QED
    BY <1>5, <1>6, <1>7, <2>1 DEF PinsOK
<1> QED
  BY <1>8, Zenon DEF g, y

\* FetchPage of a page that is not in the pool, with a frame free.
LEMMA ReadInKeeps ==
  ASSUME NEW b, NEW L, NEW h, NEW k, Inv(b, L, h, k), IsFiniteSet(Threads), MaxPages < IntPages,
         b.free # << >>, NEW t \in Threads, NEW p \in L, p \notin DOMAIN b.table
  PROVE  LET r == ReadIn(b, p)
             g == Taken(h, t, p, [frame |-> r.table[p], dirty |-> FALSE])
         IN  Inv(r, L, g, k) /\ ContentOf(r, L) = ContentOf(b, L)
<1> DEFINE r == ReadIn(b, p)
           f == b.free[Len(b.free)]
           v == b.disk.file[p]
           g == Taken(h, t, p, [frame |-> f, dirty |-> FALSE])
<1>0. /\ PoolOK(b) /\ DiskOK(b.disk) /\ LiveOK(b, L) /\ PinsOK(b, h, k) /\ Synced(b, h)
  BY DEF Inv
<1>1. /\ f \in Frames /\ Listed(b.free, f)
      /\ SubSeq(b.free, 1, Len(b.free) - 1) \in Seq(Frames)
      /\ NoDup(SubSeq(b.free, 1, Len(b.free) - 1))
      /\ \A e \in Frames :
           Listed(SubSeq(b.free, 1, Len(b.free) - 1), e) <=> Listed(b.free, e) /\ e # f
  <2>1. b.free \in Seq(Frames) /\ NoDup(b.free)
    BY <1>0, Zenon DEF PoolOK
  <2> QED
    BY <2>1, FrontList
<1> HIDE DEF f
<1> DEFINE n == b.pages[f].pin + 1
<1>2. b.pages[f].pin = k[f] /\ k \in [Frames -> Nat] /\ n \in Nat /\ n # 0
  <2>1. b.pages[f].pin = k[f] /\ k \in [Frames -> Nat]
    BY <1>0, <1>1, Zenon DEF PinsOK
  <2> QED
    BY <1>1, <2>1
<1> HIDE DEF n
<1>3. p \in DOMAIN b.disk.file /\ v \in PageData /\ p \in Nat
  <2>1. p \in DOMAIN b.disk.file /\ p \in 0..(b.disk.next - 1)
    BY <1>0 DEF LiveOK
  <2>2. b.disk.file \in [DOMAIN b.disk.file -> PageData]
    BY <1>0 DEF DiskOK
  <2> QED
    BY <2>1, <2>2
<1>4. p < b.disk.size /\ b.disk.size < IntPages /\ b.disk.size \in Nat
  <2>1. p \in 0..(b.disk.size - 1) /\ b.disk.size \in Nat /\ b.disk.next \in Nat
        /\ b.disk.size <= b.disk.next /\ b.disk.next <= MaxPages
    BY <1>0, <1>3, Zenon DEF DiskOK
  <2> QED
    BY <2>1, PoolAssumption, IntPagesAssumption
<1>5. ReadPage(b.disk, p, b.pages[f].data) = v
  <2>1. Wrap(p) = p /\ Wrap(b.disk.size) = b.disk.size
    BY <1>3, <1>4, NoWrap, IntPagesAssumption
  <2> QED
    BY <1>3, <1>4, <2>1 DEF ReadPage, GetFileSize
<1> HIDE DEF v
<1>6. /\ r.pages = [b.pages EXCEPT ![f] =
                      [id |-> p, pin |-> b.pages[f].pin + 1, dirty |-> FALSE,
                       data |-> ReadPage(b.disk, p, b.pages[f].data)]]
      /\ r.table = Mapped(b.table, p, f)
      /\ r.free = SubSeq(b.free, 1, Len(b.free) - 1)
      /\ r.unpinned = Pin(b.unpinned, f)
      /\ r.disk = b.disk
  BY Zenon DEF ReadIn, f
<1> HIDE DEF r
<1>7. r.pages = [b.pages EXCEPT ![f] = [id |-> p, pin |-> n, dirty |-> FALSE, data |-> v]]
  BY <1>5, <1>6, Zenon DEF n
<1>a. /\ r.free \in Seq(Frames) /\ NoDup(r.free) /\ p \in Int
      /\ \A e \in Frames : Listed(r.free, e) <=> Listed(b.free, e) /\ e # f
  BY <1>1, <1>3, <1>6, SMTT(20)
<1>8. /\ PoolOK(r)
      /\ DOMAIN r.table = DOMAIN b.table \cup {p} /\ r.table[p] = f
      /\ r.pages[f].pin = n /\ r.pages[f].data = v
      /\ \A q \in DOMAIN b.table :
           /\ r.table[q] = b.table[q] /\ r.pages[r.table[q]] = b.pages[b.table[q]]
           /\ b.table[q] # f /\ b.table[q] \in Frames
      /\ \A e \in Frames : e # f => r.pages[e] = b.pages[e]
  <2>0. /\ f \in Frames /\ Listed(b.free, f) /\ v \in PageData
        /\ r.table = Mapped(b.table, p, f) /\ r.unpinned = Pin(b.unpinned, f)
    BY <1>1, <1>3, <1>6, Zenon
  <2>1. Placed(b, r, f, p, v, n)
    BY <1>2, <1>7, <1>a, <2>0, Zenon DEF Placed
  <2> QED
    BY <1>0, <2>1, PlaceKeeps
<1>10. PinsOK(r, g, k)
  <2>1. PlacedPins(b, k, r, f, p, k)
    BY <1>1, <1>2, <1>8, <1>a, ZenonT(40) DEF PlacedPins, n
  <2> QED
    BY <1>0, <2>1, PlacePins, Zenon
<1>11. LiveOK(r, L)
  BY <1>0, <1>6, <1>8, Zenon DEF LiveOK
<1>12. Synced(r, g)
  <2> SUFFICES ASSUME NEW q \in DOMAIN r.table
               PROVE  \/ r.pages[r.table[q]].dirty
                      \/ \E u \in Threads : q \in DOMAIN g[u] /\ g[u][q].dirty
                      \/ q \in DOMAIN r.disk.file /\ r.disk.file[q] = r.pages[r.table[q]].data
    BY Zenon DEF Synced
  <2>1. CASE q = p
    BY <1>3, <1>6, <1>8, <2>1, Zenon DEF v
  <2>2. CASE q \in DOMAIN b.table
    <3>1. CASE \E u \in Threads : q \in DOMAIN h[u] /\ h[u][q].dirty
      <4>1. PICK u \in Threads : q \in DOMAIN h[u] /\ h[u][q].dirty
        BY <3>1, Zenon
      <4>2. q \in DOMAIN g[u] /\ g[u][q] = h[u][q]
        BY <1>0, <2>2, <4>1, TakenHolds DEF PinsOK
      <4> QED
        BY <4>1, <4>2, Zenon
    <3>2. CASE ~\E u \in Threads : q \in DOMAIN h[u] /\ h[u][q].dirty
      BY <1>0, <1>6, <1>8, <2>2, <3>2, Zenon DEF Synced
    <3> QED
      BY <3>1, <3>2, Zenon
  <2> QED
    BY <1>8, <2>1, <2>2, Zenon
<1>13. ContentOf(r, L) = ContentOf(b, L)
  <2> SUFFICES ASSUME NEW q \in L
               PROVE  (IF InPool(r, q) THEN r.pages[r.table[q]].data ELSE r.disk.file[q])
                        = IF InPool(b, q) THEN b.pages[b.table[q]].data ELSE b.disk.file[q]
    BY Zenon DEF ContentOf
  <2>1. CASE q = p
    BY <1>8, <2>1, Zenon DEF InPool, v
  <2>2. CASE q # p
    BY <1>6, <1>8, <2>2, Zenon DEF InPool
  <2> QED
    BY <2>1, <2>2, Zenon
<1>14. Inv(r, L, g, k)
  BY <1>0, <1>6, <1>8, <1>10, <1>11, <1>12, Zenon DEF Inv
<1> QED
  BY <1>8, <1>13, <1>14, Zenon DEF r

LEMMA AllocateDisk ==
  ASSUME NEW d, DiskOK(d), d.next < MaxPages
  PROVE  LET w == AllocatePage(d)
         IN  DiskOK(w) /\ w.file = d.file /\ w.next = d.next + 1
<1> DEFINE w == AllocatePage(d)
<1>1. w = [file |-> d.file, size |-> d.size, next |-> d.next + 1]
  <2>1. PICK file, size, next : d = [file |-> file, size |-> size, next |-> next]
    BY DEF DiskOK
  <2> QED
    BY <2>1 DEF AllocatePage
<1> HIDE DEF w
<1>2. w.file = d.file /\ w.size = d.size /\ w.next = d.next + 1
  BY <1>1
<1>3. /\ d.size \in Nat /\ d.next \in Nat /\ d.size <= d.next
      /\ d.file \in [DOMAIN d.file -> PageData] /\ DOMAIN d.file \subseteq 0..(d.size - 1)
  BY DEF DiskOK
<1>4. w.next \in Nat /\ w.size <= w.next /\ w.next <= MaxPages
  BY <1>2, <1>3, PoolAssumption
<1>5. DiskOK(w)
  BY <1>1, <1>2, <1>3, <1>4 DEF DiskOK
<1> QED
  BY <1>2, <1>5 DEF w

\* NewPage, with a frame free.
LEMMA AllocateKeeps ==
  ASSUME NEW b, NEW L, NEW h, NEW k, Inv(b, L, h, k), IsFiniteSet(Threads),
         b.free # << >>, NEW t \in Threads, b.disk.next < MaxPages
  PROVE  LET r == Allocate(b)
             p == b.disk.next
             g == Taken(h, t, p, [frame |-> r.table[p], dirty |-> TRUE])
         IN  /\ Inv(r, L \cup {p}, g, [k EXCEPT ![r.table[p]] = 0]) /\ p \notin L
             /\ ContentOf(r, L \cup {p}) =
                  [q \in L \cup {p} |-> IF q = p THEN Zero ELSE ContentOf(b, L)[q]]
<1> DEFINE r == Allocate(b)
           f == b.free[1]
           p == b.disk.next
           g == Taken(h, t, p, [frame |-> f, dirty |-> TRUE])
           c == [k EXCEPT ![f] = 0]
           K == L \cup {p}
<1>0. /\ PoolOK(b) /\ DiskOK(b.disk) /\ LiveOK(b, L) /\ PinsOK(b, h, k) /\ Synced(b, h)
  BY DEF Inv
<1>1. /\ f \in Frames /\ Listed(b.free, f) /\ Tail(b.free) \in Seq(Frames) /\ NoDup(Tail(b.free))
      /\ \A e \in Frames : Listed(Tail(b.free), e) <=> Listed(b.free, e) /\ e # f
  <2>1. b.free \in Seq(Frames) /\ NoDup(b.free)
    BY <1>0, ZenonT(40) DEF PoolOK
  <2> QED
    BY <2>1, TailList
<1> HIDE DEF f
<1>2. b.pages[f].data = Zero
  <2>1. b.pages[f] = WipedPage(b.pages[f].pin) /\ b.pages[f].pin \in Nat
    BY <1>0, <1>1, FrameFields, Zenon DEF PoolOK
  <2> QED
    BY <2>1, WipedPageType, Zenon
<1>b. c \in [Frames -> Nat] /\ c[f] = 0 /\ \A e \in Frames : e # f => c[e] = k[e]
  <2>1. k \in [Frames -> Nat]
    BY <1>0, Zenon DEF PinsOK
  <2> QED
    BY <1>1, <2>1
<1> HIDE DEF c
<1>3. p \in Nat /\ p \notin L /\ p \notin DOMAIN b.table
  <2>1. p \in Nat
    BY <1>0 DEF DiskOK
  <2>2. L \subseteq 0..(p - 1) /\ DOMAIN b.table \subseteq L
    BY <1>0 DEF LiveOK
  <2> QED
    BY <2>1, <2>2
<1>4. /\ r.pages = [b.pages EXCEPT ![f] =
                      [id |-> p, pin |-> 1, dirty |-> FALSE, data |-> b.pages[f].data]]
      /\ r.table = Mapped(b.table, p, f)
      /\ r.free = Tail(b.free)
      /\ r.unpinned = Pin(b.unpinned, f)
      /\ r.disk = AllocatePage(b.disk)
  BY Zenon DEF Allocate, NewPageId, f
<1>5. DiskOK(r.disk) /\ r.disk.file = b.disk.file /\ r.disk.next = p + 1
  BY <1>0, <1>4, AllocateDisk, ZenonT(40)
<1> HIDE DEF r, p
<1>6. /\ PoolOK(r)
      /\ DOMAIN r.table = DOMAIN b.table \cup {p} /\ r.table[p] = f
      /\ r.pages[f].pin = 1 /\ r.pages[f].data = Zero
      /\ \A q \in DOMAIN b.table :
           /\ r.table[q] = b.table[q] /\ r.pages[r.table[q]] = b.pages[b.table[q]]
           /\ b.table[q] # f /\ b.table[q] \in Frames
      /\ \A e \in Frames : e # f => r.pages[e] = b.pages[e]
      /\ \A e \in Frames : Listed(r.free, e) <=> Listed(b.free, e) /\ e # f
  <2>0. /\ r.pages = [b.pages EXCEPT ![f] = [id |-> p, pin |-> 1, dirty |-> FALSE, data |-> Zero]]
        /\ r.table = Mapped(b.table, p, f) /\ r.unpinned = Pin(b.unpinned, f)
        /\ r.free \in Seq(Frames) /\ NoDup(r.free) /\ Zero \in PageData /\ p \in Int
        /\ \A e \in Frames : Listed(r.free, e) <=> Listed(b.free, e) /\ e # f
    BY <1>1, <1>2, <1>3, <1>4, PoolAssumption
  <2>1. Placed(b, r, f, p, Zero, 1)
    <3>1. 1 \in Nat /\ 1 # 0
      OBVIOUS
    <3> QED
      BY <1>1, <1>3, <2>0, <3>1, Zenon DEF Placed
  <2>2. /\ PoolOK(r)
        /\ DOMAIN r.table = DOMAIN b.table \cup {p} /\ r.table[p] = f
        /\ r.pages[f].pin = 1 /\ r.pages[f].data = Zero
        /\ \A q \in DOMAIN b.table :
             /\ r.table[q] = b.table[q] /\ r.pages[r.table[q]] = b.pages[b.table[q]]
             /\ b.table[q] # f /\ b.table[q] \in Frames
        /\ \A e \in Frames : e # f => r.pages[e] = b.pages[e]
    BY <1>0, <2>1, PlaceKeeps
  <2> QED
    BY <2>0, <2>2, ZenonT(40)
<1>7. PinsOK(r, g, c)
  <2>1. r.pages[f].pin = c[f] + 1
    BY <1>6, <1>b
  <2>2. p \notin DOMAIN b.table /\ f \in Frames /\ PinsOK(b, h, k)
    BY <1>0, <1>1, <1>3, Zenon
  <2>3. c \in [Frames -> Nat] /\ \A e \in Frames : e # f => c[e] = k[e]
    BY <1>b, Zenon
  <2>4. DOMAIN r.table = DOMAIN b.table \cup {p} /\ r.table[p] = f
    BY <1>6, Zenon
  <2>5. \A q \in DOMAIN b.table :
          /\ r.table[q] = b.table[q] /\ r.pages[r.table[q]] = b.pages[b.table[q]]
          /\ b.table[q] # f /\ b.table[q] \in Frames
    BY <1>6, Zenon
  <2>6. /\ \A e \in Frames : e # f => r.pages[e] = b.pages[e]
        /\ \A e \in Frames : Listed(r.free, e) <=> Listed(b.free, e) /\ e # f
    BY <1>6, Zenon
  <2>7. PlacedPins(b, k, r, f, p, c)
    BY <2>1, <2>2, <2>3, <2>4, <2>5, <2>6, Zenon DEF PlacedPins
  <2> QED
    BY <2>2, <2>7, PlacePins, Zenon
<1>8. LiveOK(r, K)
  <2>1. L \subseteq 0..(p - 1)
    BY <1>0 DEF LiveOK, p
  <2>2. K \subseteq 0..(r.disk.next - 1)
    <3> SUFFICES ASSUME NEW q \in K PROVE q \in 0..(r.disk.next - 1)
      OBVIOUS
    <3>1. q \in 0..(p - 1) \/ q = p
      BY <2>1, Zenon
    <3> QED
      BY <1>3, <1>5, <3>1
  <2> QED
    BY <1>0, <1>5, <1>6, <2>2, Zenon DEF LiveOK
<1>9. /\ p \in DOMAIN g[t] /\ g[t][p].dirty
      /\ \A u \in Threads, q \in DOMAIN b.table :
           q \in DOMAIN h[u] => q \in DOMAIN g[u] /\ g[u][q] = h[u][q]
  BY <1>0, <1>3, TakenHolds DEF PinsOK
<1>10. Synced(r, g)
  <2> SUFFICES ASSUME NEW q \in DOMAIN b.table
               PROVE  \/ r.pages[r.table[q]].dirty
                      \/ \E u \in Threads : q \in DOMAIN g[u] /\ g[u][q].dirty
                      \/ q \in DOMAIN r.disk.file /\ r.disk.file[q] = r.pages[r.table[q]].data
    BY <1>6, <1>9, Zenon DEF Synced
  <2>1. r.table[q] = b.table[q] /\ r.pages[r.table[q]] = b.pages[b.table[q]]
    BY <1>6, Zenon
  <2> QED
    BY <1>0, <1>5, <1>9, <2>1, Zenon DEF Synced
<1>11. ContentOf(r, K) = [q \in K |-> IF q = p THEN Zero ELSE ContentOf(b, L)[q]]
  <2> SUFFICES ASSUME NEW q \in K
               PROVE  (IF InPool(r, q) THEN r.pages[r.table[q]].data ELSE r.disk.file[q])
                        = IF q = p THEN Zero ELSE ContentOf(b, L)[q]
    BY Zenon DEF ContentOf
  <2>1. CASE q = p
    BY <1>6, <2>1, Zenon DEF InPool
  <2>2. CASE q # p
    BY <1>5, <1>6, <2>2, Zenon DEF InPool, ContentOf
  <2> QED
    BY <2>1, <2>2, Zenon
<1>12. Inv(r, K, g, c)
  BY <1>5, <1>6, <1>7, <1>8, <1>10, ZenonT(40) DEF Inv
<1> QED
  BY <1>3, <1>6, <1>11, <1>12, Zenon DEF r, p, c

\* FetchPage of a page in the pool.
LEMMA FetchHitKeeps ==
  ASSUME NEW b, NEW L, NEW h, NEW k, Inv(b, L, h, k), IsFiniteSet(Threads),
         NEW t \in Threads, NEW p \in DOMAIN b.table, p \notin DOMAIN h[t]
  PROVE  LET r == FetchHit(b, p)
             g == Taken(h, t, p, [frame |-> r.table[p], dirty |-> FALSE])
         IN  Inv(r, L, g, k) /\ ContentOf(r, L) = ContentOf(b, L)
<1> DEFINE r == FetchHit(b, p)
           f == b.table[p]
           y == [frame |-> f, dirty |-> FALSE]
           g == Taken(h, t, p, y)
<1>0. /\ PoolOK(b) /\ DiskOK(b.disk) /\ LiveOK(b, L) /\ PinsOK(b, h, k) /\ Synced(b, h)
  BY DEF Inv
<1>1. /\ r.pages = [b.pages EXCEPT ![f] = [b.pages[f] EXCEPT !.pin = @ + 1]]
      /\ r.table = b.table /\ r.free = b.free
      /\ r.unpinned = Pin(b.unpinned, f) /\ r.disk = b.disk
  BY DEF FetchHit
<1> HIDE DEF r
<1>2. f \in Frames /\ ~Listed(b.free, f)
  BY <1>0, Zenon DEF PoolOK
<1>3. \A q \in DOMAIN b.table : q # p => b.table[q] # f
  BY <1>0, Zenon DEF PoolOK
<1>4. y.frame = f /\ y.dirty = FALSE
  OBVIOUS
<1> HIDE DEF f, y
<1> DEFINE x == b.pages[f]
           z == [x EXCEPT !.pin = @ + 1]
<1>5. x \in PageRec
  BY <1>0, <1>2, Zenon DEF PoolOK
<1> HIDE DEF x
<1>6. z \in PageRec /\ z.id = x.id /\ z.pin = x.pin + 1 /\ z.dirty = x.dirty /\ z.data = x.data
  BY <1>5 DEF PageRec
<1>7. x.pin \in Nat /\ z.pin # 0
  BY <1>5, <1>6 DEF PageRec
<1> HIDE DEF z
<1>8. /\ r.pages \in [Frames -> PageRec] /\ r.pages[f] = z
      /\ \A e \in Frames : e # f => r.pages[e] = b.pages[e]
  BY <1>0, <1>1, <1>2, <1>6 DEF PoolOK, x, z
<1>9. /\ r.unpinned \in Seq(Frames) /\ NoDup(r.unpinned)
      /\ \A e \in Frames : Listed(r.unpinned, e) <=> Listed(b.unpinned, e) /\ e # f
  <2>1. b.unpinned \in Seq(Frames) /\ NoDup(b.unpinned)
    BY <1>0, Zenon DEF PoolOK
  <2>2. /\ Pin(b.unpinned, f) \in Seq(Frames) /\ NoDup(Pin(b.unpinned, f))
        /\ \A e \in Frames : Listed(Pin(b.unpinned, f), e) <=> Listed(b.unpinned, e) /\ e # f
    BY <1>2, <2>1, PinList
  <2> QED
    BY <1>1, <2>2
<1>10. \A q \in DOMAIN b.table :
         b.table[q] \in Frames /\ (q # p => r.pages[r.table[q]] = b.pages[b.table[q]])
  BY <1>0, <1>1, <1>3, <1>8, Zenon DEF PoolOK
<1>11. r.table[p] = f /\ b.table[p] = f
  BY <1>1, Zenon DEF f
<1>12. PoolOK(r)
  <2>1. \A q \in DOMAIN r.table : r.pages[r.table[q]].id = q
    BY <1>0, <1>1, <1>6, <1>8, <1>10, <1>11 DEF PoolOK, x
  <2>2. \A e \in Frames : Listed(r.free, e) <=> \A q \in DOMAIN r.table : r.table[q] # e
    BY <1>0, <1>1, ZenonT(40) DEF PoolOK
  <2>3. \A e \in Frames : Listed(r.free, e) => r.pages[e] = WipedPage(r.pages[e].pin)
    BY <1>0, <1>1, <1>2, <1>8, Zenon DEF PoolOK
  <2>4. \A e \in Frames : Listed(r.unpinned, e) /\ ~Listed(r.free, e) => r.pages[e].pin = 0
    BY <1>0, <1>1, <1>8, <1>9, Zenon DEF PoolOK
  <2>5. \A q \in DOMAIN r.table :
          r.pages[r.table[q]].pin = 0 => Listed(r.unpinned, r.table[q])
    BY <1>0, <1>1, <1>3, <1>7, <1>8, <1>9, <1>10, <1>11, Zenon DEF PoolOK
  <2>6. /\ r.table \in [DOMAIN r.table -> Frames]
        /\ r.free \in Seq(Frames) /\ NoDup(r.free)
    BY <1>0, <1>1, Zenon DEF PoolOK
  <2> QED
    BY <1>8, <1>9, <2>1, <2>2, <2>3, <2>4, <2>5, <2>6, ZenonT(40) DEF PoolOK
<1>13. /\ DOMAIN g = Threads /\ DOMAIN g[t] = DOMAIN h[t] \cup {p} /\ g[t][p] = y
       /\ \A q \in DOMAIN h[t] : q # p => g[t][q] = h[t][q]
       /\ \A u \in Threads : u # t => g[u] = h[u]
       /\ \A q : q # p => Holding(g, q) = Holding(h, q)
       /\ Cardinality(Holding(h, p)) \in Nat
       /\ Cardinality(Holding(g, p)) = Cardinality(Holding(h, p)) + 1
  <2>1. DOMAIN h = Threads
    BY <1>0, Zenon DEF PinsOK
  <2> QED
    BY <2>1, TakenHolds
<1> HIDE DEF g
<1>14. PinsOK(r, g, k)
  <2>1. \A u \in Threads : \A q \in DOMAIN g[u] :
          q \in DOMAIN r.table /\ g[u][q].frame = r.table[q] /\ g[u][q].dirty \in BOOLEAN
    <3> SUFFICES ASSUME NEW u \in Threads, NEW q \in DOMAIN g[u]
                 PROVE  /\ q \in DOMAIN r.table /\ g[u][q].frame = r.table[q]
                        /\ g[u][q].dirty \in BOOLEAN
      OBVIOUS
    <3>1. CASE u = t /\ q = p
      BY <1>1, <1>4, <1>11, <1>13, <3>1, Zenon
    <3>2. CASE ~(u = t /\ q = p)
      <4>1. q \in DOMAIN h[u] /\ g[u][q] = h[u][q]
        BY <1>13, <3>2
      <4> QED
        BY <1>0, <1>1, <4>1 DEF PinsOK
    <3> QED
      BY <3>1, <3>2
  <2>2. x.pin = Cardinality(Holding(h, p)) + k[f] /\ k[f] \in Nat
    <3>1. x.pin = Cardinality(Holding(h, p)) + k[f] /\ k \in [Frames -> Nat]
      BY <1>0, <1>11, Zenon DEF PinsOK, x
    <3> QED
      BY <1>2, <3>1
  <2>a. r.pages[r.table[p]].pin = Cardinality(Holding(g, p)) + k[r.table[p]]
    <3>1. z.pin = Cardinality(Holding(g, p)) + k[f]
      BY <1>6, <1>13, <2>2
    <3> QED
      BY <1>8, <1>11, <3>1, Zenon
  <2>c. \A e \in Frames : Listed(r.free, e) => r.pages[e].pin = k[e]
    BY <1>0, <1>1, <1>2, <1>8, Zenon DEF PinsOK
  <2>b. ASSUME NEW q \in DOMAIN r.table, q # p
        PROVE  r.pages[r.table[q]].pin = Cardinality(Holding(g, q)) + k[r.table[q]]
    <3>1. b.pages[b.table[q]].pin = Cardinality(Holding(h, q)) + k[b.table[q]]
      BY <1>0, <1>1, Zenon DEF PinsOK
    <3>2. Holding(g, q) = Holding(h, q)
      BY <1>13, <2>b
    <3> QED
      BY <1>1, <1>10, <2>b, <3>1, <3>2, Zenon
  <2>3. \A q \in DOMAIN r.table :
          r.pages[r.table[q]].pin = Cardinality(Holding(g, q)) + k[r.table[q]]
    BY <2>a, <2>b, Zenon
  <2>4. k \in [Frames -> Nat]
    BY <1>0, Zenon DEF PinsOK
  <2> QED
    BY <1>13, <2>1, <2>3, <2>4, <2>c, Zenon DEF PinsOK
<1>15. LiveOK(r, L)
  BY <1>0, <1>1 DEF LiveOK
<1>16. \A q \in DOMAIN b.table :
         /\ r.pages[r.table[q]].dirty = b.pages[b.table[q]].dirty
         /\ r.pages[r.table[q]].data = b.pages[b.table[q]].data
  BY <1>6, <1>8, <1>10, <1>11, Zenon DEF x
<1>17. \A u \in Threads : \A q \in DOMAIN h[u] : q \in DOMAIN g[u] /\ g[u][q] = h[u][q]
  BY <1>13
<1>18. Synced(r, g)
  BY <1>0, <1>1, <1>16, <1>17 DEF Synced
<1>19. ContentOf(r, L) = ContentOf(b, L)
  BY <1>1, <1>16, Zenon DEF ContentOf, InPool
<1>20. Inv(r, L, g, k)
  BY <1>0, <1>1, <1>12, <1>14, <1>15, <1>18, Zenon DEF Inv
<1> QED
  BY <1>11, <1>19, <1>20, Zenon DEF r, g, y

\* UnpinPage by a thread that has the page pinned.
LEMMA UnpinKeeps ==
  ASSUME NEW b, NEW L, NEW h, NEW k, Inv(b, L, h, k), IsFiniteSet(Threads),
         NEW t \in Threads, NEW p \in DOMAIN h[t], NEW d \in BOOLEAN,
         h[t][p].dirty => d
  PROVE  LET r == UnpinPage(b, p, d)
         IN  Inv(r, L, Given(h, t, p), k) /\ ContentOf(r, L) = ContentOf(b, L)
<1> DEFINE r == UnpinPage(b, p, d)
           f == b.table[p]
           g == Given(h, t, p)
           x == b.pages[f]
           z == [id |-> x.id, pin |-> IF x.pin <= 0 THEN x.pin ELSE x.pin - 1,
                 dirty |-> x.dirty \/ d, data |-> x.data]
<1>0. /\ PoolOK(b) /\ DiskOK(b.disk) /\ LiveOK(b, L) /\ PinsOK(b, h, k) /\ Synced(b, h)
  BY DEF Inv
<1>1. p \in DOMAIN b.table
  BY <1>0 DEF PinsOK
<1>2. /\ r.pages = [b.pages EXCEPT ![f] = z]
      /\ r.table = b.table /\ r.free = b.free
      /\ r.unpinned = (IF x.pin = 1 THEN Unpin(b.unpinned, f) ELSE b.unpinned)
      /\ r.disk = b.disk
  BY <1>1, Zenon DEF UnpinPage, InPool
<1> HIDE DEF r
<1>3. f \in Frames /\ ~Listed(b.free, f)
  BY <1>0, <1>1, Zenon DEF PoolOK
<1>4. \A q \in DOMAIN b.table : q # p => b.table[q] # f
  BY <1>0, <1>1, ZenonT(40) DEF PoolOK
<1> HIDE DEF f
<1>5. /\ DOMAIN g = Threads /\ DOMAIN g[t] = DOMAIN h[t] \ {p}
      /\ \A q \in DOMAIN g[t] : g[t][q] = h[t][q]
      /\ \A u \in Threads : u # t => g[u] = h[u]
      /\ \A q : q # p => Holding(g, q) = Holding(h, q)
      /\ Cardinality(Holding(g, p)) \in Nat
      /\ Cardinality(Holding(h, p)) = Cardinality(Holding(g, p)) + 1
  BY <1>0, GivenHolds DEF PinsOK
<1> HIDE DEF g
<1>6. x \in PageRec
  BY <1>0, <1>3, Zenon DEF PoolOK
<1>7. x.pin = Cardinality(Holding(g, p)) + k[f] + 1 /\ k[f] \in Nat
  <2>1. x.pin = Cardinality(Holding(h, p)) + k[f] /\ k \in [Frames -> Nat]
    BY <1>0, <1>1, Zenon DEF PinsOK, f
  <2>2. k[f] \in Nat
    BY <1>3, <2>1
  <2> HIDE DEF x
  <2> QED
    BY <1>5, <2>1, <2>2
<1> HIDE DEF x
<1>8. x.pin \in Nat /\ ~(x.pin <= 0) /\ x.dirty \in BOOLEAN /\ x.id \in Int /\ x.data \in PageData
  BY <1>5, <1>6, <1>7 DEF PageRec
<1>9. z.id = x.id /\ z.pin = x.pin - 1 /\ z.dirty = (x.dirty \/ d) /\ z.data = x.data
  BY <1>8
<1>10. z \in PageRec
  BY <1>8, SMTT(20) DEF PageRec
<1> HIDE DEF z
<1>11. /\ r.pages \in [Frames -> PageRec] /\ r.pages[f] = z
       /\ \A e \in Frames : e # f => r.pages[e] = b.pages[e]
  BY <1>0, <1>2, <1>3, <1>10 DEF PoolOK
<1>12. /\ r.unpinned \in Seq(Frames) /\ NoDup(r.unpinned)
       /\ \A e \in Frames : Listed(r.unpinned, e) <=> Listed(b.unpinned, e) \/ (e = f /\ x.pin = 1)
  <2>1. b.unpinned \in Seq(Frames) /\ NoDup(b.unpinned)
    BY <1>0, Zenon DEF PoolOK
  <2>2. /\ Unpin(b.unpinned, f) \in Seq(Frames) /\ NoDup(Unpin(b.unpinned, f))
        /\ \A e \in Frames : Listed(Unpin(b.unpinned, f), e) <=> Listed(b.unpinned, e) \/ e = f
    BY <1>3, <2>1, UnpinList
  <2> QED
    BY <1>2, <2>1, <2>2, Zenon
<1>13. \A q \in DOMAIN b.table :
         b.table[q] \in Frames /\ (q # p => r.pages[r.table[q]] = b.pages[b.table[q]])
  BY <1>0, <1>2, <1>4, <1>11, Zenon DEF PoolOK
<1>14. r.table[p] = f /\ b.table[p] = f /\ b.pages[f] = x
  BY <1>2 DEF f, x
<1>15. PoolOK(r)
  <2>1. \A q \in DOMAIN r.table : r.pages[r.table[q]].id = q
    BY <1>0, <1>1, <1>2, <1>9, <1>11, <1>13, <1>14, Zenon DEF PoolOK
  <2>2. \A e \in Frames : Listed(r.free, e) <=> \A q \in DOMAIN r.table : r.table[q] # e
    <3>1. \A e \in Frames : Listed(b.free, e) <=> \A q \in DOMAIN b.table : b.table[q] # e
      BY <1>0, Zenon DEF PoolOK
    <3> QED
      BY <1>2, <3>1, Zenon
  <2>3. \A e \in Frames : Listed(r.free, e) => r.pages[e] = WipedPage(r.pages[e].pin)
    BY <1>0, <1>2, <1>3, <1>11, Zenon DEF PoolOK
  <2>4. \A e \in Frames : Listed(r.unpinned, e) /\ ~Listed(r.free, e) => r.pages[e].pin = 0
    <3> SUFFICES ASSUME NEW e \in Frames, Listed(r.unpinned, e), ~Listed(r.free, e)
                 PROVE  r.pages[e].pin = 0
      BY Zenon
    <3>1. CASE e = f
      <4>1. ~Listed(b.unpinned, f)
        <5>1. Listed(b.unpinned, f) => b.pages[f].pin = 0
          BY <1>0, <1>3, Zenon DEF PoolOK
        <5> QED
          BY <1>8, <1>14, <5>1
      <4> QED
        BY <1>9, <1>11, <1>12, <3>1, <4>1
    <3>2. CASE e # f
      BY <1>0, <1>2, <1>11, <1>12, <3>2, Zenon DEF PoolOK
    <3> QED
      BY <3>1, <3>2
  <2>5. \A q \in DOMAIN r.table :
          r.pages[r.table[q]].pin = 0 => Listed(r.unpinned, r.table[q])
    <3> SUFFICES ASSUME NEW q \in DOMAIN r.table, r.pages[r.table[q]].pin = 0
                 PROVE  Listed(r.unpinned, r.table[q])
      OBVIOUS
    <3>1. CASE q = p
      BY <1>3, <1>8, <1>9, <1>11, <1>12, <1>14, <3>1
    <3>2. CASE q # p
      BY <1>0, <1>2, <1>12, <1>13, <3>2, Zenon DEF PoolOK
    <3> QED
      BY <3>1, <3>2
  <2>6. /\ r.table \in [DOMAIN r.table -> Frames]
        /\ r.free \in Seq(Frames) /\ NoDup(r.free)
    BY <1>0, <1>2, Zenon DEF PoolOK
  <2> QED
    BY <1>11, <1>12, <2>1, <2>2, <2>3, <2>4, <2>5, <2>6, Zenon DEF PoolOK
<1>16. \A u \in Threads : \A q \in DOMAIN g[u] : q \in DOMAIN h[u] /\ g[u][q] = h[u][q]
  BY <1>5
<1>17. PinsOK(r, g, k)
  <2>1. \A u \in Threads : \A q \in DOMAIN g[u] :
          q \in DOMAIN r.table /\ g[u][q].frame = r.table[q] /\ g[u][q].dirty \in BOOLEAN
    BY <1>0, <1>2, <1>16 DEF PinsOK
  <2>2. r.pages[r.table[p]].pin = Cardinality(Holding(g, p)) + k[r.table[p]]
    <3>1. z.pin = Cardinality(Holding(g, p)) + k[f]
      BY <1>5, <1>7, <1>9
    <3> QED
      BY <1>11, <1>14, <3>1, Zenon
  <2>a. \A e \in Frames : Listed(r.free, e) => r.pages[e].pin = k[e]
    BY <1>0, <1>2, <1>3, <1>11, Zenon DEF PinsOK
  <2>3. ASSUME NEW q \in DOMAIN r.table, q # p
        PROVE  r.pages[r.table[q]].pin = Cardinality(Holding(g, q)) + k[r.table[q]]
    <3>1. b.pages[b.table[q]].pin = Cardinality(Holding(h, q)) + k[b.table[q]]
      BY <1>0, <1>2, Zenon DEF PinsOK
    <3>2. Holding(g, q) = Holding(h, q)
      BY <1>5, <2>3
    <3> QED
      BY <1>2, <1>13, <2>3, <3>1, <3>2, Zenon
  <2>4. \A q \in DOMAIN r.table :
          r.pages[r.table[q]].pin = Cardinality(Holding(g, q)) + k[r.table[q]]
    BY <2>2, <2>3, ZenonT(40)
  <2>5. k \in [Frames -> Nat]
    BY <1>0, Zenon DEF PinsOK
  <2> QED
    BY <1>5, <2>1, <2>4, <2>5, <2>a, ZenonT(40) DEF PinsOK
<1>18. LiveOK(r, L)
  BY <1>0, <1>2 DEF LiveOK
<1>19. \A q \in DOMAIN b.table : r.pages[r.table[q]].data = b.pages[b.table[q]].data
  BY <1>9, <1>11, <1>13, <1>14, Zenon
<1>20. Synced(r, g)
  <2> SUFFICES ASSUME NEW q \in DOMAIN b.table,
                      ~r.pages[r.table[q]].dirty,
                      ~\E u \in Threads : q \in DOMAIN g[u] /\ g[u][q].dirty
               PROVE  q \in DOMAIN b.disk.file /\ b.disk.file[q] = b.pages[b.table[q]].data
    BY <1>2, <1>19, Zenon DEF Synced
  <2>1. ~b.pages[b.table[q]].dirty
    BY <1>9, <1>11, <1>13, <1>14, Zenon
  <2>2. ASSUME NEW u \in Threads, q \in DOMAIN h[u] PROVE ~h[u][q].dirty
    <3>1. CASE u = t /\ q = p
      BY <1>9, <1>11, <1>14, <3>1, Zenon
    <3>2. CASE ~(u = t /\ q = p)
      BY <1>5, <2>2, <3>2, Zenon
    <3> QED
      BY <3>1, <3>2, Zenon
  <2> QED
    BY <1>0, <2>1, <2>2, Zenon DEF Synced
<1>21. ContentOf(r, L) = ContentOf(b, L)
  BY <1>2, <1>19, Zenon DEF ContentOf, InPool
<1>22. Inv(r, L, g, k)
  BY <1>0, <1>2, <1>15, <1>17, <1>18, <1>20, Zenon DEF Inv
<1> QED
  BY <1>21, <1>22 DEF r, g

\* Steps that change no frame's page, no pin and no list.
LEMMA SameFrames ==
  ASSUME NEW b, PoolOK(b), NEW r,
         r.table = b.table, r.free = b.free, r.unpinned = b.unpinned,
         r.pages \in [Frames -> PageRec],
         \A f \in Frames : r.pages[f].id = b.pages[f].id /\ r.pages[f].pin = b.pages[f].pin,
         \A f \in Frames : Listed(b.free, f) => r.pages[f] = b.pages[f]
  PROVE  PoolOK(r) /\ \A h, k : PinsOK(b, h, k) => PinsOK(r, h, k)
<1>1. \A p \in DOMAIN b.table :
        /\ b.table[p] \in Frames
        /\ r.pages[r.table[p]].id = b.pages[b.table[p]].id
        /\ r.pages[r.table[p]].pin = b.pages[b.table[p]].pin
  BY ZenonT(40) DEF PoolOK
<1>2. PoolOK(r)
  BY <1>1 DEF PoolOK
<1>3. ASSUME NEW h, NEW k, PinsOK(b, h, k) PROVE PinsOK(r, h, k)
  BY <1>1, <1>3, Zenon DEF PinsOK
<1> QED
  BY <1>2, <1>3

\* A store through a pointer.
Stored(b, f, v) ==
  [pages |-> [b.pages EXCEPT ![f] = [b.pages[f] EXCEPT !.data = v]],
   table |-> b.table, free |-> b.free, unpinned |-> b.unpinned, disk |-> b.disk]

LEMMA StoreKeeps ==
  ASSUME NEW b, NEW L, NEW h, NEW k, Inv(b, L, h, k), IsFiniteSet(Threads),
         NEW t \in Threads, NEW p \in DOMAIN h[t], NEW v \in PageData
  PROVE  LET r == Stored(b, h[t][p].frame, v)
             g == Taken(h, t, p, [frame |-> h[t][p].frame, dirty |-> TRUE])
         IN  /\ Inv(r, L, g, k) /\ p \in L
             /\ ContentOf(r, L) = [ContentOf(b, L) EXCEPT ![p] = v]
<1> DEFINE f == h[t][p].frame
           r == Stored(b, f, v)
           y == [frame |-> f, dirty |-> TRUE]
           g == Taken(h, t, p, y)
           x == b.pages[f]
           z == [x EXCEPT !.data = v]
<1>0. /\ PoolOK(b) /\ DiskOK(b.disk) /\ LiveOK(b, L) /\ PinsOK(b, h, k) /\ Synced(b, h)
  BY DEF Inv
<1>1. p \in DOMAIN b.table /\ f = b.table[p] /\ p \in L
  BY <1>0 DEF PinsOK, LiveOK
<1>2. /\ r.pages = [b.pages EXCEPT ![f] = z]
      /\ r.table = b.table /\ r.free = b.free /\ r.unpinned = b.unpinned /\ r.disk = b.disk
  BY DEF Stored
<1>3. y.frame = f /\ y.dirty = TRUE
  OBVIOUS
<1> HIDE DEF r, f, y
<1>4. f \in Frames /\ ~Listed(b.free, f)
  BY <1>0, <1>1, Zenon DEF PoolOK
<1>5. \A q \in DOMAIN b.table : b.table[q] \in Frames /\ (q # p => b.table[q] # f)
  BY <1>0, <1>1, Zenon DEF PoolOK
<1>6. x \in PageRec
  BY <1>0, <1>4, Zenon DEF PoolOK
<1>7. b.pages[f] = x
  OBVIOUS
<1> HIDE DEF x
<1>8. z \in PageRec /\ z.id = x.id /\ z.pin = x.pin /\ z.data = v
  BY <1>6, Zenon DEF PageRec
<1> HIDE DEF z
<1>9. /\ r.pages \in [Frames -> PageRec] /\ r.pages[f] = z
      /\ \A e \in Frames : e # f => r.pages[e] = b.pages[e]
  BY <1>0, <1>2, <1>4, <1>8 DEF PoolOK
<1>10. PoolOK(r) /\ PinsOK(r, h, k)
  <2>1. \A e \in Frames : r.pages[e].id = b.pages[e].id /\ r.pages[e].pin = b.pages[e].pin
    BY <1>7, <1>8, <1>9
  <2>2. \A e \in Frames : Listed(b.free, e) => r.pages[e] = b.pages[e]
    BY <1>4, <1>9
  <2> QED
    BY <1>0, <1>2, <1>9, <2>1, <2>2, SameFrames, ZenonT(40)
<1>11. /\ DOMAIN g = Threads /\ DOMAIN g[t] = DOMAIN h[t] /\ g[t][p] = y
       /\ \A q \in DOMAIN h[t] : q # p => g[t][q] = h[t][q]
       /\ \A u \in Threads : u # t => g[u] = h[u]
       /\ \A q : Holding(g, q) = Holding(h, q)
  <2>1. /\ DOMAIN g = Threads /\ DOMAIN g[t] = DOMAIN h[t] \cup {p} /\ g[t][p] = y
        /\ \A q \in DOMAIN h[t] : q # p => g[t][q] = h[t][q]
        /\ \A u \in Threads : u # t => g[u] = h[u]
    BY <1>0, TakenHolds DEF PinsOK
  <2> HIDE DEF g
  <2>2. DOMAIN g[t] = DOMAIN h[t]
    BY <2>1, SMTT(20)
  <2>3. \A q : Holding(g, q) = Holding(h, q)
    BY <2>1, <2>2 DEF Holding
  <2> QED
    BY <2>1, <2>2, <2>3, ZenonT(40)
<1> HIDE DEF g
<1>12. PinsOK(r, g, k)
  <2>1. \A u \in Threads : \A q \in DOMAIN g[u] :
          q \in DOMAIN r.table /\ g[u][q].frame = r.table[q] /\ g[u][q].dirty \in BOOLEAN
    <3> SUFFICES ASSUME NEW u \in Threads, NEW q \in DOMAIN g[u]
                 PROVE  /\ q \in DOMAIN r.table /\ g[u][q].frame = r.table[q]
                        /\ g[u][q].dirty \in BOOLEAN
      OBVIOUS
    <3>1. CASE u = t /\ q = p
      BY <1>1, <1>2, <1>3, <1>11, <3>1, Zenon
    <3>2. CASE ~(u = t /\ q = p)
      <4>1. q \in DOMAIN h[u] /\ g[u][q] = h[u][q]
        BY <1>11, <3>2
      <4> QED
        BY <1>10, <4>1, ZenonT(40) DEF PinsOK
    <3> QED
      BY <3>1, <3>2
  <2>2. \A q \in DOMAIN r.table :
          r.pages[r.table[q]].pin = Cardinality(Holding(g, q)) + k[r.table[q]]
    BY <1>10, <1>11, Zenon DEF PinsOK
  <2>3. /\ k \in [Frames -> Nat]
        /\ \A e \in Frames : Listed(r.free, e) => r.pages[e].pin = k[e]
    BY <1>10, Zenon DEF PinsOK
  <2> QED
    BY <1>11, <2>1, <2>2, <2>3, Zenon DEF PinsOK
<1>13. \A q \in DOMAIN b.table : q # p => r.pages[r.table[q]] = b.pages[b.table[q]]
  BY <1>2, <1>5, <1>9, Zenon
<1>14. Synced(r, g)
  <2> SUFFICES ASSUME NEW q \in DOMAIN b.table, q # p
               PROVE  \/ r.pages[r.table[q]].dirty
                      \/ \E u \in Threads : q \in DOMAIN g[u] /\ g[u][q].dirty
                      \/ q \in DOMAIN r.disk.file /\ r.disk.file[q] = r.pages[r.table[q]].data
    BY <1>2, <1>3, <1>11, Zenon DEF Synced
  <2>1. \A u \in Threads : q \in DOMAIN h[u] => q \in DOMAIN g[u] /\ g[u][q] = h[u][q]
    BY <1>11
  <2> QED
    BY <1>0, <1>2, <1>13, <2>1, Zenon DEF Synced
<1>15. LiveOK(r, L)
  BY <1>0, <1>2 DEF LiveOK
<1>16. ContentOf(r, L) = [ContentOf(b, L) EXCEPT ![p] = v]
  <2>1. r.pages[r.table[p]].data = v
    BY <1>1, <1>2, <1>8, <1>9, Zenon
  <2> QED
    BY <1>1, <1>2, <1>13, <2>1, Zenon DEF ContentOf, InPool
<1>17. Inv(r, L, g, k)
  BY <1>0, <1>2, <1>10, <1>12, <1>14, <1>15, Zenon DEF Inv
<1> QED
  BY <1>1, <1>16, <1>17, Zenon DEF r, g, y, f

\* A page with its dirty flag lowered.
LEMMA Cleaned ==
  ASSUME NEW x \in PageRec
  PROVE  LET z == [x EXCEPT !.dirty = FALSE]
         IN  z \in PageRec /\ z.id = x.id /\ z.pin = x.pin /\ z.data = x.data
BY Zenon DEF PageRec

\* FlushPage.
LEMMA FlushKeeps ==
  ASSUME NEW b, NEW L, NEW h, NEW k, Inv(b, L, h, k), NEW p \in L
  PROVE  LET r == FlushPage(b, p)
         IN  Inv(r, L, h, k) /\ ContentOf(r, L) = ContentOf(b, L)
<1> DEFINE r == FlushPage(b, p)
           f == b.table[p]
           x == b.pages[f]
           z == [x EXCEPT !.dirty = FALSE]
<1>0. /\ PoolOK(b) /\ DiskOK(b.disk) /\ LiveOK(b, L) /\ PinsOK(b, h, k) /\ Synced(b, h)
  BY DEF Inv
<1>1. CASE p \notin DOMAIN b.table
  <2>1. r = b
    BY <1>1, Zenon DEF FlushPage, InPool
  <2> QED
    BY <2>1
<1>2. CASE p \in DOMAIN b.table
  <2>1. /\ r.pages = [b.pages EXCEPT ![f] = z]
        /\ r.table = b.table /\ r.free = b.free /\ r.unpinned = b.unpinned
        /\ r.disk = WritePage(b.disk, p, x.data)
    BY <1>2 DEF FlushPage, InPool
  <2> HIDE DEF r
  <2>2. f \in Frames /\ ~Listed(b.free, f)
    BY <1>0, <1>2, Zenon DEF PoolOK
  <2>3. \A q \in DOMAIN b.table : b.table[q] \in Frames /\ (q # p => b.table[q] # f)
    BY <1>0, <1>2, Zenon DEF PoolOK
  <2>4. x \in PageRec /\ x.data \in PageData
    BY <1>0, <2>2, FrameFields, Zenon DEF PoolOK
  <2>5. r.table[p] = f /\ b.table[p] = f /\ b.pages[f] = x
    BY <2>1, Zenon
  <2> HIDE DEF f, x
  <2>6. z \in PageRec /\ z.id = x.id /\ z.pin = x.pin /\ z.data = x.data
    BY <2>4, Cleaned, Zenon
  <2> HIDE DEF z
  <2>7. /\ r.pages \in [Frames -> PageRec] /\ r.pages[f] = z
        /\ \A e \in Frames : e # f => r.pages[e] = b.pages[e]
    BY <1>0, <2>1, <2>2, <2>6 DEF PoolOK
  <2>8. PoolOK(r) /\ PinsOK(r, h, k)
    <3>1. \A e \in Frames : r.pages[e].id = b.pages[e].id /\ r.pages[e].pin = b.pages[e].pin
      BY <2>5, <2>6, <2>7
    <3>2. \A e \in Frames : Listed(b.free, e) => r.pages[e] = b.pages[e]
      BY <2>2, <2>7, Zenon
    <3> QED
      BY <1>0, <2>1, <2>7, <3>1, <3>2, SameFrames, ZenonT(40)
  <2>9. /\ DiskOK(r.disk) /\ r.disk.next = b.disk.next
        /\ DOMAIN r.disk.file = DOMAIN b.disk.file \cup {p} /\ r.disk.file[p] = x.data
        /\ \A q \in DOMAIN b.disk.file : q # p => r.disk.file[q] = b.disk.file[q]
    <3>1. b.disk.next \in Nat
      BY <1>0 DEF DiskOK
    <3>2. p \in 0..(b.disk.next - 1)
      BY <1>0 DEF LiveOK
    <3>3. p \in Nat /\ p < b.disk.next
      BY <3>1, <3>2
    <3> QED
      BY <1>0, <2>1, <2>4, <3>3, WritePageKeeps, SMTT(20)
  <2>10. \A q \in DOMAIN b.table : q # p => r.pages[r.table[q]] = b.pages[b.table[q]]
    BY <2>1, <2>3, <2>7, Zenon
  <2>11. LiveOK(r, L)
    BY <1>0, <2>1, <2>9, Zenon DEF LiveOK
  <2>12. Synced(r, h)
    <3> SUFFICES ASSUME NEW q \in DOMAIN b.table
                 PROVE  \/ r.pages[r.table[q]].dirty
                        \/ \E u \in Threads : q \in DOMAIN h[u] /\ h[u][q].dirty
                        \/ q \in DOMAIN r.disk.file /\ r.disk.file[q] = r.pages[r.table[q]].data
      BY <2>1, Zenon DEF Synced
    <3>1. CASE q = p
      BY <2>5, <2>6, <2>7, <2>9, <3>1, Zenon
    <3>2. CASE q # p
      BY <1>0, <2>9, <2>10, <3>2, Zenon DEF Synced
    <3> QED
      BY <3>1, <3>2, Zenon
  <2>13. ContentOf(r, L) = ContentOf(b, L)
    <3> SUFFICES ASSUME NEW q \in L
                 PROVE  (IF InPool(r, q) THEN r.pages[r.table[q]].data ELSE r.disk.file[q])
                          = IF InPool(b, q) THEN b.pages[b.table[q]].data ELSE b.disk.file[q]
      BY Zenon DEF ContentOf
    <3>1. CASE q = p
      BY <1>2, <2>1, <2>5, <2>6, <2>7, <3>1, Zenon DEF InPool
    <3>2. CASE q # p
      BY <1>0, <2>1, <2>9, <2>10, <3>2, Zenon DEF InPool, LiveOK
    <3> QED
      BY <3>1, <3>2, Zenon
  <2> QED
    BY <2>8, <2>9, <2>11, <2>12, <2>13, Zenon DEF Inv, r
<1> QED
  BY <1>1, <1>2

\* FlushAllPages: all of the pages that exist are in the file then.
LEMMA FlushAllKeeps ==
  ASSUME NEW b, NEW L, NEW h, NEW k, Inv(b, L, h, k)
  PROVE  LET r == FlushAllPages(b)
         IN  /\ Inv(r, L, h, k) /\ ContentOf(r, L) = ContentOf(b, L)
             /\ L \subseteq DOMAIN r.disk.file
             /\ ContentOf(b, L) = [p \in L |-> r.disk.file[p]]
<1> DEFINE r == FlushAllPages(b)
           d == b.disk
           in == DOMAIN b.table
           ends == {d.size} \cup {p + 1 : p \in in}
           clean(f) == [b.pages[f] EXCEPT !.dirty = FALSE]
<1>0. /\ PoolOK(b) /\ DiskOK(d) /\ LiveOK(b, L) /\ PinsOK(b, h, k) /\ Synced(b, h)
  BY DEF Inv
<1>1. /\ r.pages = [f \in Frames |-> IF \E p \in in : b.table[p] = f THEN clean(f) ELSE b.pages[f]]
      /\ r.table = b.table /\ r.free = b.free /\ r.unpinned = b.unpinned
      /\ r.disk = [file |-> [p \in DOMAIN d.file \cup in |->
                               IF p \in in THEN b.pages[b.table[p]].data ELSE d.file[p]],
                   size |-> CHOOSE n \in ends : \A m \in ends : m <= n,
                   next |-> d.next]
  BY DEF FlushAllPages
<1> HIDE DEF r
<1>2. \A f \in Frames :
        /\ b.pages[f] \in PageRec
        /\ clean(f) \in PageRec
        /\ clean(f).id = b.pages[f].id /\ clean(f).pin = b.pages[f].pin
        /\ clean(f).data = b.pages[f].data
  <2> SUFFICES ASSUME NEW f \in Frames
               PROVE  /\ b.pages[f] \in PageRec
                      /\ clean(f) \in PageRec
                      /\ clean(f).id = b.pages[f].id /\ clean(f).pin = b.pages[f].pin
                      /\ clean(f).data = b.pages[f].data
    OBVIOUS
  <2>1. b.pages[f] \in PageRec
    BY <1>0, ZenonT(40) DEF PoolOK
  <2> QED
    BY <2>1, Cleaned
<1> HIDE DEF clean
<1>3. \A f \in Frames :
        /\ r.pages[f] \in PageRec
        /\ r.pages[f].id = b.pages[f].id /\ r.pages[f].pin = b.pages[f].pin
        /\ r.pages[f].data = b.pages[f].data
        /\ (\A p \in in : b.table[p] # f) => r.pages[f] = b.pages[f]
  BY <1>1, <1>2
<1>4. r.pages \in [Frames -> PageRec]
  <2>1. r.pages = [f \in Frames |-> r.pages[f]]
    BY <1>1, Zenon
  <2> QED
    BY <1>3, <2>1
<1>5. PoolOK(r) /\ PinsOK(r, h, k)
  <2>1. \A f \in Frames : Listed(b.free, f) => r.pages[f] = b.pages[f]
    BY <1>0, <1>3, ZenonT(40) DEF PoolOK
  <2> QED
    BY <1>0, <1>1, <1>3, <1>4, <2>1, SameFrames, Zenon
<1>6. /\ r.disk = [file |-> r.disk.file, size |-> r.disk.size, next |-> r.disk.next]
      /\ r.disk.next = d.next
      /\ r.disk.size = CHOOSE n \in ends : \A m \in ends : m <= n
      /\ r.disk.file = [p \in DOMAIN d.file \cup in |->
                          IF p \in in THEN b.pages[b.table[p]].data ELSE d.file[p]]
  BY <1>1
<1>7. /\ d.size \in Nat /\ d.next \in Nat /\ d.size <= d.next /\ d.next <= MaxPages
      /\ d.file \in [DOMAIN d.file -> PageData] /\ DOMAIN d.file \subseteq 0..(d.size - 1)
  BY <1>0 DEF DiskOK
<1>8. in \subseteq 0..(d.next - 1)
  BY <1>0, Zenon DEF LiveOK
<1> HIDE DEF in, d
<1>9. ends \in SUBSET (0..d.next) /\ ends # {}
  <2>1. d.size \in 0..d.next
    BY <1>7
  <2>2. ASSUME NEW p \in in PROVE p + 1 \in 0..d.next
    BY <1>7, <1>8
  <2> QED
    BY <2>1, <2>2
<1>10. \E n \in ends : \A m \in ends : m <= n
  <2> HIDE DEF ends
  <2> QED
    BY <1>7, <1>9, Largest, Zenon
<1>11. r.disk.size \in ends /\ \A m \in ends : m <= r.disk.size
  <2> HIDE DEF ends
  <2> QED
    BY <1>6, <1>10, Zenon
<1>12. /\ r.disk.size \in Nat /\ r.disk.size <= d.next /\ d.size <= r.disk.size
       /\ \A p \in in : p + 1 <= r.disk.size
  BY <1>7, <1>9, <1>11
<1> HIDE DEF ends
<1>13. /\ DOMAIN r.disk.file = DOMAIN d.file \cup in
       /\ \A p \in in : r.disk.file[p] = b.pages[b.table[p]].data
       /\ \A p \in DOMAIN d.file : p \notin in => r.disk.file[p] = d.file[p]
  BY <1>6, Zenon
<1>14. r.disk.file \in [DOMAIN r.disk.file -> PageData]
  <2>1. \A p \in in : b.pages[b.table[p]].data \in PageData
    BY <1>0, <1>2, Zenon DEF PoolOK, PageRec, in
  <2>2. \A p \in DOMAIN r.disk.file : r.disk.file[p] \in PageData
    BY <1>7, <1>13, <2>1, Zenon
  <2>3. r.disk.file = [p \in DOMAIN r.disk.file |-> r.disk.file[p]]
    BY <1>6, Zenon
  <2> QED
    BY <2>2, <2>3
<1>15. DOMAIN r.disk.file \subseteq 0..(r.disk.size - 1)
  <2> SUFFICES ASSUME NEW p \in DOMAIN r.disk.file PROVE p \in 0..(r.disk.size - 1)
    OBVIOUS
  <2>1. CASE p \in in
    BY <1>7, <1>8, <1>12, <2>1
  <2>2. CASE p \in DOMAIN d.file
    BY <1>7, <1>12, <2>2
  <2> QED
    BY <1>13, <2>1, <2>2, Zenon
<1>16. DiskOK(r.disk)
  BY <1>6, <1>7, <1>12, <1>14, <1>15, Zenon DEF DiskOK
<1>17. L \subseteq DOMAIN r.disk.file
  BY <1>0, <1>13, Zenon DEF LiveOK, in, d
<1>18. LiveOK(r, L)
  BY <1>0, <1>1, <1>6, <1>17, ZenonT(40) DEF LiveOK, in, d
<1>19. \A p \in in :
         /\ b.table[p] \in Frames
         /\ r.pages[r.table[p]].data = b.pages[b.table[p]].data
         /\ p \in DOMAIN r.disk.file /\ r.disk.file[p] = r.pages[r.table[p]].data
  <2>1. \A p \in in : b.table[p] \in Frames
    BY <1>0, Zenon DEF PoolOK, in
  <2> QED
    BY <1>1, <1>3, <1>13, <2>1
<1>20. Synced(r, h)
  BY <1>1, <1>19, Zenon DEF Synced, in
<1>21. ASSUME NEW p \in L
       PROVE  /\ (IF InPool(b, p) THEN b.pages[b.table[p]].data ELSE b.disk.file[p])
                   = r.disk.file[p]
              /\ (IF InPool(r, p) THEN r.pages[r.table[p]].data ELSE r.disk.file[p])
                   = r.disk.file[p]
  <2>1. CASE p \in in
    BY <1>1, <1>19, <2>1, Zenon DEF InPool, in
  <2>2. CASE p \notin in
    <3>1. p \in DOMAIN d.file
      BY <1>0, <2>2 DEF LiveOK, in, d
    <3> QED
      BY <1>1, <1>13, <2>2, <3>1, ZenonT(40) DEF InPool, in, d
  <2> QED
    BY <2>1, <2>2, Zenon
<1>22. /\ ContentOf(b, L) = [p \in L |-> r.disk.file[p]]
       /\ ContentOf(r, L) = [p \in L |-> r.disk.file[p]]
  BY <1>21, Zenon DEF ContentOf
<1> QED
  BY <1>5, <1>16, <1>17, <1>18, <1>20, <1>22, Zenon DEF Inv, r

\* What a deletion leaves of the pointers, and of the pins nobody gives back.
Dropped(h, p) == [t \in Threads |-> [q \in DOMAIN h[t] \ {p} |-> h[t][q]]]

LeftBy(b, k, p) ==
  [f \in Frames |-> IF InPool(b, p) /\ b.table[p] = f THEN b.pages[f].pin ELSE k[f]]

LEMMA DroppedHolds ==
  ASSUME NEW h, DOMAIN h = Threads, NEW p
  PROVE  LET g == Dropped(h, p)
         IN  /\ DOMAIN g = Threads
             /\ \A t \in Threads : DOMAIN g[t] = DOMAIN h[t] \ {p}
             /\ \A t \in Threads : \A q \in DOMAIN g[t] : g[t][q] = h[t][q]
             /\ \A q : q # p => Holding(g, q) = Holding(h, q)
<1> DEFINE g == Dropped(h, p)
<1>1. /\ DOMAIN g = Threads
      /\ \A t \in Threads : DOMAIN g[t] = DOMAIN h[t] \ {p}
      /\ \A t \in Threads : \A q \in DOMAIN g[t] : g[t][q] = h[t][q]
  BY Zenon DEF Dropped
<1> HIDE DEF g
<1>2. \A q : q # p => Holding(g, q) = Holding(h, q)
  BY <1>1 DEF Holding
<1> QED
  BY <1>1, <1>2, Zenon DEF g

\* A page is deleted, whoever holds it: the others stay what they were, and its
\* pins stay on the frame.
LEMMA DeleteKeeps ==
  ASSUME NEW b, NEW L, NEW h, NEW k, Inv(b, L, h, k), NEW p \in L
  PROVE  LET r == DeletePage(b, p)
         IN  /\ Inv(r, L \ {p}, Dropped(h, p), LeftBy(b, k, p))
             /\ ContentOf(r, L \ {p}) = [q \in L \ {p} |-> ContentOf(b, L)[q]]
<1> DEFINE r == DeletePage(b, p)
           f == b.table[p]
           M == L \ {p}
           g == Dropped(h, p)
           c == LeftBy(b, k, p)
<1>0. /\ PoolOK(b) /\ DiskOK(b.disk) /\ LiveOK(b, L) /\ PinsOK(b, h, k) /\ Synced(b, h)
  BY DEF Inv
<1>1. /\ DOMAIN g = Threads
      /\ \A t \in Threads : DOMAIN g[t] = DOMAIN h[t] \ {p}
      /\ \A t \in Threads : \A q \in DOMAIN g[t] : g[t][q] = h[t][q]
      /\ \A q : q # p => Holding(g, q) = Holding(h, q)
  <2>1. DOMAIN h = Threads
    BY <1>0, Zenon DEF PinsOK
  <2> QED
    BY <2>1, DroppedHolds, Zenon
<1>a. k \in [Frames -> Nat] /\ \A e \in Frames : Listed(b.free, e) => b.pages[e].pin = k[e]
  BY <1>0, ZenonT(40) DEF PinsOK
<1> HIDE DEF g
<1>2. /\ PoolOK(r) /\ r.disk = b.disk
      /\ DOMAIN r.table = DOMAIN b.table \ {p}
      /\ \A q \in DOMAIN r.table :
           /\ r.table[q] = b.table[q] /\ r.pages[r.table[q]] = b.pages[b.table[q]]
           /\ c[r.table[q]] = k[b.table[q]]
      /\ c \in [Frames -> Nat]
      /\ \A e \in Frames : Listed(r.free, e) => r.pages[e].pin = c[e]
  <2>1. CASE ~InPool(b, p)
    <3>1. r = b
      BY <2>1, Zenon DEF DeletePage
    <3>2. DOMAIN b.table = DOMAIN b.table \ {p}
      BY <2>1, Zenon DEF InPool
    <3>3. c = k
      BY <1>a, <2>1 DEF LeftBy
    <3> HIDE DEF r, c
    <3> QED
      BY <1>0, <1>a, <3>1, <3>2, <3>3, Zenon
  <2>2. CASE InPool(b, p)
    <3>1. /\ f \in Frames /\ b.pages[f].id = p /\ ~Listed(b.free, f)
          /\ b.free \in Seq(Frames) /\ NoDup(b.free)
          /\ b.unpinned \in Seq(Frames) /\ NoDup(b.unpinned)
      BY <1>0, <2>2, ZenonT(40) DEF PoolOK, InPool
    <3> DEFINE n == b.pages[f].pin
    <3>2. n \in Nat
      BY <1>0, <3>1, FrameFields, Zenon
    <3>a. /\ c \in [Frames -> Nat] /\ c[f] = n
          /\ \A e \in Frames : e # f => c[e] = k[e]
      <4>1. c = [e \in Frames |-> IF e = f THEN b.pages[e].pin ELSE k[e]]
        BY <2>2 DEF LeftBy
      <4> HIDE DEF c, f
      <4> QED
        BY <1>a, <3>1, <3>2, <4>1
    <3> HIDE DEF c
    <3>3. /\ r.pages = [b.pages EXCEPT ![f] = WipedPage(b.pages[f].pin)]
          /\ r.table = Unmapped(b.table, p)
          /\ r.free = Append(b.free, f)
          /\ r.unpinned = Unpin(b.unpinned, f)
          /\ r.disk = b.disk
      BY <2>2 DEF DeletePage
    <3>4. /\ WipedPage(n) \in PageRec /\ WipedPage(n).pin = n
          /\ r.pages = [b.pages EXCEPT ![f] = WipedPage(n)]
      BY <3>2, <3>3, WipedPageType, Zenon
    <3>5. \A q \in DOMAIN b.table : q # p => b.table[q] # f
      BY <1>0, <3>1, Zenon DEF PoolOK
    <3> HIDE DEF r, f, n
    <3>6. /\ DOMAIN r.table = DOMAIN b.table \ {p}
          /\ \A q \in DOMAIN r.table : r.table[q] = b.table[q] /\ r.table[q] # f
      BY <3>3, <3>5, Zenon DEF Unmapped
    <3>7. /\ r.pages \in [Frames -> PageRec] /\ r.pages[f] = WipedPage(n)
          /\ \A e \in Frames : e # f => r.pages[e] = b.pages[e]
      <4>1. b.pages \in [Frames -> PageRec]
        BY <1>0, Zenon DEF PoolOK
      <4> QED
        BY <3>1, <3>4, <4>1, ZenonT(40)
    <3>8. /\ r.free \in Seq(Frames) /\ NoDup(r.free)
          /\ \A e \in Frames : Listed(r.free, e) <=> Listed(b.free, e) \/ e = f
      BY <3>1, <3>3, AppendList
    <3>9. /\ r.unpinned \in Seq(Frames) /\ NoDup(r.unpinned)
          /\ \A e \in Frames : Listed(r.unpinned, e) <=> Listed(b.unpinned, e) \/ e = f
      <4> DEFINE w == Unpin(b.unpinned, f)
      <4>1. /\ w \in Seq(Frames) /\ NoDup(w)
            /\ \A e \in Frames : Listed(w, e) <=> Listed(b.unpinned, e) \/ e = f
        BY <3>1, UnpinList
      <4>2. r.unpinned = w
        BY <3>3, ZenonT(40)
      <4> HIDE DEF w
      <4> QED
        BY <4>1, <4>2, ZenonT(40)
    <3>10. r.table \in [DOMAIN r.table -> Frames]
      BY <1>0, <3>3, <3>6, SMTT(20) DEF PoolOK, Unmapped
    <3>11. \A q \in DOMAIN r.table : r.pages[r.table[q]] = b.pages[b.table[q]]
      BY <3>6, <3>7, <3>10
    <3>12. \A q \in DOMAIN r.table : r.pages[r.table[q]].id = q
      BY <1>0, <3>6, <3>11, Zenon DEF PoolOK
    <3>13. \A e \in Frames : Listed(r.free, e) <=> \A q \in DOMAIN r.table : r.table[q] # e
      <4>1. SUFFICES ASSUME NEW e \in Frames
                     PROVE  Listed(r.free, e) <=> \A q \in DOMAIN r.table : r.table[q] # e
        OBVIOUS
      <4>2. Listed(b.free, e) <=> \A q \in DOMAIN b.table : b.table[q] # e
        BY <1>0, Zenon DEF PoolOK
      <4>3. CASE e = f
        BY <3>6, <3>8, <4>3, Zenon
      <4>4. CASE e # f
        BY <3>6, <3>8, <4>2, <4>4, Zenon DEF f
      <4> QED
        BY <4>3, <4>4
    <3>14. \A e \in Frames : Listed(r.free, e) => r.pages[e] = WipedPage(r.pages[e].pin)
      BY <1>0, <3>4, <3>7, <3>8, Zenon DEF PoolOK
    <3>15. \A e \in Frames : Listed(r.unpinned, e) /\ ~Listed(r.free, e) => r.pages[e].pin = 0
      BY <1>0, <3>7, <3>8, <3>9, Zenon DEF PoolOK
    <3>b. \A e \in Frames : Listed(r.free, e) => r.pages[e].pin = c[e]
      BY <1>a, <3>4, <3>7, <3>8, <3>a, Zenon
    <3>c. \A q \in DOMAIN r.table : c[r.table[q]] = k[b.table[q]]
      <4>1. \A q \in DOMAIN r.table : r.table[q] \in Frames
        BY <3>10
      <4> QED
        BY <3>6, <3>a, <4>1, Zenon
    <3>16. \A q \in DOMAIN r.table :
             r.pages[r.table[q]].pin = 0 => Listed(r.unpinned, r.table[q])
      <4>1. \A q \in DOMAIN r.table :
              b.pages[b.table[q]].pin = 0 => Listed(b.unpinned, b.table[q])
        BY <1>0, <3>6, Zenon DEF PoolOK
      <4>2. \A q \in DOMAIN r.table : r.table[q] \in Frames
        BY <3>10
      <4> QED
        BY <3>6, <3>9, <3>11, <4>1, <4>2, Zenon
    <3>17. PoolOK(r)
      BY <3>7, <3>8, <3>9, <3>10, <3>12, <3>13, <3>14, <3>15, <3>16, ZenonT(40) DEF PoolOK
    <3> QED
      BY <3>3, <3>6, <3>11, <3>17, <3>a, <3>b, <3>c, Zenon
  <2> QED
    BY <2>1, <2>2
<1> HIDE DEF r, c
<1>3. LiveOK(r, M)
  <2>1. M \subseteq L
    OBVIOUS
  <2> QED
    BY <1>0, <1>2, <2>1 DEF LiveOK
<1>4. PinsOK(r, g, c)
  <2>1. ASSUME NEW q \in DOMAIN r.table
        PROVE  r.pages[r.table[q]].pin = Cardinality(Holding(g, q)) + c[r.table[q]]
    <3>1. q \in DOMAIN b.table /\ q # p
      BY <1>2, Zenon
    <3>2. b.pages[b.table[q]].pin = Cardinality(Holding(h, q)) + k[b.table[q]]
      BY <1>0, <3>1, Zenon DEF PinsOK
    <3>3. Holding(g, q) = Holding(h, q)
      BY <1>1, <3>1, Zenon
    <3> QED
      BY <1>2, <3>2, <3>3, Zenon
  <2>2. ASSUME NEW t \in Threads, NEW q \in DOMAIN g[t]
        PROVE  q \in DOMAIN r.table /\ g[t][q].frame = r.table[q] /\ g[t][q].dirty \in BOOLEAN
    <3>1. q \in DOMAIN h[t] /\ q # p /\ g[t][q] = h[t][q]
      BY <1>1, Zenon
    <3>2. q \in DOMAIN b.table /\ h[t][q].frame = b.table[q] /\ h[t][q].dirty \in BOOLEAN
      BY <1>0, <3>1, Zenon DEF PinsOK
    <3> QED
      BY <1>2, <3>1, <3>2, Zenon
  <2> QED
    BY <1>1, <1>2, <2>1, <2>2, Zenon DEF PinsOK
<1>5. Synced(r, g)
  <2> SUFFICES ASSUME NEW q \in DOMAIN r.table
               PROVE  \/ r.pages[r.table[q]].dirty
                      \/ \E t \in Threads : q \in DOMAIN g[t] /\ g[t][q].dirty
                      \/ q \in DOMAIN r.disk.file /\ r.disk.file[q] = r.pages[r.table[q]].data
    BY Zenon DEF Synced
  <2>1. q \in DOMAIN b.table /\ q # p
    BY <1>2, Zenon
  <2>2. ASSUME NEW t \in Threads, q \in DOMAIN h[t] PROVE q \in DOMAIN g[t] /\ g[t][q] = h[t][q]
    <3>1. q \in DOMAIN g[t]
      BY <1>1, <2>1, <2>2, Zenon
    <3> QED
      BY <1>1, <3>1, Zenon
  <2> QED
    BY <1>0, <1>2, <2>1, <2>2, Zenon DEF Synced
<1>6. ContentOf(r, M) = [q \in M |-> ContentOf(b, L)[q]]
  <2>1. ASSUME NEW q \in M
        PROVE  (IF InPool(r, q) THEN r.pages[r.table[q]].data ELSE r.disk.file[q])
                 = ContentOf(b, L)[q]
    <3>1. q \in L /\ q # p
      OBVIOUS
    <3>2. ContentOf(b, L)[q] =
            IF InPool(b, q) THEN b.pages[b.table[q]].data ELSE b.disk.file[q]
      BY <3>1, Zenon DEF ContentOf
    <3>3. CASE q \in DOMAIN b.table
      BY <1>2, <3>1, <3>2, <3>3, Zenon DEF InPool
    <3>4. CASE q \notin DOMAIN b.table
      BY <1>2, <3>1, <3>2, <3>4, Zenon DEF InPool
    <3> QED
      BY <3>3, <3>4, Zenon
  <2> QED
    BY <2>1, Zenon DEF ContentOf
<1> QED
  BY <1>0, <1>2, <1>3, <1>4, <1>5, <1>6, Zenon DEF Inv, r, g, c

\* The constructor of DiskManager: allocation resumes where the file ends.
LEMMA OpenKeeps ==
  ASSUME NEW d, DiskOK(d), MaxPages < IntPages
  PROVE  LET w == OpenDisk(d)
         IN  DiskOK(w) /\ w.file = d.file /\ DOMAIN w.file \subseteq 0..(w.next - 1)
<1> DEFINE w == OpenDisk(d)
<1>1. /\ d = [file |-> d.file, size |-> d.size, next |-> d.next]
      /\ d.size \in Nat /\ d.next \in Nat /\ d.size <= d.next /\ d.next <= MaxPages
      /\ d.file \in [DOMAIN d.file -> PageData] /\ DOMAIN d.file \subseteq 0..(d.size - 1)
  BY DEF DiskOK
<1>2. Wrap(d.size) = d.size
  BY <1>1, NoWrap, PoolAssumption, IntPagesAssumption
<1>3. w = [d EXCEPT !.next = d.size]
  <2>1. (IF d.size > 0 THEN d.size ELSE 0) = d.size
    BY <1>1
  <2>2. w = [d EXCEPT !.next = IF d.size > 0 THEN d.size ELSE 0]
    BY <1>2, Zenon DEF OpenDisk, GetFileSize
  <2> QED
    BY <2>1, <2>2, Zenon
<1>4. w = [file |-> d.file, size |-> d.size, next |-> d.size]
  BY <1>1, <1>3
<1> HIDE DEF w
<1>5. w.file = d.file /\ w.size = d.size /\ w.next = d.size
  BY <1>4
<1>6. w.size <= w.next /\ w.next <= MaxPages
  BY <1>1, <1>5, PoolAssumption
<1>7. w = [file |-> w.file, size |-> w.size, next |-> w.next]
  BY <1>4, <1>5, Zenon
<1>8. DiskOK(w)
  BY <1>1, <1>5, <1>6, <1>7, Zenon DEF DiskOK
<1> QED
  BY <1>1, <1>5, <1>8, Zenon DEF w

\* A pool just constructed, on a file that has all pages that exist.
LEMMA FreshPool ==
  ASSUME NEW d, DiskOK(d), NEW L, L \subseteq DOMAIN d.file,
         NEW h, DOMAIN h = Threads, \A t \in Threads : DOMAIN h[t] = {},
         MaxPages < IntPages
  PROVE  LET r == NewPool(OpenDisk(d))
         IN  Inv(r, L, h, [f \in Frames |-> 0]) /\ ContentOf(r, L) = [p \in L |-> d.file[p]]
<1> DEFINE w == OpenDisk(d)
           r == NewPool(w)
<1>1. DiskOK(w) /\ w.file = d.file /\ DOMAIN w.file \subseteq 0..(w.next - 1)
  BY OpenKeeps
<1> HIDE DEF w
<1>2. /\ r.pages = [f \in Frames |-> EmptyPage] /\ r.table = << >>
      /\ r.free = [i \in 1..SlotNum |-> i - 1] /\ r.unpinned = << >> /\ r.disk = w
  BY DEF NewPool
<1> HIDE DEF r
<1>3. DOMAIN r.table = {} /\ r.table \in [DOMAIN r.table -> Frames]
  <2>1. << >> = [i \in {} |-> 0]
    OBVIOUS
  <2> QED
    BY <1>2, <2>1
<1>4. r.unpinned \in Seq(Frames) /\ NoDup(r.unpinned) /\ \A f \in Frames : ~Listed(r.unpinned, f)
  BY <1>2 DEF NoDup, Listed
<1>5. /\ r.free \in Seq(Frames) /\ NoDup(r.free)
      /\ \A f \in Frames : Listed(r.free, f)
  <2>1. SlotNum \in Nat /\ r.free \in [1..SlotNum -> Frames]
    BY <1>2, SlotNumAssumption DEF Frames
  <2>2. r.free \in Seq(Frames) /\ Len(r.free) = SlotNum
    BY <2>1
  <2>3. NoDup(r.free)
    BY <1>2, <2>1, <2>2 DEF NoDup
  <2>4. ASSUME NEW f \in Frames PROVE Listed(r.free, f)
    <3>1. f + 1 \in 1..SlotNum /\ r.free[f + 1] = f
      BY <1>2, <2>1 DEF Frames
    <3> QED
      BY <2>2, <3>1, Zenon DEF Listed
  <2> QED
    BY <2>2, <2>3, <2>4
<1>6. r.pages \in [Frames -> PageRec] /\ \A f \in Frames : r.pages[f] = EmptyPage
  BY <1>2, EmptyPageType
<1>7. PoolOK(r)
  <2>1. \A f \in Frames : r.pages[f] = WipedPage(r.pages[f].pin)
    BY <1>6, EmptyPageType, Zenon
  <2> QED
    BY <1>3, <1>4, <1>5, <1>6, <2>1, Zenon DEF PoolOK
<1>8. LiveOK(r, L)
  BY <1>1, <1>2, <1>3, Zenon DEF LiveOK
<1>a. \A f \in Frames : r.pages[f] = WipedPage(r.pages[f].pin) /\ r.pages[f].pin = 0
  BY <1>6, EmptyPageType, Zenon
<1> DEFINE c == [f \in Frames |-> 0]
<1>b. c \in [Frames -> Nat] /\ \A f \in Frames : c[f] = 0
  OBVIOUS
<1> HIDE DEF c
<1>9. PinsOK(r, h, c) /\ Synced(r, h)
  BY <1>3, <1>a, <1>b, Zenon DEF PinsOK, Synced
<1>10. ContentOf(r, L) = [p \in L |-> d.file[p]]
  BY <1>1, <1>2, <1>3, Zenon DEF ContentOf, InPool
<1> QED
  BY <1>1, <1>2, <1>7, <1>8, <1>9, <1>10, ZenonT(40) DEF Inv, r, w, c

-----------------------------------------------------------------------------
(* The steps. *)

\* The pool starts on an empty file.
LEMMA InitOK ==
  ASSUME Init, MaxPages < IntPages
  PROVE  IInv
<1>1. DOMAIN << >> = {} /\ << >> \in [{} -> PageData]
  <2>1. << >> = [i \in {} |-> Zero]
    OBVIOUS
  <2> QED
    BY <2>1
<1>2. /\ EmptyDisk.file = << >> /\ EmptyDisk.size = 0 /\ EmptyDisk.next = 0
      /\ EmptyDisk = [file |-> EmptyDisk.file, size |-> EmptyDisk.size,
                      next |-> EmptyDisk.next]
  BY DEF EmptyDisk
<1>3. DiskOK(EmptyDisk)
  BY <1>1, <1>2, PoolAssumption DEF DiskOK
<1>4. DOMAIN held = Threads /\ \A t \in Threads : DOMAIN held[t] = {}
  BY <1>1, Zenon DEF Init
<1>5. Inv(NewPool(OpenDisk(EmptyDisk)), {}, held, [f \in Frames |-> 0])
  BY <1>3, <1>4, FreshPool, Zenon
<1> QED
  BY <1>5, Zenon DEF Init, IInv

\* What the clients of a pool see is what Content says.
LEMMA ContentSame ==
  ASSUME IInv, MaxPages < IntPages
  PROVE  Content = ContentOf(pool, live)
<1>1. DiskOK(pool.disk) /\ LiveOK(pool, live)
  BY Zenon DEF IInv, Inv
<1>2. ASSUME NEW p \in live, ~InPool(pool, p)
      PROVE  ReadPage(pool.disk, p, Zero) = pool.disk.file[p]
  <2> DEFINE d == pool.disk
  <2>1. p \in DOMAIN d.file
    BY <1>1, <1>2, ZenonT(40) DEF LiveOK, InPool
  <2>2. /\ d.size \in Nat /\ d.next \in Nat /\ d.size <= d.next /\ d.next <= MaxPages
        /\ DOMAIN d.file \subseteq 0..(d.size - 1)
    BY <1>1 DEF DiskOK
  <2> HIDE DEF d
  <2>3. p \in Nat /\ p < IntPages /\ d.size < IntPages /\ ~(p > d.size)
    BY <2>1, <2>2, PoolAssumption, IntPagesAssumption
  <2>4. Wrap(p) = p /\ Wrap(d.size) = d.size
    BY <2>2, <2>3, NoWrap, Zenon
  <2> QED
    BY <2>1, <2>3, <2>4, Zenon DEF ReadPage, GetFileSize, d
<1> QED
  BY <1>2, Zenon DEF Content, ContentOf
\* What a step of PageStore may do to a content c, staying at c included.
StoreStep(c, d) ==
  \/ d = c
  \/ \E p \in (0..(MaxPages - 1)) \ DOMAIN c :
       d = [q \in DOMAIN c \cup {p} |-> IF q = p THEN Zero ELSE c[q]]
  \/ \E p \in DOMAIN c, v \in PageData : d = [c EXCEPT ![p] = v]
  \/ \E p \in DOMAIN c : d = [q \in DOMAIN c \ {p} |-> c[q]]

\* Every step keeps the invariant, and is to the contents a step of PageStore.
LEMMA NextOK ==
  ASSUME IInv, Next, IsFiniteSet(Threads), MaxPages < IntPages
  PROVE  IInv' /\ StoreStep(ContentOf(pool, live), ContentOf(pool', live'))
<1> DEFINE c == ContentOf(pool, live)
<1>0. Inv(pool, live, held, leaked)
  BY DEF IInv
<1>1. DOMAIN c = live
  BY Zenon DEF ContentOf
<1>2. SUFFICES Inv(pool', live', held', leaked') /\ StoreStep(c, ContentOf(pool', live'))
  BY Zenon DEF IInv
<1> HIDE DEF c
<1>3. ASSUME NEW t \in Threads, New(t)
      PROVE  Inv(pool', live', held', leaked') /\ StoreStep(c, ContentOf(pool', live'))
  <2> DEFINE m == MakeRoom(pool)
             p == pool.disk.next
             r == Allocate(m)
             g == Taken(held, t, p, [frame |-> r.table[p], dirty |-> TRUE])
  <2>1. /\ p < MaxPages /\ HasFrame(pool) /\ pool' = r /\ live' = live \cup {p}
        /\ held' = g /\ leaked' = [leaked EXCEPT ![r.table[p]] = 0]
    BY <1>3, Zenon DEF New, NewPage, NewPageId, Hold, Taken
  <2>2. /\ Inv(m, live, held, leaked) /\ m.free # << >> /\ m.disk.next = p
        /\ ContentOf(m, live) = c
    BY <1>0, <2>1, MakeRoomKeeps, Zenon DEF c
  <2> HIDE DEF m
  <2>3. /\ Inv(r, live \cup {p}, g, [leaked EXCEPT ![r.table[p]] = 0]) /\ p \notin live
        /\ ContentOf(r, live \cup {p}) =
             [q \in live \cup {p} |-> IF q = p THEN Zero ELSE ContentOf(m, live)[q]]
    <3> DEFINE G(n) ==
                 /\ Inv(r, live \cup {n},
                        Taken(held, t, n, [frame |-> r.table[n], dirty |-> TRUE]),
                        [leaked EXCEPT ![r.table[n]] = 0])
                 /\ n \notin live
                 /\ ContentOf(r, live \cup {n}) =
                      [q \in live \cup {n} |-> IF q = n THEN Zero ELSE ContentOf(m, live)[q]]
    <3>1. m.disk.next < MaxPages
      BY <2>1, <2>2, Zenon
    <3>2. G(m.disk.next)
      BY <2>2, <3>1, AllocateKeeps, Zenon
    <3> HIDE DEF G
    <3>3. G(p)
      BY <2>2, <3>2, ZenonT(40)
    <3> QED
      BY <3>3, Zenon DEF G
  <2>4. p \in 0..(MaxPages - 1)
    <3>1. p \in Nat
      BY <1>0, Zenon DEF Inv, DiskOK
    <3> QED
      BY <2>1, <3>1, PoolAssumption
  <2>5. \E q \in (0..(MaxPages - 1)) \ DOMAIN c :
          ContentOf(pool', live') =
            [s \in DOMAIN c \cup {q} |-> IF s = q THEN Zero ELSE c[s]]
    <3>1. p \in (0..(MaxPages - 1)) \ DOMAIN c
      BY <1>1, <2>3, <2>4, Zenon
    <3>2. ContentOf(pool', live') =
            [s \in DOMAIN c \cup {p} |-> IF s = p THEN Zero ELSE c[s]]
      BY <1>1, <2>1, <2>2, <2>3, Zenon
    <3> QED
      BY <3>1, <3>2, Zenon
  <2> QED
    BY <2>1, <2>3, <2>5, Zenon DEF StoreStep
<1>4. ASSUME NEW t \in Threads, NEW p \in live, Fetch(t, p)
      PROVE  Inv(pool', live', held', leaked') /\ StoreStep(c, ContentOf(pool', live'))
  <2>1. /\ p \notin DOMAIN held[t] /\ CanFetch(pool, p) /\ pool' = FetchPage(pool, p)
        /\ held' = Taken(held, t, p, [frame |-> pool'.table[p], dirty |-> FALSE])
        /\ live' = live /\ leaked' = leaked
    BY <1>4, Zenon DEF Fetch, Hold, Taken
  <2>2. CASE InPool(pool, p)
    <3>1. pool' = FetchHit(pool, p) /\ p \in DOMAIN pool.table
      BY <2>1, <2>2, Zenon DEF FetchPage, InPool
    <3>2. Inv(pool', live, held', leaked) /\ ContentOf(pool', live) = c
      BY <1>0, <2>1, <3>1, FetchHitKeeps, Zenon DEF c
    <3> QED
      BY <2>1, <3>2, Zenon DEF StoreStep
  <2>3. CASE ~InPool(pool, p)
    <3> DEFINE m == MakeRoom(pool)
    <3>1. pool' = ReadIn(m, p) /\ p \notin DOMAIN pool.table /\ HasFrame(pool)
      BY <2>1, <2>3, Zenon DEF FetchPage, InPool, CanFetch
    <3>2. /\ Inv(m, live, held, leaked) /\ m.free # << >> /\ p \notin DOMAIN m.table
          /\ ContentOf(m, live) = c
      BY <1>0, <3>1, MakeRoomKeeps, Zenon DEF c
    <3> HIDE DEF m
    <3>3. Inv(pool', live, held', leaked) /\ ContentOf(pool', live) = c
      BY <2>1, <3>1, <3>2, ReadInKeeps, Zenon
    <3> QED
      BY <2>1, <3>3, Zenon DEF StoreStep
  <2> QED
    BY <2>2, <2>3
<1>5. ASSUME NEW t \in Threads, NEW p \in DOMAIN held[t], NEW v \in PageData, Write(t, p, v)
      PROVE  Inv(pool', live', held', leaked') /\ StoreStep(c, ContentOf(pool', live'))
  <2> DEFINE f == held[t][p].frame
  <2>1. /\ pool' = Stored(pool, f, v) /\ live' = live /\ leaked' = leaked
        /\ held' = Taken(held, t, p, [frame |-> f, dirty |-> TRUE])
    BY <1>5, ZenonT(40) DEF Write, Stored, Hold, Taken
  <2>2. Inv(pool', live, held', leaked) /\ p \in live /\ ContentOf(pool', live) = [c EXCEPT ![p] = v]
    BY <1>0, <2>1, StoreKeeps DEF c
  <2> QED
    BY <1>1, <2>1, <2>2, Zenon DEF StoreStep
<1>6. ASSUME NEW t \in Threads, NEW p \in DOMAIN held[t], Release(t, p)
      PROVE  Inv(pool', live', held', leaked') /\ StoreStep(c, ContentOf(pool', live'))
  <2>1. PICK d \in {TRUE, held[t][p].dirty} : pool' = UnpinPage(pool, p, d)
    BY <1>6, Zenon DEF Release
  <2>2. held' = Given(held, t, p) /\ live' = live /\ leaked' = leaked
    BY <1>6, Zenon DEF Release, Given
  <2>3. d \in BOOLEAN /\ (held[t][p].dirty => d)
    <3>1. held[t][p].dirty \in BOOLEAN
      BY <1>0, Zenon DEF Inv, PinsOK
    <3> QED
      BY <3>1, Zenon
  <2>4. Inv(pool', live, held', leaked) /\ ContentOf(pool', live) = c
    BY <1>0, <2>1, <2>2, <2>3, UnpinKeeps, Zenon DEF c
  <2> QED
    BY <2>2, <2>4, Zenon DEF StoreStep
<1>7. ASSUME NEW p \in live, Flush(p)
      PROVE  Inv(pool', live', held', leaked') /\ StoreStep(c, ContentOf(pool', live'))
  <2>1. pool' = FlushPage(pool, p) /\ live' = live /\ held' = held /\ leaked' = leaked
    BY <1>7, Zenon DEF Flush
  <2>2. Inv(pool', live, held, leaked) /\ ContentOf(pool', live) = c
    BY <1>0, <2>1, FlushKeeps, Zenon DEF c
  <2> QED
    BY <2>1, <2>2, Zenon DEF StoreStep
<1>8. ASSUME FlushAll
      PROVE  Inv(pool', live', held', leaked') /\ StoreStep(c, ContentOf(pool', live'))
  <2>1. pool' = FlushAllPages(pool) /\ live' = live /\ held' = held /\ leaked' = leaked
    BY <1>8, Zenon DEF FlushAll
  <2>2. Inv(pool', live, held, leaked) /\ ContentOf(pool', live) = c
    BY <1>0, <2>1, FlushAllKeeps, Zenon DEF c
  <2> QED
    BY <2>1, <2>2, Zenon DEF StoreStep
<1>9. ASSUME NEW p \in live, Delete(p)
      PROVE  Inv(pool', live', held', leaked') /\ StoreStep(c, ContentOf(pool', live'))
  <2>1. /\ pool' = DeletePage(pool, p) /\ live' = live \ {p}
        /\ held' = Dropped(held, p) /\ leaked' = LeftBy(pool, leaked, p)
    BY <1>9, Zenon DEF Delete, Dropped, LeftBy
  <2>2. /\ Inv(pool', live \ {p}, held', leaked')
        /\ ContentOf(pool', live \ {p}) = [q \in live \ {p} |-> c[q]]
    BY <1>0, <2>1, DeleteKeeps DEF c
  <2> QED
    BY <1>1, <2>1, <2>2, Zenon DEF StoreStep
<1>10. ASSUME Reopen
       PROVE  Inv(pool', live', held', leaked') /\ StoreStep(c, ContentOf(pool', live'))
  <2> DEFINE d == FlushAllPages(pool).disk
  <2>1. /\ \A t \in Threads : DOMAIN held[t] = {}
        /\ pool' = NewPool(OpenDisk(d)) /\ live' = live /\ held' = held
        /\ leaked' = [f \in Frames |-> 0]
    BY <1>10, Zenon DEF Reopen
  <2>2. /\ DiskOK(d) /\ live \subseteq DOMAIN d.file /\ c = [p \in live |-> d.file[p]]
    BY <1>0, FlushAllKeeps, Zenon DEF c, Inv
  <2>3. DOMAIN held = Threads
    BY <1>0, Zenon DEF Inv, PinsOK
  <2> HIDE DEF d
  <2>4. Inv(pool', live, held, leaked') /\ ContentOf(pool', live) = c
    BY <2>1, <2>2, <2>3, FreshPool
  <2> QED
    BY <2>1, <2>4, Zenon DEF StoreStep
<1> QED
  BY <1>3, <1>4, <1>5, <1>6, <1>7, <1>8, <1>9, <1>10, ZenonT(40) DEF Next
-----------------------------------------------------------------------------
(* The theorems.  The hypotheses: there are finitely many threads, and the  *)
(* ids fit an int's offset.                                                 *)

\* The invariant holds in every state, whatever the threads do.
THEOREM Invariance ==
  ASSUME IsFiniteSet(Threads), MaxPages < IntPages
  PROVE  Spec => []IInv
<1>1. Init => IInv
  BY InitOK
<1>2. IInv /\ [Next]_vars => IInv'
  <2>1. CASE Next
    BY <2>1, NextOK, Zenon
  <2>2. CASE UNCHANGED vars
    <3>1. pool' = pool /\ live' = live /\ held' = held /\ leaked' = leaked
      BY <2>2 DEF vars
    <3> QED
      BY <3>1, Zenon DEF IInv
  <2> QED
    BY <2>1, <2>2
<1> QED
  BY <1>1, <1>2, PTL DEF Spec

\* A pointer that FetchPage or NewPage handed out points at its page until it
\* is given back or its page deleted, for any number of frames and threads and
\* whichever other pages are deleted while they are pinned.
THEOREM PointersValid ==
  ASSUME IsFiniteSet(Threads), MaxPages < IntPages
  PROVE  Spec => []PointersStayValid
<1>1. IInv => PointersStayValid
  <2>1. SUFFICES ASSUME IInv, NEW t \in Threads, NEW p \in DOMAIN held[t]
                 PROVE  /\ InPool(pool, p) /\ pool.table[p] = held[t][p].frame
                        /\ pool.pages[held[t][p].frame].id = p
    BY Zenon DEF PointersStayValid
  <2>2. PoolOK(pool) /\ PinsOK(pool, held, leaked)
    BY <2>1, Zenon DEF IInv, Inv
  <2>3. p \in DOMAIN pool.table /\ held[t][p].frame = pool.table[p]
    BY <2>2, Zenon DEF PinsOK
  <2>4. pool.pages[pool.table[p]].id = p
    BY <2>2, <2>3, Zenon DEF PoolOK
  <2> QED
    BY <2>3, <2>4, Zenon DEF InPool
<1> QED
  BY <1>1, Invariance, PTL

\* The pin count of a frame is at all times the number of threads that hold its
\* page and the pins that DeletePage left on the frame: FetchPage, NewPage and
\* UnpinPage neither lose a pin nor invent one.
THEOREM PinsAlwaysCounted ==
  ASSUME IsFiniteSet(Threads), MaxPages < IntPages
  PROVE  Spec => []PinsCounted
<1>1. IInv => PinsCounted
  <2>1. SUFFICES ASSUME IInv PROVE PinsCounted
    OBVIOUS
  <2>2. PoolOK(pool) /\ PinsOK(pool, held, leaked)
    BY <2>1, Zenon DEF IInv, Inv
  <2>3. \A p \in DOMAIN pool.table :
          pool.pages[pool.table[p]].pin = Cardinality(Holders(p)) + leaked[pool.table[p]]
    BY <2>2, Zenon DEF PinsOK, Holding, Holders
  <2>4. \A f \in Frames : Listed(pool.free, f) => pool.pages[f].pin = leaked[f]
    BY <2>2, Zenon DEF PinsOK
  <2> QED
    BY <2>3, <2>4, Zenon DEF PinsCounted
<1> QED
  BY <1>1, Invariance, PTL

\* FetchPage and NewPage return nullptr only when every frame holds a page that
\* some thread has pinned or pins that a deletion left: no other frame is ever
\* lost to both lists.
THEOREM FullWhenAllPinned ==
  ASSUME IsFiniteSet(Threads), MaxPages < IntPages
  PROVE  Spec => []FullOnlyWhenPinned
<1>1. IInv => FullOnlyWhenPinned
  <2>1. SUFFICES ASSUME IInv, ~HasFrame(pool), NEW f \in Frames, ~(leaked[f] > 0)
                 PROVE  \E t \in Threads : \E p \in DOMAIN held[t] : held[t][p].frame = f
    BY Zenon DEF FullOnlyWhenPinned
  <2>2. PoolOK(pool) /\ PinsOK(pool, held, leaked)
    BY <2>1, Zenon DEF IInv, Inv
  <2>3. ~Listed(pool.free, f) /\ ~Listed(pool.unpinned, f)
    BY <2>1 DEF HasFrame, Listed
  <2>4. PICK p \in DOMAIN pool.table : pool.table[p] = f
    BY <2>2, <2>3, Zenon DEF PoolOK
  <2>5. pool.pages[pool.table[p]].pin # 0
    BY <2>2, <2>3, <2>4, Zenon DEF PoolOK
  <2>6. Holding(held, p) # {}
    <3>1. /\ pool.pages[pool.table[p]].pin = Cardinality(Holding(held, p)) + leaked[f]
          /\ leaked \in [Frames -> Nat]
      BY <2>2, <2>4, Zenon DEF PinsOK
    <3>2. leaked[f] = 0
      BY <2>1, <3>1
    <3>3. Cardinality(Holding(held, p)) # 0
      BY <2>5, <3>1, <3>2
    <3> QED
      BY <3>3, FS_EmptySet, Zenon
  <2>7. PICK t \in Threads : p \in DOMAIN held[t]
    BY <2>6, Zenon DEF Holding
  <2>8. held[t][p].frame = f
    BY <2>2, <2>4, <2>7, Zenon DEF PinsOK
  <2> QED
    BY <2>7, <2>8, Zenon
<1> QED
  BY <1>1, Invariance, PTL

\* The pool is a store of pages: evicting, writing back, flushing, closing and
\* reopening change no page's content, NewPage never hands out an id that exists
\* and its page holds zeros, and a write changes its page alone.
THEOREM PoolImplementsPageStore ==
  ASSUME IsFiniteSet(Threads), MaxPages < IntPages
  PROVE  Spec => ImplementsPageStore
<1>1. Init => Store!Init
  <2>1. SUFFICES ASSUME Init PROVE Content = << >>
    BY Zenon DEF Store!Init
  <2>2. << >> = [p \in {} |-> Zero]
    OBVIOUS
  <2>3. live = {}
    BY <2>1, Zenon DEF Init
  <2>4. Content = [p \in {} |-> Zero]
    BY <2>3 DEF Content
  <2> QED
    BY <2>2, <2>4, Zenon
<1>2. IInv => Content = ContentOf(pool, live)
  BY ContentSame
<1>3. IInv' => (Content = ContentOf(pool, live))'
  BY <1>2, PTL
<1>4. IInv /\ IInv' /\ [Next]_vars => [Store!Next]_Content
  <2>1. SUFFICES ASSUME IInv, IInv', [Next]_vars PROVE [Store!Next]_Content
    OBVIOUS
  <2>2. Content = ContentOf(pool, live)
    BY <1>2, <2>1
  <2>3. Content' = ContentOf(pool', live')
    BY <1>3, <2>1, Zenon
  <2>4. StoreStep(Content, Content')
    <3>1. CASE Next
      BY <2>1, <2>2, <2>3, <3>1, NextOK, Zenon
    <3>2. CASE UNCHANGED vars
      <4>1. pool' = pool /\ live' = live
        BY <3>2 DEF vars
      <4> QED
        BY <2>2, <2>3, <4>1, Zenon DEF StoreStep
    <3> QED
      BY <2>1, <3>1, <3>2
  <2> QED
    BY <2>4, Zenon DEF StoreStep, Store!Next, Store!Create, Store!Write, Store!Delete
<1> QED
  BY <1>1, <1>4, Invariance, PTL DEF Spec, ImplementsPageStore, Store!Spec
=============================================================================
