----------------------------- MODULE BufferPool -----------------------------
(***************************************************************************)
(* Threads that share one buffer pool: the B+ tree, the tuple store and    *)
(* the engine above them use nothing but the methods of BufferPoolManager. *)
(* A thread fetches or creates a page, keeps the pointer to its frame,     *)
(* reads and writes through it and unpins it; the pool may evict, flush or *)
(* close and reopen the file between any two of these steps.               *)
(*                                                                         *)
(* What the callers do (BPlusTree.cpp, TupleStore.cpp, BPlusTreeEngine.cpp):*)
(* a page that was written, and a page that was created, is unpinned with  *)
(* is_dirty = true, and nobody uses the pointer to a page that was         *)
(* deleted.  Pages are deleted while they are pinned: BPlusTree::          *)
(* CoalesceOrRedistribute deletes an inner page that its own call still    *)
(* has in the page set.  DeletePage does not look at the pins, although    *)
(* its comment says "If P exists, but has a non-zero pin-count, return     *)
(* false", and they stay on the frame.                                    *)
(***************************************************************************)
EXTENDS BufferPoolManager, FiniteSets

CONSTANTS
  Threads,
  PageData,   \* what may be written to a page, Zero among it
  MaxPages    \* bound: pages created

ASSUME PoolAssumption ==
  /\ Zero \in PageData
  /\ MaxPages \in Nat

VARIABLES
  pool,   \* the buffer pool
  live,   \* pages created and not deleted
  held,   \* held[t]: the pages t has pinned, each with the frame its pointer
          \* points at and whether it must be unpinned as dirty
  leaked  \* leaked[f]: pins DeletePage left on frame f that nobody can give
          \* back; a record for the properties, no action reads it

vars == <<pool, live, held, leaked>>

Holders(p) == {t \in Threads : p \in DOMAIN held[t]}

Hold(t, p, h) ==
  [held EXCEPT ![t] = [q \in DOMAIN held[t] \cup {p} |-> IF q = p THEN h ELSE held[t][q]]]

Init ==
  /\ pool = NewPool(OpenDisk(EmptyDisk))
  /\ live = {}
  /\ held = [t \in Threads |-> << >>]
  /\ leaked = [f \in Frames |-> 0]

Fetch(t, p) ==
  /\ p \notin DOMAIN held[t]
  /\ CanFetch(pool, p)
  /\ pool' = FetchPage(pool, p)
  /\ held' = Hold(t, p, [frame |-> pool'.table[p], dirty |-> FALSE])
  /\ UNCHANGED <<live, leaked>>

New(t) ==
  /\ NewPageId(pool) < MaxPages
  /\ HasFrame(pool)
  /\ pool' = NewPage(pool)
  /\ live' = live \cup {NewPageId(pool)}
  /\ held' = Hold(t, NewPageId(pool), [frame |-> pool'.table[NewPageId(pool)], dirty |-> TRUE])
  /\ leaked' = [leaked EXCEPT ![pool'.table[NewPageId(pool)]] = 0]

\* A store through the pointer: it lands in the frame, whatever is there.
Write(t, p, v) ==
  LET f == held[t][p].frame
  IN  /\ pool' = [pages |-> [pool.pages EXCEPT ![f] = [pool.pages[f] EXCEPT !.data = v]],
                  table |-> pool.table, free |-> pool.free,
                  unpinned |-> pool.unpinned, disk |-> pool.disk]
      /\ held' = Hold(t, p, [frame |-> f, dirty |-> TRUE])
      /\ UNCHANGED <<live, leaked>>

Release(t, p) ==
  /\ \E d \in {TRUE, held[t][p].dirty} : pool' = UnpinPage(pool, p, d)
  /\ held' = [held EXCEPT ![t] = [q \in DOMAIN held[t] \ {p} |-> held[t][q]]]
  /\ UNCHANGED <<live, leaked>>

Flush(p) ==
  /\ pool' = FlushPage(pool, p)
  /\ UNCHANGED <<live, held, leaked>>

FlushAll ==
  /\ pool' = FlushAllPages(pool)
  /\ UNCHANGED <<live, held, leaked>>

\* The page goes whatever its pin count.  The threads that had it pinned
\* still call UnpinPage, which finds no page of that id and does nothing: they
\* hold it no longer.
Delete(p) ==
  /\ pool' = DeletePage(pool, p)
  /\ live' = live \ {p}
  /\ leaked' = [f \in Frames |->
                 IF InPool(pool, p) /\ pool.table[p] = f THEN pool.pages[f].pin ELSE leaked[f]]
  /\ held' = [t \in Threads |-> [q \in DOMAIN held[t] \ {p} |-> held[t][q]]]

\* The database is closed, with every page flushed, and opened again.
Reopen ==
  /\ \A t \in Threads : DOMAIN held[t] = {}
  /\ pool' = NewPool(OpenDisk(FlushAllPages(pool).disk))
  /\ leaked' = [f \in Frames |-> 0]
  /\ UNCHANGED <<live, held>>

Next ==
  \/ \E t \in Threads : New(t)
  \/ \E t \in Threads, p \in live : Fetch(t, p)
  \/ \E t \in Threads : \E p \in DOMAIN held[t], v \in PageData : Write(t, p, v)
  \/ \E t \in Threads : \E p \in DOMAIN held[t] : Release(t, p)
  \/ \E p \in live : Flush(p)
  \/ FlushAll
  \/ \E p \in live : Delete(p)
  \/ Reopen

Spec == Init /\ [][Next]_vars

-----------------------------------------------------------------------------
PageRec == [id : Int, pin : Nat, dirty : BOOLEAN, data : PageData]

\* A pointer handed out by FetchPage or NewPage stays good until it is given
\* back or the page itself is deleted: the frame still holds that page,
\* whatever other threads fetch, create or unpin meanwhile and whichever
\* other pages they delete, pinned ones included.
PointersStayValid ==
  \A t \in Threads : \A p \in DOMAIN held[t] :
    /\ InPool(pool, p)
    /\ pool.table[p] = held[t][p].frame
    /\ pool.pages[held[t][p].frame].id = p

\* No pin is lost, and none is invented but by DeletePage: the pin count of a
\* frame is the number of threads that hold its page and the pins a deletion
\* of a pinned page left on the frame.  Those stay through FetchPage, which
\* counts on from them, and go only when NewPage takes the frame.
PinsCounted ==
  /\ \A p \in DOMAIN pool.table :
       pool.pages[pool.table[p]].pin = Cardinality(Holders(p)) + leaked[pool.table[p]]
  /\ \A f \in Frames : Listed(pool.free, f) => pool.pages[f].pin = leaked[f]

\* FetchPage and NewPage report a full pool only when every frame holds a page
\* that some thread has pinned, or took over the pins of a deleted page: the
\* latter frames can never be evicted again.
FullOnlyWhenPinned ==
  ~HasFrame(pool) =>
    \A f \in Frames :
      \/ leaked[f] > 0
      \/ \E t \in Threads : \E p \in DOMAIN held[t] : held[t][p].frame = f

\* What a page holds for its clients: the frame's data while it is in the
\* pool, what a fetch would read otherwise.
Content ==
  [p \in live |-> IF InPool(pool, p) THEN pool.pages[pool.table[p]].data
                  ELSE ReadPage(pool.disk, p, Zero)]

Store == INSTANCE PageStore WITH content <- Content, PageIds <- 0..(MaxPages - 1)

\* Eviction, write-back, flushing and reopening never change what a page
\* holds, and no id is handed out twice: the pool is a store of pages.
ImplementsPageStore == Store!Spec

=============================================================================
