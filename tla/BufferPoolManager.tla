------------------------- MODULE BufferPoolManager -------------------------
(***************************************************************************)
(* src/Storage/BufferPool/BufferPoolManager: every method holds latch_ from *)
(* its first to its last line, so each is one function of the pool.  A     *)
(* pool is a record:                                                       *)
(*   pages    pages_: what each frame holds (id, pin count, dirty, data)   *)
(*   table    page_table_: page id -> frame                                *)
(*   free     free_list_                                                   *)
(*   unpinned the replacer's list of evictable frames                      *)
(*   disk     disk_manager_                                                *)
(***************************************************************************)
EXTENDS DiskManager, LRUReplacer

ASSUME SlotNumAssumption == SlotNum \in Nat \ {0}

Frames == 0..(SlotNum - 1)

\* A frame without a page: eviction and deletion leave its pin count alone.
WipedPage(pin) == [id |-> INVALID_PAGE_ID, pin |-> pin, dirty |-> FALSE, data |-> Zero]
EmptyPage == WipedPage(0)

\* A pool just constructed on disk d: every frame is free.
NewPool(d) ==
  [pages |-> [f \in Frames |-> EmptyPage],
   table |-> << >>,
   free |-> [i \in 1..SlotNum |-> i - 1],
   unpinned |-> << >>,
   disk |-> d]

InPool(b, p) == p \in DOMAIN b.table

\* The page table with p mapped to f, and with p erased.
Mapped(t, p, f) == [q \in DOMAIN t \cup {p} |-> IF q = p THEN f ELSE t[q]]
Unmapped(t, p) == [q \in DOMAIN t \ {p} |-> t[q]]

\* A faulty variant: a victim is never written back.
WriteBackMutant(b, f) == b.disk

\* The disk after the page in frame f is written if it is dirty.
WriteBack(b, f) ==
  IF b.pages[f].dirty
  THEN WritePage(b.disk, b.pages[f].id, b.pages[f].data)
  ELSE b.disk

\* A free frame can be had: FetchPage and NewPage return nullptr otherwise.
HasFrame(b) == b.free # << >> \/ b.unpinned # << >>

\* The part FetchPage and NewPage share: when no frame is free, the least
\* recently used page without a pin is written back if dirty and its frame
\* freed.  The frame's pin count is left alone.
MakeRoom(b) ==
  IF b.free # << >> THEN b
  ELSE LET f == Victim(b.unpinned)
       IN  [pages |-> [b.pages EXCEPT ![f] = WipedPage(b.pages[f].pin)],
            table |-> Unmapped(b.table, b.pages[f].id),
            free |-> Append(b.free, f),
            unpinned |-> AfterVictim(b.unpinned),
            disk |-> WriteBack(b, f)]

\* A faulty variant: a page found in the pool stays evictable.
FetchHitMutant(b, p) ==
  LET f == b.table[p]
  IN  [b EXCEPT !.pages[f].pin = @ + 1]

\* FetchPage for a page in the pool: one more pin, no longer evictable.
FetchHit(b, p) ==
  LET f == b.table[p]
  IN  [pages |-> [b.pages EXCEPT ![f] = [b.pages[f] EXCEPT !.pin = @ + 1]],
       table |-> b.table,
       free |-> b.free,
       unpinned |-> Pin(b.unpinned, f),
       disk |-> b.disk]

\* A faulty variant: the pin count starts at zero.
ReadInMutant(b, p) ==
  LET f == b.free[Len(b.free)]
  IN  [pages |-> [b.pages EXCEPT ![f] =
                    [id |-> p, pin |-> 0, dirty |-> FALSE,
                     data |-> ReadPage(b.disk, p, b.pages[f].data)]],
       table |-> Mapped(b.table, p, f),
       free |-> SubSeq(b.free, 1, Len(b.free) - 1),
       unpinned |-> Pin(b.unpinned, f),
       disk |-> b.disk]

\* The last free frame takes page p.  An exception of ReadPage is swallowed and
\* the frame keeps its data.
ReadIn(b, p) ==
  LET f == b.free[Len(b.free)]
  IN  [pages |-> [b.pages EXCEPT ![f] =
                    [id |-> p, pin |-> b.pages[f].pin + 1, dirty |-> FALSE,
                     data |-> ReadPage(b.disk, p, b.pages[f].data)]],
       table |-> Mapped(b.table, p, f),
       free |-> SubSeq(b.free, 1, Len(b.free) - 1),
       unpinned |-> Pin(b.unpinned, f),
       disk |-> b.disk]

CanFetch(b, p) == InPool(b, p) \/ HasFrame(b)
FetchPage(b, p) == IF InPool(b, p) THEN FetchHit(b, p) ELSE ReadIn(MakeRoom(b), p)

\* A faulty variant: the replacer is told when a pin is left, not when none is.
UnpinPageMutant(b, p, dirty) ==
  IF ~InPool(b, p) THEN b
  ELSE LET f == b.table[p]
           g == b.pages[f]
       IN  [b EXCEPT !.pages[f].pin = @ - 1, !.pages[f].dirty = @ \/ dirty,
                     !.unpinned = IF g.pin = 2 THEN Unpin(b.unpinned, f) ELSE @]

\* UnpinPage: the dirty flag is only ever raised, and raised even when the
\* page has no pin to give back.
UnpinPage(b, p, dirty) ==
  IF ~InPool(b, p) THEN b
  ELSE LET f == b.table[p]
           g == b.pages[f]
       IN  [pages |-> [b.pages EXCEPT ![f] =
                         [id |-> g.id, pin |-> IF g.pin <= 0 THEN g.pin ELSE g.pin - 1,
                          dirty |-> g.dirty \/ dirty, data |-> g.data]],
            table |-> b.table,
            free |-> b.free,
            unpinned |-> IF g.pin = 1 THEN Unpin(b.unpinned, f) ELSE b.unpinned,
            disk |-> b.disk]

FlushPage(b, p) ==
  IF ~InPool(b, p) THEN b
  ELSE LET f == b.table[p]
       IN  [pages |-> [b.pages EXCEPT ![f] = [b.pages[f] EXCEPT !.dirty = FALSE]],
            table |-> b.table,
            free |-> b.free,
            unpinned |-> b.unpinned,
            disk |-> WritePage(b.disk, p, b.pages[f].data)]

\* FlushAllPages writes every page of the table.  Each has its own place in
\* the file, so the order of the writes does not matter.
FlushAllPages(b) ==
  LET in == DOMAIN b.table
      d == b.disk
      ends == {d.size} \cup {p + 1 : p \in in}
  IN  [pages |-> [f \in Frames |->
                    IF \E p \in in : b.table[p] = f
                    THEN [b.pages[f] EXCEPT !.dirty = FALSE] ELSE b.pages[f]],
       table |-> b.table,
       free |-> b.free,
       unpinned |-> b.unpinned,
       disk |-> [file |-> [p \in DOMAIN d.file \cup in |->
                             IF p \in in THEN b.pages[b.table[p]].data ELSE d.file[p]],
                 size |-> CHOOSE n \in ends : \A m \in ends : m <= n,
                 next |-> d.next]]

\* NewPage: the first free frame takes the next page id, zeroed and pinned.
NewPageId(b) == b.disk.next
Allocate(b) ==
  LET f == b.free[1]
      p == NewPageId(b)
  IN  [pages |-> [b.pages EXCEPT ![f] =
                    [id |-> p, pin |-> 1, dirty |-> FALSE, data |-> b.pages[f].data]],
       table |-> Mapped(b.table, p, f),
       free |-> Tail(b.free),
       unpinned |-> Pin(b.unpinned, f),
       disk |-> AllocatePage(b.disk)]
NewPage(b) == Allocate(MakeRoom(b))

\* DeletePage: the frame is wiped and freed whatever its pin count, which
\* stays as it was, and the frame also becomes a candidate of the replacer.
DeletePage(b, p) ==
  IF ~InPool(b, p) THEN b
  ELSE LET f == b.table[p]
       IN  [pages |-> [b.pages EXCEPT ![f] = WipedPage(b.pages[f].pin)],
            table |-> Unmapped(b.table, p),
            free |-> Append(b.free, f),
            unpinned |-> Unpin(b.unpinned, f),
            disk |-> b.disk]
=============================================================================
