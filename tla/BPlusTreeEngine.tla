-------------------------- MODULE BPlusTreeEngine --------------------------
(***************************************************************************)
(* src/Storage/BPlusTreeEngine: the index and the tuple store on one buffer*)
(* pool, and the catalog on page 0 that lets the file be opened again.     *)
(*                                                                         *)
(* An engine e is [s, first, thrown]: the session of its tree (with the    *)
(* pool), the head of the tuple store's chain, and whether the last call   *)
(* ended in an exception.  A cursor is [entries, pos, next, valid, value]  *)
(* of the code; its key is that of entries[pos].                           *)
(***************************************************************************)
EXTENDS BPlusTreeView, TupleStore

HEADER_PAGE_ID == 0

MetaPage(root, first) == [kind |-> "meta", root |-> root, first |-> first]

Engine(b, root, first, fault) ==
  [s |-> [b |-> b, root |-> root, set |-> << >>, latched |-> {}, fault |-> fault],
   first |-> first, thrown |-> FALSE]

\* The constructor: page 0 is created with an empty catalog, or read.
CreateEngine(b) ==
  LET b1 == SetData(NewPage(b), HEADER_PAGE_ID, MetaPage(NoPage, INVALID_PAGE_ID))
  IN  Engine(UnpinPage(b1, HEADER_PAGE_ID, TRUE), NoPage, INVALID_PAGE_ID, "")

ReadMeta(b) ==
  LET m == Data(b, HEADER_PAGE_ID)
      b1 == UnpinPage(b, HEADER_PAGE_ID, FALSE)
  IN  IF m.kind # "meta" THEN Engine(b1, NoPage, INVALID_PAGE_ID, "garbage")
      ELSE Engine(b1, m.root, m.first, "")
OpenEngine(b) == ReadMeta(FetchPage(b, HEADER_PAGE_ID))

\* The engine after a step of its index, and after one of its tuple store.
IndexStep(e, s) == [e EXCEPT !.s = s, !.thrown = FALSE]
TupleStep(e, r) == [s |-> [e.s EXCEPT !.b = r.b], first |-> r.first, thrown |-> ~r.ok]

TupleGet(e, rid) == TupleStep(e, Get(e.s.b, e.first, rid))

\* A faulty variant: another slot is deleted.
TupleDeleteMutant(e, rid) ==
  IF Ok(e.s) THEN TupleStep(e, Delete(e.s.b, e.first, [rid EXCEPT !.slot = 0])) ELSE e

TupleDelete(e, rid) == IF Ok(e.s) THEN TupleStep(e, Delete(e.s.b, e.first, rid)) ELSE e

\* Insert: absent keys only; an exception of Put leaves the index alone.
InsertRid(e, k, rid) ==
  LET After(r) == IF Inserts(e.s, k) THEN r ELSE TupleDelete(r, rid)
  IN  IF e.thrown THEN e ELSE After(IndexStep(e, Insert(e.s, k, rid)))

InsertAbsent(e, k, v) ==
  IF ~Ok(e.s) THEN e
  ELSE InsertRid(TupleStep(e, Put(e.s.b, e.first, v)), k, PutRid(e.s.b, e.first, v))

EngineInsert(e, k, v) ==
  LET Absent(r) == IF Found(e.s, k) # {} THEN r ELSE InsertAbsent(r, k, v)
  IN  Absent(IndexStep(e, GetValue(e.s, k)))

\* What Insert reports, e the engine before it and after the one after it.
InsertResult(e, k, after) ==
  IF Found(e.s, k) # {} THEN "exists" ELSE IF after.thrown THEN "refused" ELSE "done"

EngineGet(e, k) ==
  LET rids == Found(e.s, k)
      Get1(r) == IF rids = {} THEN r ELSE TupleGet(r, CHOOSE rid \in rids : TRUE)
  IN  Get1(IndexStep(e, GetValue(e.s, k)))

GetValues(e, k) == UNION {GetResult(GetValue(e.s, k).b, rid) : rid \in Found(e.s, k)}

EngineRemove(e, k) ==
  LET rids == Found(e.s, k)
      Remove1(r) == IF rids = {} THEN r
                    ELSE TupleDelete(IndexStep(r, Remove(r.s, k)), CHOOSE rid \in rids : TRUE)
  IN  Remove1(IndexStep(e, GetValue(e.s, k)))

\* A faulty variant: the catalog keeps the old root.
FlushMutant(e) == [e EXCEPT !.s.b = FlushAllPages(@)]

\* Flush: the entry points go to the catalog, then every page to the file.
Flush(e) ==
  LET b1 == FetchPage(e.s.b, HEADER_PAGE_ID)
      b2 == SetData(b1, HEADER_PAGE_ID, MetaPage(e.s.root, e.first))
      b3 == UnpinPage(b2, HEADER_PAGE_ID, TRUE)
  IN  [e EXCEPT !.s.b = FlushAllPages(IF CanFetch(@, HEADER_PAGE_ID) THEN b3 ELSE @)]

-----------------------------------------------------------------------------
\* The cursor, over engine e: LoadLeaf from page p on, and Materialize.

Exhausted == [entries |-> << >>, pos |-> 0, next |-> NoPage, valid |-> FALSE, value |-> {}]

Materialize(e, c) ==
  LET rid == c.entries[c.pos + 1].rid
  IN  [e |-> TupleGet(e, rid),
       c |-> [c EXCEPT !.value = GetResult(e.s.b, rid)]]

RECURSIVE LoadLeaf(_, _)

\* The entries of leaf n, on page p, which is unpinned at once.
Buffer(e, p, n) ==
  LET Then(r) == IF GetSize(n) = 0 THEN LoadLeaf(r, n.next)
                 ELSE Materialize(r, [entries |-> n.items, pos |-> 0, next |-> n.next,
                                      valid |-> TRUE, value |-> {}])
  IN  Then(IndexStep(e, UnpinNode(e.s, p, FALSE)))

Load(e, p) ==
  IF Ok(e.s) THEN Buffer(e, p, Node(e.s, FrameOf(e.s, p))) ELSE [e |-> e, c |-> Exhausted]

LoadLeaf(e, p) ==
  IF p = NoPage THEN [e |-> e, c |-> Exhausted] ELSE Load(IndexStep(e, FetchNode(e.s, p)), p)

NewCursor(e) ==
  LET From(first) == LoadLeaf(IndexStep(e, first.s), first.leaf) IN From(FirstLeafPageId(e.s))

\* Next on a valid cursor.
CursorNext(e, c) ==
  IF c.pos + 1 >= Len(c.entries) THEN LoadLeaf(e, c.next)
  ELSE Materialize(e, [c EXCEPT !.pos = @ + 1])
=============================================================================
