----------------------------- MODULE BPlusTree -----------------------------
(***************************************************************************)
(* src/Container/BPlusTree on the buffer pool, used by one thread: each    *)
(* call of Insert, Remove or GetValue is one step, made of the calls of the*)
(* buffer pool and the page latches in the order of the code.              *)
(*                                                                         *)
(* A call works on a session s:                                            *)
(*   b        the buffer pool                                              *)
(*   root     root_page_id_                                                *)
(*   set      the transaction's page set: the frames latched on the way    *)
(*   latched  the frames whose write latch is held                         *)
(*   fault    why the call did not finish: "null" a nullptr page was used  *)
(*            or reported, "deadlock" it waits for a latch it holds itself,*)
(*            "garbage" it searched a page that is no tree page, "stuck"   *)
(*            the runtime_error that "shouldn't happen"; "" if it did      *)
(* A pointer to a node is the frame it points into.  A read latch cannot   *)
(* block a single thread and is left out.  CoalesceOrRedistribute returns  *)
(* false on every path, so neither it nor Coalesce has a result here and   *)
(* the deletions that depend on it (lines 328, 392 and 416) never happen.  *)
(***************************************************************************)
EXTENDS BufferPoolManager, BPlusTreePages
Seqs == INSTANCE SequencesExt

Ok(s) == s.fault = ""
Fault(s, why) == [s EXCEPT !.fault = why]

\* The node that a pointer points at, and a store through it.
Node(s, f) == s.b.pages[f].data
SetNode(s, f, n) == [s EXCEPT !.b.pages[f].data = n]
FrameOf(s, p) == s.b.table[p]

FetchNode(s, p) ==
  IF ~Ok(s) THEN s
  ELSE IF CanFetch(s.b, p) THEN [s EXCEPT !.b = FetchPage(s.b, p)] ELSE Fault(s, "null")
UnpinNode(s, p, dirty) == IF Ok(s) THEN [s EXCEPT !.b = UnpinPage(s.b, p, dirty)] ELSE s
DeleteNode(s, p) == IF Ok(s) THEN [s EXCEPT !.b = DeletePage(s.b, p)] ELSE s
NewNode(s) ==
  IF ~Ok(s) THEN s
  ELSE IF HasFrame(s.b) THEN [s EXCEPT !.b = NewPage(s.b)] ELSE Fault(s, "null")

WLatch(s, f) ==
  IF ~Ok(s) THEN s
  ELSE IF f \in s.latched THEN Fault(s, "deadlock")
  ELSE [s EXCEPT !.latched = @ \cup {f}]
WUnlatch(s, f) == IF Ok(s) THEN [s EXCEPT !.latched = @ \ {f}] ELSE s


\* UnlatchAndUnpin: the page to unpin is the one the frame holds by now.
UnlatchAndUnpin(s, op) ==
  IF ~Ok(s) THEN s
  ELSE [Seqs!FoldLeft(LAMBDA r, f : UnpinNode(WUnlatch(r, f), r.b.pages[f].id, op # "read"),
                 s, s.set) EXCEPT !.set = << >>]

-----------------------------------------------------------------------------
\* FindLeafPageRW from page p down.  The leaf is the last frame of the set.
RECURSIVE FindLeaf(_, _, _, _)

\* A page is latched and, where the operation cannot reach above it, what was
\* kept of the way is given up.
Enter(s, f, op) ==
  LET Release(r) == IF op = "read" \/ IsSafe(Node(s, f), op) THEN UnlatchAndUnpin(r, op) ELSE r
  IN  Release(IF op = "read" THEN s ELSE WLatch(s, f))

Onward(s, f, k, op) ==
  LET s1 == [s EXCEPT !.set = Append(@, f)]
  IN  IF ~Ok(s) THEN s
      ELSE IF IsLeaf(Node(s, f)) THEN s1
      ELSE FindLeaf(s1, Lookup(Node(s, f), k), k, op)

Descend(s, f, k, op) ==
  IF Node(s, f).kind = "none" THEN Fault(s, "garbage")
  ELSE Onward(Enter(s, f, op), f, k, op)

\* The operator Op on a session and the frame of its page p, once p is fetched.
Fetched(s, p, Op(_, _)) == IF Ok(s) THEN Op(s, FrameOf(s, p)) ELSE s

FindLeaf(s, p, k, op) == Fetched(FetchNode(s, p), p, LAMBDA r, f : Descend(r, f, k, op))

\* UpdateParentPageId for a page, and for the children of the entries in turn.
SetParent(s, p, f, parent) ==
  UnpinNode(SetNode(s, f, [Node(s, f) EXCEPT !.parent = parent]), p, TRUE)

UpdateParentPageId(s, p, parent) ==
  Fetched(FetchNode(s, p), p, LAMBDA r, f : SetParent(r, p, f, parent))

Adopt(s, entries, parent) ==
  Seqs!FoldLeft(LAMBDA r, e : UpdateParentPageId(r, e.child, parent), s, entries)

-----------------------------------------------------------------------------
\* GetValue: the session after it, and what it found.
GetValue(s, k) ==
  IF s.root = NoPage THEN s ELSE UnlatchAndUnpin(FindLeaf(s, s.root, k, "read"), "read")

\* The leaf a search has led to.
Leaf(s) == Node(s, Seqs!Last(s.set))

FoundIn(s, k) == IF Ok(s) /\ LeafHas(Leaf(s), k) THEN {LeafLookup(Leaf(s), k)} ELSE {}
Found(s, k) == IF s.root = NoPage THEN {} ELSE FoundIn(FindLeaf(s, s.root, k, "read"), k)

\* The first leaf, page p just made in frame f.
FirstLeaf(s, p, f, k, rid) ==
  UnpinNode([SetNode(s, f, LeafInsert(LeafPage(p, NoPage), k, rid)) EXCEPT !.root = p], p, TRUE)

StartNewTree(s, k, rid) ==
  LET p == NewPageId(s.b)
  IN  Fetched(NewNode(s), p, LAMBDA r, f : FirstLeaf(r, p, f, k, rid))

\* Split the page in frame f: the new page q in frame g, pinned, gets the second half.
Halve(s, f, q, g) ==
  LET n == Node(s, f)
      Adopted(r) == IF IsLeaf(n) THEN r ELSE Adopt(r, MovedHalf(n), q)
  IN  Adopted(SetNode(SetNode(s, g, SplitOff(n, q)), f, KeptHalf(n, q)))

Split(s, f) ==
  LET q == NewPageId(s.b) IN Fetched(NewNode(s), q, LAMBDA r, g : Halve(r, f, q, g))

\* InsertIntoParent for the pages in frames f and g, g new with least key k.
RECURSIVE InsertIntoParent(_, _, _, _)

\* A page grown over its size is split, the new page entered in its parent and
\* unpinned.
Enlist(s, f, q, g) == UnpinNode(InsertIntoParent(s, f, Node(s, g).items[1].key, g), q, TRUE)

SplitIfFull(s, f) ==
  LET q == NewPageId(s.b)
  IN  IF GetSize(Node(s, f)) = MaxSize(Node(s, f)) + 1
      THEN Fetched(Split(s, f), q, LAMBDA r, g : Enlist(r, f, q, g))
      ELSE s

\* A new root above the two, page r in frame rf.
Crown(s, r, rf, f, k, g) ==
  LET old == Node(s, f)
      new == Node(s, g)
      root == PopulateNewRoot(InternalPage(r, NoPage), old.id, k, new.id)
      s1 == SetNode([s EXCEPT !.root = r], rf, root)
      s2 == SetNode(SetNode(s1, f, [old EXCEPT !.parent = r]), g, [new EXCEPT !.parent = r])
  IN  UnpinNode(s2, r, TRUE)

\* A new entry in the parent, page p in frame pf.
AddEntry(s, p, pf, f, k, g) ==
  LET s1 == SetNode(s, pf, InsertNodeAfter(Node(s, pf), Node(s, f).id, k, Node(s, g).id))
  IN  UnpinNode(SplitIfFull(s1, pf), p, TRUE)

InsertIntoParent(s, f, k, g) ==
  LET p == Node(s, f).parent
      r == NewPageId(s.b)
  IN  IF ~Ok(s) THEN s
      ELSE IF p = NoPage THEN Fetched(NewNode(s), r, LAMBDA t, rf : Crown(t, r, rf, f, k, g))
      ELSE Fetched(FetchNode(s, p), p, LAMBDA t, pf : AddEntry(t, p, pf, f, k, g))

\* InsertIntoLeaf, once the leaf is found.
InsertIntoLeaf(s, k, rid) ==
  LET f == Seqs!Last(s.set)
      After(r) == UnlatchAndUnpin(r, "insert")
  IN  IF ~Ok(s) THEN s
      ELSE After(IF LeafHas(Leaf(s), k) THEN s
                 ELSE SplitIfFull(SetNode(s, f, LeafInsert(Leaf(s), k, rid)), f))

\* The session after Insert, and whether it inserted.
Insert(s, k, rid) ==
  IF s.root = NoPage THEN StartNewTree(s, k, rid)
  ELSE InsertIntoLeaf(FindLeaf(s, s.root, k, "insert"), k, rid)

Lands(s, k) == Ok(s) /\ ~LeafHas(Leaf(s), k)
Inserts(s, k) == s.root = NoPage \/ Lands(FindLeaf(s, s.root, k, "insert"), k)

-----------------------------------------------------------------------------
\* AdjustRoot for a root of at most one entry in frame f, with the unpinning
\* and deletion of the old root by its caller: the only child becomes the root,
\* or the tree is empty.
AdjustRoot(s, f) ==
  LET n == Node(s, f)
      c == ValueAt(n, 0)
      Discard(r) == DeleteNode(UnpinNode(r, n.id, TRUE), n.id)
      Emptied(root) == SetNode([s EXCEPT !.root = root], f, [n EXCEPT !.items = << >>])
  IN  IF ~IsLeaf(n) /\ GetSize(n) = 1 THEN Discard(UpdateParentPageId(Emptied(c), c, NoPage))
      ELSE IF IsLeaf(n) /\ GetSize(n) = 0 THEN Discard([s EXCEPT !.root = NoPage])
      ELSE s

\* One entry moves from the sibling in frame h, the right one or the left one,
\* to the page in frame f; middle is the separator between them.
MoveEntry(s, h, f, right, middle) ==
  LET n == Node(s, f)
      sib == Node(s, h)
      entry == IF right THEN sib.items[1] ELSE Seqs!Last(sib.items)
      shorter == [sib EXCEPT !.items = IF right THEN Tail(@) ELSE Seqs!Front(@)]
      longer == IF IsLeaf(n)
                THEN [n EXCEPT !.items = IF right THEN Append(@, entry) ELSE <<entry>> \o @]
                ELSE IF right
                THEN [n EXCEPT !.items = Append(@, EntryFromRight(sib, middle))]
                ELSE TakeLastFromLeft(n, entry, middle)
      Adopted(r) == IF IsLeaf(n) THEN r ELSE Adopt(r, <<entry>>, n.id)
  IN  Adopted(SetNode(SetNode(s, f, longer), h, shorter))

\* The separator i of the parent becomes the first key of the page in frame g.
Separate(s, pf, i, g) ==
  IF Ok(s) THEN SetNode(s, pf, SetKeyAt(Node(s, pf), i, KeyAt(Node(s, g), 0))) ELSE s

\* Redistribute.  The pin that its FetchPage takes on the parent stays.
Borrow(s, pf, h, f, right) ==
  LET g == IF right THEN h ELSE f
      i == ValueIndex(Node(s, pf), Node(s, g).id)
  IN  Separate(MoveEntry(s, h, f, right, KeyAt(Node(s, pf), i)), pf, i, g)

Redistribute(s, h, f, right) ==
  LET p == Node(s, f).parent
  IN  Fetched(FetchNode(s, p), p, LAMBDA r, pf : Borrow(r, pf, h, f, right))

RECURSIVE CoalesceOrRedistribute(_, _)

Underflow(s, f) ==
  IF GetSize(Node(s, f)) < MinSize(Node(s, f)) THEN CoalesceOrRedistribute(s, f) ELSE s

\* Entry i leaves the parent, which may be underfull in turn.
DropEntry(s, pf, i) ==
  IF Ok(s) THEN Underflow(SetNode(s, pf, RemoveEntry(Node(s, pf), i)), pf) ELSE s

\* Coalesce: the page in frame f is merged into its left neighbour in frame h
\* and deleted, its entry i of the parent in frame pf removed.
Coalesce(s, h, f, pf, i) ==
  LET n == Node(s, f)
      nb == Node(s, h)
      moved == IF IsLeaf(n) THEN n.items ELSE MovedAll(n, KeyAt(Node(s, pf), i))
      Adopted(r) == IF IsLeaf(n) THEN r ELSE Adopt(r, moved, nb.id)
      merged == SetNode(SetNode(s, h, Absorb(nb, n, moved)), f, [n EXCEPT !.items = << >>])
  IN  DropEntry(DeleteNode(UnpinNode(Adopted(merged), n.id, TRUE), n.id), pf, i)

\* CoalesceOrRedistribute tries in turn: merge into the left sibling, merge
\* the right sibling, borrow from the left, borrow from the right.  A sibling
\* is fetched and latched for each attempt and unlatched and unpinned after.
Attempts ==
  << [merge |-> TRUE, side |-> -1], [merge |-> TRUE, side |-> 1],
     [merge |-> FALSE, side |-> -1], [merge |-> FALSE, side |-> 1] >>

Decided(s) == [s |-> s, done |-> TRUE]
Undecided(s) == [s |-> s, done |-> FALSE]

UnpinBoth(s, p, q) == UnpinNode(UnpinNode(s, p, TRUE), q, TRUE)

\* The page in frame f is child i of the parent, page p; the sibling is page q in
\* frame g, to its left or to its right.
Merge(s, f, p, i, q, g, left) ==
  LET merged == Coalesce(s, IF left THEN g ELSE f, IF left THEN f ELSE g, FrameOf(s, p),
                         IF left THEN i ELSE i + 1)
  IN  UnpinBoth(WUnlatch(merged, g), p, IF left THEN q ELSE Node(s, f).id)

BorrowFrom(s, f, p, q, g, left) ==
  LET borrowed == WUnlatch(Redistribute(s, g, f, ~left), g)
  IN  UnpinBoth(UnpinNode(borrowed, p, TRUE), Node(s, f).id, q)

Try(s, f, p, i, q, g, a) ==
  LET sib == Node(s, g)
  IN  IF ~Ok(s) THEN Decided(s)
      ELSE IF a.merge /\ FitOne(sib, Node(s, f)) THEN Decided(Merge(s, f, p, i, q, g, a.side < 0))
      ELSE IF ~a.merge /\ GetSize(sib) > MinSize(sib)
      THEN Decided(BorrowFrom(s, f, p, q, g, a.side < 0))
      ELSE Undecided(UnpinNode(WUnlatch(s, g), q, FALSE))

\* An attempt with the sibling, if there is one.
Attempt(s, f, p, i, a) ==
  LET par == Node(s, FrameOf(s, p))
      q == ValueAt(par, i + a.side)
      With(r) == IF Ok(r) THEN Try(WLatch(r, FrameOf(r, q)), f, p, i, q, FrameOf(r, q), a)
                 ELSE Decided(r)
  IN  IF i + a.side \in 0..(GetSize(par) - 1) THEN With(FetchNode(s, q)) ELSE Undecided(s)

\* The attempts one after the other, until one succeeds.
Rebalance(s, f, p, i) ==
  LET tried[j \in 0..Len(Attempts)] ==
        IF j = 0 THEN Undecided(s)
        ELSE LET so == tried[j - 1]
             IN  IF so.done THEN so ELSE Attempt(so.s, f, p, i, Attempts[j])
      Outcome(r) == IF r.done THEN r.s ELSE Fault(r.s, "stuck")
  IN  Outcome(tried[Len(Attempts)])

CoalesceOrRedistribute(s, f) ==
  LET n == Node(s, f)
  IN  IF IsRoot(n) THEN IF GetSize(n) <= 1 THEN AdjustRoot(s, f) ELSE s
      ELSE Fetched(FetchNode(s, n.parent), n.parent,
                   LAMBDA r, pf : Rebalance(r, f, n.parent, ValueIndex(Node(r, pf), n.id)))

\* Remove, once the leaf is found.  On an empty tree it throws before it changes
\* anything.
RemoveFromLeaf(s, k) ==
  LET f == Seqs!Last(s.set)
  IN  IF ~Ok(s) THEN s
      ELSE UnlatchAndUnpin(Underflow(SetNode(s, f, RemoveAndDeleteRecord(Leaf(s), k)), f), "remove")

Remove(s, k) ==
  IF s.root = NoPage THEN s ELSE RemoveFromLeaf(FindLeaf(s, s.root, k, "remove"), k)

\* FirstLeafPageId from page p down: the session after it, and its result.
RECURSIVE FindFirst(_, _)
LeftOf(s, p) ==
  LET n == Node(s, FrameOf(s, p))
  IN  IF ~Ok(s) THEN [s |-> s, leaf |-> NoPage]
      ELSE IF n.kind = "none" THEN [s |-> Fault(s, "garbage"), leaf |-> NoPage]
      ELSE IF IsLeaf(n) THEN [s |-> UnpinNode(s, p, FALSE), leaf |-> p]
      ELSE FindFirst(UnpinNode(s, p, FALSE), ValueAt(n, 0))
FindFirst(s, p) == LeftOf(FetchNode(s, p), p)
FirstLeafPageId(s) ==
  IF s.root = NoPage THEN [s |-> s, leaf |-> NoPage] ELSE FindFirst(s, s.root)
=============================================================================
