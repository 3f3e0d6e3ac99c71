--------------------------- MODULE BPlusTreePages ---------------------------
(***************************************************************************)
(* src/Storage/Page: the two kinds of page a B+ tree is made of, as records*)
(* with the header's fields and array_ up to size_ as a sequence.          *)
(* array_[i] of the code is entry i + 1 here; the indices passed around    *)
(* are the code's.  A leaf entry is [key, rid]; an inner entry is          *)
(* [key, child], and the key of the first one is never used for searching  *)
(* (NoKey stands for the zero bytes of a fresh page).                      *)
(***************************************************************************)
EXTENDS Integers, Sequences
LOCAL INSTANCE SequencesExt
LOCAL INSTANCE FiniteSetsExt

CONSTANTS
  LeafMaxSize,       \* leaf_max_size_
  InternalMaxSize    \* internal_max_size_

NoKey == 0
NoPage == -1

\* Init of a page just created.
LeafPage(id, parent) ==
  [kind |-> "leaf", id |-> id, parent |-> parent, next |-> NoPage, items |-> << >>]
InternalPage(id, parent) ==
  [kind |-> "internal", id |-> id, parent |-> parent, items |-> << >>]

IsLeaf(n) == n.kind = "leaf"
IsRoot(n) == n.parent = NoPage
GetSize(n) == Len(n.items)

MinSize(n) == IF IsLeaf(n) THEN LeafMaxSize \div 2 ELSE (InternalMaxSize + 1) \div 2
MaxSize(n) == IF IsLeaf(n) THEN LeafMaxSize - 1 ELSE InternalMaxSize

FitOne(n, m) ==
  GetSize(n) + GetSize(m) <= IF IsLeaf(n) THEN LeafMaxSize - 1 ELSE InternalMaxSize

\* Whether the operation cannot reach the parent of n.
IsSafe(n, op) ==
  CASE op = "insert" -> GetSize(n) < MaxSize(n)
    [] op = "remove" -> IF IsRoot(n) THEN IsLeaf(n) \/ GetSize(n) > 2
                        ELSE GetSize(n) > MinSize(n)

-----------------------------------------------------------------------------
\* Leaf pages.

\* KeyIndex: lower_bound, the number of keys below k in a sorted array.
KeyIndex(n, k) == Len(SelectSeq(n.items, LAMBDA e : e.key < k))

LeafHas(n, k) ==
  LET i == KeyIndex(n, k) IN i < GetSize(n) /\ n.items[i + 1].key = k

LeafLookup(n, k) == n.items[KeyIndex(n, k) + 1].rid

LeafInsert(n, k, rid) ==
  [n EXCEPT !.items = InsertAt(@, KeyIndex(n, k) + 1, [key |-> k, rid |-> rid])]

RemoveAndDeleteRecord(n, k) ==
  IF LeafHas(n, k) THEN [n EXCEPT !.items = RemoveAt(@, KeyIndex(n, k) + 1)] ELSE n

\* MoveHalfTo and the rest of Split: the first half, rounded up, stays in the
\* page and the others go to the new page q, which follows it in the chain.
MovedHalf(n) == SubSeq(n.items, (GetSize(n) + 1) \div 2 + 1, GetSize(n))

KeptHalf(n, q) ==
  LET m == [n EXCEPT !.items = SubSeq(@, 1, (Len(@) + 1) \div 2)]
  IN  IF IsLeaf(n) THEN [m EXCEPT !.next = q] ELSE m

SplitOff(n, q) ==
  IF IsLeaf(n) THEN [LeafPage(q, n.parent) EXCEPT !.items = MovedHalf(n), !.next = n.next]
  ELSE [InternalPage(q, n.parent) EXCEPT !.items = MovedHalf(n)]

\* A faulty variant: the chain still leads to the page merged.
AbsorbMutant(n, m, entries) == [n EXCEPT !.items = @ \o entries]

\* MoveAllTo: page n takes the entries of its right neighbour m and, a leaf,
\* its place in the chain.
Absorb(n, m, entries) ==
  IF IsLeaf(n) THEN [n EXCEPT !.items = @ \o entries, !.next = m.next]
  ELSE [n EXCEPT !.items = @ \o entries]

-----------------------------------------------------------------------------
\* Inner pages.

\* ValueIndex: the first entry pointing at the page, -1 if there is none.
ValueIndex(n, p) == SelectInSeq(n.items, LAMBDA e : e.child = p) - 1
KeyAt(n, i) == n.items[i + 1].key
ValueAt(n, i) == n.items[i + 1].child
\* A faulty variant: the separator is not written.
SetKeyAtMutant(n, i, k) == n

SetKeyAt(n, i, k) == [n EXCEPT !.items[i + 1].key = k]

\* Lookup: the child before the first key above k, from the second key on.
Lookup(n, k) ==
  LET above == {i \in 2..GetSize(n) : k < n.items[i].key}
      i == IF above = {} THEN GetSize(n) + 1 ELSE Min(above)
  IN  n.items[i - 1].child

PopulateNewRoot(n, old, k, new) ==
  [n EXCEPT !.items = IF old <= new
     THEN << [key |-> NoKey, child |-> old], [key |-> k, child |-> new] >>
     ELSE << [key |-> NoKey, child |-> new], [key |-> k, child |-> old] >>]

InsertNodeAfter(n, old, k, new) ==
  [n EXCEPT !.items = InsertAt(@, ValueIndex(n, old) + 2, [key |-> k, child |-> new])]

RemoveEntry(n, i) == [n EXCEPT !.items = RemoveAt(@, i + 1)]

\* MoveAllTo of an inner page: the separator from the parent becomes the key
\* of the first entry moved.
MovedAll(n, middle) == [n.items EXCEPT ![1].key = middle]

\* A faulty variant: the last child is taken instead of the first.
EntryFromRightMutant(n, middle) == [key |-> middle, child |-> n.items[GetSize(n)].child]

\* MoveFirstToEndOf: the recipient gets the first child under the separator.
EntryFromRight(n, middle) == [key |-> middle, child |-> n.items[1].child]

\* MoveLastToFrontOf: the recipient's entries move up by two places, the
\* separator becomes the key of the old first one, the moved entry is put in
\* second place and the pointer of the first is invalidated; the size grows
\* by one, so the last of the old entries is left outside the page.
TakeLastFromLeft(n, entry, middle) ==
  LET old == n.items
      wide == << [key |-> KeyAt(n, 0), child |-> NoPage], entry >>
                 \o [old EXCEPT ![1].key = middle]
  IN  [n EXCEPT !.items = SubSeq(wide, 1, Len(old) + 1)]
=============================================================================
