---------------------------- MODULE MCBPlusTree ----------------------------
(***************************************************************************)
(* Instances of BPlusTreeIndex for TLC.                                    *)
(***************************************************************************)
EXTENDS BPlusTreeIndex

\* The contents of a page of zeros: no tree page, and no entries.
ZeroPage == [kind |-> "none", id |-> 0, parent |-> 0, next |-> 0, items |-> << >>]

Plan(keys, inserted, removed, read, values, number) ==
  [load |-> keys, insert |-> inserted, remove |-> removed, get |-> read,
   rids |-> values, calls |-> number]

\* Insertions around three keys in every order, up to three levels.
Growing == Plan(<< 2, 4, 6 >>, {1, 3, 5, 7, 8, 9}, {}, {}, {1}, 6)
\* Four leaves under two inner pages, removed from in every order.
Shrinking == Plan(<< 1, 2, 3, 4, 5, 6, 7, 8 >>, {}, 1..8, {}, {1}, 5)
\* Five leaves, the first and the fourth with a third entry.
Uneven == Plan(<< 1, 2, 4, 5, 6, 7, 8, 9, 11, 12, 3, 10 >>, {}, 1..12, {}, {1}, 2)
\* All calls on a small tree, the empty one included.
Mixing == Plan(<< >>, 1..4, 1..4, 1..4, {1, 2}, 6)

AllPlans == {Growing, Shrinking, Uneven, Mixing}

\* A tree that leans to the left.
EightDown == Plan(<< 8, 7, 6, 5, 4, 3, 2, 1 >>, {}, 1..8, {}, {1}, 7)
LeaningLeft == {EightDown}
=============================================================================
