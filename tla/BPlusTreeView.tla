--------------------------- MODULE BPlusTreeView ---------------------------
(***************************************************************************)
(* What a B+ tree holds, read off its pages in the pool and in the file    *)
(* without disturbing either: for stating properties, not a model of code. *)
(***************************************************************************)
EXTENDS BPlusTree

\* Every key lies between 1 and TopKey.
TopKey == 1000

PageIn(b, p) ==
  IF InPool(b, p) THEN b.pages[b.table[p]].data ELSE ReadPage(b.disk, p, Zero)

\* Every page of the tree from p down, with its depth, the least key its range
\* may hold and the key above its range.
RECURSIVE Below(_, _, _, _, _)
Below(b, p, depth, lo, hi) ==
  LET n == PageIn(b, p)
      size == GetSize(n)
      Lo(i) == IF i = 1 THEN lo ELSE n.items[i].key
      Hi(i) == IF i = size THEN hi ELSE n.items[i + 1].key
  IN  {[id |-> p, depth |-> depth, lo |-> lo, hi |-> hi, node |-> n]} \cup
      IF n.kind = "internal"
      THEN UNION {Below(b, n.items[i].child, depth + 1, Lo(i), Hi(i)) : i \in 1..size}
      ELSE {}

NodesOf(s) == IF s.root = NoPage THEN {} ELSE Below(s.b, s.root, 0, 0, TopKey)
LeavesOf(N) == {x \in N : x.node.kind = "leaf"}

\* The map from keys to RIDs.
EntriesOf(s) ==
  LET E == UNION {{x.node.items[i] : i \in 1..GetSize(x.node)} : x \in LeavesOf(NodesOf(s))}
  IN  [k \in {e.key : e \in E} |-> (CHOOSE e \in E : e.key = k).rid]
=============================================================================
