--------------------------- MODULE BPlusTreeIndex ---------------------------
(***************************************************************************)
(* A B+ tree and the calls made on it, one at a time, as the engine does.  *)
(* A behaviour follows one of several plans: the tree is first filled with *)
(* some keys, inserted by the tree's own Insert, and then a number of      *)
(* calls with any of the plan's keys is made.                              *)
(***************************************************************************)
EXTENDS BPlusTreeView

CONSTANT
  Plans   \* bound: [load, insert, remove, get, rids, calls], the keys loaded in
          \* order, the keys and values of the calls, and how many are made

VARIABLES
  tree,    \* the session of the tree: see BPlusTree
  reply,   \* what the last call returned
  plan,    \* the plan followed
  todo,    \* keys still to load
  calls    \* number of calls made after that

vars == <<tree, reply, plan, todo, calls>>

EmptyTree ==
  [b |-> NewPool(OpenDisk(EmptyDisk)), root |-> NoPage, set |-> << >>,
   latched |-> {}, fault |-> ""]

Init ==
  /\ tree = EmptyTree
  /\ reply = [op |-> "none"]
  /\ plan \in Plans
  /\ todo = plan.load
  /\ calls = 0

InsertStep(k, rid) ==
  /\ Ok(tree)
  /\ tree' = Insert(tree, k, rid)
  /\ reply' = [op |-> "insert", key |-> k, ok |-> Inserts(tree, k)]

Load ==
  /\ todo # << >>
  /\ \E rid \in plan.rids : InsertStep(Head(todo), rid)
  /\ todo' = Tail(todo)
  /\ UNCHANGED <<plan, calls>>

Call ==
  /\ Ok(tree) /\ todo = << >>
  /\ calls < plan.calls /\ calls' = calls + 1
  /\ UNCHANGED <<plan, todo>>

CallInsert(k, rid) ==
  /\ Call
  /\ InsertStep(k, rid)

\* Remove throws on an empty tree and reports nothing otherwise.
CallRemove(k) ==
  /\ Call
  /\ tree' = Remove(tree, k)
  /\ reply' = [op |-> "remove", key |-> k]

CallGetValue(k) ==
  /\ Call
  /\ tree' = GetValue(tree, k)
  /\ reply' = [op |-> "get", key |-> k, found |-> Found(tree, k)]

Next ==
  \/ Load
  \/ \E k \in plan.insert, rid \in plan.rids : CallInsert(k, rid)
  \/ \E k \in plan.remove : CallRemove(k)
  \/ \E k \in plan.get : CallGetValue(k)

Spec == Init /\ [][Next]_vars

-----------------------------------------------------------------------------
PageOf(p) == PageIn(tree.b, p)
Nodes == NodesOf(tree)
TreeMap == EntriesOf(tree)

\* The keys of page x ascend and lie between the separators around x in its
\* parent.
KeysInRange(x) ==
  LET n == x.node
  IN  \A i \in 1..GetSize(n) :
        (IsLeaf(n) \/ i > 1) =>
          /\ x.lo <= n.items[i].key /\ n.items[i].key < x.hi
          /\ i < GetSize(n) => n.items[i].key < n.items[i + 1].key

\* Splits, merges and borrows keep the separators right, which searches follow,
\* the parent pointers, which they climb by themselves, every page but the root
\* between its least and greatest size, and the leaves at one depth.
ShapeKept ==
  LET N == Nodes
  IN  /\ \A x \in N :
           LET n == x.node
           IN  /\ n.kind # "none" /\ n.id = x.id
               /\ KeysInRange(x)
               /\ x.id = tree.root <=> IsRoot(n)
               /\ GetSize(n) <= MaxSize(n)
               /\ x.id # tree.root => GetSize(n) >= MinSize(n)
               /\ ~IsLeaf(n) =>
                    \A i \in 1..GetSize(n) : PageOf(n.items[i].child).parent = x.id
      /\ \A x, y \in LeavesOf(N) : x.depth = y.depth

\* A scan along next_page_id_ from the leftmost leaf meets every leaf in key
\* order: a leaf points at the leaf whose range starts where its own ends.
ChainComplete ==
  LET L == LeavesOf(Nodes)
  IN  /\ \A x \in L :
           IF x.hi = TopKey THEN x.node.next = NoPage
           ELSE \E y \in L : y.lo = x.hi /\ y.id = x.node.next
      /\ Ok(tree) => LET first == FirstLeafPageId(tree).leaf
                     IN  IF L = {} THEN first = NoPage
                         ELSE \E x \in L : x.id = first /\ x.lo = 0


AllKeys == UNION {p.insert \cup p.remove \cup p.get \cup {p.load[i] : i \in DOMAIN p.load} : p \in Plans}
AllRids == UNION {p.rids : p \in Plans}
Map == INSTANCE OrderedMap WITH map <- TreeMap, Keys <- AllKeys, Rids <- AllRids

\* Whatever the tree does to its pages, its calls are those of a map.
ImplementsMap == [][Map!Next]_<<TreeMap, reply>>
=============================================================================
