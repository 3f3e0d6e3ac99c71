----------------------------- MODULE TupleStore -----------------------------
(***************************************************************************)
(* src/Storage/TupleStore: values of variable length in slotted pages of   *)
(* the buffer pool.  A value is a sequence of bytes; a value page has the  *)
(* header (next, num_slots as the length of slots, free_ptr), the slot     *)
(* directory and the bytes of the data region.                             *)
(*                                                                         *)
(* An operation takes a pool b and the head of the page chain first, and   *)
(* gives [b, first, ok] with ok = FALSE when it threw or met a nullptr     *)
(* page it does not test for; the result of a call is an operator of its   *)
(* own, evaluated before the call.                                         *)
(***************************************************************************)
EXTENDS BufferPoolManager, TLC

CONSTANTS
  PageSize,      \* PAGE_SIZE
  HeaderSize,    \* sizeof(ValuePageHeader)
  SlotSize       \* sizeof(ValueSlot)

Tombstone == -1

ValuePage(next) ==
  [kind |-> "values", next |-> next, slots |-> << >>, free_ptr |-> PageSize,
   bytes |-> [i \in 0..(PageSize - 1) |-> 0]]

FreeSpace(n) == n.free_ptr - (HeaderSize + Len(n.slots) * SlotSize)
MaxValueSize == PageSize - HeaderSize - SlotSize

Ready(b, first) == [b |-> b, first |-> first, ok |-> TRUE]
Failed(b, first) == [b |-> b, first |-> first, ok |-> FALSE]

Data(b, p) == b.pages[b.table[p]].data
SetData(b, p, n) == [b EXCEPT !.pages[b.table[p]].data = n]

\* FindOrCreatePageWithSpace from page p on; the page found, pinned, is "page".
RECURSIVE FindPage(_, _, _, _)

\* Page p of the chain, fetched, if it has the space, or one after it.
TryPage(b, first, p, need) ==
  IF FreeSpace(Data(b, p)) >= need THEN [page |-> p] @@ Ready(b, first)
  ELSE FindPage(UnpinPage(b, p, FALSE), first, Data(b, p).next, need)

FindPage(b, first, p, need) ==
  LET new == NewPageId(b)
  IN  IF p = INVALID_PAGE_ID
      THEN IF HasFrame(b)
           THEN [page |-> new] @@ Ready(SetData(NewPage(b), new, ValuePage(first)), new)
           ELSE [page |-> p] @@ Failed(b, first)
      ELSE IF ~CanFetch(b, p) THEN [page |-> p] @@ Failed(b, first)
      ELSE TryPage(FetchPage(b, p), first, p, need)

\* memcpy of the value into the page's bytes at an offset.
Copy(bytes, offset, value) ==
  [i \in DOMAIN bytes |->
     IF i >= offset /\ i < offset + Len(value) THEN value[i - offset + 1] ELSE bytes[i]]

\* The value goes to the page found.
PutInto(r, value) ==
  LET n == Data(r.b, r.page)
      off == n.free_ptr - Len(value)
      n2 == [n EXCEPT !.bytes = Copy(@, off, value), !.free_ptr = off,
                      !.slots = Append(@, [offset |-> off, length |-> Len(value)])]
  IN  IF ~r.ok THEN Failed(r.b, r.first)
      ELSE Ready(UnpinPage(SetData(r.b, r.page, n2), r.page, TRUE), r.first)

Put(b, first, value) ==
  IF Len(value) > MaxValueSize THEN Failed(b, first)
  ELSE PutInto(FindPage(b, first, first, SlotSize + Len(value)), value)

\* The RID Put returns.
RidIn(r) == [page |-> r.page, slot |-> Len(Data(r.b, r.page).slots)]
PutRid(b, first, value) == RidIn(FindPage(b, first, first, SlotSize + Len(value)))

HasSlot(n, rid) == rid.slot < Len(n.slots) /\ n.slots[rid.slot + 1].length # Tombstone
SlotBytes(n, slot) == [i \in 1..slot.length |-> n.bytes[slot.offset + i - 1]]

Get(b, first, rid) ==
  IF CanFetch(b, rid.page) THEN Ready(UnpinPage(FetchPage(b, rid.page), rid.page, FALSE), first)
  ELSE Ready(b, first)

\* What Get finds: no value, or one.
ReadSlot(n, rid) == IF HasSlot(n, rid) THEN {SlotBytes(n, n.slots[rid.slot + 1])} ELSE {}
GetResult(b, rid) ==
  IF CanFetch(b, rid.page) THEN ReadSlot(Data(FetchPage(b, rid.page), rid.page), rid) ELSE {}

\* In the page fetched, the slot becomes a tombstone; it is never used again.
Erase(b, rid) ==
  LET n == Data(b, rid.page)
  IN  IF ~HasSlot(n, rid) THEN UnpinPage(b, rid.page, FALSE)
      ELSE UnpinPage(SetData(b, rid.page, [n EXCEPT !.slots[rid.slot + 1].length = Tombstone]),
                     rid.page, TRUE)

Delete(b, first, rid) ==
  Ready(IF CanFetch(b, rid.page) THEN Erase(FetchPage(b, rid.page), rid) ELSE b, first)
=============================================================================
