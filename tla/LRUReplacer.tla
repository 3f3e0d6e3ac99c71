---------------------------- MODULE LRUReplacer ----------------------------
(***************************************************************************)
(* src/Storage/BufferPool/LRUReplacer: the list unpinned_pages_ of frames  *)
(* that may be evicted, least recently unpinned first.  The list of pinned *)
(* frames is only ever written, so it is left out.                         *)
(***************************************************************************)
EXTENDS Integers, Sequences

CONSTANT SlotNum   \* number of frames, num_pages_ of the replacer

Listed(u, f) == \E i \in 1..Len(u) : u[i] = f

\* Victim takes the head of the list, when there is one.
Victim(u) == Head(u)
AfterVictim(u) == Tail(u)

\* Pin erases the frame from the list, if it is there.
Pin(u, f) ==
  IF ~Listed(u, f) THEN u
  ELSE LET i == CHOOSE j \in 1..Len(u) : u[j] = f
       IN  [j \in 1..(Len(u) - 1) |-> IF j < i THEN u[j] ELSE u[j + 1]]

\* Unpin appends the frame, unless it is listed or the list is full.
Unpin(u, f) ==
  IF Listed(u, f) \/ Len(u) >= SlotNum THEN u ELSE Append(u, f)
=============================================================================
