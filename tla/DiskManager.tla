---------------------------- MODULE DiskManager ----------------------------
(***************************************************************************)
(* src/Storage/Disk/DiskManager: the database file seen as an array of     *)
(* pages.  A disk is a record: "file" maps the ids of the pages written so *)
(* far to their contents, "size" is the length of the file in pages (a     *)
(* page never written below that length is a hole of zeros) and "next" is  *)
(* next_page_id_.                                                          *)
(*                                                                         *)
(* Offsets are ints: page_id * PAGE_SIZE wraps at 2^31 bytes, that is at   *)
(* IntPages = 2^31 / PAGE_SIZE = 131072 pages, and so does the file size   *)
(* that GetFileSize casts to int.  Both are kept in units of a page, which *)
(* loses nothing since PAGE_SIZE is a power of two.  A write of a whole    *)
(* page goes past the stream's buffer to the file, so the size that stat   *)
(* reports includes it.                                                    *)
(***************************************************************************)
EXTENDS Integers

CONSTANTS
  Zero,      \* the contents of a page of zero bytes
  IntPages   \* number of pages whose offset fits a non-negative int

ASSUME IntPagesAssumption == IntPages \in Nat \ {0}

INVALID_PAGE_ID == -1

EmptyDisk == [file |-> << >>, size |-> 0, next |-> 0]

\* The int that n pages' worth of bytes becomes.
Wrap(n) == ((n + IntPages) % (2 * IntPages)) - IntPages

GetFileSize(d) == Wrap(d.size)

AllocatePage(d) == [d EXCEPT !.next = @ + 1]

\* What ReadPage leaves in a buffer that held old: it throws before touching
\* the buffer when the offset is past the file, seeking to a negative offset
\* fails and reads nothing, and what is not read is zeroed.
ReadPage(d, p, old) ==
  LET offset == Wrap(p)
  IN  IF offset > GetFileSize(d) THEN old
      ELSE IF offset \in DOMAIN d.file THEN d.file[offset]
      ELSE Zero

\* WritePage computes its offset as a size_t, which does not wrap.
WritePage(d, p, data) ==
  [file |-> [q \in DOMAIN d.file \cup {p} |-> IF q = p THEN data ELSE d.file[q]],
   size |-> IF p < d.size THEN d.size ELSE p + 1,
   next |-> d.next]

\* The constructor on an existing file: allocation resumes past its end.
OpenDisk(d) ==
  [d EXCEPT !.next = IF GetFileSize(d) > 0 THEN GetFileSize(d) ELSE 0]
=============================================================================
