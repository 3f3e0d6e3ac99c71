----------------------------- MODULE PageStore -----------------------------
(***************************************************************************)
(* What the buffer pool promises its clients: a store of pages in which a  *)
(* page holds what was last written to it.  Nothing in it says which pages *)
(* are in memory, which are dirty or when the file is written.             *)
(***************************************************************************)


CONSTANTS PageIds, PageData, Zero

VARIABLE content   \* the pages that exist, and what each holds

Init == content = << >>

\* A new page is none of the pages that exist, and holds zeros.
Create ==
  \E p \in PageIds \ DOMAIN content :
    content' = [q \in DOMAIN content \cup {p} |-> IF q = p THEN Zero ELSE content[q]]

Write ==
  \E p \in DOMAIN content, v \in PageData : content' = [content EXCEPT ![p] = v]

Delete ==
  \E p \in DOMAIN content : content' = [q \in DOMAIN content \ {p} |-> content[q]]

Next == Create \/ Write \/ Delete

Spec == Init /\ [][Next]_content
=============================================================================
