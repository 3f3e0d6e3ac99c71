----------------------------- MODULE CommitLog -----------------------------
(***************************************************************************)
(* What the cloud path promises its clients, without epochs, CURRENT,      *)
(* manifests or retries: one log per table whose entries are appended in   *)
(* order, never change and carry each batch id at most once; a visible     *)
(* prefix of it that only grows; and answers that tell the truth about     *)
(* both, now and ever after.  An entry is a request, or None for a slot    *)
(* that carries no rows.                                                   *)
(***************************************************************************)
EXTENDS Integers

CONSTANTS Clients, Requests, None

VARIABLES
  log,       \* 1..n -> Requests \cup {None}
  visible,   \* every strict query sees the entries 1..visible
  answer     \* the last success each client was told of, or None

Ids(e) == IF e = None THEN {} ELSE e.ids

\* The entry e is appended behind the last one.
AppendEntry(e) ==
  \E n \in DOMAIN log \cup {0} :
    /\ DOMAIN log = 1..n
    /\ \A s \in 1..n : Ids(log[s]) \cap Ids(e) = {}
    /\ log' = [s \in 1..n + 1 |-> IF s = n + 1 THEN e ELSE log[s]]

\* Entries become visible in log order.
Publish == visible' >= visible /\ \A s \in 1..visible' : s \in DOMAIN log'

\* A durable entry is in the log, a committed one is visible too.
Truthful(a) ==
  /\ a.seq \in DOMAIN log
  /\ log[a.seq] = a.req
  /\ a.code = "Committed" => a.seq <= visible

Init ==
  /\ log = [s \in {} |-> None]
  /\ visible = 0
  /\ answer = [c \in Clients |-> None]

Next ==
  /\ log' = log \/ \E e \in Requests \cup {None} : AppendEntry(e)
  /\ Publish
  /\ \A c \in Clients : answer'[c] # None => Truthful(answer[c])'

Spec == Init /\ [][Next]_<<log, visible, answer>>
=============================================================================
