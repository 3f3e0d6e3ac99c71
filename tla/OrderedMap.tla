----------------------------- MODULE OrderedMap -----------------------------
(***************************************************************************)
(* What an index of unique keys promises: Insert adds an entry unless the  *)
(* key has one, Remove takes the key's entry away, GetValue finds it.      *)
(***************************************************************************)
CONSTANTS Keys, Rids

VARIABLES
  map,    \* the entries, from key to RID
  reply   \* what the last call returned

Init == map = << >> /\ reply = [op |-> "none"]

Insert(k, rid) ==
  IF k \in DOMAIN map
  THEN map' = map /\ reply' = [op |-> "insert", key |-> k, ok |-> FALSE]
  ELSE /\ map' = [j \in DOMAIN map \cup {k} |-> IF j = k THEN rid ELSE map[j]]
       /\ reply' = [op |-> "insert", key |-> k, ok |-> TRUE]

Remove(k) ==
  /\ map' = [j \in DOMAIN map \ {k} |-> map[j]]
  /\ reply' = [op |-> "remove", key |-> k]

GetValue(k) ==
  /\ reply' = [op |-> "get", key |-> k,
               found |-> IF k \in DOMAIN map THEN {map[k]} ELSE {}]
  /\ map' = map

Next ==
  \/ \E k \in Keys, rid \in Rids : Insert(k, rid)
  \/ \E k \in Keys : Remove(k) \/ GetValue(k)

Spec == Init /\ [][Next]_<<map, reply>>
=============================================================================
