--------------------------- MODULE KeyValueStore ---------------------------
(***************************************************************************)
(* What IStorageEngine promises: Insert adds a value unless the key has    *)
(* one, Get finds it, Remove takes it away, and closing, reopening and     *)
(* flushing change nothing.                                                *)
(***************************************************************************)
CONSTANTS Keys, Values,
  Fitting   \* the values the engine can store

VARIABLES
  map,    \* the values, by key
  reply   \* what the last call returned

Reply(op, k, result) == reply' = [op |-> op, key |-> k, result |-> result]

Insert(k, v) ==
  IF k \in DOMAIN map THEN Reply("insert", k, "exists") /\ map' = map
  ELSE IF v \notin Fitting THEN Reply("insert", k, "refused") /\ map' = map
  ELSE /\ Reply("insert", k, "done")
       /\ map' = [j \in DOMAIN map \cup {k} |-> IF j = k THEN v ELSE map[j]]

Get(k) ==
  /\ Reply("get", k, IF k \in DOMAIN map THEN {map[k]} ELSE {})
  /\ map' = map

Remove(k) ==
  /\ Reply("remove", k, IF k \in DOMAIN map THEN "done" ELSE "absent")
  /\ map' = [j \in DOMAIN map \ {k} |-> map[j]]

Next ==
  \/ \E k \in Keys, v \in Values : Insert(k, v)
  \/ \E k \in Keys : Get(k) \/ Remove(k)
=============================================================================
