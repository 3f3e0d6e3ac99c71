------------------------------- MODULE MiniKV -------------------------------
(***************************************************************************)
(* src/Core/MiniKV: the key-value store a program uses, one call at a time,*)
(* with its file: the calls of the engine, closing and opening again, a    *)
(* crash of the process at any point between two calls, and ordered scans  *)
(* during which keys are inserted.  Keys are integers or doubles; callers  *)
(* encode them (encode_key), and the index sees the bytes as a number.     *)
(*                                                                         *)
(* A process that crashes leaves the file as the pool has written it so    *)
(* far.  The engine has no log: what was changed since the last Flush may  *)
(* be lost or half there, and nothing is stated about it.  So it is with   *)
(* what was changed after Close, which no later call or destructor flushes.*)
(***************************************************************************)
EXTENDS BPlusTreeEngine, KeyCodec

CONSTANT
  Uses      \* bound: programs, each [type, keys, values, calls]: the type of its
            \* keys, the keys and values (sequences of bytes) it uses, and how
            \* many calls it makes

VARIABLES
  use,       \* the program
  engine,    \* engine_, with the pool and the disk below it
  closed,    \* closed_
  pending,   \* whether a call changed the store since the last Flush
  lost,      \* whether changes were pending when the process ended
  scan,      \* a cursor, what it has returned and what the store held at its start
  reply,     \* what the last call returned
  calls      \* number of calls made

vars == <<use, engine, closed, pending, lost, scan, reply, calls>>

OpenDb(disk) ==
  LET b == NewPool(OpenDisk(disk))
  IN  IF b.disk.next = 0 THEN CreateEngine(b) ELSE OpenEngine(b)

\* What the index sees of a key.
KeyOf(k) == KeyNumber(Encode(use.type, k))

\* The store as a map.
ValueOf(rid) ==
  LET n == PageIn(engine.s.b, rid.page)
  IN  IF n.kind = "values" /\ HasSlot(n, rid) THEN SlotBytes(n, n.slots[rid.slot + 1]) ELSE "none"
KvMap ==
  LET E == EntriesOf(engine.s)
  IN  [k \in {j \in use.keys : KeyOf(j) \in DOMAIN E} |-> ValueOf(E[KeyOf(k)])]

NoScan == [on |-> FALSE, c |-> Exhausted, seen |-> << >>, base |-> << >>]

Init ==
  /\ use \in Uses
  /\ engine = OpenDb(EmptyDisk)
  /\ closed = FALSE
  /\ pending = FALSE
  /\ lost = FALSE
  /\ scan = NoScan
  /\ reply = [op |-> "none"]
  /\ calls = 0

Call ==
  /\ ~lost /\ Ok(engine.s)
  /\ calls < use.calls /\ calls' = calls + 1
  /\ UNCHANGED use

Returns(op, k, result) == reply' = [op |-> op, key |-> k, result |-> result]

InsertKey(k, v) ==
  /\ Call
  /\ engine' = EngineInsert(engine, KeyOf(k), v)
  /\ Returns("insert", k, InsertResult(engine, KeyOf(k), engine'))
  /\ pending' = (pending \/ reply'.result = "done")
  /\ UNCHANGED <<closed, lost, scan>>

GetKey(k) ==
  /\ Call
  /\ engine' = EngineGet(engine, KeyOf(k))
  /\ Returns("get", k, GetValues(engine, KeyOf(k)))
  /\ UNCHANGED <<closed, pending, lost, scan>>

\* A cursor does not survive a removal: the leaf it goes to next may be gone.
RemoveKey(k) ==
  /\ Call
  /\ engine' = EngineRemove(engine, KeyOf(k))
  /\ Returns("remove", k, IF Found(engine.s, KeyOf(k)) = {} THEN "absent" ELSE "done")
  /\ pending' = (pending \/ reply'.result = "done")
  /\ scan' = NoScan
  /\ UNCHANGED <<closed, lost>>

Closed(e) == IF closed THEN e ELSE Flush(e)

Close ==
  /\ Call /\ ~closed
  /\ engine' = Closed(engine)
  /\ closed' = TRUE
  /\ pending' = FALSE
  /\ UNCHANGED <<lost, scan, reply>>

\* The destructor, which closes, and a new store on the same file.
Reopen ==
  /\ Call
  /\ engine' = OpenDb(Closed(engine).s.b.disk)
  /\ closed' = FALSE
  /\ lost' = (closed /\ pending)
  /\ pending' = FALSE
  /\ scan' = NoScan
  /\ UNCHANGED reply

\* The process dies and another opens the file.
Crash ==
  /\ Call
  /\ engine' = OpenDb(engine.s.b.disk)
  /\ closed' = FALSE
  /\ lost' = pending
  /\ scan' = NoScan
  /\ UNCHANGED <<pending, reply>>

Seen(c) == IF c.valid THEN << [key |-> c.entries[c.pos + 1].key, value |-> c.value] >> ELSE << >>

StartScan ==
  LET r == NewCursor(engine)
  IN  /\ Call
      /\ engine' = r.e
      /\ scan' = [on |-> TRUE, c |-> r.c, seen |-> Seen(r.c), base |-> KvMap]
      /\ UNCHANGED <<closed, pending, lost, reply>>

StepScan ==
  LET r == CursorNext(engine, scan.c)
  IN  /\ ~lost /\ Ok(engine.s)
      /\ scan.c.valid
      /\ engine' = r.e
      /\ scan' = [scan EXCEPT !.c = r.c, !.seen = @ \o Seen(r.c)]
      /\ UNCHANGED <<use, closed, pending, lost, reply, calls>>

Next ==
  \/ \E k \in use.keys, v \in use.values : InsertKey(k, v)
  \/ \E k \in use.keys : GetKey(k)
  \/ \E k \in use.keys : RemoveKey(k)
  \/ Close
  \/ Reopen
  \/ Crash
  \/ StartScan
  \/ StepScan

Spec == Init /\ [][Next]_vars

-----------------------------------------------------------------------------
AllValues == UNION {u.values : u \in Uses}

\* Whatever happens below, the calls are those of a map from integers or from
\* doubles to values, so no two keys meet in one encoding; closing, reopening and
\* scanning change nothing in it, nor does a crash when nothing is pending.
Kv == INSTANCE KeyValueStore
  WITH map <- KvMap, Keys <- UNION {u.keys : u \in Uses}, Values <- AllValues,
       Fitting <- {v \in AllValues : Len(v) <= MaxValueSize}
ImplementsKv == [][lost' \/ Kv!Next]_<<KvMap, reply>>

\* Index and tuple store agree: every entry of the index has a value, no two
\* share one, and every live value belongs to an entry, so that a failed or
\* finished call leaves nothing behind.
ValuesOwned ==
  ~lost =>
    LET E == EntriesOf(engine.s)
        pages == 0..(engine.s.b.disk.next - 1)
        live == UNION {LET n == PageIn(engine.s.b, p)
                       IN  IF n.kind # "values" THEN {}
                           ELSE {[page |-> p, slot |-> i] : i \in 0..(Len(n.slots) - 1)} : p \in pages}
    IN  /\ \A k, j \in DOMAIN E : k # j => E[k] # E[j]
        /\ {E[k] : k \in DOMAIN E} =
             {rid \in live : HasSlot(PageIn(engine.s.b, rid.page), rid)}

\* Where a key stands among the values of its type.
Rank(k) == IF use.type = "double" /\ k >= SignBit THEN SignBit - k ELSE k

\* A scan returns keys in ascending order of their values (Codec.h: byte order is
\* value order, across the signs and the infinities), and by its end every key
\* the store held at its start, with its value, although keys inserted meanwhile
\* split the leaves it passes.
ScanFaithful ==
  scan.on =>
    /\ \A i, j \in 1..Len(scan.seen) : i < j =>
         \A k, l \in use.keys :
           KeyOf(k) = scan.seen[i].key /\ KeyOf(l) = scan.seen[j].key => Rank(k) < Rank(l)
    /\ ~scan.c.valid =>
         \A k \in DOMAIN scan.base : \E i \in 1..Len(scan.seen) :
           scan.seen[i] = [key |-> KeyOf(k), value |-> {scan.base[k]}]
=============================================================================
