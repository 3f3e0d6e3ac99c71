---------------------------- MODULE ObjectStore ----------------------------
(***************************************************************************)
(* The shared object storage of one table, as the cloud path uses it       *)
(* through IStorage and IMetadataStore: WAL slots created only if absent,  *)
(* CURRENT replaced by compare-and-exchange, and write-once metadata and   *)
(* data objects.  A conditional write whose reply is lost (transport       *)
(* error, 409 or 5xx in the S3 stores) is reported as RetryableConflict    *)
(* and stays in lateWal or lateCurrent: the server may apply it at any     *)
(* later moment, under the condition it carries, or never.                 *)
(***************************************************************************)
EXTENDS SequentialProtocol

CONSTANT MaxFaults   \* bound: lost replies, failed reads and crashes

ASSUME MaxFaultsAssumption == MaxFaults \in Nat

VARIABLES
  current,       \* the object <metadata_prefix>/CURRENT, or None
  wal,           \* slot -> SequentialWal, for the slots that exist
  manifests,     \* manifest key -> SequentialManifest
  dedups,        \* dedup key -> set of batch entries
  data,          \* data file -> the WAL slots whose chunks it holds
  keys,          \* the next key of IObjectKeyGenerator
  lateWal,       \* conditional WAL PUTs without a reply
  lateCurrent,   \* conditional CURRENT PUTs without a reply
  faults         \* how many of them happened so far

storeVars == <<current, wal, manifests, dedups, data, keys, lateWal,
               lateCurrent, faults>>

LateWal == [slot : Nat, rec : Wal]
LateCurrent == [expected : State \cup {None}, next : State]

StoreTypeOK ==
  /\ current \in State \cup {None}
  /\ DOMAIN wal \subseteq Nat \ {0}
  /\ wal \in [DOMAIN wal -> Wal]
  /\ DOMAIN manifests \subseteq Nat
  /\ manifests \in [DOMAIN manifests -> Manifest]
  /\ DOMAIN dedups \subseteq Nat
  /\ dedups \in [DOMAIN dedups -> SUBSET BatchEntry]
  /\ DOMAIN data \subseteq Nat
  /\ data \in [DOMAIN data -> SUBSET Nat]
  /\ keys \in Nat
  /\ lateWal \subseteq LateWal
  /\ lateCurrent \subseteq LateCurrent
  /\ faults \in 0..MaxFaults

Empty == [x \in {} |-> None]

StoreInit ==
  /\ current = None
  /\ wal = Empty
  /\ manifests = Empty
  /\ dedups = Empty
  /\ data = Empty
  /\ keys = InitialKey + 1
  /\ lateWal = {}
  /\ lateCurrent = {}
  /\ faults = 0

-----------------------------------------------------------------------------
(* Reading. *)

\* f with the object v stored under key k.
Stored(f, k, v) == [x \in DOMAIN f \cup {k} |-> IF x = k THEN v ELSE f[x]]

Exists(s) == s \in DOMAIN wal

\* LoadSequentialWal finds the slot and ReadAll accepts its size; on a larger
\* object ReadAll throws.
Loadable(s) == Exists(s) => wal[s].req \notin Oversize

\* LoadManifest and LoadBatchIndex for the manifest of a state.
ManifestOf(s) == manifests[s.manifest]

BatchIndexOf(m) == UNION {dedups[k] : k \in m.index}

\* The entries a scan of the slots first..last adds to the known batches.
EntriesOf(first, last) ==
  UNION {{[id |-> b, seq |-> s, req |-> wal[s].req] : b \in BatchIds(wal[s])} :
           s \in {t \in first..last : Exists(t)}}

AppendsIn(first, last) ==
  {s \in first..last : Exists(s) /\ IsAppend(wal[s])}

-----------------------------------------------------------------------------
(* Conditional writes and their outcomes. *)

\* A lost reply, a failed read or a crash happens.
Fault == faults < MaxFaults /\ faults' = faults + 1

\* IStorage::CreateIfAbsent on WAL slot s.
CreateIfAbsent(s, rec, out) ==
  \/ /\ out = "Created"
     /\ ~Exists(s)
     /\ wal' = Stored(wal, s, rec)
     /\ UNCHANGED <<lateWal, faults>>
  \/ /\ out = "AlreadyExists"
     /\ Exists(s)
     /\ UNCHANGED <<wal, lateWal, faults>>
  \/ /\ out = "RetryableConflict"
     /\ Fault
     /\ lateWal' = lateWal \cup {[slot |-> s, rec |-> rec]}
     /\ UNCHANGED wal

CreateFileResult == {"Created", "AlreadyExists", "RetryableConflict"}

\* IMetadataStore::CompareExchange on CURRENT, and with expected = None its
\* PutIfAbsent.  The version a store compares is a counter or the ETag of the
\* bytes; no two states of CURRENT are equal (StateVersionsIncrease), so
\* comparing the states is comparing the versions.
CompareExchangeMutant(expected, next, out) ==
  /\ out = "Applied"
  /\ current' = next
  /\ UNCHANGED <<lateCurrent, faults>>

CompareExchange(expected, next, out) ==
  \/ /\ out = "Applied"
     /\ current = expected
     /\ current' = next
     /\ UNCHANGED <<lateCurrent, faults>>
  \/ /\ out = "PreconditionFailed"
     /\ current # expected
     /\ UNCHANGED <<current, lateCurrent, faults>>
  \/ /\ out = "RetryableConflict"
     /\ Fault
     /\ lateCurrent' = lateCurrent \cup {[expected |-> expected, next |-> next]}
     /\ UNCHANGED current

ConditionalWriteResult == {"Applied", "PreconditionFailed", "RetryableConflict"}

\* The server applies a request whose reply was lost.
LandWal(p) ==
  /\ lateWal' = lateWal \ {p}
  /\ wal' = IF Exists(p.slot) THEN wal ELSE Stored(wal, p.slot, p.rec)
  /\ UNCHANGED <<current, manifests, dedups, data, keys, lateCurrent, faults>>

LandCurrent(p) ==
  /\ lateCurrent' = lateCurrent \ {p}
  /\ current' = IF current = p.expected THEN p.next ELSE current
  /\ UNCHANGED <<wal, manifests, dedups, data, keys, lateWal, faults>>
=============================================================================
