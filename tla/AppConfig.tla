------------------------------ MODULE AppConfig ------------------------------
(***************************************************************************)
(* App Configuration: stores, key-values, feature flags and snapshots      *)
(* (internal/services/appconfig, internal/store/app_observe.go).           *)
(*                                                                         *)
(* A store row is keyed by resource group and name, the data of a store by *)
(* its name alone.  A data-plane request first looks the store up and then *)
(* runs its statements, each its own commit; only the deletion of a store  *)
(* is a transaction.  Requests interleave between statements.              *)
(***************************************************************************)
EXTENDS Naturals

CONSTANTS
    Rg,         \* resource groups
    Store,      \* store names
    Key,        \* key and label of a key-value
    Value,
    Flag,       \* feature flag names
    Snap,       \* snapshot names
    Req,        \* concurrent data-plane requests
    NoValue, Idle,
    MaxDelete   \* bound: deletions of stores

ASSUME MaxDeleteAssumption == MaxDelete \in Nat

VARIABLES
    stores,     \* table appconfig_stores: set of <<rg, name>>
    kvs,        \* table appconfig_kvs: per store and key; NoValue: no row
    flags,      \* table appconfig_feature_flags: flag names per store
    snaps,      \* table appconfig_snapshots: snapshot names per store
    captured,   \* table appconfig_snapshot_kvs: per store and snapshot
    req,        \* what each request in progress will do next
    deletes,    \* how many stores were deleted
    cut,        \* history: the set listed for a snapshot whose PUT finished
    raced       \* history: stores deleted while a write on them was under way

vars == <<stores, kvs, flags, snaps, captured, req, deletes, cut, raced>>

KVSet == [Key -> Value \cup {NoValue}]
Nothing == [k \in Key |-> NoValue]
NotCut == {}

\* GetAppConfigByName: the data plane knows a store by its name only.
StoreExists(s) == \E g \in Rg : <<g, s>> \in stores

LiveKeys(s) == {k \in Key : kvs[s][k] # NoValue}

Writing(s) == \E r \in Req : req[r] # Idle /\ req[r].store = s

Finish(r) == req' = [req EXCEPT ![r] = Idle]

-----------------------------------------------------------------------------
(* Control plane.                                                          *)

PutStore(g, s) ==
    /\ stores' = stores \cup {<<g, s>>}
    /\ UNCHANGED <<kvs, flags, snaps, captured, req, deletes, cut, raced>>

\* Mutant of DeleteStore: the captured key-values are not deleted.
DeleteStoreKeepsCaptured(g, s) ==
    /\ <<g, s>> \in stores /\ deletes < MaxDelete
    /\ stores' = stores \ {<<g, s>>}
    /\ kvs' = [kvs EXCEPT ![s] = Nothing]
    /\ flags' = [flags EXCEPT ![s] = {}]
    /\ snaps' = [snaps EXCEPT ![s] = {}]
    /\ cut' = [cut EXCEPT ![s] = [n \in Snap |-> NotCut]]
    /\ deletes' = deletes + 1
    /\ raced' = IF Writing(s) THEN raced \cup {s} ELSE raced
    /\ UNCHANGED <<captured, req>>

\* DeleteAppConfig: one transaction that empties the tables by store name and
\* rolls back when the row itself is missing.
DeleteStore(g, s) ==
    /\ <<g, s>> \in stores /\ deletes < MaxDelete
    /\ stores' = stores \ {<<g, s>>}
    /\ kvs' = [kvs EXCEPT ![s] = Nothing]
    /\ flags' = [flags EXCEPT ![s] = {}]
    /\ snaps' = [snaps EXCEPT ![s] = {}]
    /\ captured' = [captured EXCEPT ![s] = [n \in Snap |-> Nothing]]
    /\ cut' = [cut EXCEPT ![s] = [n \in Snap |-> NotCut]]
    /\ deletes' = deletes + 1
    /\ raced' = IF Writing(s) THEN raced \cup {s} ELSE raced
    /\ UNCHANGED req

-----------------------------------------------------------------------------
(* Data plane.                                                             *)

\* authorizeStoreDataPlane: the store is looked up, and op runs later.
\* Authorisation itself is not modelled here; a denied request changes nothing.
Begin(r, op) ==
    /\ req[r] = Idle
    /\ StoreExists(op.store)
    /\ req' = [req EXCEPT ![r] = op]
    /\ UNCHANGED <<stores, kvs, flags, snaps, captured, deletes, cut, raced>>

BeginPutKV(r, s, k, v) == Begin(r, [pc |-> "kv", store |-> s, key |-> k, value |-> v])

BeginPutFlag(r, s, f) == Begin(r, [pc |-> "flag", store |-> s, flag |-> f])

BeginPutSnapshot(r, s, n) == Begin(r, [pc |-> "get", store |-> s, snap |-> n])

SetAppConfigKV(r) ==
    LET q == req[r] IN
    /\ q # Idle /\ q.pc = "kv"
    /\ kvs' = [kvs EXCEPT ![q.store][q.key] = q.value]
    /\ Finish(r)
    /\ UNCHANGED <<stores, flags, snaps, captured, deletes, cut, raced>>

SetAppConfigFeatureFlag(r) ==
    LET q == req[r] IN
    /\ q # Idle /\ q.pc = "flag"
    /\ flags' = [flags EXCEPT ![q.store] = @ \cup {q.flag}]
    /\ Finish(r)
    /\ UNCHANGED <<stores, kvs, snaps, captured, deletes, cut, raced>>

\* UpsertAppConfigSnapshot looks for the snapshot: one that exists only has its
\* status set to the value it has.
SnapshotGet(r) ==
    LET q == req[r] IN
    /\ q # Idle /\ q.pc = "get"
    /\ IF q.snap \in snaps[q.store] THEN Finish(r)
       ELSE req' = [req EXCEPT ![r].pc = "insert"]
    /\ UNCHANGED <<stores, kvs, flags, snaps, captured, deletes, cut, raced>>

\* The row is inserted, already "ready"; a row inserted meanwhile is a primary
\* key conflict and ends the request with an error.
SnapshotInsert(r) ==
    LET q == req[r] IN
    /\ q # Idle /\ q.pc = "insert"
    /\ IF q.snap \in snaps[q.store]
       THEN Finish(r) /\ UNCHANGED snaps
       ELSE /\ snaps' = [snaps EXCEPT ![q.store] = @ \cup {q.snap}]
            /\ req' = [req EXCEPT ![r].pc = "list"]
    /\ UNCHANGED <<stores, kvs, flags, captured, deletes, cut, raced>>

\* ListAppConfigKV: the key-values to copy are read by one statement.
SnapshotList(r) ==
    LET q == req[r] IN
    /\ q # Idle /\ q.pc = "list"
    /\ req' = [req EXCEPT ![r] =
                 [pc |-> "copy", store |-> q.store, snap |-> q.snap, listed |-> kvs[q.store],
                  todo |-> LiveKeys(q.store)]]
    /\ UNCHANGED <<stores, kvs, flags, snaps, captured, deletes, cut, raced>>

\* Mutant of SnapshotCopy: the value is read again when it is copied.
SnapshotCopyLive(r, k) ==
    LET q == req[r] IN
    /\ q # Idle /\ q.pc = "copy" /\ k \in q.todo
    /\ IF captured[q.store][q.snap][k] # NoValue
       THEN Finish(r) /\ UNCHANGED captured
       ELSE /\ captured' = [captured EXCEPT ![q.store][q.snap][k] = kvs[q.store][k]]
            /\ req' = [req EXCEPT ![r].todo = @ \ {k}]
    /\ UNCHANGED <<stores, kvs, flags, snaps, deletes, cut, raced>>

\* One INSERT per listed key-value; a conflict ends the request with an error.
SnapshotCopy(r, k) ==
    LET q == req[r] IN
    /\ q # Idle /\ q.pc = "copy" /\ k \in q.todo
    /\ IF captured[q.store][q.snap][k] # NoValue
       THEN Finish(r) /\ UNCHANGED captured
       ELSE /\ captured' = [captured EXCEPT ![q.store][q.snap][k] = q.listed[k]]
            /\ req' = [req EXCEPT ![r].todo = @ \ {k}]
    /\ UNCHANGED <<stores, kvs, flags, snaps, deletes, cut, raced>>

SnapshotDone(r) ==
    LET q == req[r] IN
    /\ q # Idle /\ q.pc = "copy" /\ q.todo = {}
    /\ cut' = [cut EXCEPT ![q.store][q.snap] = {q.listed}]
    /\ Finish(r)
    /\ UNCHANGED <<stores, kvs, flags, snaps, captured, deletes, raced>>

\* The process stops between two statements: what was committed stays.
Crash ==
    /\ \E r \in Req : req[r] # Idle
    /\ req' = [r \in Req |-> Idle]
    /\ UNCHANGED <<stores, kvs, flags, snaps, captured, deletes, cut, raced>>

-----------------------------------------------------------------------------
Init ==
    /\ stores = {}
    /\ kvs = [s \in Store |-> Nothing]
    /\ flags = [s \in Store |-> {}]
    /\ snaps = [s \in Store |-> {}]
    /\ captured = [s \in Store |-> [n \in Snap |-> Nothing]]
    /\ req = [r \in Req |-> Idle]
    /\ deletes = 0
    /\ cut = [s \in Store |-> [n \in Snap |-> NotCut]]
    /\ raced = {}

Next ==
    \/ \E g \in Rg, s \in Store : PutStore(g, s) \/ DeleteStore(g, s)
    \/ \E r \in Req :
          \/ \E s \in Store :
                \/ \E k \in Key, v \in Value : BeginPutKV(r, s, k, v)
                \/ \E f \in Flag : BeginPutFlag(r, s, f)
                \/ \E n \in Snap : BeginPutSnapshot(r, s, n)
          \/ SetAppConfigKV(r) \/ SetAppConfigFeatureFlag(r)
          \/ SnapshotGet(r) \/ SnapshotInsert(r) \/ SnapshotList(r)
          \/ \E k \in Key : SnapshotCopy(r, k)
          \/ SnapshotDone(r)
    \/ Crash

Spec == Init /\ [][Next]_vars

-----------------------------------------------------------------------------
(* Properties.                                                             *)

\* What a data-plane request has in hand before its next statement.
KVRequest == [pc : {"kv"}, store : Store, key : Key, value : Value]
FlagRequest == [pc : {"flag"}, store : Store, flag : Flag]
SnapRequest == [pc : {"get", "insert", "list"}, store : Store, snap : Snap]
CopyRequest == [pc : {"copy"}, store : Store, snap : Snap, listed : KVSet, todo : SUBSET Key]
Request == KVRequest \cup FlagRequest \cup SnapRequest \cup CopyRequest

\* Every variable has its type, and a copier has only listed rows left to copy.
TypeOK ==
    /\ stores \subseteq Rg \X Store
    /\ kvs \in [Store -> KVSet]
    /\ flags \in [Store -> SUBSET Flag]
    /\ snaps \in [Store -> SUBSET Snap]
    /\ captured \in [Store -> [Snap -> KVSet]]
    /\ req \in [Req -> {Idle} \cup Request]
    /\ \A r \in Req : req[r] # Idle /\ req[r].pc = "copy"
                      => \A k \in req[r].todo : req[r].listed[k] # NoValue
    /\ deletes \in 0 .. MaxDelete
    /\ cut \in [Store -> [Snap -> {NotCut} \cup {{c} : c \in KVSet}]]
    /\ raced \subseteq Store

\* A snapshot whose PUT finished holds exactly the key-values that were live at
\* one instant of that PUT, however live PUTs and other snapshot PUTs interleave
\* with the copying, unless the store was deleted under a write.
SnapshotIsCut ==
    \A s \in Store \ raced, n \in Snap :
       cut[s][n] # NotCut => n \in snaps[s] /\ cut[s][n] = {captured[s][n]}

\* Deleting a store leaves nothing under its name, unless a write that had seen
\* the store was still under way.
DeletedIsEmpty ==
    \A s \in Store \ raced :
       ~ StoreExists(s) => /\ kvs[s] = Nothing /\ flags[s] = {} /\ snaps[s] = {}
                           /\ \A n \in Snap : captured[s][n] = Nothing

\* Mutual exclusion of the copiers: no two requests fill one snapshot, unless a
\* deletion made room for a second one.
OneCopier ==
    \A q, r \in Req :
       /\ q # r /\ req[q] # Idle /\ req[r] # Idle
       /\ req[q].pc \in {"list", "copy"} /\ req[r].pc \in {"list", "copy"}
       /\ req[q].store = req[r].store /\ req[q].store \notin raced
       => req[q].snap # req[r].snap

\* A snapshot has one copier and, when it is finished, is the store at an instant.
SnapshotsInv == TypeOK /\ OneCopier /\ SnapshotIsCut

=============================================================================
