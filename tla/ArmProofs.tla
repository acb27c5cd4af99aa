------------------------------ MODULE ArmProofs ------------------------------
(***************************************************************************)
(* The ARM control plane, for any number of groups, names and requests:    *)
(* SnapshotsInv and DeletedIsEmpty of App Configuration, IdentitiesSafe of *)
(* the managed identities, FunctionsInv of the function apps, ResourcesInv *)
(* and OwnRightOnly of the types that are kept as a row.                   *)
(***************************************************************************)
EXTENDS AppConfig, Resources, FunctionApps, Identities, FiniteSetTheorems,
        SequenceTheorems, WellFoundedInduction, TLAPS

-----------------------------------------------------------------------------
(* App Configuration.                                                      *)


Copying(r) == req[r] # Idle /\ req[r].pc \in {"list", "copy"}

\* A request that fills a snapshot of a store that was not deleted under it owns
\* the row it inserted, nobody finished that snapshot yet, and what is captured
\* is what it listed without what it has still to copy.
CopierInv ==
    \A r \in Req : Copying(r) /\ req[r].store \notin raced =>
       /\ req[r].snap \in snaps[req[r].store]
       /\ cut[req[r].store][req[r].snap] = NotCut
       /\ req[r].pc = "list" => captured[req[r].store][req[r].snap] = Nothing
       /\ req[r].pc = "copy" =>
             \A k \in Key : captured[req[r].store][req[r].snap][k]
                              = IF k \in req[r].todo THEN NoValue ELSE req[r].listed[k]

\* Nothing is captured under a snapshot name that has no row.
ClearInv ==
    \A s \in Store \ raced, n \in Snap :
       n \notin snaps[s] => captured[s][n] = Nothing /\ cut[s][n] = NotCut

\* A request still finds its store, unless the store was deleted under it.
WriterHasStore ==
    \A r \in Req : req[r] # Idle /\ req[r].store \notin raced => StoreExists(req[r].store)

\* The inductive invariant.
ACInv ==
    /\ TypeOK /\ OneCopier /\ SnapshotIsCut /\ DeletedIsEmpty
    /\ CopierInv /\ ClearInv /\ WriterHasStore

-----------------------------------------------------------------------------
\* Which request a program counter belongs to.
LEMMA KindOf ==
    ASSUME NEW q \in Request
    PROVE  /\ q.store \in Store
           /\ q.pc = "kv" => q \in KVRequest
           /\ q.pc = "flag" => q \in FlagRequest
           /\ q.pc \in {"get", "insert", "list"} => q \in SnapRequest
           /\ q.pc = "copy" => q \in CopyRequest
           /\ q.pc \in {"get", "insert", "list", "copy"} => q.snap \in Snap
BY DEF Request, KVRequest, FlagRequest, SnapRequest, CopyRequest

\* What a request becomes when it moves on.
LEMMA MoveOn ==
    ASSUME NEW q \in SnapRequest, NEW p \in {"get", "insert", "list"}
    PROVE  /\ [q EXCEPT !.pc = p] \in SnapRequest
           /\ [q EXCEPT !.pc = p].store = q.store
           /\ [q EXCEPT !.pc = p].snap = q.snap
           /\ [q EXCEPT !.pc = p].pc = p
BY DEF SnapRequest

LEMMA CopyOn ==
    ASSUME NEW q \in CopyRequest, NEW k \in Key
    PROVE  LET c == [q EXCEPT !.todo = @ \ {k}]
           IN  /\ c \in CopyRequest /\ c.pc = q.pc /\ c.store = q.store /\ c.snap = q.snap
               /\ c.listed = q.listed /\ c.todo = q.todo \ {k}
BY DEF CopyRequest

LEMMA NothingType == Nothing \in KVSet
BY DEF Nothing, KVSet

\* Nothing is stored and nobody is at work.
LEMMA InitInv == Init => ACInv
<1> SUFFICES ASSUME Init PROVE ACInv
  OBVIOUS
<1> USE DEF Init
<1>1. TypeOK
  BY NothingType, MaxDeleteAssumption DEF TypeOK
<1>2. OneCopier /\ CopierInv /\ WriterHasStore
  BY DEF OneCopier, CopierInv, WriterHasStore, Copying
<1>3. SnapshotIsCut /\ DeletedIsEmpty /\ ClearInv
  BY DEF SnapshotIsCut, DeletedIsEmpty, ClearInv
<1> QED
  BY <1>1, <1>2, <1>3 DEF ACInv

\* A store is created or renewed: every request keeps its store.
LEMMA PutStoreInv ==
    ASSUME ACInv, NEW g \in Rg, NEW s \in Store, PutStore(g, s)
    PROVE  ACInv'
<1> USE DEF ACInv, PutStore
<1>1. TypeOK'
  BY DEF TypeOK
<1>2. OneCopier' /\ CopierInv' /\ SnapshotIsCut' /\ ClearInv'
  BY DEF OneCopier, CopierInv, SnapshotIsCut, ClearInv, Copying
<1>3. \A t \in Store : StoreExists(t) => StoreExists(t)'
  BY DEF StoreExists
<1>4. WriterHasStore' /\ DeletedIsEmpty'
  BY <1>3, KindOf DEF WriterHasStore, DeletedIsEmpty, TypeOK
<1> QED
  BY <1>1, <1>2, <1>4

\* A store is deleted: nobody was at work on it, or it counts as raced.
LEMMA DeleteStoreInv ==
    ASSUME ACInv, NEW g \in Rg, NEW s \in Store, DeleteStore(g, s)
    PROVE  ACInv'
<1> USE DEF ACInv, DeleteStore
<1>1. TypeOK'
  <2>1. [n \in Snap |-> Nothing] \in [Snap -> KVSet]
    BY NothingType
  <2>2. deletes' \in 0 .. MaxDelete
    BY MaxDeleteAssumption DEF TypeOK
  <2>3. kvs' \in [Store -> KVSet] /\ captured' \in [Store -> [Snap -> KVSet]]
    BY <2>1, NothingType DEF TypeOK
  <2>4. cut' \in [Store -> [Snap -> {NotCut} \cup {{c} : c \in KVSet}]]
    BY DEF TypeOK
  <2> QED
    BY <2>2, <2>3, <2>4 DEF TypeOK
<1>2. raced \subseteq raced' /\ (s \notin raced' => ~ Writing(s))
  OBVIOUS
<1>3. \A r \in Req : req[r] # Idle /\ req[r].store \notin raced' => req[r].store # s
  BY <1>2 DEF Writing
<1>4. \A t \in Store \ {s} : /\ kvs'[t] = kvs[t] /\ flags'[t] = flags[t] /\ snaps'[t] = snaps[t]
                             /\ captured'[t] = captured[t] /\ cut'[t] = cut[t]
                             /\ StoreExists(t) => StoreExists(t)'
                             /\ StoreExists(t)' => StoreExists(t)
  BY DEF TypeOK, StoreExists
<1>5. /\ kvs'[s] = Nothing /\ flags'[s] = {} /\ snaps'[s] = {}
      /\ \A n \in Snap : captured'[s][n] = Nothing /\ cut'[s][n] = NotCut
  BY DEF TypeOK
<1>6. \A r \in Req : req[r] # Idle => req[r] \in Request /\ req[r].store \in Store
  BY KindOf DEF TypeOK
<1>7. OneCopier'
  BY <1>2 DEF OneCopier
<1>8. CopierInv'
  BY <1>2, <1>3, <1>4, <1>6 DEF CopierInv, Copying
<1>9. SnapshotIsCut' /\ ClearInv'
  BY <1>2, <1>4, <1>5 DEF SnapshotIsCut, ClearInv
<1>10. WriterHasStore'
  BY <1>2, <1>3, <1>4, <1>6 DEF WriterHasStore
<1>11. DeletedIsEmpty'
  BY <1>2, <1>4, <1>5 DEF DeletedIsEmpty
<1> QED
  BY <1>1, <1>7, <1>8, <1>9, <1>10, <1>11

\* A request begins: it found its store, and it copies nothing yet.
LEMMA BeginInv ==
    ASSUME ACInv, NEW r \in Req, NEW op \in Request, Begin(r, op),
           op.pc \in {"kv", "flag", "get"}
    PROVE  ACInv'
<1> USE DEF ACInv, Begin
<1>1. req'[r] = op /\ \A q \in Req \ {r} : req'[q] = req[q]
  BY DEF TypeOK
<1>2. TypeOK'
  BY <1>1 DEF TypeOK
<1>3. OneCopier' /\ CopierInv'
  BY <1>1 DEF OneCopier, CopierInv, Copying
<1>4. SnapshotIsCut' /\ ClearInv' /\ DeletedIsEmpty'
  BY DEF SnapshotIsCut, ClearInv, DeletedIsEmpty, StoreExists
<1>5. WriterHasStore'
  BY <1>1 DEF WriterHasStore, StoreExists
<1> QED
  BY <1>2, <1>3, <1>4, <1>5

\* A request ends without touching a snapshot: it held nothing of its own.
LEMMA FinishInv ==
    ASSUME ACInv, NEW r \in Req, Finish(r), UNCHANGED <<stores, snaps, captured, cut, raced, deletes>>,
           kvs' \in [Store -> KVSet], flags' \in [Store -> SUBSET Flag],
           \A s \in Store \ raced : ~ StoreExists(s) => kvs'[s] = kvs[s] /\ flags'[s] = flags[s]
    PROVE  ACInv'
<1> USE DEF ACInv, Finish
<1>1. req'[r] = Idle /\ \A q \in Req \ {r} : req'[q] = req[q]
  BY DEF TypeOK
<1>2. TypeOK'
  BY <1>1 DEF TypeOK
<1>3. OneCopier' /\ CopierInv'
  BY <1>1 DEF OneCopier, CopierInv, Copying
<1>4. SnapshotIsCut' /\ ClearInv' /\ DeletedIsEmpty'
  BY DEF SnapshotIsCut, ClearInv, DeletedIsEmpty, StoreExists
<1>5. WriterHasStore'
  BY <1>1 DEF WriterHasStore, StoreExists
<1> QED
  BY <1>2, <1>3, <1>4, <1>5

\* A key-value or a flag is written under a store that is still there.
LEMMA WriteInv ==
    ASSUME ACInv, NEW r \in Req, SetAppConfigKV(r) \/ SetAppConfigFeatureFlag(r)
    PROVE  ACInv'
<1> USE DEF ACInv
<1>1. req[r] \in Request /\ req[r] # Idle
  BY DEF SetAppConfigKV, SetAppConfigFeatureFlag, TypeOK
<1>2. req[r].store \notin raced => StoreExists(req[r].store)
  BY <1>1 DEF WriterHasStore
<1>3. CASE SetAppConfigKV(r)
  <2>1. req[r].store \in Store /\ req[r].key \in Key /\ req[r].value \in Value
    BY <1>1, <1>3, KindOf DEF SetAppConfigKV, KVRequest
  <2>2. kvs' \in [Store -> KVSet]
    BY <1>3, <2>1 DEF SetAppConfigKV, TypeOK, KVSet
  <2>3. \A s \in Store \ raced : ~ StoreExists(s) => kvs'[s] = kvs[s]
    BY <1>2, <1>3, <2>1 DEF SetAppConfigKV, TypeOK
  <2> QED
    BY <1>3, <2>2, <2>3, FinishInv DEF SetAppConfigKV, TypeOK
<1>4. CASE SetAppConfigFeatureFlag(r)
  <2>1. req[r].store \in Store /\ req[r].flag \in Flag
    BY <1>1, <1>4, KindOf DEF SetAppConfigFeatureFlag, FlagRequest
  <2>2. flags' \in [Store -> SUBSET Flag]
    BY <1>4, <2>1 DEF SetAppConfigFeatureFlag, TypeOK
  <2>3. \A s \in Store \ raced : ~ StoreExists(s) => flags'[s] = flags[s]
    BY <1>2, <1>4, <2>1 DEF SetAppConfigFeatureFlag, TypeOK
  <2> QED
    BY <1>4, <2>2, <2>3, FinishInv DEF SetAppConfigFeatureFlag, TypeOK
<1> QED
  BY <1>3, <1>4

\* The snapshot is looked for: the request ends, or goes on to the insertion.
LEMMA GetInv ==
    ASSUME ACInv, NEW r \in Req, SnapshotGet(r)
    PROVE  ACInv'
<1> USE DEF ACInv
<1>1. CASE req[r].snap \in snaps[req[r].store]
  BY <1>1, FinishInv DEF SnapshotGet, TypeOK
<1>2. CASE req[r].snap \notin snaps[req[r].store]
  <2>1. req[r] \in SnapRequest /\ req[r] # Idle
    BY KindOf DEF SnapshotGet, TypeOK
  <2>2. /\ req'[r] \in SnapRequest /\ req'[r].pc = "insert" /\ req'[r].store = req[r].store
        /\ req' \in [Req -> {Idle} \cup Request] /\ \A q \in Req \ {r} : req'[q] = req[q]
    <3>1. req' = [req EXCEPT ![r] = [req[r] EXCEPT !.pc = "insert"]]
      BY <1>2 DEF SnapshotGet
    <3>2. req'[r] = [req[r] EXCEPT !.pc = "insert"] /\ \A q \in Req \ {r} : req'[q] = req[q]
      BY <3>1 DEF TypeOK
    <3>3. req' \in [Req -> {Idle} \cup Request]
      BY <3>1, <2>1, MoveOn DEF TypeOK, Request
    <3>4. LET c == [req[r] EXCEPT !.pc = "insert"]
          IN  c \in SnapRequest /\ c.pc = "insert" /\ c.store = req[r].store /\ c.snap = req[r].snap
      BY <2>1, MoveOn
    <3> QED
      BY <3>2, <3>3, <3>4
  <2>3. TypeOK'
    BY <1>2, <2>2 DEF SnapshotGet, TypeOK
  <2>4. OneCopier' /\ CopierInv'
    BY <2>2 DEF SnapshotGet, OneCopier, CopierInv, Copying
  <2>5. SnapshotIsCut' /\ ClearInv' /\ DeletedIsEmpty'
    BY DEF SnapshotGet, SnapshotIsCut, ClearInv, DeletedIsEmpty, StoreExists
  <2>6. WriterHasStore'
    BY <2>1, <2>2 DEF SnapshotGet, WriterHasStore, StoreExists
  <2> QED
    BY <2>3, <2>4, <2>5, <2>6
<1> QED
  BY <1>1, <1>2

\* The row is inserted: nothing was captured under its name, and whoever copies
\* copies under another name, because a copier's row exists.
LEMMA InsertInv ==
    ASSUME ACInv, NEW r \in Req, SnapshotInsert(r)
    PROVE  ACInv'
<1> USE DEF ACInv
<1>1. CASE req[r].snap \in snaps[req[r].store]
  BY <1>1, FinishInv DEF SnapshotInsert, TypeOK
<1>2. CASE req[r].snap \notin snaps[req[r].store]
  <2> DEFINE s == req[r].store
             n == req[r].snap
  <2>1. req[r] \in SnapRequest /\ req[r] # Idle /\ s \in Store /\ n \in Snap
    BY KindOf DEF SnapshotInsert, TypeOK, SnapRequest
  <2>2. /\ req'[r] \in SnapRequest /\ req'[r].pc = "list" /\ req'[r].store = s /\ req'[r].snap = n
        /\ req' \in [Req -> {Idle} \cup Request] /\ \A q \in Req \ {r} : req'[q] = req[q]
    <3>1. req' = [req EXCEPT ![r] = [req[r] EXCEPT !.pc = "list"]]
      BY <1>2 DEF SnapshotInsert
    <3>2. req'[r] = [req[r] EXCEPT !.pc = "list"] /\ \A q \in Req \ {r} : req'[q] = req[q]
      BY <3>1 DEF TypeOK
    <3>3. req' \in [Req -> {Idle} \cup Request]
      BY <3>1, <2>1, MoveOn DEF TypeOK, Request
    <3>4. LET c == [req[r] EXCEPT !.pc = "list"]
          IN  c \in SnapRequest /\ c.pc = "list" /\ c.store = req[r].store /\ c.snap = req[r].snap
      BY <2>1, MoveOn
    <3> QED
      BY <3>2, <3>3, <3>4
  <2>3. /\ snaps' = [snaps EXCEPT ![s] = @ \cup {n}]
        /\ UNCHANGED <<stores, kvs, flags, captured, deletes, cut, raced>>
    BY <1>2 DEF SnapshotInsert
  <2>4. \A t \in Store : snaps[t] \subseteq snaps'[t] /\ (t # s => snaps'[t] = snaps[t])
    BY <2>3 DEF TypeOK
  <2>5. TypeOK'
    BY <2>1, <2>2, <2>3 DEF TypeOK
  <2>6. s \notin raced => captured[s][n] = Nothing /\ cut[s][n] = NotCut
    BY <1>2, <2>1 DEF ClearInv
  <2>7. OneCopier'
    BY <1>2, <2>2, <2>3 DEF OneCopier, CopierInv, Copying
  <2>8. CopierInv'
    <3> SUFFICES ASSUME NEW q \in Req, Copying(q)', req'[q].store \notin raced
                 PROVE  /\ req'[q].snap \in snaps'[req'[q].store]
                        /\ cut[req'[q].store][req'[q].snap] = NotCut
                        /\ req'[q].pc = "list" => captured[req'[q].store][req'[q].snap] = Nothing
                        /\ req'[q].pc = "copy" =>
                             \A k \in Key : captured[req'[q].store][req'[q].snap][k]
                                = IF k \in req'[q].todo THEN NoValue ELSE req'[q].listed[k]
      BY <2>3 DEF CopierInv
    <3>1. CASE q = r
      BY <3>1, <2>1, <2>2, <2>3, <2>6 DEF TypeOK
    <3>2. CASE q # r
      <4>1. req'[q] = req[q] /\ Copying(q) /\ req[q].store \in Store
        BY <3>2, <2>2, KindOf DEF Copying, TypeOK
      <4> QED
        BY <4>1, <2>4 DEF CopierInv
    <3> QED
      BY <3>1, <3>2
  <2>9. SnapshotIsCut' /\ ClearInv'
    BY <2>3, <2>4 DEF SnapshotIsCut, ClearInv
  <2>10. WriterHasStore'
    BY <2>1, <2>2, <2>3 DEF WriterHasStore, StoreExists
  <2>11. DeletedIsEmpty'
    <3>1. s \notin raced => StoreExists(s)
      BY <2>1 DEF WriterHasStore
    <3> QED
      BY <3>1, <2>3, <2>4 DEF DeletedIsEmpty, StoreExists
  <2> QED
    BY <2>5, <2>7, <2>8, <2>9, <2>10, <2>11
<1> QED
  BY <1>1, <1>2


\* The key-values are listed: nothing is captured yet, and everything that is
\* live is still to be copied.
LEMMA ListInv ==
    ASSUME ACInv, NEW r \in Req, SnapshotList(r)
    PROVE  ACInv'
<1> USE DEF ACInv
<1> DEFINE s == req[r].store
           n == req[r].snap
           c == [pc |-> "copy", store |-> s, snap |-> n, listed |-> kvs[s], todo |-> LiveKeys(s)]
<1>1. req[r] \in SnapRequest /\ req[r] # Idle /\ req[r].pc = "list" /\ s \in Store /\ n \in Snap
  BY KindOf DEF SnapshotList, TypeOK, SnapRequest
<1>2. c \in CopyRequest /\ \A k \in c.todo : c.listed[k] # NoValue
  BY <1>1 DEF CopyRequest, LiveKeys, TypeOK
<1>3. /\ req' = [req EXCEPT ![r] = c]
      /\ UNCHANGED <<stores, kvs, flags, snaps, captured, deletes, cut, raced>>
  BY DEF SnapshotList
<1>4. req'[r] = c /\ \A q \in Req \ {r} : req'[q] = req[q]
  BY <1>3 DEF TypeOK
<1>5. TypeOK'
  <2>1. req' \in [Req -> {Idle} \cup Request]
    BY <1>2, <1>3 DEF TypeOK, Request
  <2>2. \A q \in Req : req'[q] # Idle /\ req'[q].pc = "copy"
                       => \A k \in req'[q].todo : req'[q].listed[k] # NoValue
    BY <1>2, <1>4 DEF TypeOK
  <2> QED
    BY <1>3, <2>1, <2>2 DEF TypeOK
<1>6. OneCopier'
  BY <1>1, <1>3, <1>4 DEF OneCopier
<1>7. CopierInv'
  <2>1. s \notin raced => \A k \in Key : captured[s][n][k] = IF k \in c.todo THEN NoValue ELSE c.listed[k]
    BY <1>1 DEF CopierInv, Copying, Nothing, LiveKeys
  <2>2. s \notin raced => n \in snaps[s] /\ cut[s][n] = NotCut
    BY <1>1 DEF CopierInv, Copying
  <2> QED
    BY <1>3, <1>4, <2>1, <2>2 DEF CopierInv, Copying
<1>8. SnapshotIsCut' /\ ClearInv' /\ DeletedIsEmpty'
  BY <1>3 DEF SnapshotIsCut, ClearInv, DeletedIsEmpty, StoreExists
<1>9. WriterHasStore'
  BY <1>1, <1>3, <1>4 DEF WriterHasStore, StoreExists
<1> QED
  BY <1>5, <1>6, <1>7, <1>8, <1>9

\* One row is copied: it was not captured before, and the snapshot is this
\* copier's own.
LEMMA CopyInv ==
    ASSUME ACInv, NEW r \in Req, NEW k \in Key, SnapshotCopy(r, k)
    PROVE  ACInv'
<1> USE DEF ACInv
<1>1. CASE captured[req[r].store][req[r].snap][k] # NoValue
  BY <1>1, FinishInv DEF SnapshotCopy, TypeOK
<1>2. CASE captured[req[r].store][req[r].snap][k] = NoValue
  <2> DEFINE s == req[r].store
             n == req[r].snap
             c == [req[r] EXCEPT !.todo = @ \ {k}]
  <2>1. /\ req[r] \in CopyRequest /\ req[r] # Idle /\ req[r].pc = "copy" /\ k \in req[r].todo
        /\ s \in Store /\ n \in Snap /\ req[r].listed \in KVSet
    BY KindOf DEF SnapshotCopy, TypeOK, CopyRequest
  <2>2. /\ c \in CopyRequest /\ c.pc = "copy" /\ c.store = s /\ c.snap = n
        /\ c.listed = req[r].listed /\ c.todo = req[r].todo \ {k}
    BY <2>1, CopyOn
  <2>3. /\ req' = [req EXCEPT ![r] = c]
        /\ captured' = [captured EXCEPT ![s][n][k] = req[r].listed[k]]
        /\ UNCHANGED <<stores, kvs, flags, snaps, deletes, cut, raced>>
    BY <1>2 DEF SnapshotCopy
  <2>4. req'[r] = c /\ \A q \in Req \ {r} : req'[q] = req[q]
    BY <2>3 DEF TypeOK
  <2>5. /\ captured' \in [Store -> [Snap -> KVSet]]
        /\ captured'[s][n] = [captured[s][n] EXCEPT ![k] = req[r].listed[k]]
        /\ \A t \in Store, m \in Snap : t # s \/ m # n => captured'[t][m] = captured[t][m]
    BY <2>1, <2>3 DEF TypeOK, KVSet
  <2>6. TypeOK'
    <3>1. req' \in [Req -> {Idle} \cup Request]
      BY <2>2, <2>3 DEF TypeOK, Request
    <3>2. \A q \in Req : req'[q] # Idle /\ req'[q].pc = "copy"
                         => \A j \in req'[q].todo : req'[q].listed[j] # NoValue
      <4> SUFFICES ASSUME NEW q \in Req, req'[q] # Idle, req'[q].pc = "copy", NEW j \in req'[q].todo
                   PROVE  req'[q].listed[j] # NoValue
        OBVIOUS
      <4>1. CASE q = r
        BY <4>1, <2>1, <2>2, <2>4 DEF TypeOK
      <4>2. CASE q # r
        BY <4>2, <2>4 DEF TypeOK
      <4> QED
        BY <4>1, <4>2
    <3> QED
      BY <2>3, <2>5, <3>1, <3>2 DEF TypeOK
  <2>7. OneCopier'
    BY <2>1, <2>2, <2>3, <2>4 DEF OneCopier
  <2>8. s \notin raced => /\ n \in snaps[s] /\ cut[s][n] = NotCut
                          /\ \A j \in Key : captured[s][n][j]
                               = IF j \in req[r].todo THEN NoValue ELSE req[r].listed[j]
    BY <2>1 DEF CopierInv, Copying
  <2>9. CopierInv'
    <3> SUFFICES ASSUME NEW q \in Req, Copying(q)', req'[q].store \notin raced
                 PROVE  /\ req'[q].snap \in snaps[req'[q].store]
                        /\ cut[req'[q].store][req'[q].snap] = NotCut
                        /\ req'[q].pc = "list" => captured'[req'[q].store][req'[q].snap] = Nothing
                        /\ req'[q].pc = "copy" =>
                             \A j \in Key : captured'[req'[q].store][req'[q].snap][j]
                                = IF j \in req'[q].todo THEN NoValue ELSE req'[q].listed[j]
      BY <2>3 DEF CopierInv
    <3>1. CASE q = r
      <4>1. captured[s][n] \in KVSet
        BY <2>1 DEF TypeOK
      <4>2. \A j \in Key : captured'[s][n][j] = IF j = k THEN req[r].listed[k] ELSE captured[s][n][j]
        BY <2>5, <4>1 DEF KVSet
      <4> QED
        BY <3>1, <2>2, <2>4, <2>8, <4>2
    <3>2. CASE q # r
      <4>1. req'[q] = req[q] /\ Copying(q) /\ req[q].store \in Store /\ req[q].snap \in Snap
        BY <3>2, <2>4, KindOf DEF Copying, TypeOK
      <4>2. req[q].store # s \/ req[q].snap # n
        BY <4>1, <3>2, <2>1 DEF OneCopier, Copying
      <4> QED
        BY <4>1, <4>2, <2>5 DEF CopierInv
    <3> QED
      BY <3>1, <3>2
  <2>10. SnapshotIsCut' /\ ClearInv'
    <3>1. ASSUME NEW t \in Store \ raced, NEW m \in Snap, captured'[t][m] # captured[t][m]
          PROVE  m \in snaps[t] /\ cut[t][m] = NotCut
      BY <2>5, <2>8, <3>1
    <3>2. SnapshotIsCut'
      BY <2>3, <3>1 DEF SnapshotIsCut
    <3>3. ClearInv'
      BY <2>3, <3>1 DEF ClearInv
    <3> QED
      BY <3>2, <3>3
  <2>11. WriterHasStore'
    BY <2>1, <2>2, <2>3, <2>4 DEF WriterHasStore, StoreExists
  <2>12. DeletedIsEmpty'
    <3>1. s \notin raced => StoreExists(s)
      BY <2>1 DEF WriterHasStore
    <3> QED
      BY ZenonT(60), <3>1, <2>3, <2>5 DEF DeletedIsEmpty, StoreExists
  <2> QED
    BY <2>6, <2>7, <2>9, <2>10, <2>11, <2>12
<1> QED
  BY <1>1, <1>2

\* Everything listed is copied: the snapshot is what was listed.
LEMMA DoneInv ==
    ASSUME ACInv, NEW r \in Req, SnapshotDone(r)
    PROVE  ACInv'
<1> USE DEF ACInv
<1> DEFINE s == req[r].store
           n == req[r].snap
<1>1. /\ req[r] \in CopyRequest /\ req[r] # Idle /\ req[r].pc = "copy" /\ req[r].todo = {}
      /\ s \in Store /\ n \in Snap /\ req[r].listed \in KVSet
  BY KindOf DEF SnapshotDone, TypeOK, CopyRequest
<1>2. /\ cut' = [cut EXCEPT ![s][n] = {req[r].listed}] /\ req' = [req EXCEPT ![r] = Idle]
      /\ UNCHANGED <<stores, kvs, flags, snaps, captured, deletes, raced>>
  BY DEF SnapshotDone, Finish
<1>3. req'[r] = Idle /\ \A q \in Req \ {r} : req'[q] = req[q]
  BY <1>2 DEF TypeOK
<1>4. /\ cut' \in [Store -> [Snap -> {NotCut} \cup {{c} : c \in KVSet}]]
      /\ cut'[s][n] = {req[r].listed}
      /\ \A t \in Store, m \in Snap : t # s \/ m # n => cut'[t][m] = cut[t][m]
  BY <1>1, <1>2 DEF TypeOK
<1>5. TypeOK'
  <2>1. req' \in [Req -> {Idle} \cup Request]
    BY <1>2 DEF TypeOK
  <2>2. \A q \in Req : req'[q] # Idle /\ req'[q].pc = "copy"
                       => \A k \in req'[q].todo : req'[q].listed[k] # NoValue
    BY <1>3 DEF TypeOK
  <2> QED
    BY <1>2, <1>4, <2>1, <2>2 DEF TypeOK
<1>6. OneCopier'
  BY <1>2, <1>3 DEF OneCopier
<1>7. s \notin raced => n \in snaps[s] /\ captured[s][n] = req[r].listed
  <2>1. s \notin raced => n \in snaps[s] /\ \A k \in Key : captured[s][n][k] = req[r].listed[k]
    BY <1>1 DEF CopierInv, Copying
  <2>2. captured[s][n] \in KVSet
    BY <1>1 DEF TypeOK
  <2> QED
    BY <1>1, <2>1, <2>2 DEF KVSet
<1>8. CopierInv'
  <2> SUFFICES ASSUME NEW q \in Req, q # r, Copying(q), req[q].store \notin raced
               PROVE  cut'[req[q].store][req[q].snap] = cut[req[q].store][req[q].snap]
    BY <1>2, <1>3 DEF CopierInv, Copying
  <2>1. req[q].store \in Store /\ req[q].snap \in Snap
    BY KindOf DEF Copying, TypeOK
  <2>2. req[q].store # s \/ req[q].snap # n
    BY <1>1 DEF OneCopier, Copying
  <2> QED
    BY <2>1, <2>2, <1>4
<1>9. SnapshotIsCut' /\ ClearInv'
  BY <1>2, <1>4, <1>7 DEF SnapshotIsCut, ClearInv
<1>10. WriterHasStore' /\ DeletedIsEmpty'
  BY <1>2, <1>3 DEF WriterHasStore, DeletedIsEmpty, StoreExists
<1> QED
  BY <1>5, <1>6, <1>8, <1>9, <1>10

\* A crash leaves half-copied snapshots, and nobody that goes on with them.
LEMMA CrashInv == ACInv /\ Crash => ACInv'
<1> SUFFICES ASSUME ACInv, Crash PROVE ACInv'
  OBVIOUS
<1> USE DEF ACInv, Crash
<1>1. TypeOK'
  BY DEF TypeOK
<1>2. OneCopier' /\ CopierInv' /\ WriterHasStore'
  BY DEF OneCopier, CopierInv, WriterHasStore, Copying
<1>3. SnapshotIsCut' /\ ClearInv' /\ DeletedIsEmpty'
  BY DEF SnapshotIsCut, ClearInv, DeletedIsEmpty, StoreExists
<1> QED
  BY <1>1, <1>2, <1>3

\* Every step preserves the inductive invariant.
LEMMA StepInv == ACInv /\ [Next]_vars => ACInv'
<1> SUFFICES ASSUME ACInv, [Next]_vars PROVE ACInv'
  OBVIOUS
<1>1. ASSUME NEW g \in Rg, NEW s \in Store, PutStore(g, s) \/ DeleteStore(g, s) PROVE ACInv'
  BY <1>1, PutStoreInv, DeleteStoreInv
<1>2. ASSUME NEW r \in Req, NEW s \in Store, NEW k \in Key, NEW v \in Value, BeginPutKV(r, s, k, v)
      PROVE  ACInv'
  <2> DEFINE op == [pc |-> "kv", store |-> s, key |-> k, value |-> v]
  <2>1. op \in Request
    BY DEF Request, KVRequest
  <2> QED
    BY <1>2, <2>1, BeginInv DEF BeginPutKV
<1>3. ASSUME NEW r \in Req, NEW s \in Store, NEW f \in Flag, BeginPutFlag(r, s, f) PROVE ACInv'
  <2> DEFINE op == [pc |-> "flag", store |-> s, flag |-> f]
  <2>1. op \in Request
    BY DEF Request, FlagRequest
  <2> QED
    BY <1>3, <2>1, BeginInv DEF BeginPutFlag
<1>4. ASSUME NEW r \in Req, NEW s \in Store, NEW n \in Snap, BeginPutSnapshot(r, s, n) PROVE ACInv'
  <2> DEFINE op == [pc |-> "get", store |-> s, snap |-> n]
  <2>1. op \in Request
    BY DEF Request, SnapRequest
  <2> QED
    BY <1>4, <2>1, BeginInv DEF BeginPutSnapshot
<1>5. ASSUME NEW r \in Req,
             SetAppConfigKV(r) \/ SetAppConfigFeatureFlag(r) \/ SnapshotGet(r) \/ SnapshotInsert(r)
               \/ SnapshotList(r) \/ SnapshotDone(r)
      PROVE  ACInv'
  BY <1>5, WriteInv, GetInv, InsertInv, ListInv, DoneInv
<1>6. ASSUME NEW r \in Req, NEW k \in Key, SnapshotCopy(r, k) PROVE ACInv'
  BY <1>6, CopyInv
<1>7. CASE Crash
  BY <1>7, CrashInv
<1>8. CASE UNCHANGED vars
  <2> USE <1>8 DEF vars
  <2>1. TypeOK' /\ OneCopier'
    BY DEF ACInv, TypeOK, OneCopier
  <2>2. CopierInv' /\ WriterHasStore'
    BY DEF ACInv, CopierInv, WriterHasStore, Copying, StoreExists
  <2>3. SnapshotIsCut' /\ ClearInv' /\ DeletedIsEmpty'
    BY DEF ACInv, SnapshotIsCut, ClearInv, DeletedIsEmpty, StoreExists
  <2> QED
    BY <2>1, <2>2, <2>3 DEF ACInv
<1> QED
  BY <1>1, <1>2, <1>3, <1>4, <1>5, <1>6, <1>7, <1>8 DEF Next

\* The inductive invariant holds in every state.
LEMMA ACInvAlways == Spec => []ACInv
BY InitInv, StepInv, PTL DEF Spec

\* However the statements of live PUTs, snapshot PUTs, deletions and crashes
\* interleave, UpsertAppConfigSnapshot never has two requests filling one
\* snapshot, and a snapshot whose PUT finished is the store at one instant.
THEOREM SnapshotsAlways == Spec => []SnapshotsInv
<1>1. ACInv => SnapshotsInv
  BY DEF ACInv, SnapshotsInv
<1> QED
  BY <1>1, ACInvAlways, PTL

\* DeleteAppConfig leaves nothing behind under the name of a store that no
\* request was writing to, and nothing comes back until the store does.
THEOREM DeletedStaysEmpty == Spec => []DeletedIsEmpty
<1>1. ACInv => DeletedIsEmpty
  BY DEF ACInv
<1> QED
  BY <1>1, ACInvAlways, PTL
-----------------------------------------------------------------------------
(* Managed identities.                                                     *)

ITypeOK ==
    /\ ident \in [Table -> [Ident -> Pair \cup {NoPair}]]
    /\ client \in [Client -> ClientRequest \cup {Quiet}]
    /\ made \in Nat /\ pins \subseteq Nat \ {0}

\* What a request that nobody overlapped has read is still so.
ReadInv(q) ==
    /\ q.at = "put" => q.pair \in Pair /\ q.i \in Ident /\ (q.failed => q.t = "system")
    /\ q.at = "put" /\ ~q.overlapped /\ ~q.failed /\ ident[q.t][q.i] # NoPair => q.pair = ident[q.t][q.i]
    /\ q.at = "system" => q.asked # 0 /\ (~q.overlapped => Found("user", q.by, q.asked) = {})
    /\ q.at = "first" => (~q.overlapped => Single)

\* Row i of table t has the id k, or a PUT under way is about to give it.
HasId(t, i, k) ==
    \/ ident[t][i] # NoPair /\ k \in Ids(ident[t][i])
    \/ \E c \in Client : /\ client[c] # Quiet /\ client[c].at = "put"
                         /\ client[c].t = t /\ client[c].i = i /\ k \in Ids(client[c].pair)

\* An id that nobody brought was drawn, and one row has it or is about to.
OwnInv ==
    \A k \in Nat \ pins : \A t, u \in Table, i, j \in Ident :
       HasId(t, i, k) => k <= made /\ (HasId(u, j, k) => t = u /\ i = j)

\* The inductive invariant of the identities.
IdentInv ==
    /\ ITypeOK /\ (\A c \in Client : client[c] # Quiet => ReadInv(client[c]))
    /\ OwnInv /\ ReplyIsRight

LEMMA NoReplyIsRight ==
    ASSUME reply' = NoReply
    PROVE  ReplyIsRight'
BY DEF NoReply, ReplyIsRight

\* Ids that change hands: none, or brought ones, or two new ones for one row.
LEMMA OwnKept ==
    ASSUME IdentInv, pins \subseteq pins', made' \in Nat, made <= made', NEW t \in Table, NEW i \in Ident,
           \A u \in Table, j \in Ident, k \in Nat \ pins' :
              HasId(u, j, k)' => \/ HasId(u, j, k)
                                 \/ u = t /\ j = i /\ made < k /\ k <= made'
    PROVE  OwnInv'
<1> SUFFICES ASSUME NEW k \in Nat \ pins', NEW u \in Table, NEW v \in Table, NEW a \in Ident, NEW b \in Ident,
                    HasId(u, a, k)'
             PROVE  k <= made' /\ (HasId(v, b, k)' => u = v /\ a = b)
  BY DEF OwnInv
<1>1. k \in Nat \ pins /\ made \in Nat
  BY DEF IdentInv, ITypeOK
<1>2. HasId(u, a, k) => k <= made /\ (HasId(v, b, k) => u = v /\ a = b)
  BY <1>1 DEF IdentInv, OwnInv
<1>3. HasId(v, b, k) => k <= made
  BY <1>1 DEF IdentInv, OwnInv
<1>4. HasId(u, a, k) \/ (u = t /\ a = i /\ made < k /\ k <= made')
  OBVIOUS
<1>5. HasId(v, b, k)' => HasId(v, b, k) \/ (v = t /\ b = i /\ made < k /\ k <= made')
  OBVIOUS
<1> QED
  BY <1>1, <1>2, <1>3, <1>4, <1>5

\* One request moves and the tables stay.
LEMMA ClientOnly ==
    ASSUME IdentInv, NEW c \in Client, NEW v \in ClientRequest \cup {Quiet},
           client' = [client EXCEPT ![c] = v], ident' = ident, made' \in Nat, pins' \subseteq Nat \ {0},
           v # Quiet => ReadInv(v), OwnInv', ReplyIsRight'
    PROVE  IdentInv'
<1>1. ITypeOK'
  BY DEF IdentInv, ITypeOK
<1>2. ASSUME NEW d \in Client, client'[d] # Quiet PROVE ReadInv(client[d])'
  <2>1. PICK q : q = client'[d]
    OBVIOUS
  <2>2. ReadInv(q)
    BY <1>2, <2>1 DEF IdentInv, ITypeOK
  <2>3. ReadInv(q)'
    BY <2>2 DEF ReadInv, Single, Rows, Found
  <2> QED
    BY <2>1, <2>3
<1> QED
  BY <1>1, <1>2 DEF IdentInv

\* A request that holds no pair moves: no id changes hands.
LEMMA NoPairMoves ==
    ASSUME IdentInv, NEW c \in Client, NEW v \in ClientRequest \cup {Quiet},
           client' = [client EXCEPT ![c] = v], UNCHANGED <<ident, made, pins>>,
           v # Quiet => v.at # "put" /\ ReadInv(v), ReplyIsRight'
    PROVE  IdentInv'
<1>1. made \in Nat /\ pins \subseteq Nat \ {0} /\ made <= made
  BY DEF IdentInv, ITypeOK
<1>2. ASSUME NEW u \in Table, NEW j \in Ident, NEW k \in Nat, HasId(u, j, k)' PROVE HasId(u, j, k)
  BY <1>2 DEF HasId, IdentInv, ITypeOK
<1>3. OwnInv'
  <2> SUFFICES ASSUME NEW t \in Table, NEW i \in Ident PROVE OwnInv'
    BY DEF OwnInv
  <2> QED
    BY <1>1, <1>2, OwnKept
<1> QED
  BY <1>1, <1>3, ClientOnly

\* One row is written: whoever had read it is overlapped.
LEMMA RowWritten ==
    ASSUME IdentInv, NEW c \in Client, NEW t \in Table, NEW i \in Ident, NEW pair \in Pair \cup {NoPair},
           ident' = [ident EXCEPT ![t][i] = pair], Writes(c, t, i), UNCHANGED <<made, pins>>, ReplyIsRight',
           pair # NoPair => \A k \in Ids(pair) : HasId(t, i, k)
    PROVE  IdentInv'
<1>1. /\ ident' \in [Table -> [Ident -> Pair \cup {NoPair}]] /\ ident'[t][i] = pair
      /\ \A u \in Table, j \in Ident : <<u, j>> # <<t, i>> => ident'[u][j] = ident[u][j]
  BY DEF IdentInv, ITypeOK
<1>2. ASSUME NEW d \in Client
      PROVE  /\ client'[d] \in ClientRequest \cup {Quiet}
             /\ client'[d] # Quiet => ReadInv(client[d])'
             /\ client'[d] # Quiet => /\ client[d] # Quiet /\ client'[d].at = client[d].at /\ client'[d].t = client[d].t
                                      /\ client'[d].i = client[d].i /\ client'[d].pair = client[d].pair
  <2>1. CASE client'[d] = Quiet
    BY <2>1
  <2>2. CASE client'[d] # Quiet
    <3>1. PICK q \in ClientRequest : q = client[d] /\ d # c /\ ReadInv(q)
      BY <2>2 DEF IdentInv, ITypeOK, Writes
    <3>2. q # Quiet
      BY IdentitiesAssumption
    <3>3. CASE q.at = "put" /\ <<q.t, q.i>> # <<t, i>>
      <4>1. client'[d] = q
        BY <3>1, <3>3 DEF Writes
      <4>2. q.i \in Ident /\ q.t \in Table
        BY <3>1, <3>3 DEF ReadInv, ClientRequest
      <4>3. ident'[q.t][q.i] = ident[q.t][q.i]
        BY <1>1, <3>3, <4>2
      <4>4. ReadInv(q)'
        BY <3>1, <3>3, <4>3 DEF ReadInv
      <4> QED
        BY <3>1, <3>2, <4>1, <4>4
    <3>4. CASE ~(q.at = "put" /\ <<q.t, q.i>> # <<t, i>>)
      <4>1. PICK v : v = [q EXCEPT !.overlapped = TRUE]
        OBVIOUS
      <4>2. client'[d] = v
        BY <3>1, <3>2, <3>4, <4>1 DEF Writes
      <4>3. /\ v \in ClientRequest /\ v.at = q.at /\ v.t = q.t /\ v.i = q.i /\ v.pair = q.pair /\ v.overlapped
            /\ v.asked = q.asked /\ v.failed = q.failed
        BY <4>1 DEF ClientRequest
      <4>4. ReadInv(v)'
        BY <3>1, <4>3 DEF ReadInv
      <4> QED
        BY <3>1, <3>2, <4>2, <4>3, <4>4
    <3> QED
      BY <3>3, <3>4
  <2> QED
    BY <2>1, <2>2
<1>3. client' \in [Client -> ClientRequest \cup {Quiet}]
  <2>1. DOMAIN client' = Client /\ client' = [d \in Client |-> client'[d]]
    BY DEF Writes
  <2> QED
    BY <1>2, <2>1
<1>4. ITypeOK'
  BY <1>1, <1>3 DEF IdentInv, ITypeOK
<1>5. ASSUME NEW u \in Table, NEW j \in Ident, NEW k \in Nat, HasId(u, j, k)' PROVE HasId(u, j, k)
  <2>1. CASE ident'[u][j] # NoPair /\ k \in Ids(ident'[u][j])
    <3>1. CASE u = t /\ j = i
      BY <1>1, <2>1, <3>1
    <3>2. CASE ~(u = t /\ j = i)
      BY <1>1, <2>1, <3>2 DEF HasId
    <3> QED
      BY <3>1, <3>2
  <2>2. CASE \E d \in Client : /\ client'[d] # Quiet /\ client'[d].at = "put"
                               /\ client'[d].t = u /\ client'[d].i = j /\ k \in Ids(client'[d].pair)
    <3>1. PICK d \in Client : /\ client'[d] # Quiet /\ client'[d].at = "put"
                              /\ client'[d].t = u /\ client'[d].i = j /\ k \in Ids(client'[d].pair)
      BY <2>2
    <3>2. /\ client[d] # Quiet /\ client[d].at = "put" /\ client[d].t = u /\ client[d].i = j
          /\ k \in Ids(client[d].pair)
      BY <1>2, <3>1
    <3> QED
      BY <3>2 DEF HasId
  <2> QED
    BY <1>5, <2>1, <2>2 DEF HasId
<1>6. OwnInv'
  <2>1. pins \subseteq pins' /\ made' \in Nat /\ made <= made'
    BY DEF IdentInv, ITypeOK
  <2> QED
    BY <1>5, <2>1, OwnKept
<1> QED
  BY <1>2, <1>4, <1>6 DEF IdentInv

\* A PUT holds a pair: the row's, a brought one or a new one.
LEMMA HoldInv ==
    ASSUME IdentInv, NEW c \in Client, NEW t \in Table, NEW i \in Ident, NEW pair \in Pair, NEW failed \in BOOLEAN,
           client[c] = Quiet, Hold(c, t, i, pair, failed), made' \in Nat, made <= made',
           pins \subseteq pins', pins' \subseteq Nat \ {0}, failed => t = "system",
           ~failed /\ ident[t][i] # NoPair => pair = ident[t][i],
           \A k \in Ids(pair) : HasId(t, i, k) \/ k \in pins' \/ (made < k /\ k <= made')
    PROVE  IdentInv'
<1>1. PICK v : v = [at |-> "put", t |-> t, i |-> i, by |-> "client", asked |-> 0, pair |-> pair,
                    failed |-> failed, overlapped |-> FALSE]
  OBVIOUS
<1>2. client' = [client EXCEPT ![c] = v] /\ ident' = ident /\ reply' = NoReply
  BY <1>1 DEF Hold
<1>3. v \in ClientRequest /\ v.at = "put" /\ v.t = t /\ v.i = i /\ v.pair = pair /\ v.failed = failed
  BY <1>1 DEF ClientRequest
<1>4. ReadInv(v)
  BY <1>3 DEF ReadInv
<1>5. /\ client \in [Client -> ClientRequest \cup {Quiet}]
      /\ client'[c] = v /\ \A d \in Client : d # c => client'[d] = client[d]
  BY <1>2 DEF IdentInv, ITypeOK
<1>6. ASSUME NEW u \in Table, NEW j \in Ident, NEW k \in Nat \ pins', HasId(u, j, k)'
      PROVE  HasId(u, j, k) \/ (u = t /\ j = i /\ made < k /\ k <= made')
  <2>1. CASE ident'[u][j] # NoPair /\ k \in Ids(ident'[u][j])
    BY <1>2, <2>1 DEF HasId
  <2>2. ASSUME NEW d \in Client, client'[d] # Quiet, client'[d].at = "put",
               client'[d].t = u, client'[d].i = j, k \in Ids(client'[d].pair)
        PROVE  HasId(u, j, k) \/ (u = t /\ j = i /\ made < k /\ k <= made')
    <3>1. CASE d = c
      <4>1. u = t /\ j = i /\ k \in Ids(pair)
        BY <1>3, <1>5, <2>2, <3>1
      <4> QED
        BY <4>1
    <3>2. CASE d # c
      BY <1>5, <2>2, <3>2 DEF HasId
    <3> QED
      BY <3>1, <3>2
  <2> QED
    BY <1>6, <2>1, <2>2 DEF HasId
<1>7. OwnInv'
  BY <1>6, OwnKept
<1> QED
  BY <1>2, <1>3, <1>4, <1>7, ClientOnly, NoReplyIsRight

LEMMA PutReadInv ==
    ASSUME IdentInv, NEW c \in Client, NEW t \in Table, NEW i \in Ident,
           GetBeforePut(c, t, i) \/ (t = "system" /\ GetFailsBeforePut(c, i))
    PROVE  IdentInv'
<1>1. made \in Nat /\ pins \subseteq Nat \ {0} /\ ident[t][i] \in Pair \cup {NoPair}
  BY DEF IdentInv, ITypeOK
<1>2. CASE ident[t][i] # NoPair /\ Hold(c, t, i, ident[t][i], FALSE) /\ UNCHANGED <<made, pins>> /\ client[c] = Quiet
  <2>1. \A k \in Ids(ident[t][i]) : HasId(t, i, k)
    BY <1>2 DEF HasId
  <2> QED
    <3>1. ident[t][i] \in Pair /\ made' \in Nat /\ made <= made' /\ pins' = pins
      BY <1>1, <1>2
    <3> QED
      BY <1>1, <1>2, <2>1, <3>1, HoldInv
<1>3. ASSUME NEW failed \in BOOLEAN, HoldDrawn(c, t, i, failed), client[c] = Quiet, failed => t = "system",
             failed \/ ident[t][i] = NoPair
      PROVE  IdentInv'
  <2>1. Drawn \in Pair /\ Ids(Drawn) = {made + 1, made + 2}
    BY <1>1 DEF Drawn, Pair, Ids
  <2>2. Hold(c, t, i, Drawn, failed) /\ made' = made + 2 /\ UNCHANGED pins
    BY <1>3 DEF HoldDrawn
  <2>3. made' \in Nat /\ made <= made' /\ \A k \in Ids(Drawn) : made < k /\ k <= made'
    BY <1>1, <2>1, <2>2
  <2> QED
    BY <1>1, <1>3, <2>1, <2>2, <2>3, HoldInv
<1>4. ASSUME NEW pin \in Pinned, Hold(c, t, i, pin, FALSE), pins' = pins \cup Ids(pin), UNCHANGED made,
             client[c] = Quiet, ident[t][i] = NoPair
      PROVE  IdentInv'
  <2>1. pin \in Pair
    BY IdentitiesAssumption
  <2>2. pins \subseteq pins' /\ pins' \subseteq Nat \ {0} /\ \A k \in Ids(pin) : k \in pins'
    BY <1>1, <1>4, <2>1 DEF Pair, Ids
  <2>3. made' \in Nat /\ made <= made'
    BY <1>1, <1>4
  <2> QED
    BY <1>4, <2>1, <2>2, <2>3, HoldInv
<1> QED
  BY <1>2, <1>3, <1>4 DEF GetBeforePut, GetFailsBeforePut

\* The answer of a PUT that nobody overlapped and whose read did not fail names
\* what is stored.
LEMMA PutWriteInv ==
    ASSUME IdentInv, NEW c \in Client, UpsertManagedIdentity(c) \/ UpsertSystemAssignedIdentity(c)
    PROVE  IdentInv'
<1>1. PICK q \in ClientRequest : /\ q = client[c] /\ client[c] # Quiet /\ q.at = "put" /\ ReadInv(q)
                                 /\ q.t = IF UpsertManagedIdentity(c) THEN "user" ELSE "system"
  BY DEF UpsertManagedIdentity, UpsertSystemAssignedIdentity, PutReads, IdentInv, ITypeOK
<1>2. PICK t \in Table, i \in Ident : t = q.t /\ i = q.i
  BY <1>1 DEF ReadInv, ClientRequest
<1>3. PICK pair : pair = IF t = "user" \/ ident[t][i] = NoPair THEN q.pair ELSE ident[t][i]
  OBVIOUS
<1>4. pair \in Pair
  BY <1>1, <1>3 DEF ReadInv, IdentInv, ITypeOK
<1>5. /\ ident' = [ident EXCEPT ![t][i] = pair] /\ Writes(c, t, i) /\ UNCHANGED <<made, pins>> /\ Replied(c)
  <2>1. CASE UpsertManagedIdentity(c)
    BY <1>1, <1>2, <1>3, <2>1 DEF UpsertManagedIdentity
  <2>2. CASE ~UpsertManagedIdentity(c)
    <3>1. t = "system" /\ UpsertSystemAssignedIdentity(c)
      BY <1>1, <1>2, <2>2
    <3>2. /\ ident' = [ident EXCEPT !["system"][i] = IF @ = NoPair THEN q.pair ELSE @]
          /\ Writes(c, "system", i) /\ Replied(c) /\ UNCHANGED <<made, pins>>
      BY <1>1, <1>2, <3>1 DEF UpsertSystemAssignedIdentity
    <3> QED
      BY <1>3, <3>1, <3>2 DEF IdentInv, ITypeOK
  <2> QED
    BY <2>1, <2>2
<1>6. ident'[t][i] = pair
  BY <1>5 DEF IdentInv, ITypeOK
<1>7. reply'.to = "put" /\ reply'.pair = q.pair /\ reply'.stored = pair /\ reply'.ok = (~q.overlapped /\ ~q.failed)
  BY <1>1, <1>2, <1>5, <1>6 DEF Replied, NoReply
<1>8. ~q.overlapped /\ ~q.failed => pair = q.pair
  BY <1>1, <1>2, <1>3 DEF ReadInv
<1>9. ReplyIsRight'
  BY <1>7, <1>8 DEF ReplyIsRight
<1>10. \A k \in Ids(pair) : HasId(t, i, k)
  <2>1. CASE pair = q.pair
    BY <1>1, <1>2, <2>1 DEF HasId
  <2>2. CASE pair = ident[t][i] /\ ident[t][i] # NoPair
    BY <2>2 DEF HasId
  <2> QED
    BY <1>3, <2>1, <2>2
<1> QED
  BY <1>4, <1>5, <1>9, <1>10, RowWritten

LEMMA DeleteIdentityInv ==
    ASSUME IdentInv, NEW c \in Client, NEW t \in Table, NEW i \in Ident, DeleteIdentity(c, t, i)
    PROVE  IdentInv'
BY RowWritten, NoReplyIsRight DEF DeleteIdentity

LEMMA FindInv ==
    ASSUME IdentInv, NEW c \in Client, NEW by \in {"principal", "client"}, NEW id \in Nat, id # 0,
           FindManagedIdentity(c, by, id)
    PROVE  IdentInv'
<1>1. UNCHANGED <<ident, made, pins>> /\ client[c] = Quiet
  BY DEF FindManagedIdentity
<1>2. ASSUME NEW i \in Found("user", by, id), Mint(by, id, ident["user"][i], TRUE), UNCHANGED client
      PROVE  IdentInv'
  <2>1. /\ reply'.to = "token" /\ reply'.by = by /\ reply'.asked = id /\ reply'.pair = ident["user"][i]
    BY <1>2 DEF Mint, NoReply
  <2>2. Found("user", by, id)' = Found("user", by, id)
    BY <1>1 DEF Found, Rows
  <2>3. ReplyIsRight'
    BY <1>1, <1>2, <2>1, <2>2 DEF ReplyIsRight
  <2>4. client' = [client EXCEPT ![c] = Quiet]
    BY <1>1, <1>2 DEF IdentInv, ITypeOK
  <2> QED
    BY <1>1, <2>3, <2>4, NoPairMoves
<1>3. CASE Found("user", by, id) = {} /\ client' # client
  <2>1. PICK v : v = [at |-> "system", t |-> "system", i |-> 0, by |-> by, asked |-> id, pair |-> NoPair,
                      failed |-> FALSE, overlapped |-> FALSE]
    OBVIOUS
  <2>2. client' = [client EXCEPT ![c] = v] /\ reply' = NoReply
    BY <1>3, <2>1 DEF FindManagedIdentity
  <2>3. v \in ClientRequest /\ v.at = "system" /\ v.asked = id /\ v.by = by
    BY <2>1 DEF ClientRequest, Table
  <2>4. ReadInv(v)
    BY <1>3, <2>3 DEF ReadInv
  <2> QED
    BY <1>1, <2>2, <2>3, <2>4, NoPairMoves, NoReplyIsRight
<1>4. CASE Found("user", by, id) = {} /\ client' = client /\ reply' = NoReply
  <2>1. client' = [client EXCEPT ![c] = Quiet]
    BY <1>1, <1>4 DEF IdentInv, ITypeOK
  <2> QED
    BY <1>1, <1>4, <2>1, NoPairMoves, NoReplyIsRight
<1> QED
  BY <1>2, <1>3, <1>4 DEF FindManagedIdentity

LEMMA FindSystemInv ==
    ASSUME IdentInv, NEW c \in Client, FindSystemAssigned(c)
    PROVE  IdentInv'
<1>1. PICK q \in ClientRequest : q = client[c] /\ ReadInv(q) /\ q.at = "system"
  BY DEF FindSystemAssigned, IdentInv, ITypeOK
<1>2. q.asked # 0 /\ (~q.overlapped => Found("user", q.by, q.asked) = {})
  BY <1>1 DEF ReadInv
<1>3. UNCHANGED <<ident, made, pins>> /\ client' = [client EXCEPT ![c] = Quiet]
  BY DEF FindSystemAssigned
<1>4. ReplyIsRight'
  <2>1. CASE reply' = NoReply
    BY <2>1, NoReplyIsRight
  <2>2. ASSUME NEW i \in Found("system", q.by, q.asked),
               Mint(q.by, q.asked, ident["system"][i], ~ q.overlapped)
        PROVE  ReplyIsRight'
    <3>1. /\ reply'.to = "token" /\ reply'.by = q.by /\ reply'.asked = q.asked /\ reply'.pair = ident["system"][i]
          /\ reply'.ok = ~ q.overlapped
      BY <2>2 DEF Mint, NoReply
    <3>2. \A t \in Table : Found(t, q.by, q.asked)' = Found(t, q.by, q.asked)
      BY <1>3 DEF Found, Rows
    <3>3. reply'.ok => Found("user", q.by, q.asked)' = {}
      BY <1>2, <3>1, <3>2 DEF Table
    <3>4. i \in Found("system", q.by, q.asked)' /\ reply'.pair = ident'["system"][i]
      BY <1>3, <2>2, <3>1, <3>2 DEF Table
    <3> QED
      BY <1>2, <3>1, <3>3, <3>4 DEF ReplyIsRight
  <2> QED
    BY <1>1, <2>1, <2>2 DEF FindSystemAssigned
<1> QED
  BY <1>3, <1>4, NoPairMoves

LEMMA CountInv ==
    ASSUME IdentInv, NEW c \in Client, CountSystemAssigned(c)
    PROVE  IdentInv'
<1>1. PICK v : v = [at |-> "first", t |-> "system", i |-> 0, by |-> "client", asked |-> 0, pair |-> NoPair,
                    failed |-> FALSE, overlapped |-> FALSE]
  OBVIOUS
<1>2. v \in ClientRequest /\ v.at = "first"
  BY <1>1 DEF ClientRequest, Table
<1>3. Single /\ client' = [client EXCEPT ![c] = v] /\ reply' = NoReply /\ UNCHANGED <<ident, made, pins>>
  BY <1>1 DEF CountSystemAssigned
<1>4. ReadInv(v)
  BY <1>2, <1>3 DEF ReadInv
<1> QED
  BY <1>2, <1>3, <1>4, NoPairMoves, NoReplyIsRight

\* Who asks without an id gets the only identity.
LEMMA FirstInv ==
    ASSUME IdentInv, NEW c \in Client, FirstSystemAssigned(c)
    PROVE  IdentInv'
<1>1. PICK q \in ClientRequest : q = client[c] /\ ReadInv(q) /\ q.at = "first"
  BY DEF FirstSystemAssigned, IdentInv, ITypeOK
<1>3. UNCHANGED <<ident, made, pins>> /\ client' = [client EXCEPT ![c] = Quiet]
  BY DEF FirstSystemAssigned
<1>2. ReplyIsRight'
  <2>1. CASE reply' = NoReply
    BY <2>1, NoReplyIsRight
  <2>2. CASE reply' # NoReply
    <3>1. PICK i \in Rows("system") : Mint("client", 0, ident["system"][i], ~ q.overlapped)
      BY <1>1, <2>2 DEF FirstSystemAssigned
    <3>2. /\ reply'.to = "token" /\ reply'.asked = 0 /\ reply'.pair = ident["system"][i]
          /\ reply'.ok = ~ q.overlapped
      BY <3>1 DEF Mint, NoReply
    <3>4. ASSUME ~q.overlapped PROVE {ident["system"][j] : j \in Rows("system")} = {ident["system"][i]}
      <4>1. Cardinality(Rows("system")) = 1
        BY <1>1, <3>4 DEF ReadInv, Single
      <4>2. IsFiniteSet(Rows("system"))
        BY FS_Subset, IdentitiesAssumption DEF Rows
      <4>3. PICK x : Rows("system") = {x}
        BY <4>1, <4>2, FS_Singleton
      <4>4. x = i
        BY <3>1, <4>3
      <4> QED
        BY <4>3, <4>4
    <3>5. {ident'["system"][j] : j \in Rows("system")'} = {ident["system"][j] : j \in Rows("system")}
      BY <1>3 DEF Rows
    <3> QED
      BY <3>2, <3>4, <3>5 DEF ReplyIsRight
  <2> QED
    BY <2>1, <2>2
<1> QED
  BY <1>2, <1>3, NoPairMoves

LEMMA IdentStep == IdentInv /\ [INext]_ivars => IdentInv'
<1> SUFFICES ASSUME IdentInv, [INext]_ivars PROVE IdentInv'
  OBVIOUS
<1>1. CASE ICrash
  <2>1. client' = [c \in Client |-> Quiet] /\ reply' = NoReply /\ UNCHANGED <<ident, made, pins>>
    BY <1>1 DEF ICrash
  <2>2. ITypeOK' /\ \A c \in Client : client'[c] = Quiet
    BY <2>1 DEF IdentInv, ITypeOK
  <2>3. \A u \in Table, j \in Ident, k \in Nat : HasId(u, j, k)' => HasId(u, j, k)
    BY <2>1, <2>2 DEF HasId
  <2>4. OwnInv'
    BY <2>1, <2>3 DEF IdentInv, OwnInv
  <2> QED
    BY <2>2, <2>1, <2>4, NoReplyIsRight DEF IdentInv
<1>2. CASE UNCHANGED ivars
  <2>1. ident' = ident /\ client' = client /\ made' = made /\ pins' = pins /\ reply' = reply
    BY <1>2 DEF ivars
  <2>2. OwnInv'
    BY <2>1 DEF IdentInv, OwnInv, HasId
  <2>3. ReplyIsRight'
    BY <2>1 DEF IdentInv, ReplyIsRight, Found, Rows
  <2>4. \A c \in Client : client'[c] # Quiet => ReadInv(client[c])'
    BY <2>1 DEF IdentInv, ReadInv, Single, Rows, Found
  <2> QED
    BY <2>1, <2>2, <2>3, <2>4 DEF IdentInv, ITypeOK
<1>3. ASSUME NEW c \in Client, NEW by \in {"principal", "client"}, NEW id \in 1 .. made \cup pins,
             FindManagedIdentity(c, by, id)
      PROVE  IdentInv'
  <2>1. made \in Nat /\ pins \subseteq Nat \ {0}
    BY DEF IdentInv, ITypeOK
  <2>2. id \in Nat /\ id # 0
    BY <2>1
  <2> QED
    BY <1>3, <2>2, FindInv
<1> QED
  BY <1>1, <1>2, <1>3, PutReadInv, PutWriteInv, DeleteIdentityInv, FindSystemInv, CountInv, FirstInv
     DEF INext, Table

LEMMA IdentInit == IInit => IdentInv
<1> SUFFICES ASSUME IInit PROVE IdentInv
  OBVIOUS
<1>1. ITypeOK /\ (\A c \in Client : client[c] = Quiet) /\ \A t \in Table, i \in Ident : ident[t][i] = NoPair
  BY DEF IInit, ITypeOK
<1>2. OwnInv
  BY <1>1 DEF OwnInv, HasId
<1> QED
  BY <1>1, <1>2 DEF IInit, IdentInv, ReplyIsRight, NoReply

\* An id of an identity that exists changes only by a PUT that was overlapped.
LEMMA IdsStep ==
    ASSUME IdentInv, INext, NEW t \in Table, NEW i \in Ident, ident[t][i] # NoPair,
           ident'[t][i] \notin {NoPair, ident[t][i]}
    PROVE  /\ t = "user"
           /\ \E c \in Client : client[c] # Quiet /\ client'[c] = Quiet /\ client[c].overlapped
<1>1. PICK c \in Client : UpsertManagedIdentity(c) \/ UpsertSystemAssignedIdentity(c)
  <2>1. ASSUME NEW c \in Client, NEW u \in Table, NEW j \in Ident, DeleteIdentity(c, u, j) PROVE FALSE
    BY <2>1 DEF DeleteIdentity, IdentInv, ITypeOK
  <2>2. ASSUME ident' = ident PROVE FALSE
    BY <2>2
  <2> QED
    BY <2>1, <2>2 DEF INext, GetBeforePut, GetFailsBeforePut, HoldDrawn, Hold, FindManagedIdentity,
                      FindSystemAssigned, CountSystemAssigned, FirstSystemAssigned, ICrash
<1>2. CASE UpsertSystemAssignedIdentity(c)
  <2>1. PICK x, j : ident' = [ident EXCEPT !["system"][j] = IF @ = NoPair THEN x ELSE @]
    BY <1>2 DEF UpsertSystemAssignedIdentity
  <2> QED
    BY <2>1 DEF IdentInv, ITypeOK
<1>3. CASE UpsertManagedIdentity(c)
  <2>1. PICK q \in ClientRequest : q = client[c] /\ q # Quiet /\ ReadInv(q) /\ q.at = "put" /\ q.t = "user"
    BY <1>3 DEF UpsertManagedIdentity, PutReads, IdentInv, ITypeOK
  <2>2. ident' = [ident EXCEPT !["user"][q.i] = q.pair] /\ Writes(c, "user", q.i)
    BY <1>3, <2>1 DEF UpsertManagedIdentity
  <2>3. t = "user" /\ q.i = i /\ ident'[t][i] = q.pair
    BY <2>2 DEF IdentInv, ITypeOK
  <2>4. q.overlapped
    BY <2>1, <2>3 DEF ReadInv, ClientRequest
  <2>5. client'[c] = Quiet
    BY <2>2 DEF Writes
  <2> QED
    BY <2>1, <2>3, <2>4, <2>5
<1> QED
  BY <1>1, <1>2, <1>3

LEMMA IdsAlwaysOwn == IdentInv => IdsAreOwn
<1> SUFFICES ASSUME IdentInv, NEW t \in Table, NEW u \in Table, NEW i \in Ident, NEW j \in Ident,
                    ident[t][i] # NoPair, ident[u][j] # NoPair, <<t, i>> # <<u, j>>,
                    NEW k \in Ids(ident[t][i]) \cap Ids(ident[u][j])
             PROVE  k \in pins
  BY DEF IdsAreOwn
<1>1. HasId(t, i, k) /\ HasId(u, j, k)
  BY DEF HasId
<1>2. k \in Nat
  <2>1. ident[t][i] \in Pair
    BY DEF IdentInv, ITypeOK
  <2> QED
    BY <2>1 DEF Pair, Ids
<1> QED
  BY <1>1, <1>2 DEF IdentInv, OwnInv

\* An identity keeps its ids, no other has an id that the lab drew for it, and an
\* answer names the identity that it is about, unless another request wrote
\* between two statements or a read failed (putIdentity, putSystem, imdsToken),
\* for any identities, any ids that PUTs bring and any clients.
THEOREM IdentitiesAlwaysSafe == ISpec => IdentitiesSafe
<1>1. IdentInv /\ [INext]_ivars =>
        [\A t \in Table, i \in Ident :
          ident[t][i] # NoPair /\ ident'[t][i] \notin {NoPair, ident[t][i]} =>
             /\ t = "user"
             /\ \E c \in Client : client[c] # Quiet /\ client'[c] = Quiet /\ client[c].overlapped]_ivars
  BY IdsStep
<1>2. IdentInv => IdsAreOwn /\ ReplyIsRight
  BY IdsAlwaysOwn DEF IdentInv
<1> QED
  BY <1>1, <1>2, IdentInit, IdentStep, PTL DEF ISpec, IdentitiesSafe, IdsStay

-----------------------------------------------------------------------------
(* Function apps and the activity log.                                     *)

AppRow == [group : AppGroup, mock : Nat]

FTypeOK ==
    /\ apps \in Seq(AppRow) /\ call \in [Call -> Change \cup {Rest}]
    /\ log \in [Op -> Nat] /\ done \in [Op -> Nat] /\ changes \in 0 .. MaxChange

\* The changes that were made and are still to be logged.
Pending(o) == {c \in Call : call[c] # Rest /\ call[c].op = o /\ call[c].at = "log"}

LogInv == \A o \in Op : log[o] + Cardinality(Pending(o)) <= done[o]

HasRow(g, m) ==
    g \in Groups /\ \A i \in DOMAIN apps : apps[i].group = g => apps[i] = [group |-> g, mock |-> m]

\* What a call that nobody overlapped has written or found is still there.
SawInv(q, overlapped) ==
    /\ q.at = "log" => q.op \in Op
    /\ q.at = "read" => q.op = "writeApp"
    /\ q.op = "writeApp" /\ q.at \in {"log", "read"} /\ ~overlapped => HasRow(q.group, q.mock)
    /\ q.at = "mock" /\ ~overlapped => apps # <<>> /\ Head(apps).group = q.group

\* The inductive invariant of the function apps.
FunctionsIInv ==
    /\ FTypeOK /\ LogInv
    /\ \A c \in Call : call[c] # Rest => SawInv(call[c], c \in touched)
    /\ InvokeStaysInGroup /\ PutAnswersItsApp

LEMMA PendingFinite ==
    ASSUME NEW o
    PROVE  IsFiniteSet(Pending(o)) /\ Cardinality(Pending(o)) \in Nat
<1>1. IsFiniteSet(Pending(o))
  BY FS_Subset, FunctionsAssumption DEF Pending
<1> QED
  BY <1>1, FS_CardinalityType

\* A change is to be logged once, and is logged after it was made.
LEMMA LogChanged ==
    ASSUME FTypeOK, LogInv, NEW op \in Op, NEW c,
           \A o \in Op \ {op} : log'[o] = log[o] /\ done'[o] = done[o] /\ Pending(o)' \subseteq Pending(o),
           \/ /\ log'[op] = log[op] /\ done'[op] = done[op] + 1
              /\ Pending(op)' \subseteq Pending(op) \cup {c}
           \/ /\ done'[op] = done[op] /\ log'[op] \in {log[op], log[op] + 1} /\ c \in Pending(op)
              /\ Pending(op)' \subseteq Pending(op) \ {c}
           \/ log'[op] = log[op] /\ done'[op] = done[op] /\ Pending(op)' \subseteq Pending(op)
    PROVE  LogInv'
<1> SUFFICES ASSUME NEW o \in Op PROVE log'[o] + Cardinality(Pending(o)') <= done'[o]
  BY DEF LogInv
<1>1. PICK S, T, n, d : S = Pending(o) /\ T = Pending(o)' /\ n = log[o] /\ d = done[o]
  OBVIOUS
<1>2. /\ n \in Nat /\ d \in Nat /\ n + Cardinality(S) <= d
      /\ IsFiniteSet(S) /\ Cardinality(S) \in Nat
  BY <1>1, PendingFinite DEF FTypeOK, LogInv
<1>3. ASSUME NEW U, IsFiniteSet(U), T \subseteq U
      PROVE  Cardinality(T) <= Cardinality(U) /\ Cardinality(T) \in Nat /\ Cardinality(U) \in Nat
  BY <1>3, FS_Subset, FS_CardinalityType
<1>4. CASE log'[o] = n /\ done'[o] = d /\ T \subseteq S
  BY <1>1, <1>2, <1>3, <1>4
<1>5. CASE log'[o] = n /\ done'[o] = d + 1 /\ T \subseteq S \cup {c}
  <2>1. /\ IsFiniteSet(S \cup {c})
        /\ Cardinality(S \cup {c}) = Cardinality(S) \/ Cardinality(S \cup {c}) = Cardinality(S) + 1
    BY <1>2, FS_AddElement
  <2>2. Cardinality(T) <= Cardinality(S \cup {c}) /\ Cardinality(T) \in Nat
    BY <1>3, <1>5, <2>1
  <2> QED
    BY <1>1, <1>2, <1>5, <2>1, <2>2
<1>6. CASE done'[o] = d /\ log'[o] \in {n, n + 1} /\ c \in S /\ T \subseteq S \ {c}
  <2>1. IsFiniteSet(S \ {c}) /\ Cardinality(S \ {c}) = Cardinality(S) - 1
    BY <1>2, <1>6, FS_RemoveElement
  <2>2. Cardinality(T) <= Cardinality(S \ {c}) /\ Cardinality(T) \in Nat
    BY <1>3, <1>6, <2>1
  <2> QED
    BY <1>1, <1>2, <1>6, <2>1, <2>2
<1> QED
  BY <1>1, <1>4, <1>5, <1>6

LEMMA PendingMoves ==
    ASSUME FTypeOK, NEW c \in Call, NEW v, call' = [call EXCEPT ![c] = v], NEW o
    PROVE  /\ Pending(o)' \subseteq Pending(o) \cup {c}
           /\ ~(v # Rest /\ v.op = o /\ v.at = "log") => Pending(o)' \subseteq Pending(o) \ {c}
BY DEF FTypeOK, Pending

\* The other calls: the rows stay, or they are told that they were overlapped.
LEMMA OthersSaw ==
    ASSUME FunctionsIInv, NEW c \in Call, NEW v, call' = [call EXCEPT ![c] = v],
           \/ apps' = apps /\ \A d \in Call \ {c} : d \in touched => d \in touched'
           \/ \A d \in Call \ {c} : call[d] # Rest => d \in touched',
           v # Rest => SawInv(v, c \in touched)'
    PROVE  \A d \in Call : call'[d] # Rest => SawInv(call[d], d \in touched)'
<1> SUFFICES ASSUME NEW d \in Call, call'[d] # Rest PROVE SawInv(call[d], d \in touched)'
  OBVIOUS
<1>1. CASE d = c
  BY <1>1 DEF FunctionsIInv, FTypeOK
<1>2. CASE d # c
  <2>1. PICK q : q = call[d]
    OBVIOUS
  <2>2. q = call'[d] /\ SawInv(q, d \in touched)
    BY <1>2, <2>1 DEF FunctionsIInv, FTypeOK
  <2>3. CASE apps' = apps /\ (d \in touched => d \in touched')
    BY <2>2, <2>3 DEF SawInv, HasRow, Groups
  <2>4. CASE d \in touched'
    BY <2>2, <2>4 DEF SawInv
  <2> QED
    BY <1>2, <2>1, <2>2, <2>3, <2>4
<1> QED
  BY <1>1, <1>2

\* A call goes on or ends: the rows, the log and the changes stay.
LEMMA CallOnly ==
    ASSUME FunctionsIInv, NEW c \in Call, NEW v \in Change \cup {Rest}, call' = [call EXCEPT ![c] = v],
           UNCHANGED <<apps, log, done>>, changes' \in 0 .. MaxChange,
           touched' = touched \/ touched' = touched \ {c}, v # Rest => SawInv(v, c \in touched'),
           v # Rest => v.at # "log", InvokeStaysInGroup', PutAnswersItsApp'
    PROVE  FunctionsIInv'
<1>1. FTypeOK'
  BY DEF FunctionsIInv, FTypeOK
<1>2. PICK op : op \in Op
  BY DEF Op
<1>3. \A o \in Op : Pending(o)' \subseteq Pending(o)
  BY PendingMoves DEF FunctionsIInv
<1>4. LogInv'
  BY <1>2, <1>3, LogChanged DEF FunctionsIInv
<1>5. v # Rest => SawInv(v, c \in touched)'
  BY DEF SawInv, HasRow, Groups
<1>6. \A d \in Call : call'[d] # Rest => SawInv(call[d], d \in touched)'
  BY <1>5, OthersSaw
<1> QED
  BY <1>1, <1>4, <1>6 DEF FunctionsIInv

LEMMA SameAnswer ==
    ASSUME FunctionsIInv, answered' = answered
    PROVE  InvokeStaysInGroup' /\ PutAnswersItsApp'
BY DEF FunctionsIInv, InvokeStaysInGroup, PutAnswersItsApp

\* An answer that is neither of an invocation nor of a PUT of an app.
LEMMA OtherAnswer ==
    ASSUME NEW to, NEW g, NEW o, to \notin {"invoke", "writeApp"},
           answered' = [[NoAnswer EXCEPT !.to = to, !.group = g] EXCEPT !.overlapped = o]
    PROVE  InvokeStaysInGroup' /\ PutAnswersItsApp'
<1>1. answered'.to = to
  BY DEF NoAnswer
<1> QED
  BY <1>1 DEF InvokeStaysInGroup, PutAnswersItsApp

LEMMA BeginChangeInv ==
    ASSUME FunctionsIInv, NEW c \in Call, NEW op \in Op, NEW g \in AppGroup, BeginChange(c, op, g)
    PROVE  FunctionsIInv'
<1> DEFINE v == [op |-> op, group |-> g, at |-> "write", mock |-> changes + 1]
<1>1. /\ call' = [call EXCEPT ![c] = v] /\ changes < MaxChange /\ changes' = changes + 1
      /\ touched' = touched \ {c} /\ UNCHANGED <<apps, log, done, answered>>
  BY DEF BeginChange
<1>2. changes' \in 0 .. MaxChange /\ changes + 1 \in 0 .. MaxChange
  BY <1>1, FunctionsAssumption DEF FunctionsIInv, FTypeOK
<1>3. v \in Change /\ v.at = "write"
  BY <1>2 DEF Change
<1> HIDE DEF v
<1>4. SawInv(v, c \in touched')
  BY <1>3 DEF SawInv
<1> QED
  BY <1>1, <1>2, <1>3, <1>4, CallOnly, SameAnswer

\* A change goes on to its log entry; the rows' readers are told.
LEMMA ChangedInv ==
    ASSUME FunctionsIInv, NEW c \in Call, NEW op \in Op, AtWrite(c, op), apps' \in Seq(AppRow),
           call' = [call EXCEPT ![c].at = "log"], done' = [done EXCEPT ![op] = @ + 1],
           UNCHANGED <<log, changes, answered>>,
           (apps' = apps /\ touched' = touched) \/ Touch(c),
           op = "writeApp" => HasRow(call[c].group, call[c].mock)'
    PROVE  FunctionsIInv'
<1>1. PICK q \in Change : q = call[c] /\ q # Rest /\ q.op = op
  BY DEF AtWrite, FunctionsIInv, FTypeOK
<1>2. PICK v : v = [q EXCEPT !.at = "log"]
  OBVIOUS
<1>3. call' = [call EXCEPT ![c] = v]
  BY <1>1, <1>2 DEF FunctionsIInv, FTypeOK
<1>4. v \in Change /\ v.op = op /\ v.at = "log" /\ v.group = q.group /\ v.mock = q.mock
  BY <1>1, <1>2 DEF Change
<1>5. /\ done' \in [Op -> Nat] /\ done'[op] = done[op] + 1
      /\ \A o \in Op \ {op} : done'[o] = done[o]
  BY DEF FunctionsIInv, FTypeOK
<1>6. FTypeOK'
  <2>1. call \in [Call -> Change \cup {Rest}] /\ log \in [Op -> Nat] /\ changes \in 0 .. MaxChange
    BY DEF FunctionsIInv, FTypeOK
  <2>2. call' \in [Call -> Change \cup {Rest}]
    BY <1>3, <1>4, <2>1
  <2>3. log' \in [Op -> Nat] /\ changes' \in 0 .. MaxChange
    BY <2>1
  <2> QED
    BY <1>5, <2>2, <2>3 DEF FTypeOK
<1>7. LogInv'
  <2>1. ASSUME NEW o \in Op \ {op} PROVE Pending(o)' \subseteq Pending(o)
    <3>1. FTypeOK
      BY DEF FunctionsIInv
    <3>2. v.op # o
      BY <1>4
    <3> QED
      BY <1>3, <3>1, <3>2, PendingMoves
  <2>2. Pending(op)' \subseteq Pending(op) \cup {c}
    BY <1>3, PendingMoves DEF FunctionsIInv
  <2> QED
    BY <1>5, <2>1, <2>2, LogChanged DEF FunctionsIInv
<1>8. \A d \in Call : call'[d] # Rest => SawInv(call[d], d \in touched)'
  <2>1. PICK g, m : g = call[c].group /\ m = call[c].mock
    OBVIOUS
  <2>2. op = "writeApp" => HasRow(g, m)'
    BY <2>1
  <2>3. SawInv(v, c \in touched)'
    BY <1>1, <1>4, <2>1, <2>2 DEF SawInv
  <2> QED
    BY <1>3, <2>3, OthersSaw DEF Touch
<1> QED
  BY <1>6, <1>7, <1>8, SameAnswer DEF FunctionsIInv

LEMMA UpsertFunctionAppInv ==
    ASSUME FunctionsIInv, NEW c \in Call, UpsertFunctionApp(c)
    PROVE  FunctionsIInv'
<1>1. PICK q \in Change : q = call[c]
  BY DEF UpsertFunctionApp, AtWrite, FunctionsIInv, FTypeOK
<1>2. PICK g, m : g = q.group /\ m = q.mock
  OBVIOUS
<1>3. PICK row : row = [group |-> g, mock |-> m]
  OBVIOUS
<1>4. row \in AppRow /\ row.group = g
  BY <1>1, <1>2, <1>3, FunctionsAssumption DEF Change, AppRow
<1>5. apps \in Seq(AppRow) /\ Len(apps) \in Nat /\ DOMAIN apps = 1 .. Len(apps)
  BY LenProperties DEF FunctionsIInv, FTypeOK
<1>6. apps' \in Seq(AppRow) /\ HasRow(g, m)'
  <2>1. CASE g \in Groups
    <3>1. apps' = [i \in 1 .. Len(apps) |-> IF apps[i].group = g THEN row ELSE apps[i]]
      BY <1>1, <1>2, <1>3, <1>5, <2>1 DEF UpsertFunctionApp
    <3>2. \A i \in 1 .. Len(apps) : apps'[i] \in AppRow
      BY <1>4, <1>5, <3>1, ElementOfSeq
    <3>3. apps' \in Seq(AppRow) /\ DOMAIN apps' = 1 .. Len(apps)
      BY <1>5, <3>1, <3>2, IsASeq
    <3>4. PICK i \in 1 .. Len(apps) : apps[i].group = g
      BY <1>5, <2>1 DEF Groups
    <3>5. apps'[i] = row /\ i \in DOMAIN apps'
      BY <3>1, <3>3, <3>4
    <3>6. g \in Groups'
      BY <1>4, <3>5 DEF Groups
    <3>7. \A j \in DOMAIN apps' : apps'[j].group = g => apps'[j] = row
      BY <3>1, <3>3
    <3> QED
      BY <1>3, <3>3, <3>6, <3>7 DEF HasRow
  <2>2. CASE g \notin Groups
    <3>1. apps' = Append(apps, row)
      BY <1>1, <1>2, <1>3, <2>2 DEF UpsertFunctionApp
    <3>2. /\ apps' \in Seq(AppRow) /\ Len(apps') = Len(apps) + 1 /\ apps'[Len(apps) + 1] = row
          /\ \A i \in 1 .. Len(apps) : apps'[i] = apps[i]
      BY <1>4, <1>5, <3>1, AppendProperties
    <3>3. DOMAIN apps' = 1 .. Len(apps) + 1
      BY <3>2, LenProperties
    <3>4. Len(apps) + 1 \in DOMAIN apps'
      BY <1>5, <3>3
    <3>5. g \in Groups'
      BY <1>4, <3>2, <3>4 DEF Groups
    <3>6. \A j \in DOMAIN apps' : j \in 1 .. Len(apps) \/ j = Len(apps) + 1
      BY <1>5, <3>3
    <3>7. \A j \in DOMAIN apps' : apps'[j].group = g => apps'[j] = row
      BY <1>5, <2>2, <3>2, <3>6 DEF Groups
    <3> QED
      BY <1>3, <3>2, <3>5, <3>7 DEF HasRow
  <2> QED
    BY <2>1, <2>2
<1>7. HasRow(call[c].group, call[c].mock)'
  <2>1. call'[c].group = g /\ call'[c].mock = m
    BY <1>1, <1>2 DEF UpsertFunctionApp, Change, FunctionsIInv, FTypeOK
  <2> QED
    BY <1>6, <2>1
<1>8. /\ AtWrite(c, "writeApp") /\ call' = [call EXCEPT ![c].at = "log"]
      /\ done' = [done EXCEPT !["writeApp"] = @ + 1] /\ Touch(c)
      /\ UNCHANGED <<log, changes, answered>>
  BY DEF UpsertFunctionApp
<1>9. "writeApp" \in Op
  BY DEF Op
<1>10. HasRow(call[c].group, call[c].mock)'
  BY <1>7
<1> HIDE DEF UpsertFunctionApp
<1> QED
  BY <1>6, <1>8, <1>9, <1>10, ChangedInv


LEMMA DeleteFunctionAppInv ==
    ASSUME FunctionsIInv, NEW c \in Call, DeleteFunctionApp(c)
    PROVE  FunctionsIInv'
<1>1. AtWrite(c, "deleteApp") /\ UNCHANGED <<log, changes>> /\ "deleteApp" \in Op
  BY DEF DeleteFunctionApp, Op
<1>2. CASE call[c].group \in Groups
  <2>1. PICK i : i = RowOf(call[c].group)
    OBVIOUS
  <2>2. /\ call' = [call EXCEPT ![c].at = "log"] /\ done' = [done EXCEPT !["deleteApp"] = @ + 1]
        /\ Touch(c) /\ UNCHANGED answered /\ apps' = RemoveAt(apps, i)
    BY <1>2, <2>1 DEF DeleteFunctionApp
  <2>3. apps \in Seq(AppRow) /\ Len(apps) \in Nat /\ DOMAIN apps = 1 .. Len(apps)
    BY LenProperties DEF FunctionsIInv, FTypeOK
  <2>4. i \in 1 .. Len(apps)
    BY <1>2, <2>1, <2>3 DEF Groups, RowOf
  <2>5. SubSeq(apps, 1, i - 1) \in Seq(AppRow)
    BY <2>3, <2>4, SubSeqProperties
  <2>6. SubSeq(apps, i + 1, Len(apps)) \in Seq(AppRow)
    BY <2>3, <2>4, SubSeqProperties
  <2>7. apps' \in Seq(AppRow)
    BY <2>2, <2>5, <2>6, ConcatProperties DEF RemoveAt
  <2> QED
    BY <1>1, <2>2, <2>7, ChangedInv
<1>3. CASE call[c].group \notin Groups
  <2>1. PICK g, o : g = call[c].group /\ o = (c \in touched)
    OBVIOUS
  <2>2. /\ call' = [call EXCEPT ![c] = Rest] /\ UNCHANGED <<apps, done, touched>>
        /\ answered' = [[NoAnswer EXCEPT !.to = "deleteApp", !.group = g] EXCEPT !.overlapped = o]
    BY <1>3, <2>1 DEF DeleteFunctionApp, Ends
  <2>3. InvokeStaysInGroup' /\ PutAnswersItsApp'
    <3>1. PICK to : to = "deleteApp" /\ to \notin {"invoke", "writeApp"}
      OBVIOUS
    <3> QED
      BY <2>2, <3>1, OtherAnswer
  <2>4. changes' \in 0 .. MaxChange
    BY <1>1 DEF FunctionsIInv, FTypeOK
  <2> QED
    BY <1>1, <2>2, <2>3, <2>4, CallOnly
<1> QED
  BY <1>2, <1>3

LEMMA UpsertResourceGroupInv ==
    ASSUME FunctionsIInv, NEW c \in Call, UpsertResourceGroup(c)
    PROVE  FunctionsIInv'
<1>1. /\ AtWrite(c, "writeGroup") /\ call' = [call EXCEPT ![c].at = "log"]
      /\ done' = [done EXCEPT !["writeGroup"] = @ + 1]
      /\ UNCHANGED <<apps, log, changes, touched, answered>>
  BY DEF UpsertResourceGroup
<1>2. "writeGroup" \in Op /\ apps' \in Seq(AppRow)
  BY <1>1 DEF Op, FunctionsIInv, FTypeOK
<1> QED
  BY <1>1, <1>2, ChangedInv

LEMMA AppendActivityLogInv ==
    ASSUME FunctionsIInv, NEW c \in Call, NEW fails \in BOOLEAN, AppendActivityLog(c, fails)
    PROVE  FunctionsIInv'
<1>1. PICK q \in Change : q = call[c] /\ q # Rest /\ q.at = "log"
  BY DEF AppendActivityLog, FunctionsIInv, FTypeOK
<1>2. q.op \in Op /\ SawInv(q, c \in touched) /\ c \in Pending(q.op)
  BY <1>1 DEF FunctionsIInv, SawInv, Pending
<1>3. PICK op \in Op : op = q.op
  BY <1>2
<1>4. UNCHANGED <<apps, changes, done, touched>>
  BY DEF AppendActivityLog
<1>5. /\ log' \in [Op -> Nat] /\ log'[op] \in {log[op], log[op] + 1}
      /\ \A o \in Op \ {op} : log'[o] = log[o]
  BY <1>1, <1>3 DEF AppendActivityLog, FunctionsIInv, FTypeOK
<1>6. PICK v : v = IF op = "writeApp" THEN [q EXCEPT !.at = "read"] ELSE Rest
  OBVIOUS
<1>7. call' = [call EXCEPT ![c] = v]
  BY <1>1, <1>3, <1>6 DEF AppendActivityLog, Ends, FunctionsIInv, FTypeOK
<1>8. /\ v \in Change \cup {Rest}
      /\ v # Rest => /\ op = "writeApp" /\ v.op = op /\ v.at = "read"
                     /\ v.group = q.group /\ v.mock = q.mock
  BY <1>1, <1>3, <1>6 DEF Change
<1>9. FTypeOK'
  <2>1. call \in [Call -> Change \cup {Rest}] /\ apps' \in Seq(AppRow) /\ done' \in [Op -> Nat]
        /\ changes' \in 0 .. MaxChange
    BY <1>4 DEF FunctionsIInv, FTypeOK
  <2> QED
    BY <1>5, <1>7, <1>8, <2>1 DEF FTypeOK
<1>10. LogInv'
  <2>1. FTypeOK /\ LogInv
    BY DEF FunctionsIInv
  <2>2. ASSUME NEW o PROVE Pending(o)' \subseteq Pending(o) \ {c}
    BY <1>7, <1>8, <2>1, PendingMoves
  <2>3. \A o \in Op \ {op} : log'[o] = log[o] /\ done'[o] = done[o] /\ Pending(o)' \subseteq Pending(o)
    BY <1>4, <1>5, <2>2
  <2>4. /\ done'[op] = done[op] /\ log'[op] \in {log[op], log[op] + 1} /\ c \in Pending(op)
        /\ Pending(op)' \subseteq Pending(op) \ {c}
    BY <1>2, <1>3, <1>4, <1>5, <2>2
  <2> QED
    BY <2>1, <2>3, <2>4, LogChanged
<1>11. \A d \in Call : call'[d] # Rest => SawInv(call[d], d \in touched)'
  <2>1. v # Rest => SawInv(v, c \in touched)
    BY <1>1, <1>2, <1>3, <1>8 DEF SawInv
  <2>2. v # Rest => SawInv(v, c \in touched)'
    BY <1>4, <2>1 DEF SawInv, HasRow, Groups
  <2> QED
    BY <1>4, <1>7, <2>2, OthersSaw
<1>12. InvokeStaysInGroup' /\ PutAnswersItsApp'
  <2>1. CASE op = "writeApp"
    BY <1>1, <1>3, <2>1, SameAnswer DEF AppendActivityLog
  <2>2. CASE op # "writeApp"
    <3>1. PICK g, o : g = call[c].group /\ o = (c \in touched)
      OBVIOUS
    <3>2. answered' = [[NoAnswer EXCEPT !.to = op, !.group = g] EXCEPT !.overlapped = o]
      BY <1>1, <1>3, <2>2, <3>1 DEF AppendActivityLog, Ends
    <3>3. op \notin {"invoke", "writeApp"}
      BY <2>2 DEF Op
    <3> QED
      BY <3>2, <3>3, OtherAnswer
  <2> QED
    BY <2>1, <2>2
<1> QED
  BY <1>9, <1>10, <1>11, <1>12 DEF FunctionsIInv

LEMMA PutAnswerInv ==
    ASSUME FunctionsIInv, NEW c \in Call, PutAnswer(c)
    PROVE  FunctionsIInv'
<1>1. PICK q \in Change : q = call[c] /\ q # Rest /\ q.at = "read" /\ SawInv(q, c \in touched)
  BY DEF PutAnswer, FunctionsIInv, FTypeOK
<1>2. call' = [call EXCEPT ![c] = Rest] /\ UNCHANGED <<apps, log, changes, done, touched>>
  BY DEF PutAnswer, Ends
<1>3. PICK a : a = GetFunctionApp(q.group)
  OBVIOUS
<1>4. /\ answered'.to = "writeApp" /\ answered'.group = q.group /\ answered'.sent = q.mock
      /\ answered'.got = a /\ answered'.overlapped = (c \in touched)
  BY <1>1, <1>3 DEF PutAnswer, Ends, NoAnswer
<1>5. ASSUME c \notin touched PROVE a = [group |-> q.group, mock |-> q.mock]
  <2>1. HasRow(q.group, q.mock)
    BY <1>1, <1>5 DEF SawInv
  <2>2. RowOf(q.group) \in DOMAIN apps /\ apps[RowOf(q.group)].group = q.group
    BY <2>1 DEF HasRow, Groups, RowOf
  <2> QED
    BY <1>3, <2>1, <2>2 DEF HasRow, GetFunctionApp
<1>6. InvokeStaysInGroup' /\ PutAnswersItsApp'
  BY <1>4, <1>5 DEF InvokeStaysInGroup, PutAnswersItsApp
<1>7. changes' \in 0 .. MaxChange
  BY <1>2 DEF FunctionsIInv, FTypeOK
<1> QED
  BY <1>2, <1>6, <1>7, CallOnly

\* The rows of the name hold an app at their head, and it is not the value for none.
LEMMA HeadIsApp ==
    ASSUME FTypeOK, apps # <<>>
    PROVE  GetFunctionAppByName = Head(apps) /\ Head(apps) \in AppRow /\ Head(apps) # NoApp
<1>1. GetFunctionAppByName = Head(apps) /\ Head(apps) \in AppRow
  BY HeadTailProperties DEF FTypeOK, GetFunctionAppByName
<1> QED
  BY <1>1, FunctionsAssumption DEF AppRow

LEMMA InvokeFindInv ==
    ASSUME FunctionsIInv, NEW c \in Call, InvokeFind(c)
    PROVE  FunctionsIInv'
<1>1. PICK g : g = Head(apps).group
  OBVIOUS
<1>2. apps # <<>> /\ g \in AppGroup /\ GetFunctionAppByName.group = g
  BY <1>1, HeadIsApp DEF InvokeFind, FunctionsIInv, AppRow
<1> DEFINE v == [op |-> "invoke", group |-> g, at |-> "mock", mock |-> 0]
<1>3. /\ call' = [call EXCEPT ![c] = v] /\ touched' = touched \ {c}
      /\ UNCHANGED <<apps, log, changes, done, answered>>
  BY <1>2 DEF InvokeFind
<1>4. v \in Change /\ v.at = "mock" /\ v.op = "invoke" /\ v.group = g
  BY <1>2, FunctionsAssumption DEF Change
<1> HIDE DEF v
<1>5. SawInv(v, c \in touched')
  BY <1>1, <1>2, <1>4 DEF SawInv
<1>6. changes' \in 0 .. MaxChange
  BY <1>3 DEF FunctionsIInv, FTypeOK
<1>7. InvokeStaysInGroup' /\ PutAnswersItsApp'
  BY <1>3, SameAnswer
<1> QED
  BY <1>3, <1>4, <1>5, <1>6, <1>7, CallOnly

LEMMA InvokeFunctionAppMockInv ==
    ASSUME FunctionsIInv, NEW c \in Call, InvokeFunctionAppMock(c)
    PROVE  FunctionsIInv'
<1>1. PICK q \in Change : q = call[c] /\ q # Rest /\ q.at = "mock" /\ SawInv(q, c \in touched)
  BY DEF InvokeFunctionAppMock, FunctionsIInv, FTypeOK
<1>2. call' = [call EXCEPT ![c] = Rest] /\ UNCHANGED <<apps, log, changes, done, touched>>
  BY DEF InvokeFunctionAppMock, Ends
<1>3. PICK a : a = GetFunctionAppByName
  OBVIOUS
<1>4. /\ answered'.to = "invoke" /\ answered'.group = q.group
      /\ answered'.got = a /\ answered'.overlapped = (c \in touched)
  BY <1>1, <1>3 DEF InvokeFunctionAppMock, Ends, NoAnswer
<1>5. ASSUME c \notin touched PROVE a # NoApp /\ a.group = q.group
  BY <1>1, <1>3, <1>5, HeadIsApp DEF SawInv, FunctionsIInv
<1>6. InvokeStaysInGroup' /\ PutAnswersItsApp'
  BY <1>4, <1>5 DEF InvokeStaysInGroup, PutAnswersItsApp
<1>7. changes' \in 0 .. MaxChange
  BY <1>2 DEF FunctionsIInv, FTypeOK
<1> QED
  BY <1>2, <1>6, <1>7, CallOnly

LEMMA FCrashInv ==
    ASSUME FunctionsIInv, FCrash
    PROVE  FunctionsIInv'
<1>1. call' = [c \in Call |-> Rest] /\ UNCHANGED <<apps, log, changes, done, answered>>
  BY DEF FCrash
<1>2. FTypeOK'
  BY <1>1 DEF FunctionsIInv, FTypeOK
<1>3. LogInv'
  <2>1. FTypeOK /\ LogInv
    BY DEF FunctionsIInv
  <2>2. \A o : Pending(o)' \subseteq Pending(o)
    BY <1>1 DEF Pending
  <2>3. PICK op : op \in Op
    BY DEF Op
  <2> QED
    BY <1>1, <2>1, <2>2, <2>3, LogChanged
<1> QED
  BY <1>1, <1>2, <1>3, SameAnswer DEF FunctionsIInv

LEMMA FunctionsStepInv ==
    ASSUME FunctionsIInv, [FNext]_fvars
    PROVE  FunctionsIInv'
<1>1. CASE UNCHANGED fvars
  <2>1. UNCHANGED <<apps, log, call, changes, done, touched, answered>>
    BY <1>1 DEF fvars
  <2> QED
    BY <2>1 DEF FunctionsIInv, FTypeOK, LogInv, Pending, SawInv, HasRow, Groups,
                InvokeStaysInGroup, PutAnswersItsApp
<1>2. CASE FNext
  BY <1>2, BeginChangeInv, UpsertFunctionAppInv, DeleteFunctionAppInv, UpsertResourceGroupInv,
     AppendActivityLogInv, PutAnswerInv, InvokeFindInv, InvokeFunctionAppMockInv, FCrashInv
     DEF FNext
<1> QED
  BY <1>1, <1>2

LEMMA FunctionsInitInv ==
    ASSUME FInit
    PROVE  FunctionsIInv
<1>1. FTypeOK
  BY FunctionsAssumption, EmptySeq DEF FInit, FTypeOK
<1>2. \A o \in Op : Pending(o) = {}
  BY DEF FInit, Pending
<1>3. LogInv
  BY <1>2, FS_EmptySet DEF FInit, LogInv
<1>4. answered.to = "none"
  BY DEF FInit, NoAnswer
<1> QED
  BY <1>1, <1>3, <1>4 DEF FInit, FunctionsIInv, InvokeStaysInGroup, PutAnswersItsApp

\* For any number of groups, concurrent requests and changes, in every order of
\* their statements and with a crash between any two: the activity log never shows
\* a change that was not made, and an invocation or a PUT that nobody overlapped
\* answers with the app it checked or wrote (putApp, invoke and AppendActivityLog).
THEOREM FunctionsAlways == FSpec => []FunctionsInv
<1>1. FunctionsIInv => FunctionsInv
  <2> SUFFICES ASSUME FunctionsIInv PROVE LogIsTrue
    BY DEF FunctionsIInv, FunctionsInv
  <2>1. \A o \in Op : /\ log[o] \in Nat /\ done[o] \in Nat /\ Cardinality(Pending(o)) \in Nat
                      /\ log[o] + Cardinality(Pending(o)) <= done[o]
    BY PendingFinite DEF FunctionsIInv, FTypeOK, LogInv
  <2> QED
    BY <2>1 DEF LogIsTrue
<1> QED
  BY <1>1, FunctionsInitInv, FunctionsStepInv, PTL DEF FSpec

-----------------------------------------------------------------------------
(* Resource types kept as a row.                                           *)

\* A request between require and its statement.
LetIn(q) ==
    /\ q.h \in handlers
    /\ q.by = Require(q.h, IF q.op = "put" THEN "write" ELSE "delete", q.group)
    /\ q.op = "put" => /\ q.row \in Row /\ q.row.put \in 0 .. puts
                       /\ "provisioningState" \in q.row.props
    /\ q.op = "delete" => q.row = NoRow

\* A route's last PUT is the one whose row the route's key holds.
SentIsStored ==
    \A h \in handlers, g \in Group, n \in Name :
       sent[<<h.route, g, n>>] =
          IF rows[<<h.key, g, n>>] = NoRow THEN 0 ELSE rows[<<h.key, g, n>>].put

\* The inductive invariant of the rows.
RowsIInv ==
    /\ RTypeOK /\ SentIsStored
    /\ \A r \in RReq : rreq[r] # RIdle => LetIn(rreq[r])

\* A type has two segments.
IsType(t) == \E ns, type : t = <<ns, type>>

\* The strings of each copy agree with each other, but for the routes of one.
LEMMA HandlerShape ==
    ASSUME NEW h \in Handlers
    PROVE  /\ h.right = h.key /\ IsType(h.key) /\ "provisioningState" \in h.defaults
           /\ \/ h.route = h.key /\ h.key[1] # "Microsoft.Cache"
              \/ /\ h.route = <<"Microsoft.Cache", "Redis">> /\ h.key = <<"Microsoft.Cache", "redis">>
                 /\ h = RedisCache
<1> DEFINE Shape(x) == /\ x.right = x.key /\ IsType(x.key) /\ "provisioningState" \in x.defaults
                       /\ \/ x.route = x.key /\ x.key[1] # "Microsoft.Cache"
                          \/ /\ x.route = <<"Microsoft.Cache", "Redis">>
                             /\ x.key = <<"Microsoft.Cache", "redis">>
                             /\ x = RedisCache
<1>1. ASSUME NEW ns, NEW type, ns # "Microsoft.Cache" PROVE Shape(Lite(ns, type))
  <2>1. <<ns, type>>[1] = ns
    OBVIOUS
  <2> QED
    BY <1>1, <2>1 DEF Lite, IsType
<1>2. ASSUME NEW ns, NEW type, NEW D, "provisioningState" \in D, ns # "Microsoft.Cache"
      PROVE  Shape([Lite(ns, type) EXCEPT !.defaults = D])
  <2>1. <<ns, type>>[1] = ns
    OBVIOUS
  <2> QED
    BY <1>2, <2>1 DEF Lite, IsType
<1>7. Shape(RedisCache)
  BY DEF RedisCache, Lite, IsType
<1>3. Shape(Aks)
  <2>1. PICK D : D = {"provisioningState", "powerState", "kubernetesVersion", "fqdn", "kubeConfig"}
    OBVIOUS
  <2>2. Aks = [Lite("Microsoft.ContainerService", "managedClusters") EXCEPT !.defaults = D]
    BY <2>1 DEF Aks
  <2>3. "provisioningState" \in D
    BY <2>1
  <2> HIDE DEF Shape
  <2> QED
    BY <1>2, <2>2, <2>3
<1>4. Shape(ContainerApps)
  <2>1. PICK D : D = {"provisioningState", "latestRevisionName", "runningStatus"}
    OBVIOUS
  <2>2. ContainerApps = [Lite("Microsoft.App", "containerApps") EXCEPT !.defaults = D]
    BY <2>1 DEF ContainerApps
  <2>3. "provisioningState" \in D
    BY <2>1
  <2> HIDE DEF Shape
  <2> QED
    BY <1>2, <2>2, <2>3
<1>5. h \in {Aks, ContainerApps, RedisCache}
        \/ \E ns, type : ns # "Microsoft.Cache" /\ h = Lite(ns, type)
  BY DEF Handlers, Apim, AppGateway, AppService, AzureSql, Dns, FrontDoor, LoadBalancer, Logic,
         Network, Nic, Nsg, Postgres, SignalR, VirtualMachines, Email, OpenAI
<1> HIDE DEF Shape
<1>6. Shape(h)
  BY <1>1, <1>3, <1>4, <1>5, <1>7
<1> QED
  BY <1>6 DEF Shape

\* As every type has two segments, none is a proper prefix of another.
LEMMA NoTypeInAnother ==
    ASSUME NEW s, NEW t, IsType(s), IsType(t)
    PROVE  IsPrefix(s, t) <=> s = t
<1>1. PICK a, b, c, d : s = <<a, b>> /\ t = <<c, d>>
  BY DEF IsType
<1>2. PICK S : S = {a, b, c, d}
  OBVIOUS
<1>3. s \in Seq(S) /\ Len(s) = 2 /\ t \in Seq(S) /\ Len(t) = 2
  BY <1>1, <1>2
<1>4. SubSeq(s, 1, Len(s)) = s /\ SubSeq(t, 1, Len(t)) = t
  BY <1>3, SubSeqFull
<1> QED
  BY <1>3, <1>4 DEF IsPrefix

\* Two handlers share rows just when they share routes, and the types of the
\* inventory are spelled as their rows are.
LEMMA KeysAreRoutes ==
    ASSUME handlers \subseteq Handlers
    PROVE  /\ \A k \in Keys : IsType(k)
           /\ \A h \in handlers : h.key \in Keys /\ h.route \in Routes /\ h.right = h.key
           /\ \A h, k \in handlers : h.key = k.key <=> h.route = k.route
           /\ \A h \in handlers : h \in Inventoried => h.route = h.key
<1>1. ASSUME NEW h \in handlers, NEW k \in handlers PROVE h.key = k.key <=> h.route = k.route
  <2>1. h \in Handlers /\ k \in Handlers
    OBVIOUS
  <2>2. <<"Microsoft.Cache", "Redis">>[1] = "Microsoft.Cache" /\ <<"Microsoft.Cache", "redis">>[1] = "Microsoft.Cache"
    OBVIOUS
  <2>3. <<"Microsoft.Cache", "Redis">> # <<"Microsoft.Cache", "redis">>
    OBVIOUS
  <2> QED
    BY <2>1, <2>2, <2>3, HandlerShape
<1>2. ASSUME NEW h \in handlers, h \in Inventoried PROVE h.route = h.key
  BY <1>2 DEF Inventoried, VirtualMachines, Aks, Logic, Lite
<1> QED
  BY <1>1, <1>2, HandlerShape DEF Keys, Routes

LEMMA NoRowIsNoRow ==
    /\ NoRow \notin Row
    /\ \A row \in Row : Answer(row) # NoRow /\ Answer(row).put = row.put /\ row.put # 0
<1>1. Row \subseteq [props : SUBSET Property, put : Nat]
  BY ResourcesAssumption DEF Row
<1>2. ASSUME NEW row \in Row
      PROVE  /\ Answer(row) \in [props : SUBSET Property, put : Nat]
             /\ Answer(row).put = row.put /\ row.put # 0
  BY ResourcesAssumption DEF Row, Answer, Public
<1> QED
  BY <1>1, <1>2, ResourcesAssumption

-----------------------------------------------------------------------------
\* A request is let in, or ends: the rows stay.
LEMMA RequestOnly ==
    ASSUME RowsIInv, NEW r \in RReq, NEW v \in ArmRequest \cup {RIdle},
           rreq' = [rreq EXCEPT ![r] = v], UNCHANGED <<handlers, rows, sent>>,
           puts' \in 0 .. MaxPut, puts <= puts', v # RIdle => LetIn(v)'
    PROVE  RowsIInv'
<1>1. puts \in 0 .. MaxPut /\ handlers \subseteq Handlers
  BY DEF RowsIInv, RTypeOK
<1>2. 0 .. puts \subseteq 0 .. puts'
  BY <1>1, ResourcesAssumption
<1>3. sent' \in [Routes' \X Group \X Name -> 0 .. puts']
  BY <1>2 DEF RowsIInv, RTypeOK, Routes
<1>4. rreq' \in [RReq -> ArmRequest \cup {RIdle}]
  BY DEF RowsIInv, RTypeOK
<1>5. RTypeOK'
  BY <1>3, <1>4 DEF RowsIInv, RTypeOK, Keys
<1>6. SentIsStored'
  BY DEF RowsIInv, SentIsStored
<1>7. ASSUME NEW p \in RReq, rreq'[p] # RIdle PROVE LetIn(rreq[p])'
  <2>1. CASE p = r
    BY <1>7, <2>1 DEF RowsIInv, RTypeOK
  <2>2. CASE p # r
    <3>1. PICK q : q = rreq[p]
      OBVIOUS
    <3>2. q = rreq'[p] /\ LetIn(q)
      BY <1>7, <2>2, <3>1 DEF RowsIInv, RTypeOK
    <3>3. LetIn(q)'
      BY <1>2, <3>2 DEF LetIn
    <3> QED
      BY <3>2, <3>3
  <2> QED
    BY <2>1, <2>2
<1> QED
  BY <1>5, <1>6, <1>7 DEF RowsIInv

LEMMA BeginPutInv ==
    ASSUME RowsIInv, NEW r \in RReq, NEW h \in handlers, NEW g \in Group, NEW n \in Name,
           NEW body \in Body, BeginPut(r, h, g, n, body)
    PROVE  RowsIInv'
<1>1. h \in Handlers /\ puts \in 0 .. MaxPut
  BY DEF RowsIInv, RTypeOK
<1>2. puts < MaxPut /\ puts' = puts + 1 /\ UNCHANGED <<handlers, rows, sent>>
  BY DEF BeginPut
<1>3. puts' \in 0 .. MaxPut /\ puts + 1 \in 1 .. MaxPut /\ puts <= puts' /\ puts + 1 \in 0 .. puts'
  BY <1>1, <1>2, ResourcesAssumption
<1>4. PICK row : row = [props |-> Properties(h, body), put |-> puts + 1]
  OBVIOUS
<1>5. row \in Row /\ row.put = puts + 1 /\ "provisioningState" \in row.props
  BY <1>1, <1>3, <1>4, HandlerShape DEF Properties, Row, Property
<1>6. PICK by : by = Require(h, "write", g)
  OBVIOUS
<1>7. by \in [type : {k.right : k \in Handlers}, verb : {"write", "delete"}, group : Group]
  BY <1>1, <1>6 DEF Require
<1>8. PICK v : v = [h |-> h, op |-> "put", by |-> by, group |-> g, name |-> n, row |-> row]
  OBVIOUS
<1>9. rreq' = [rreq EXCEPT ![r] = v]
  BY <1>4, <1>6, <1>8 DEF BeginPut
<1>10. v \in ArmRequest
  BY <1>1, <1>5, <1>7, <1>8 DEF ArmRequest
<1>11. v.h = h /\ v.op = "put" /\ v.by = by /\ v.group = g /\ v.row = row
  BY <1>8
<1>12. LetIn(v)'
  BY <1>2, <1>3, <1>5, <1>6, <1>11 DEF LetIn
<1> QED
  BY <1>2, <1>3, <1>9, <1>10, <1>12, RequestOnly

LEMMA BeginDelInv ==
    ASSUME RowsIInv, NEW r \in RReq, NEW h \in handlers, NEW g \in Group, NEW n \in Name,
           BeginDel(r, h, g, n)
    PROVE  RowsIInv'
<1>1. h \in Handlers /\ puts \in 0 .. MaxPut
  BY DEF RowsIInv, RTypeOK
<1>2. UNCHANGED <<handlers, rows, puts, sent>>
  BY DEF BeginDel
<1>3. puts' \in 0 .. MaxPut /\ puts <= puts'
  BY <1>1, <1>2, ResourcesAssumption
<1>4. PICK by : by = Require(h, "delete", g)
  OBVIOUS
<1>5. by \in [type : {k.right : k \in Handlers}, verb : {"write", "delete"}, group : Group]
  BY <1>1, <1>4 DEF Require
<1>6. PICK v : v = [h |-> h, op |-> "delete", by |-> by, group |-> g, name |-> n, row |-> NoRow]
  OBVIOUS
<1>7. rreq' = [rreq EXCEPT ![r] = v]
  BY <1>4, <1>6 DEF BeginDel
<1>8. v \in ArmRequest
  BY <1>1, <1>5, <1>6 DEF ArmRequest
<1>9. v.h = h /\ v.op = "delete" /\ v.by = by /\ v.group = g /\ v.row = NoRow
  BY <1>6
<1>10. LetIn(v)'
  BY <1>2, <1>4, <1>9 DEF LetIn
<1> QED
  BY <1>2, <1>3, <1>7, <1>8, <1>10, RequestOnly

\* A statement writes the row of its request, or removes it.
LEMMA StatementInv ==
    ASSUME RowsIInv, NEW r \in RReq, NEW q, q = rreq[r], q # RIdle, NEW n \in Nat,
           rows' = [rows EXCEPT ![<<q.h.key, q.group, q.name>>] = q.row],
           sent' = [sent EXCEPT ![<<q.h.route, q.group, q.name>>] = n],
           n = IF q.row = NoRow THEN 0 ELSE q.row.put,
           rreq' = [rreq EXCEPT ![r] = RIdle], UNCHANGED <<handlers, puts>>
    PROVE  /\ RowsIInv'
           /\ \A k \in DOMAIN rows :
                 rows'[k] # rows[k] =>
                    /\ rreq'[r] = RIdle
                    /\ rreq[r].by = [type |-> k[1], group |-> k[2],
                                     verb |-> IF rows'[k] = NoRow THEN "delete" ELSE "write"]
<1>1. q \in ArmRequest /\ LetIn(q)
  BY DEF RowsIInv, RTypeOK
<1>2. /\ q.h \in handlers /\ q.op \in {"put", "delete"} /\ q.group \in Group /\ q.name \in Name
      /\ q.row \in Row \cup {NoRow} /\ handlers \subseteq Handlers /\ puts \in Nat
  BY <1>1, ResourcesAssumption DEF ArmRequest, LetIn, RowsIInv, RTypeOK
<1>3. PICK i : i = <<q.h.key, q.group, q.name>>
  OBVIOUS
<1>13. PICK j : j = <<q.h.route, q.group, q.name>>
  OBVIOUS
<1>4. /\ i \in Keys \X Group \X Name /\ i[1] = q.h.right /\ i[2] = q.group
      /\ j \in Routes \X Group \X Name
  BY <1>2, <1>3, <1>13, KeysAreRoutes
<1>5. /\ rows' = [rows EXCEPT ![i] = q.row] /\ sent' = [sent EXCEPT ![j] = n]
      /\ rows \in [Keys \X Group \X Name -> Row \cup {NoRow}]
      /\ sent \in [Routes \X Group \X Name -> 0 .. puts]
  BY <1>3, <1>13 DEF RowsIInv, RTypeOK
<1>6. /\ q.row # NoRow => q.op = "put" /\ "provisioningState" \in q.row.props /\ q.row \in Row
      /\ q.row = NoRow => q.op = "delete"
  BY <1>1, <1>2, NoRowIsNoRow DEF LetIn
<1>7. n \in 0 .. puts
  BY <1>1, <1>2, <1>6 DEF LetIn
<1>8. Keys' = Keys /\ Routes' = Routes
  BY DEF Keys, Routes
<1>9. RTypeOK'
  <2>1. rows' \in [Keys \X Group \X Name -> Row \cup {NoRow}]
    BY <1>2, <1>5
  <2>2. sent' \in [Routes \X Group \X Name -> 0 .. puts]
    BY <1>5, <1>7
  <2>3. ASSUME NEW k \in DOMAIN rows', rows'[k] # NoRow
        PROVE  "provisioningState" \in rows'[k].props
    <3>1. CASE k = i
      BY <1>4, <1>5, <1>6, <2>3, <3>1
    <3>2. CASE k # i
      BY <1>5, <2>3, <3>2 DEF RowsIInv, RTypeOK
    <3> QED
      BY <3>1, <3>2
  <2>4. rreq' \in [RReq -> ArmRequest \cup {RIdle}] /\ handlers' \subseteq Handlers
        /\ puts' \in 0 .. MaxPut
    BY DEF RowsIInv, RTypeOK
  <2> QED
    BY <1>4, <1>8, <2>1, <2>2, <2>3, <2>4 DEF RTypeOK
<1>10. SentIsStored'
  <2> SUFFICES ASSUME NEW h \in handlers, NEW g \in Group, NEW m \in Name
               PROVE  sent'[<<h.route, g, m>>] =
                         IF rows'[<<h.key, g, m>>] = NoRow THEN 0 ELSE rows'[<<h.key, g, m>>].put
    BY DEF SentIsStored
  <2>1. PICK x, y : x = <<h.key, g, m>> /\ y = <<h.route, g, m>>
    OBVIOUS
  <2>2. x \in Keys \X Group \X Name /\ y \in Routes \X Group \X Name /\ (x = i <=> y = j)
    BY <1>2, <1>3, <1>13, <2>1, KeysAreRoutes
  <2>3. sent[y] = IF rows[x] = NoRow THEN 0 ELSE rows[x].put
    BY <2>1 DEF RowsIInv, SentIsStored
  <2>4. sent'[y] = IF rows'[x] = NoRow THEN 0 ELSE rows'[x].put
    <3>1. CASE x = i
      BY <1>4, <1>5, <2>2, <3>1
    <3>2. CASE x # i
      BY <1>5, <2>2, <2>3, <3>2
    <3> QED
      BY <3>1, <3>2
  <2> QED
    BY <2>1, <2>4
<1>11. ASSUME NEW p \in RReq, rreq'[p] # RIdle PROVE LetIn(rreq[p])'
  <2>1. PICK u : u = rreq[p]
    OBVIOUS
  <2>2. u = rreq'[p] /\ LetIn(u)
    BY <1>11, <2>1 DEF RowsIInv, RTypeOK
  <2>3. LetIn(u)'
    BY <2>2 DEF LetIn
  <2> QED
    BY <2>2, <2>3
<1>12. ASSUME NEW k \in DOMAIN rows, rows'[k] # rows[k]
       PROVE  /\ rreq'[r] = RIdle
              /\ rreq[r].by = [type |-> k[1], group |-> k[2],
                               verb |-> IF rows'[k] = NoRow THEN "delete" ELSE "write"]
  <2>1. k = i /\ rows'[k] = q.row
    BY <1>4, <1>5, <1>12
  <2>2. rreq'[r] = RIdle
    BY DEF RowsIInv, RTypeOK
  <2>3. (IF rows'[k] = NoRow THEN "delete" ELSE "write") = (IF q.op = "put" THEN "write" ELSE "delete")
    BY <1>2, <1>6, <2>1
  <2>4. q.by = Require(q.h, IF rows'[k] = NoRow THEN "delete" ELSE "write", q.group)
    BY <1>1, <2>3 DEF LetIn
  <2> QED
    BY <1>4, <2>1, <2>2, <2>4 DEF Require
<1> QED
  BY <1>9, <1>10, <1>11, <1>12 DEF RowsIInv

\* The request whose statement it is holds the right to it.
RightHeld(r) ==
    \A k \in DOMAIN rows :
       rows'[k] # rows[k] =>
          /\ rreq'[r] = RIdle
          /\ rreq[r].by = [type |-> k[1], group |-> k[2],
                           verb |-> IF rows'[k] = NoRow THEN "delete" ELSE "write"]

LEMMA UpsertProviderResourceInv ==
    ASSUME RowsIInv, NEW r \in RReq, UpsertProviderResource(r)
    PROVE  RowsIInv' /\ RightHeld(r)
<1>1. PICK q : q = rreq[r]
  OBVIOUS
<1>2. q # RIdle /\ q.op = "put"
  BY <1>1 DEF UpsertProviderResource
<1>3. q.row \in Row /\ q.row # NoRow /\ q.row.put \in Nat
  BY <1>1, <1>2, NoRowIsNoRow, ResourcesAssumption DEF RowsIInv, LetIn, Row
<1>4. PICK n \in Nat : n = q.row.put
  BY <1>3
<1>5. /\ rows' = [rows EXCEPT ![<<q.h.key, q.group, q.name>>] = q.row]
      /\ sent' = [sent EXCEPT ![<<q.h.route, q.group, q.name>>] = n]
      /\ rreq' = [rreq EXCEPT ![r] = RIdle] /\ UNCHANGED <<handlers, puts>>
  BY <1>1, <1>4 DEF UpsertProviderResource
<1>6. n = IF q.row = NoRow THEN 0 ELSE q.row.put
  BY <1>3, <1>4
<1> QED
  BY <1>1, <1>2, <1>5, <1>6, StatementInv DEF RightHeld

LEMMA DeleteProviderResourceInv ==
    ASSUME RowsIInv, NEW r \in RReq, DeleteProviderResource(r)
    PROVE  RowsIInv' /\ RightHeld(r)
<1>1. PICK q : q = rreq[r]
  OBVIOUS
<1>2. q # RIdle /\ q.op = "delete"
  BY <1>1 DEF DeleteProviderResource
<1>3. q.row = NoRow
  BY <1>1, <1>2 DEF RowsIInv, LetIn
<1>4. PICK n \in Nat : n = 0
  OBVIOUS
<1>5. /\ rows' = [rows EXCEPT ![<<q.h.key, q.group, q.name>>] = q.row]
      /\ sent' = [sent EXCEPT ![<<q.h.route, q.group, q.name>>] = n]
      /\ rreq' = [rreq EXCEPT ![r] = RIdle] /\ UNCHANGED <<handlers, puts>>
  BY <1>1, <1>3, <1>4 DEF DeleteProviderResource
<1>6. n = IF q.row = NoRow THEN 0 ELSE q.row.put
  BY <1>3, <1>4
<1> QED
  BY <1>1, <1>2, <1>5, <1>6, StatementInv DEF RightHeld

LEMMA RowsStepInv ==
    ASSUME RowsIInv, [RNext]_rvars
    PROVE  /\ RowsIInv'
           /\ rows' = rows \/ \E r \in RReq : rreq[r] # RIdle /\ RightHeld(r)
<1>1. CASE UNCHANGED rvars
  <2>1. UNCHANGED <<handlers, rows, rreq, puts, sent>>
    BY <1>1 DEF rvars
  <2> QED
    BY <2>1 DEF RowsIInv, RTypeOK, SentIsStored, LetIn, Keys, Routes
<1>2. ASSUME NEW r \in RReq, NEW h \in handlers, NEW g \in Group, NEW n \in Name,
             BeginDel(r, h, g, n)
      PROVE  RowsIInv' /\ rows' = rows
  BY <1>2, BeginDelInv DEF BeginDel
<1>3. ASSUME NEW r \in RReq, NEW h \in handlers, NEW g \in Group, NEW n \in Name,
             NEW body \in Body, BeginPut(r, h, g, n, body)
      PROVE  RowsIInv' /\ rows' = rows
  BY <1>3, BeginPutInv DEF BeginPut
<1>4. ASSUME NEW r \in RReq, UpsertProviderResource(r) \/ DeleteProviderResource(r)
      PROVE  RowsIInv' /\ rreq[r] # RIdle /\ RightHeld(r)
  <2>1. RowsIInv' /\ RightHeld(r)
    BY <1>4, UpsertProviderResourceInv, DeleteProviderResourceInv
  <2>2. rreq[r] # RIdle
    BY <1>4 DEF UpsertProviderResource, DeleteProviderResource
  <2> QED
    BY <2>1, <2>2
<1>5. ASSUME RCrash PROVE RowsIInv' /\ rows' = rows
  BY <1>5 DEF RCrash, RowsIInv, RTypeOK, SentIsStored, LetIn, Keys, Routes
<1> QED
  BY <1>1, <1>2, <1>3, <1>4, <1>5 DEF RNext

LEMMA RowsInitInv ==
    ASSUME RInit
    PROVE  RowsIInv
<1>1. handlers \subseteq Handlers
  BY DEF RInit
<1>2. /\ rows \in [Keys \X Group \X Name -> Row \cup {NoRow}] /\ puts \in 0 .. MaxPut
      /\ sent \in [Routes \X Group \X Name -> 0 .. puts] /\ rreq \in [RReq -> ArmRequest \cup {RIdle}]
  BY ResourcesAssumption DEF RInit
<1>3. \A h \in handlers, g \in Group, n \in Name :
         rows[<<h.key, g, n>>] = NoRow /\ sent[<<h.route, g, n>>] = 0
  BY <1>1, KeysAreRoutes DEF RInit
<1>4. \A r \in RReq : rreq[r] = RIdle
  BY DEF RInit
<1> QED
  <2>1. \A k \in DOMAIN rows : rows[k] = NoRow
    BY DEF RInit
  <2> QED
    BY <1>1, <1>2, <1>3, <1>4, <2>1 DEF RowsIInv, RTypeOK, SentIsStored

LEMMA RowsAlways == RSpec => []RowsIInv
BY RowsInitInv, RowsStepInv, PTL DEF RSpec

-----------------------------------------------------------------------------
\* What a route's rows are, from what was sent to it.
LEMMA RowWhereSent ==
    ASSUME RowsIInv, NEW h \in handlers, NEW g \in Group, NEW n \in Name
    PROVE  /\ <<h.key, g, n>> \in DOMAIN rows /\ rows[<<h.key, g, n>>] \in Row \cup {NoRow}
           /\ sent[<<h.route, g, n>>] # 0 <=> rows[<<h.key, g, n>>] # NoRow
           /\ rows[<<h.key, g, n>>] # NoRow => sent[<<h.route, g, n>>] = rows[<<h.key, g, n>>].put
<1>1. PICK k : k = <<h.key, g, n>>
  OBVIOUS
<1>2. k \in Keys \X Group \X Name
  BY <1>1, KeysAreRoutes DEF RowsIInv, RTypeOK
<1>3. rows[k] \in Row \cup {NoRow} /\ k \in DOMAIN rows
  BY <1>2 DEF RowsIInv, RTypeOK
<1>4. sent[<<h.route, g, n>>] = IF rows[k] = NoRow THEN 0 ELSE rows[k].put
  BY <1>1 DEF RowsIInv, SentIsStored
<1> QED
  BY <1>1, <1>3, <1>4, NoRowIsNoRow

\* The readings of a row, all with the number of its PUT.
LEMMA AnswersOfRow ==
    ASSUME NEW h \in Handlers, NEW g, NEW n, NEW found \in Readings(h, g, n),
           NEW row, row = rows[<<h.key, g, n>>], row \in Row \cup {NoRow}
    PROVE  \/ found = IF row = NoRow THEN NoRow ELSE Answer(row)
           \/ \E S \in SUBSET Property :
                 found = IF row = NoRow THEN NoRow ELSE [props |-> S, put |-> row.put]
<1>1. CASE found = GetResource(h, g, n)
  BY <1>1 DEF GetResource
<1>2. CASE h = Aks /\ found = ListCredential(g, n)
  <2>1. {"kubeConfig"} \in SUBSET Property
    <3>1. "kubeConfig" \in Aks.defaults
      BY DEF Aks, Lite
    <3> QED
      BY <1>2, <3>1 DEF Property
  <2> QED
    BY <1>2, <2>1 DEF ListCredential
<1>3. CASE h = ContainerApps /\ found = ListRevisions(g, n)
  <2>1. {"latestRevisionName", "runningStatus"} \in SUBSET Property
    <3>1. {"latestRevisionName", "runningStatus"} \subseteq ContainerApps.defaults
      BY DEF ContainerApps, Lite
    <3> QED
      BY <1>3, <3>1 DEF Property
  <2>2. row # NoRow /\ "revisions" \in row.props => {"revisions"} \in SUBSET Property
    BY DEF Row
  <2> QED
    BY <1>3, <2>1, <2>2 DEF ListRevisions
<1> QED
  BY <1>1, <1>2, <1>3 DEF Readings

LEMMA FoundInv ==
    ASSUME RowsIInv
    PROVE  FoundWhereSent
<1> SUFFICES ASSUME NEW h \in handlers
             PROVE  LET live == {gn \in Group \X Name : sent[<<h.route, gn[1], gn[2]>>] # 0} IN
                    /\ \A g \in Group, n \in Name : \A found \in Readings(h, g, n) :
                          IF <<g, n>> \in live THEN found # NoRow /\ found.put = sent[<<h.route, g, n>>]
                                               ELSE found = NoRow
                    /\ \A g \in Group :
                          {x[1] : x \in ListResources(h, g)} = {n \in Name : <<g, n>> \in live}
                    /\ h \in Inventoried => ListSubProvider(h) = live
  BY DEF FoundWhereSent
<1> DEFINE live == {gn \in Group \X Name : sent[<<h.route, gn[1], gn[2]>>] # 0}
<1>1. ASSUME NEW g \in Group, NEW n \in Name
      PROVE  <<g, n>> \in live <=> rows[<<h.key, g, n>>] # NoRow
  <2>1. <<g, n>> \in live <=> sent[<<h.route, g, n>>] # 0
    OBVIOUS
  <2> QED
    BY <2>1, RowWhereSent
<1>2. live \subseteq Group \X Name
  OBVIOUS
<1> HIDE DEF live
<1>3. ASSUME NEW g \in Group, NEW n \in Name, NEW found \in Readings(h, g, n)
      PROVE  IF <<g, n>> \in live
             THEN found # NoRow /\ found.put = sent[<<h.route, g, n>>]
             ELSE found = NoRow
  <2>1. PICK row \in Row \cup {NoRow} : row = rows[<<h.key, g, n>>]
    BY RowWhereSent
  <2>2. \/ found = IF row = NoRow THEN NoRow ELSE Answer(row)
        \/ \E S \in SUBSET Property :
              found = IF row = NoRow THEN NoRow ELSE [props |-> S, put |-> row.put]
    <3>1. h \in Handlers
      BY DEF RowsIInv, RTypeOK
    <3> QED
      BY <2>1, <3>1, AnswersOfRow
  <2>3. row # NoRow => row.put = sent[<<h.route, g, n>>] /\ row \in Row
    BY <2>1, RowWhereSent
  <2>4. ASSUME NEW S \in SUBSET Property, row # NoRow
        PROVE  [props |-> S, put |-> row.put] # NoRow
    BY <2>3, <2>4, ResourcesAssumption DEF Row
  <2>5. row # NoRow => found # NoRow /\ found.put = row.put
    BY <2>2, <2>3, <2>4, NoRowIsNoRow
  <2>6. row = NoRow => found = NoRow
    BY <2>2
  <2> QED
    BY <1>1, <2>1, <2>3, <2>5, <2>6
<1>4. ASSUME NEW g \in Group
      PROVE  {x[1] : x \in ListResources(h, g)} = {n \in Name : <<g, n>> \in live}
  <2>1. ASSUME NEW x \in ListResources(h, g) PROVE x[1] \in Name /\ <<g, x[1]>> \in live
    <3>1. PICK n \in Name : rows[<<h.key, g, n>>] # NoRow /\ x = <<n, Answer(rows[<<h.key, g, n>>])>>
      BY DEF ListResources, ListProviderResources
    <3> QED
      BY <1>1, <3>1
  <2>2. ASSUME NEW n \in Name, <<g, n>> \in live PROVE \E x \in ListResources(h, g) : x[1] = n
    <3>1. n \in ListProviderResources(h.key, g)
      BY <1>1, <2>2 DEF ListProviderResources
    <3>2. <<n, Answer(rows[<<h.key, g, n>>])>> \in ListResources(h, g)
      BY <3>1 DEF ListResources
    <3> QED
      BY <3>2
  <2> QED
    BY <2>1, <2>2
<1>5. ASSUME h \in Inventoried PROVE ListSubProvider(h) = live
  <2>1. /\ DOMAIN rows = Keys \X Group \X Name /\ \A t \in Keys : IsType(t)
        /\ h.key \in Keys /\ h.route = h.key
    BY <1>5, KeysAreRoutes DEF RowsIInv, RTypeOK
  <2>2. ASSUME NEW k \in ListInSubscription(h.route) PROVE <<k[2], k[3]>> \in live
    <3>1. k \in Keys \X Group \X Name /\ rows[k] # NoRow /\ IsPrefix(h.route, k[1])
      BY <2>1 DEF ListInSubscription
    <3>2. k[1] \in Keys /\ k[2] \in Group /\ k[3] \in Name /\ k = <<k[1], k[2], k[3]>>
      BY <3>1
    <3>3. k[1] = h.key
      BY <2>1, <3>1, <3>2, NoTypeInAnother
    <3>4. rows[<<h.key, k[2], k[3]>>] # NoRow
      BY <3>1, <3>2, <3>3
    <3> QED
      BY <1>1, <3>2, <3>4
  <2>3. ASSUME NEW gn \in live PROVE \E k \in ListInSubscription(h.route) : gn = <<k[2], k[3]>>
    <3>1. PICK g \in Group, n \in Name : gn = <<g, n>>
      BY <1>2
    <3>2. PICK k : k = <<h.key, g, n>>
      OBVIOUS
    <3>3. k \in DOMAIN rows /\ k[1] = h.key /\ k[2] = g /\ k[3] = n
      BY <2>1, <3>2
    <3>4. rows[k] # NoRow
      BY <1>1, <2>3, <3>1, <3>2
    <3>5. IsPrefix(h.route, k[1])
      BY <2>1, <3>3, NoTypeInAnother
    <3> QED
      BY <3>1, <3>3, <3>4, <3>5 DEF ListInSubscription
  <2> QED
    BY <2>2, <2>3 DEF ListSubProvider
<1> QED
  BY <1>3, <1>4, <1>5 DEF live

\* A set of groups has a first.
LEMMA FirstGroup ==
    ASSUME NEW S, S \subseteq Nat, S # {}
    PROVE  \E m \in S : \A k \in S : m <= k
<1>1. PICK m \in S : \A k \in S : ~ (<<k, m>> \in OpToRel(<, Nat))
  BY NatLessThanWellFounded, WFMin, Zenon
<1>2. \A k \in S : ~ (k < m)
  BY <1>1, Zenon DEF OpToRel
<1> QED
  BY <1>2

LEMMA SpecialRightsInv ==
    ASSUME RowsIInv
    PROVE  SpecialRights
<1>1. ASSUME NEW h \in handlers, NEW g \in Group, NEW n \in Name
      PROVE  GetResource(h, g, n) = NoRow <=> rows[<<h.key, g, n>>] = NoRow
  <2>1. PICK row \in Row \cup {NoRow} : row = rows[<<h.key, g, n>>]
    BY RowWhereSent
  <2>2. GetResource(h, g, n) = IF row = NoRow THEN NoRow ELSE Answer(row)
    BY <2>1 DEF GetResource
  <2> QED
    BY <2>1, <2>2, NoRowIsNoRow
<1>2. ASSUME NEW row PROVE "kubeConfig" \notin Answer(row).props
  <2>1. IsSecretPropertyKey("kubeConfig")
    BY ResourcesAssumption DEF IsSecretPropertyKey, Listed
  <2> QED
    BY <2>1 DEF Answer, Public
<1>3. ASSUME NEW h \in handlers, NEW g \in Group, NEW x \in ListResources(h, g)
      PROVE  "kubeConfig" \notin x[2].props
  <2>1. PICK n : x = <<n, Answer(rows[<<h.key, g, n>>])>>
    BY DEF ListResources
  <2> QED
    BY <1>2, <2>1
<1>4. ASSUME NEW h \in handlers, NEW g \in Group, NEW n \in Name, h = Aks,
             GetResource(h, g, n) # NoRow
      PROVE  /\ "kubeConfig" \notin GetResource(h, g, n).props
             /\ "kubeConfig" \in ListCredential(g, n).props
  <2>1. rows[<<Aks.key, g, n>>] # NoRow
    BY <1>1, <1>4
  <2>2. GetResource(h, g, n) = Answer(rows[<<h.key, g, n>>])
    BY <1>4, <2>1 DEF GetResource
  <2>3. ListCredential(g, n) = [props |-> {"kubeConfig"}, put |-> rows[<<Aks.key, g, n>>].put]
    BY <2>1 DEF ListCredential
  <2> QED
    BY <1>2, <2>2, <2>3
<1>5. ASSUME OpenAI \in handlers, NEW n \in Name
      PROVE  ChatScope(n) = 0 <=> \A g \in Group : GetResource(OpenAI, g, n) = NoRow
  <2> DEFINE gs == {g \in Group : rows[<<OpenAI.key, g, n>>] # NoRow}
  <2>1. ChatScope(n) = IF gs = {} THEN 0 ELSE CHOOSE g \in gs : \A k \in gs : g <= k
    BY DEF ChatScope
  <2>2. gs = {} <=> \A g \in Group : GetResource(OpenAI, g, n) = NoRow
    BY <1>1, <1>5
  <2>3. gs \subseteq Nat \ {0}
    BY ResourcesAssumption
  <2> HIDE DEF gs
  <2>4. ASSUME gs # {} PROVE ChatScope(n) \in gs
    <3>1. \E m \in gs : \A k \in gs : m <= k
      BY <2>3, <2>4, FirstGroup
    <3> QED
      BY <2>1, <2>4, <3>1
  <2> QED
    BY <2>1, <2>2, <2>3, <2>4
<1> QED
  BY <1>3, <1>4, <1>5 DEF SpecialRights

\* Whatever groups, names, bodies and concurrent requests there are, and whichever
\* two of the nineteen handlers are called: a route finds exactly what was last sent
\* to it, by name, in its group's list and in the subscription's inventory, the
\* kubeConfig of a cluster is shown by listCredential alone, and the chat route asks
\* for its right at an account that exists (put, get, del, list, listCredential,
\* listRevisions, listSubProvider, chatCompletions).
THEOREM ResourcesAlways == RSpec => []ResourcesInv
<1>1. RowsIInv => ResourcesInv
  BY FoundInv, SpecialRightsInv DEF RowsIInv, ResourcesInv
<1> QED
  BY <1>1, RowsAlways, PTL

\* A row of any of the nineteen types changes only by a request let in with the
\* right to write, or delete, that type in that group (require and the statement
\* of put and del, with any number of requests under way).
THEOREM OwnRightAlways == RSpec => OwnRightOnly
<1>1. ASSUME RowsIInv, [RNext]_rvars
      PROVE  [\A k \in DOMAIN rows :
                 rows'[k] # rows[k] =>
                    \E r \in RReq :
                       /\ rreq[r] # RIdle /\ rreq'[r] = RIdle
                       /\ rreq[r].by = [type |-> k[1], group |-> k[2],
                                        verb |-> IF rows'[k] = NoRow THEN "delete" ELSE "write"]
             ]_rvars
  BY <1>1, RowsStepInv DEF RightHeld
<1> QED
  BY <1>1, RowsAlways, PTL DEF RSpec, OwnRightOnly

=============================================================================
