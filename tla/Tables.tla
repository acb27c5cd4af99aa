------------------------------- MODULE Tables -------------------------------
(***************************************************************************)
(* The entities of one storage table (internal/services/table,             *)
(* internal/store/table.go).                                               *)
(*                                                                         *)
(* PUT and MERGE read the entity with one statement and write the whole    *)
(* row with another; POST looks whether the entity exists and writes it    *)
(* later.  No request carries an If-Match, so nothing ties the two.        *)
(***************************************************************************)
EXTENDS Naturals, Sequences, FiniteSets, StorageAuth, Listing

CONSTANTS
    Key,        \* (PartitionKey, RowKey) pairs: 1, 2 ... in query order
    Prop,       \* property names
    TReq,       \* concurrent requests
    Grant,      \* letter sets of the SAS in use; all letters: any other credential
    NoEntity, TIdle,
    MaxEntity    \* bound: requests that write

ASSUME KeyAssumption == IsFiniteSet(Key) /\ Key = 1 .. Cardinality(Key) /\ "" \notin Prop

ASSUME MaxEntityAssumption == MaxEntity \in Nat

VARIABLES
    created,    \* tables: the table was created
    rows,       \* table_entities
    treq,       \* requests between two statements
    clock,      \* history: numbers the requests and the statements
    touched     \* history: when the row of a key last changed

tvars == <<created, rows, treq, clock, touched>>

\* The properties of an entity: for each name the request that gave its value,
\* 0 when the entity does not have it.  The etag is a fresh uuid per write.
Props  == [Prop -> 0 .. MaxEntity]
Entity == [etag : 1 .. MaxEntity, props : Props]

\* What a body sets: the names in P, with this request's value.
Body(P, w) == [p \in Prop |-> IF p \in P THEN w ELSE 0]

\* A request: its kind, key and body, the properties to store, its number, which
\* is also when it read, and (history) the letters it came with.
Request == [kind : {"insert", "put", "merge"}, key : Key, set : SUBSET Prop,
            props : Props, write : 1 .. MaxEntity, sp : Grant]

\* authorize: the letters get the request through on its route.
MayCall(op, sp) == SASPermits(sp, TableRoutes[op])

-----------------------------------------------------------------------------
(* Tables.                                                                 *)

PutTable(sp) ==
    /\ MayCall("putTable", sp)
    /\ created' = TRUE
    /\ UNCHANGED <<rows, treq, clock, touched>>

\* DeleteTable, one transaction: the entities, then the table.
DeleteTable(sp) ==
    /\ MayCall("deleteTable", sp)
    /\ created' = FALSE
    /\ rows' = [k \in Key |-> NoEntity]
    /\ touched' = [k \in Key |-> clock]
    /\ UNCHANGED <<treq, clock>>

\* A missing entity is 404.
DeleteEntity(k, sp) ==
    /\ MayCall("deleteEntity", sp)
    /\ rows[k] # NoEntity
    /\ rows' = [rows EXCEPT ![k] = NoEntity]
    /\ touched' = [touched EXCEPT ![k] = clock]
    /\ UNCHANGED <<created, treq, clock>>

-----------------------------------------------------------------------------
(* Writing an entity.                                                      *)

\* Mutant of Merged: a merge starts from nothing.
MergedEmpty(kind, old, P, w) == Body(P, w)

\* UpsertEntity: what is stored over the entity that was read.
Merged(kind, old, P, w) ==
    IF kind = "merge" /\ old # NoEntity
    THEN [p \in Prop |-> IF p \in P THEN w ELSE old.props[p]]
    ELSE Body(P, w)

Pending(kind, k, P, sp) ==
    [kind |-> kind, key |-> k, set |-> P, write |-> clock,
     props |-> Merged(kind, rows[k], P, clock), sp |-> sp]

\* GetEntity of a PUT or a MERGE.
ReadEntity(r, kind, k, P, sp) ==
    /\ MayCall(IF kind = "put" THEN "putEntity" ELSE "mergeEntity", sp)
    /\ treq[r] = TIdle /\ clock <= MaxEntity
    /\ treq' = [treq EXCEPT ![r] = Pending(kind, k, P, sp)]
    /\ clock' = clock + 1
    /\ UNCHANGED <<created, rows, touched>>

\* GetEntity of a POST: an existing entity is 409.  The second GetEntity, in
\* UpsertEntity, is for a merge only.
CheckAbsent(r, k, P, sp) ==
    /\ MayCall("insertEntity", sp)
    /\ treq[r] = TIdle /\ clock <= MaxEntity
    /\ rows[k] = NoEntity
    /\ treq' = [treq EXCEPT ![r] = Pending("insert", k, P, sp)]
    /\ clock' = clock + 1
    /\ UNCHANGED <<created, rows, touched>>

\* INSERT ... ON CONFLICT DO UPDATE, of the whole row.
WriteEntity(r) ==
    /\ treq[r] # TIdle
    /\ rows' = [rows EXCEPT ![treq[r].key] = [etag |-> treq[r].write, props |-> treq[r].props]]
    /\ touched' = [touched EXCEPT ![treq[r].key] = clock]
    /\ treq' = [treq EXCEPT ![r] = TIdle]
    /\ UNCHANGED <<created, clock>>

TCrash ==
    /\ \E r \in TReq : treq[r] # TIdle
    /\ treq' = [r \in TReq |-> TIdle]
    /\ UNCHANGED <<created, rows, clock, touched>>

-----------------------------------------------------------------------------
(* Queries.                                                                *)

Matches(k, k0, p, v) ==
    /\ rows[k] # NoEntity
    /\ k0 = 0 \/ k = k0
    /\ p \notin Prop \/ rows[k].props[p] = v

\* QueryEntities: key k0 (0: any), property p equal to v (p not in Prop: no such
\* filter), at most top (0: all).  LIMIT goes to SQL only when no property is
\* filtered; otherwise the scan stops at the top-th match.
QueryEntities(k0, p, v, top) ==
    LET order == [i \in Key |-> i]
        scan  == Keep(order, {k \in Key : Matches(k, k0, "", 0)})
        sql   == IF p \notin Prop THEN Cut(scan, top) ELSE scan
        out   == Keep(sql, {k \in Key : Matches(k, k0, p, v)})
    IN  IF p \in Prop THEN Cut(out, top) ELSE out

-----------------------------------------------------------------------------
TInit ==
    /\ created = FALSE
    /\ rows = [k \in Key |-> NoEntity]
    /\ treq = [r \in TReq |-> TIdle]
    /\ clock = 1
    /\ touched = [k \in Key |-> 0]

TNext ==
    \/ \E sp \in Grant :
          \/ PutTable(sp) \/ DeleteTable(sp)
          \/ \E k \in Key : DeleteEntity(k, sp)
          \/ \E r \in TReq, k \in Key, P \in SUBSET Prop :
                \/ CheckAbsent(r, k, P, sp)
                \/ \E kind \in {"put", "merge"} : ReadEntity(r, kind, k, P, sp)
    \/ \E r \in TReq : WriteEntity(r)
    \/ TCrash

TSpec == TInit /\ [][TNext]_tvars

-----------------------------------------------------------------------------
(* Properties.                                                             *)

\* Every variable has its type.
TTypeOK ==
    /\ created \in BOOLEAN
    /\ rows \in [Key -> Entity \cup {NoEntity}]
    /\ treq \in [TReq -> Request \cup {TIdle}]
    /\ clock \in 1 .. (MaxEntity + 1)
    /\ touched \in [Key -> 0 .. (MaxEntity + 1)]

\* What a request means when it is one step.
Atomic(q, old) ==
    [p \in Prop |-> CASE p \in q.set                         -> q.write
                      [] p \notin q.set /\ q.kind = "merge" /\ old # NoEntity -> old.props[p]
                      [] OTHER                               -> 0]

\* A write differs from the same request done in one step only when the row of
\* its key changed between its read and its write: no property is lost, and none
\* returns from a deleted entity, without an overlapping request.
AtomicUnlessOverlapped ==
    [][\A r \in TReq :
          /\ treq[r] # TIdle /\ WriteEntity(r)
          /\ touched[treq[r].key] <= treq[r].write
          => rows'[treq[r].key].props = Atomic(treq[r], rows[treq[r].key])]_tvars

\* A client whose SAS only adds ("a") replaces an entity only when that entity
\* was written while its POST was under way (InsertEntity looks first, and writes
\* over whatever is there).
AddSparesOlder ==
    [][\A r \in TReq :
          /\ treq[r] # TIdle /\ treq[r].sp = {"a"} /\ WriteEntity(r)
          /\ rows[treq[r].key] # NoEntity
          => touched[treq[r].key] > treq[r].write]_tvars

\* A query returns the first top of the entities that match, in key order.
QueryIsFirstTop ==
    \A k0 \in Key \cup {0}, p \in Prop \cup {""}, v \in 1 .. MaxEntity, top \in 0 .. Cardinality(Key) :
       LET found == {k \in Key : Matches(k, k0, p, v)}
           out   == QueryEntities(k0, p, v, top)
       IN  /\ \A i, j \in 1 .. Len(out) : i < j => out[i] < out[j]
           /\ {out[i] : i \in 1 .. Len(out)} =
                 {k \in found : top = 0 \/ Cardinality({x \in found : x < k}) < top}

\* The table as its clients may count on it: writes are atomic and an adder spares
\* what was there unless requests overlap, and a query returns the first matches.
TablesSafe == AtomicUnlessOverlapped /\ AddSparesOlder /\ [](TTypeOK /\ QueryIsFirstTop)

=============================================================================
