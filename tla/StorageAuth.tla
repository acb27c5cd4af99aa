---------------------------- MODULE StorageAuth ----------------------------
(***************************************************************************)
(* Who may do what on the blob, queue and table endpoints of a storage     *)
(* account: signed permissions of a SAS (internal/kernel/authn/            *)
(* sharedkey.go), data actions of a bearer token (internal/kernel/azauth,  *)
(* storageDataAction, tableDataAction).  Signatures are perfect: a         *)
(* credential names the key it was signed with.                            *)
(***************************************************************************)
EXTENDS Naturals

\* The routes of the two handlers.  deep: the path names a blob or an entity,
\* not only a container, queue or table.
Route(svc, method, deep) == [svc |-> svc, method |-> method, deep |-> deep]

Routes ==
    [ listContainers  |-> Route("blob", "GET", FALSE),
      putContainer    |-> Route("blob", "PUT", FALSE),
      listBlobs       |-> Route("blob", "GET", FALSE),
      deleteContainer |-> Route("blob", "DELETE", FALSE),
      putBlob         |-> Route("blob", "PUT", TRUE),
      getBlob         |-> Route("blob", "GET", TRUE),
      deleteBlob      |-> Route("blob", "DELETE", TRUE),
      putQueue        |-> Route("queue", "PUT", FALSE),
      postMessage     |-> Route("queue", "POST", FALSE),
      peekMessage     |-> Route("queue", "GET", FALSE),
      getMessage      |-> Route("queue", "GET", FALSE) ]

TableRoutes ==
    [ listTables      |-> Route("table", "GET", FALSE),
      putTable        |-> Route("table", "PUT", FALSE),
      queryEntities   |-> Route("table", "GET", FALSE),
      deleteTable     |-> Route("table", "DELETE", FALSE),
      insertEntity    |-> Route("table", "POST", FALSE),
      putEntity       |-> Route("table", "PUT", TRUE),
      mergeEntity     |-> Route("table", "MERGE", TRUE),
      getEntity       |-> Route("table", "GET", TRUE),
      deleteEntity    |-> Route("table", "DELETE", TRUE) ]

Letters == {"r", "l", "w", "c", "a", "d", "p", "u"}

\* Mutant of SASPermits: reading is enough to change an entity.
SASPermitsWide(sp, rt) ==
    sp \cap (CASE rt.method = "DELETE"                      -> {"d"}
               [] rt.svc = "blob" /\ rt.method = "GET"      -> IF rt.deep THEN {"r"} ELSE {"l"}
               [] rt.svc = "blob" /\ rt.method = "PUT"      -> {"c", "w", "l"}
               [] rt.svc = "queue" /\ rt.method = "GET"     -> {"r", "p"}
               [] rt.svc = "queue" /\ rt.method = "PUT"     -> {"c", "w"}
               [] rt.svc = "queue" /\ rt.method = "POST"    -> {"a"}
               [] rt.svc = "table"                          -> {"r", "u"}) # {}

\* Any one of these letters in sp lets the request through.
SASPermits(sp, rt) ==
    sp \cap (CASE rt.method = "DELETE"                      -> {"d"}
               [] rt.svc = "blob" /\ rt.method = "GET"      -> IF rt.deep THEN {"r"} ELSE {"l"}
               [] rt.svc = "blob" /\ rt.method = "PUT"      -> IF rt.deep THEN {"w", "c", "a"} ELSE {"c", "w"}
               [] rt.svc = "queue" /\ rt.method = "GET"     -> {"r", "p"}
               [] rt.svc = "queue" /\ rt.method = "PUT"     -> {"c", "w"}
               [] rt.svc = "queue" /\ rt.method = "POST"    -> {"a"}
               [] rt.svc = "table" /\ rt.method = "GET"     -> {"r"}
               [] rt.svc = "table" /\ rt.method = "PUT"     -> IF rt.deep THEN {"u"} ELSE {"c"}
               [] rt.svc = "table" /\ rt.method = "MERGE"   -> {"u"}
               [] rt.svc = "table" /\ rt.method = "POST"    -> {"a"}) # {}

\* The data action a bearer's roles must hold: of the service, and by method.
DataAction(rt) ==
    <<rt.svc, CASE rt.method = "GET" -> "read" [] rt.method = "DELETE" -> "delete"
                [] OTHER -> "write">>

\* st is inclusive, se exclusive.
SASInWindow(c, t) == c.st <= t /\ t < c.se

\* VerifyStorageSAS; key is the account's.
VerifyStorageSAS(c, rt, key, t) ==
    /\ SASInWindow(c, t)
    /\ SASPermits(c.sp, rt)
    /\ c.key = key

\* VerifyStorageSharedKey: the string to sign is the request itself.
VerifySharedKey(c, key) == c.key = key

\* AllowsStorage: the Storage audience, or the management one.
AllowsStorage(c) == c.root \/ c.audience \in {"storage", "arm"}

\* RequireDataPlaneBearer: root passes before its roles are looked at; a role
\* holds at a resource group.
RequireDataPlaneBearer(c, rt, g) ==
    /\ AllowsStorage(c)
    /\ c.root \/ <<DataAction(rt), g>> \in c.rights

\* authorizeDataPlane: g and key are those of the row that was found.
Authorized(c, rt, g, key, t) ==
    CASE c.kind = "sas"    -> VerifyStorageSAS(c, rt, key, t)
      [] c.kind = "shared" -> VerifySharedKey(c, key)
      [] c.kind = "bearer" -> RequireDataPlaneBearer(c, rt, g)

=============================================================================
