---------------------------- MODULE Applications ----------------------------
(***************************************************************************)
(* Application registrations, their service principals and credentials,    *)
(* who may write them, and the tokens that the credentials buy             *)
(* (internal/services/entra/applications.go, graph.go, graph_write.go,     *)
(* wif.go; internal/store/entra.go, directory.go).                         *)
(*                                                                         *)
(* A write resolves its target, asks for the caller's right, perhaps       *)
(* counts keys or looks for a row, and then writes: statements of their    *)
(* own, between which other requests run.                                  *)
(***************************************************************************)
EXTENDS Naturals, Sequences, FiniteSets

CONSTANTS
    Caller, RootCaller,  \* oid of a token: a user's, or an id of an application's
    Assignment,  \* unified App Admin assignments that there may be: <<caller, scope>>
    AppKey, NoKey,       \* key pairs
    Subject,     \* subjects of lab OIDC assertions
    AReq, AIdle,
    MaxApp, MaxObj, MaxSP, MaxFic, MaxBegin   \* bounds

VARIABLES
    apps,        \* entra_apps: the object id of each client id; 0: no row
    names,       \* ... and its displayName, known by who gave it
    sps,         \* entra_service_principals: the app of each, in order
    owners,      \* entra_owners
    admins,      \* members of the directory role Application Administrator
    globals,     \* ... and of Global Administrator
    assigned,    \* entra_unified_role_assignments of that role
    secrets,     \* entra_passwords: the resources that have one
    keys,        \* entra_key_credentials
    fics,        \* entra_fics, in rowid order
    areq,        \* requests between two statements
    seen,        \* counters of app ids, object ids and requests
    appOf        \* history: the app that each object id was made for

avars ==
    <<apps, names, sps, owners, admins, globals, assigned, secrets, keys, fics, areq, seen, appOf>>
rights == <<admins, globals, assigned>>

AppId(n) == <<"app", n>>
ObjId(k) == <<"obj", k>>
SpId(k)  == <<"sp", k>>
AppIds   == {AppId(n) : n \in 1 .. MaxApp}
ObjIds   == {ObjId(k) : k \in 1 .. MaxObj}
SpIds    == {SpId(k) : k \in 1 .. MaxSP}
Ids      == AppIds \cup ObjIds \cup SpIds
Tenant   == <<"/", 0>>

-----------------------------------------------------------------------------
(* Rows.                                                                   *)

\* ResolveEntraApp and GetEntraApp: the app with this client or object id; 0: none.
ResolveEntraApp(id) ==
    LET found == {n \in 1 .. MaxApp : apps[n] # 0 /\ id \in {AppId(n), ObjId(apps[n])}}
    IN  IF found = {} THEN 0 ELSE CHOOSE n \in found : TRUE

\* GetServicePrincipal: the first row with this id or client id; 0: none.
GetServicePrincipal(id) ==
    LET found == {k \in 1 .. Len(sps) : id \in {SpId(k), AppId(sps[k])}}
    IN  IF found = {} THEN 0 ELSE CHOOSE k \in found : \A j \in found : k <= j

\* Both names of the app that id resolves to, and of the service principal.
AppNames(id) == LET n == ResolveEntraApp(id) IN IF n = 0 THEN {} ELSE {AppId(n), ObjId(apps[n])}
SpNames(id)  == LET k == GetServicePrincipal(id) IN IF k = 0 THEN {} ELSE {SpId(k), AppId(sps[k])}

\* directoryPrincipalIDs.
DirectoryPrincipalIDs(id) == {id} \cup SpNames(id) \cup AppNames(id)

\* directoryScopeCandidates; federatedMatchAppIDs and clientSecretMatches build
\* the same set.
NamesOf(id) ==
    DirectoryPrincipalIDs(id)
    \cup (LET k == GetServicePrincipal(id) IN IF k = 0 THEN {} ELSE AppNames(AppId(sps[k])))

-----------------------------------------------------------------------------
(* Rights.                                                                 *)

Owns(p, res) ==
    \E o \in owners : o[1] = res /\ DirectoryPrincipalIDs(o[2]) \cap DirectoryPrincipalIDs(p) # {}

\* isApplicationAdministrator: a member of the role.
IsApplicationAdministrator(p) == p \in admins

\* Mutant of ApplicationAdministratorAllows: membership of the role is enough.
ApplicationAdministratorAllowsMember(p, res, unread) ==
    IsApplicationAdministrator(p) \/ <<p, Tenant>> \in assigned
    \/ \E a \in assigned : a[1] = p /\ a[2] \in NamesOf(res)

\* applicationAdministratorAllows: membership of the role counts only when the
\* caller has no scoped assignment of it, or when they cannot be read (unread).
ApplicationAdministratorAllows(p, res, unread) ==
    LET scopes == {a[2] : a \in {x \in assigned : x[1] = p}} IN
    IF unread \/ scopes = {} THEN IsApplicationAdministrator(p)
    ELSE Tenant \in scopes \/ scopes \cap NamesOf(res) # {}

\* requireGraphAppWrite.
GraphAppWriteAllowed(p, res, unread) ==
    p = RootCaller \/ Owns(p, res) \/ ApplicationAdministratorAllows(p, res, unread)

\* requireGraphDirectoryWrite, of the routes that create an app or a service
\* principal.  Cloud Application Administrator is not among the seeded roles.
MayCreate(p) == p = RootCaller \/ DirectoryPrincipalIDs(p) \cap (globals \cup admins) # {}

\* An id is random: nobody has or names one before it is made.
MadeIds ==
    {AppId(n) : n \in 1 .. seen.app} \cup {ObjId(k) : k \in 1 .. seen.obj}
    \cup {SpId(k) : k \in 1 .. Len(sps)}
Known(p) == p \in Ids => p \in MadeIds

-----------------------------------------------------------------------------
(* Requests that write.                                                    *)

Write == {"owner", "secret", "key", "patch", "fic", "delete", "app", "sp"}

\* sawKeys, sawSp (history): the target had keys, the app a service principal,
\* when the request came; unread: the assignments cannot be read.
WriteRequest ==
    [op : Write, step : {"gate", "count", "rename", "write"}, of : Caller,
     res : ObjIds \cup SpIds \cup {Tenant}, app : 0 .. MaxApp, key : AppKey \cup {NoKey},
     proof : AppKey \cup {NoKey}, name : BOOLEAN, unread : BOOLEAN, sawKeys : BOOLEAN,
     sawSp : BOOLEAN]

\* The row a route can name: ownerTarget, passwordTarget, GetEntraApp.
Targets(op) ==
    IF op = "app" THEN {Tenant}
    ELSE {ObjId(apps[n]) : n \in {m \in 1 .. MaxApp : apps[m] # 0}}
         \cup (IF op \in {"owner", "secret", "key"} THEN {SpId(k) : k \in 1 .. Len(sps)} ELSE {})

HasKeys(res) == \E k \in AppKey : <<res, k>> \in keys
HasSp(n)     == \E k \in 1 .. Len(sps) : sps[k] = n

\* What a request may ask.  addKey adds a key; PATCH renames, adds a key or does
\* both.  A proof is signed by another key than the new one.
WriteInput ==
    {i \in [op : Write, of : Caller, key : AppKey \cup {NoKey}, proof : AppKey \cup {NoKey},
            name : BOOLEAN, unread : BOOLEAN] :
       /\ i.key # NoKey => i.op \in {"key", "patch"}
       /\ i.key = NoKey => i.op # "key" /\ i.proof = NoKey /\ (i.op = "patch" => i.name)
       /\ i.key # NoKey => i.proof # i.key
       /\ i.name => i.op = "patch"
       /\ i.unread => i.op \notin {"app", "sp"} /\ i.of # RootCaller}

\* The target is resolved.  A new service principal's application is resolved only
\* after the gate; roles are only given, so the order makes no difference.
BeginWrite(r, i, res) ==
    /\ areq[r] = AIdle /\ seen.begun < MaxBegin
    /\ res \in Targets(i.op) /\ Known(i.of)
    /\ seen' = [seen EXCEPT !.begun = @ + 1]
    /\ LET n == IF res \in ObjIds THEN ResolveEntraApp(res) ELSE 0 IN
       areq' = [areq EXCEPT ![r] =
                  [op |-> i.op, step |-> "gate", of |-> i.of, res |-> res, app |-> n, key |-> i.key,
                   proof |-> i.proof, name |-> i.name, unread |-> i.unread,
                   sawKeys |-> HasKeys(res), sawSp |-> n # 0 /\ HasSp(n)]]
    /\ UNCHANGED <<apps, names, sps, owners, rights, secrets, keys, fics, appOf>>

Writing(r, op, step) == areq[r] # AIdle /\ areq[r].op = op /\ areq[r].step = step
To(r, step) == areq' = [areq EXCEPT ![r].step = step]
ADone(r)    == areq' = [areq EXCEPT ![r] = AIdle]

\* The right is asked for; no right is 403.
Gate(r) ==
    /\ areq[r] # AIdle /\ areq[r].op \in Write /\ areq[r].step = "gate"
    /\ LET q == areq[r]
           may == IF q.op \in {"app", "sp"} THEN MayCreate(q.of)
                  ELSE GraphAppWriteAllowed(q.of, q.res, q.unread)
       IN  IF ~may THEN ADone(r)
           ELSE To(r, CASE q.op \in {"key", "sp"}          -> "count"
                        [] q.op = "patch" /\ q.key # NoKey -> "count"
                        [] q.op = "patch" /\ q.key = NoKey -> "rename"
                        [] OTHER                           -> "write")
    /\ UNCHANGED <<apps, names, sps, owners, rights, secrets, keys, fics, seen, appOf>>

\* CountKeyCredentials and validAddKeyProof: once there are keys a proof signed
\* by one of them is needed.
CountKeys(r) ==
    /\ Writing(r, "key", "count") \/ Writing(r, "patch", "count")
    /\ IF ~HasKeys(areq[r].res) \/ <<areq[r].res, areq[r].proof>> \in keys
       THEN To(r, IF areq[r].name THEN "rename" ELSE "write") ELSE ADone(r)
    /\ UNCHANGED <<apps, names, sps, owners, rights, secrets, keys, fics, seen, appOf>>

\* AddKeyCredential.
AddKeyCredential(r) ==
    /\ Writing(r, "key", "write") \/ Writing(r, "patch", "write")
    /\ keys' = keys \cup {<<areq[r].res, areq[r].key>>}
    /\ ADone(r)
    /\ UNCHANGED <<apps, names, sps, owners, rights, secrets, fics, seen, appOf>>

\* UpsertEntraApp: the row of the client id is renamed, or made with a new object
\* id when it is gone.
UpsertEntraApp(n, p) ==
    /\ names' = [names EXCEPT ![n] = p]
    /\ IF apps[n] # 0 THEN UNCHANGED <<apps, seen, appOf>>
       ELSE /\ seen.obj < MaxObj
            /\ apps' = [apps EXCEPT ![n] = seen.obj + 1]
            /\ appOf' = [appOf EXCEPT ![seen.obj + 1] = n]
            /\ seen' = [seen EXCEPT !.obj = @ + 1]

\* handlePatchApp, the displayName.
PatchApp(r) ==
    /\ Writing(r, "patch", "rename")
    /\ UpsertEntraApp(areq[r].app, areq[r].of)
    /\ IF areq[r].key = NoKey THEN ADone(r) ELSE To(r, "write")
    /\ UNCHANGED <<sps, owners, rights, secrets, keys, fics>>

\* handleCreateApp: a fresh client id.
CreateApp(r) ==
    /\ Writing(r, "app", "write")
    /\ seen.app < MaxApp /\ seen.obj < MaxObj
    /\ LET n == seen.app + 1  k == seen.obj + 1 IN
       /\ apps' = [apps EXCEPT ![n] = k] /\ names' = [names EXCEPT ![n] = areq[r].of]
       /\ appOf' = [appOf EXCEPT ![k] = n]
       /\ seen' = [seen EXCEPT !.app = n, !.obj = k]
    /\ ADone(r)
    /\ UNCHANGED <<sps, owners, rights, secrets, keys, fics>>

\* DeleteEntraApp, by object id: the registration alone.  Owners, credentials and
\* the service principal stay.
DeleteApp(r) ==
    /\ Writing(r, "delete", "write")
    /\ apps' = [n \in 1 .. MaxApp |-> IF ObjId(apps[n]) = areq[r].res THEN 0 ELSE apps[n]]
    /\ ADone(r)
    /\ UNCHANGED <<names, sps, owners, rights, secrets, keys, fics, seen, appOf>>

\* CreateServicePrincipal: an existing one is 400.
CheckSP(r) ==
    /\ Writing(r, "sp", "count")
    /\ IF GetServicePrincipal(AppId(areq[r].app)) # 0 THEN ADone(r) ELSE To(r, "write")
    /\ UNCHANGED <<apps, names, sps, owners, rights, secrets, keys, fics, seen, appOf>>

\* ... and the INSERT; no index makes the client id unique.
CreateServicePrincipal(r) ==
    /\ Writing(r, "sp", "write") /\ Len(sps) < MaxSP
    /\ sps' = Append(sps, areq[r].app)
    /\ ADone(r)
    /\ UNCHANGED <<apps, names, owners, rights, secrets, keys, fics, seen, appOf>>

AddOwner(r, o) ==
    /\ Writing(r, "owner", "write") /\ Known(o)
    /\ owners' = owners \cup {<<areq[r].res, o>>}
    /\ ADone(r)
    /\ UNCHANGED <<apps, names, sps, rights, secrets, keys, fics, seen, appOf>>

AddPassword(r) ==
    /\ Writing(r, "secret", "write")
    /\ secrets' = secrets \cup {areq[r].res}
    /\ ADone(r)
    /\ UNCHANGED <<apps, names, sps, owners, rights, keys, fics, seen, appOf>>

\* CreateFIC: the object id that the client id had when the request came.
CreateFIC(r, s) ==
    /\ Writing(r, "fic", "write") /\ Len(fics) < MaxFic
    /\ fics' = Append(fics, [app |-> areq[r].res, sub |-> s])
    /\ ADone(r)
    /\ UNCHANGED <<apps, names, sps, owners, rights, secrets, keys, seen, appOf>>

-----------------------------------------------------------------------------
(* Tokens for credentials.                                                 *)

\* A federated assertion is one that the lab issuer signed (module OidcLab).
\* ids: the names gathered; hit: the resource whose credential matched.
TokenRequest ==
    [op : {"federated", "byKey", "bySecret"}, step : {"match", "resolve", "answer"},
     client : Ids, with : Subject \cup AppKey \cup ObjIds \cup SpIds,
     ids : SUBSET Ids, hit : ObjIds \cup SpIds \cup {Tenant},
     gets : Ids \cup {Tenant}]

ASSUME ApplicationsAssumption ==
    /\ MaxApp \in Nat \ {0} /\ MaxObj \in Nat \ {0} /\ MaxSP \in Nat \ {0} /\ MaxBegin \in Nat
    /\ RootCaller \in Caller /\ \A a \in Assignment : a = <<a[1], a[2]>>
    /\ AIdle \notin WriteRequest \cup TokenRequest

BeginToken(r, op, c, with) ==
    /\ areq[r] = AIdle /\ seen.begun < MaxBegin
    /\ op = "federated" => with \in Subject
    /\ op = "byKey" => with \in AppKey /\ ResolveEntraApp(c) # 0
    /\ op = "bySecret" => with \in secrets
    /\ seen' = [seen EXCEPT !.begun = @ + 1]
    /\ areq' = [areq EXCEPT ![r] = [op |-> op, step |-> "match", client |-> c, with |-> with,
                                    ids |-> IF op = "byKey" THEN AppNames(c) ELSE NamesOf(c),
                                    hit |-> Tenant, gets |-> Tenant]]
    /\ UNCHANGED <<apps, names, sps, owners, rights, secrets, keys, fics, appOf>>

\* MatchFIC: the first credential of one of these names that the assertion's
\* issuer, audience and subject match.
MatchFIC(ids, s) ==
    LET fit == {i \in 1 .. Len(fics) : fics[i].app \in ids /\ fics[i].sub = s}
    IN  {i \in fit : \A j \in fit : i <= j}

\* verifyPrivateKeyJWT: the keys of the application, or when it has none those of
\* its service principal.
KeyHolders(q) ==
    LET own == {i \in q.ids \cap ObjIds : HasKeys(i)}
        sp  == {SpId(k) : k \in {GetServicePrincipal(q.client)} \ {0}}
    IN  {h \in IF own # {} THEN own ELSE sp : <<h, q.with>> \in keys}

\* Mutant of PasswordSecretMatches: whichever resource it was made for.
PasswordSecretMatchesAny(ids, s) == {s}

\* clientSecretMatches and PasswordSecretMatches.  A secret is random: it is
\* known by the resource it was made for.
PasswordSecretMatches(ids, s) == {s} \cap ids

Matched(q) ==
    CASE q.op = "federated" -> {fics[i].app : i \in MatchFIC(q.ids, q.with)}
      [] q.op = "byKey"     -> KeyHolders(q)
      [] q.op = "bySecret"  -> PasswordSecretMatches(q.ids, q.with)

\* No match is 401.  A key's assertion names the client id already resolved.
MatchCredential(r) ==
    /\ areq[r] # AIdle /\ areq[r].op \notin Write /\ areq[r].step = "match"
    /\ LET q == areq[r] IN
       IF Matched(q) = {} THEN ADone(r)
       ELSE areq' = [areq EXCEPT ![r].hit = CHOOSE h \in Matched(q) : TRUE,
                       ![r].gets = IF q.op = "byKey" THEN CHOOSE a \in q.ids \cap AppIds : TRUE
                                   ELSE q.client,
                       ![r].step = IF q.op = "federated" THEN "resolve" ELSE "answer"]
    /\ UNCHANGED <<apps, names, sps, owners, rights, secrets, keys, fics, seen, appOf>>

\* verifyFederatedAssertion: the credential's application, if it is still there,
\* must be the client, and its client id is who gets the token.
ResolveFIC(r) ==
    /\ areq[r] # AIdle /\ areq[r].op = "federated" /\ areq[r].step = "resolve"
    /\ LET q == areq[r]  n == ResolveEntraApp(q.hit) IN
       IF n # 0 /\ q.client \notin {AppId(n), q.hit} THEN ADone(r)
       ELSE areq' = [areq EXCEPT ![r].step = "answer",
                                 ![r].gets = IF n # 0 THEN AppId(n) ELSE q.client]
    /\ UNCHANGED <<apps, names, sps, owners, rights, secrets, keys, fics, seen, appOf>>

AnswerToken(r) ==
    /\ areq[r] # AIdle /\ areq[r].op \notin Write /\ areq[r].step = "answer"
    /\ ADone(r)
    /\ UNCHANGED <<apps, names, sps, owners, rights, secrets, keys, fics, seen, appOf>>

\* handleAddRoleMember, of whoever may give a role (module Groups): roles are only
\* given.
GiveRole(p) ==
    /\ seen.begun < MaxBegin /\ Known(p)
    /\ seen' = [seen EXCEPT !.begun = @ + 1]
    /\ \/ admins' = admins \cup {p} /\ UNCHANGED globals
       \/ globals' = globals \cup {p} /\ UNCHANGED admins
    /\ UNCHANGED <<apps, names, sps, owners, assigned, secrets, keys, fics, areq, appOf>>

ACrash ==
    /\ \E r \in AReq : areq[r] # AIdle
    /\ areq' = [r \in AReq |-> AIdle]
    /\ UNCHANGED <<apps, names, sps, owners, rights, secrets, keys, fics, seen, appOf>>

-----------------------------------------------------------------------------
\* SeedDirectory: the lab application with its service principal.
AInit ==
    /\ apps = [n \in 1 .. MaxApp |-> IF n = 1 THEN 1 ELSE 0]
    /\ names = [n \in 1 .. MaxApp |-> RootCaller]
    /\ sps = <<1>> /\ owners = {} /\ secrets = {} /\ keys = {} /\ fics = <<>>
    /\ admins \in SUBSET (Caller \ {RootCaller}) /\ globals \in SUBSET (Caller \ {RootCaller})
    /\ assigned \in SUBSET Assignment
    /\ areq = [r \in AReq |-> AIdle]
    /\ seen = [app |-> 1, obj |-> 1, begun |-> 0]
    /\ appOf = [k \in 1 .. MaxObj |-> IF k = 1 THEN 1 ELSE 0]

ANext ==
    \/ \E r \in AReq :
          \/ \E i \in WriteInput : \E res \in Targets(i.op) : BeginWrite(r, i, res)
          \/ Gate(r) \/ CountKeys(r) \/ AddKeyCredential(r) \/ PatchApp(r) \/ CreateApp(r)
          \/ DeleteApp(r) \/ CheckSP(r) \/ CreateServicePrincipal(r) \/ AddPassword(r)
          \/ \E o \in Caller \ {RootCaller} : AddOwner(r, o)
          \/ \E s \in Subject : CreateFIC(r, s)
          \/ \E op \in {"federated", "byKey", "bySecret"}, c \in MadeIds,
                with \in Subject \cup AppKey \cup secrets : BeginToken(r, op, c, with)
          \/ MatchCredential(r) \/ ResolveFIC(r) \/ AnswerToken(r)
    \/ \E p \in Caller \ {RootCaller} : GiveRole(p)
    \/ ACrash

ASpec == AInit /\ [][ANext]_avars

-----------------------------------------------------------------------------
(* Properties.                                                             *)

\* Every variable has its type.
ATypeOK ==
    /\ names \in [1 .. MaxApp -> Caller]
    /\ apps \in [1 .. MaxApp -> 0 .. MaxObj] /\ appOf \in [1 .. MaxObj -> 0 .. MaxApp]
    /\ sps \in Seq(1 .. MaxApp) /\ Len(sps) <= MaxSP
    /\ owners \subseteq (ObjIds \cup SpIds) \X Caller
    /\ admins \subseteq Caller /\ globals \subseteq Caller /\ assigned \subseteq Assignment
    /\ secrets \subseteq ObjIds \cup SpIds /\ keys \subseteq (ObjIds \cup SpIds) \X AppKey
    /\ fics \in Seq([app : ObjIds, sub : Subject])
    /\ seen \in [app : 1 .. MaxApp, obj : 1 .. MaxObj, begun : 0 .. MaxBegin]
    /\ areq \in [AReq -> WriteRequest \cup TokenRequest \cup {AIdle}]

\* The application that an id was made for, for ever.
AppOfId(id) ==
    CASE id \in AppIds -> id[2]
      [] id \in ObjIds -> appOf[id[2]]
      [] id \in SpIds  -> IF id[2] <= Len(sps) THEN sps[id[2]] ELSE 0

\* A token bought with a secret, a key or a federated credential of one
\* application names that application, whichever of its ids the client used and
\* whatever was deleted, renamed or made again meanwhile ("FIC bound to
\* `client_id`").
CredentialStaysInApp ==
    \A r \in AReq : areq[r] # AIdle /\ areq[r].op \in {"federated", "byKey", "bySecret"}
                    /\ areq[r].step = "answer" =>
       /\ AppOfId(areq[r].gets) = AppOfId(areq[r].hit)
       /\ AppOfId(areq[r].gets) = AppOfId(areq[r].client)

\* A key is registered without a proof only on a resource that had no key when
\* the request came, by addKey and by PATCH alike.
KeyNeedsProof ==
    [][\A r \in AReq : areq[r] # AIdle /\ areq[r].op \in {"key", "patch"} =>
          (keys' # keys /\ areq'[r] = AIdle /\ areq[r].sawKeys =>
              <<areq[r].res, areq[r].proof>> \in keys)]_avars

\* An application gets a second service principal only when two requests for it
\* overlapped, and an application that was deleted is back only when a PATCH read
\* it before it was deleted.
MadeTwiceOnlyByRace ==
    [][/\ \A r \in AReq : sps' # sps /\ areq[r] # AIdle /\ areq'[r] = AIdle => ~areq[r].sawSp
       /\ \A n \in 1 .. MaxApp :
             apps[n] = 0 /\ apps'[n] # 0 /\ n <= seen.app =>
                \E r \in AReq : areq[r] # AIdle /\ areq[r].op = "patch" /\ areq[r].app = n]_avars

\* What belongs to an application: its registration, and what its object ids and
\* service principals have.
Belongings(n) ==
    [obj |-> apps[n], name |-> names[n],
     owners |-> {o \in owners : AppOfId(o[1]) = n}, secrets |-> {s \in secrets : AppOfId(s) = n},
     keys |-> {k \in keys : AppOfId(k[1]) = n},
     fics |-> {i \in 1 .. Len(fics) : AppOfId(fics[i].app) = n}]

ScopedOnly(p) == p # RootCaller /\ (\E a \in assigned : a[1] = p) /\ <<p, Tenant>> \notin assigned

\* One principal under two of its ids, for ever.
SamePrincipal(o, p) == o = p \/ (o \in Ids /\ p \in Ids /\ AppOfId(o) = AppOfId(p))

\* Whose App Admin assignments are all scoped deletes, renames and otherwise
\* changes no application outside the scopes that he does not own, also when he is
\* a member of the role, and also when he is an application himself ("scoped App
\* Admin cannot write apps outside `directoryScopeId`"), unless the assignments
\* could not be read.
ScopedStaysInScope ==
    [][\A n \in 1 .. MaxApp, r \in AReq :
          /\ areq[r] # AIdle /\ areq'[r] # areq[r] /\ areq[r].op \in Write /\ ~areq[r].unread
          /\ ScopedOnly(areq[r].of) /\ n <= seen.app /\ Belongings(n)' # Belongings(n)
          => \/ \E a \in assigned : a[1] = areq[r].of /\ AppOfId(a[2]) = n
             \/ \E o \in owners : AppOfId(o[1]) = n /\ SamePrincipal(o[2], areq[r].of)]_avars

\* At every moment a credential gives a token of its own application only.
ApplicationsInv == ATypeOK /\ CredentialStaysInApp

\* What no write may do, however its look-ups went stale: register a further key
\* without a proof, make a second service principal or a deleted application anew
\* without an overlap, or leave the scope of its caller's assignment.
ApplicationSteps == KeyNeedsProof /\ MadeTwiceOnlyByRace /\ ScopedStaysInScope

=============================================================================
