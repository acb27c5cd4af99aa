------------------------------ MODULE Resources ------------------------------
(***************************************************************************)
(* The ARM resources of which the lab keeps only a row                     *)
(* (internal/services/{apim,nsg,logic,...}/handler.go,                     *)
(* internal/store/resources.go): nineteen handlers over one table, each    *)
(* with its own copy of the same put, get, del, list and require.  What    *)
(* keeps them apart is the string each copy writes into its routes, its    *)
(* table key and the rights it asks for.                                   *)
(*                                                                         *)
(* A type is a pair of segments.  A row's properties are the names of its  *)
(* top-level properties, and the number of the PUT their values come from; *)
(* what a client nests in a value stays in it and is shown with it.        *)
(* Group is a set of numbers in the order of the table's primary key.      *)
(***************************************************************************)
EXTENDS Naturals, FiniteSets, SequencesExt

CONSTANTS
    Group, Name,    \* resource groups and resource names, of one subscription
    Body,           \* sets of properties a PUT may send
    Folded,         \* a name without its case and outer spaces (ToLower, TrimSpace),
                    \* cut at the words isSecretPropertyKey looks for
    RReq,           \* concurrent requests that write
    NoRow, RIdle,
    MaxPut          \* bound: PUTs

VARIABLES
    handlers,   \* the handlers a behaviour calls: two that may be confused
    rows,       \* arm_lab_resources: [key, group, name] to a row or NoRow
    rreq,       \* a request let in, before its statement
    puts,       \* PUTs begun
    sent        \* history: the last PUT sent to a route and not deleted since

rvars == <<handlers, rows, rreq, puts, sent>>

-----------------------------------------------------------------------------
\* A handler: the type of its routes, its providerKey, the prefix of its
\* actions, and what put adds to the properties it is sent.
Lite(ns, type) ==
    [route |-> <<ns, type>>, key |-> <<ns, type>>, right |-> <<ns, type>>,
     defaults |-> {"provisioningState"}]

Apim == Lite("Microsoft.ApiManagement", "service")
AppGateway == Lite("Microsoft.Network", "applicationGateways")
AppService == Lite("Microsoft.Web", "staticSites")
AzureSql == Lite("Microsoft.Sql", "servers")
Dns == Lite("Microsoft.Network", "dnszones")
FrontDoor == Lite("Microsoft.Cdn", "profiles")
LoadBalancer == Lite("Microsoft.Network", "loadBalancers")
Logic == Lite("Microsoft.Logic", "workflows")
Network == Lite("Microsoft.Network", "virtualNetworks")

\* Mutant of Nic: the copy of networkSecurityGroups still asks for its rights.
NicOfNsg ==
    [Lite("Microsoft.Network", "networkInterfaces") EXCEPT
        !.right = <<"Microsoft.Network", "networkSecurityGroups">>]

Nic == Lite("Microsoft.Network", "networkInterfaces")

Nsg == Lite("Microsoft.Network", "networkSecurityGroups")
Postgres == Lite("Microsoft.DBforPostgreSQL", "flexibleServers")
\* Its routes alone spell the type with a capital.
RedisCache == [Lite("Microsoft.Cache", "redis") EXCEPT !.route = <<"Microsoft.Cache", "Redis">>]

SignalR == Lite("Microsoft.SignalRService", "signalR")

VirtualMachines == Lite("Microsoft.Compute", "virtualMachines")
Email == Lite("Microsoft.Communication", "emailServices")
OpenAI == Lite("Microsoft.CognitiveServices", "accounts")

Aks ==
    [Lite("Microsoft.ContainerService", "managedClusters") EXCEPT
        !.defaults = {"provisioningState", "powerState", "kubernetesVersion",
                      "fqdn", "kubeConfig"}]

ContainerApps ==
    [Lite("Microsoft.App", "containerApps") EXCEPT
        !.defaults = {"provisioningState", "latestRevisionName", "runningStatus"}]

Handlers ==
    {Apim, AppGateway, AppService, AzureSql, Dns, FrontDoor, LoadBalancer, Logic,
     Network, Nic, Nsg, Postgres, RedisCache, SignalR, VirtualMachines, Email,
     OpenAI, Aks, ContainerApps}

\* The names of the properties a row can have.
Property == UNION (Body \cup {h.defaults : h \in Handlers})

Row == [props : SUBSET Property, put : 1 .. MaxPut]

\* A request that was let in, with the right it was let in with.
ArmRequest ==
    [h : Handlers, op : {"put", "delete"}, group : Group, name : Name, row : Row \cup {NoRow},
     by : [type : {h.right : h \in Handlers}, verb : {"write", "delete"}, group : Group]]

ASSUME ResourcesAssumption ==
    /\ Group \subseteq Nat \ {0} /\ MaxPut \in Nat
    /\ NoRow \notin [props : SUBSET Property, put : Nat] /\ RIdle \notin ArmRequest
    /\ Folded["kubeConfig"] = <<"kubeconfig">>

\* The keys of the rows the behaviour's handlers can reach.
Keys == {h.key : h \in handlers}
Routes == {h.route : h \in handlers}

-----------------------------------------------------------------------------
\* The keys that isSecretPropertyKey lists and that none of its rules covers.
Listed ==
    {<<"primarykey">>, <<"secondarykey">>, <<"clientsecret">>, <<"secret">>, <<"secrets">>,
     <<"kubeconfig">>}

\* isSecretPropertyKey: listed, or by the words it holds.
IsSecretPropertyKey(p) ==
    LET k == Folded[p]
        Has(word) == \E i \in 1 .. Len(k) : k[i] = word
    IN  \/ k \in Listed
        \/ Has("password")
        \/ k[Len(k)] \in {"connectionstring", "masterkey"}
        \/ Has("accesskey")
           /\ ~ \E i \in 1 .. Len(k) - 1 : k[i] = "accesskey" /\ k[i + 1] = "enabled"

\* armprops.Public: what an answer shows of a row.
Public(props) == {p \in props : ~IsSecretPropertyKey(p)}

-----------------------------------------------------------------------------
\* require: the right the request was let in with, at its resource group.  Who
\* holds it is the evaluator's matter (Rbac).
Require(h, verb, g) == [type |-> h.right, verb |-> verb, group |-> g]

\* What put stores: its own properties, and over them those it is sent.
Properties(h, body) == h.defaults \cup body

\* put and del, from require to the statement; a GET is one statement.
BeginPut(r, h, g, n, body) ==
    /\ rreq[r] = RIdle /\ puts < MaxPut
    /\ puts' = puts + 1
    /\ rreq' = [rreq EXCEPT ![r] =
                  [h |-> h, op |-> "put", by |-> Require(h, "write", g), group |-> g,
                   name |-> n, row |-> [props |-> Properties(h, body), put |-> puts + 1]]]
    /\ UNCHANGED <<handlers, rows, sent>>

BeginDel(r, h, g, n) ==
    /\ rreq[r] = RIdle
    /\ rreq' = [rreq EXCEPT ![r] =
                  [h |-> h, op |-> "delete", by |-> Require(h, "delete", g), group |-> g,
                   name |-> n, row |-> NoRow]]
    /\ UNCHANGED <<handlers, rows, puts, sent>>

\* UpsertProviderResource.
UpsertProviderResource(r) ==
    LET q == rreq[r] IN
    /\ q # RIdle /\ q.op = "put"
    /\ rows' = [rows EXCEPT ![<<q.h.key, q.group, q.name>>] = q.row]
    /\ sent' = [sent EXCEPT ![<<q.h.route, q.group, q.name>>] = q.row.put]
    /\ rreq' = [rreq EXCEPT ![r] = RIdle]
    /\ UNCHANGED <<handlers, puts>>

\* Mutant of DeleteProviderResource: the statement does not name the group.
DeleteInAllGroups(r) ==
    LET q == rreq[r] IN
    /\ q # RIdle /\ q.op = "delete"
    /\ rows' = [k \in DOMAIN rows |->
                   IF k[1] = q.h.key /\ k[3] = q.name THEN NoRow ELSE rows[k]]
    /\ sent' = [sent EXCEPT ![<<q.h.route, q.group, q.name>>] = 0]
    /\ rreq' = [rreq EXCEPT ![r] = RIdle]
    /\ UNCHANGED <<handlers, puts>>

\* DeleteProviderResource; no row is 404 and changes nothing.
DeleteProviderResource(r) ==
    LET q == rreq[r] IN
    /\ q # RIdle /\ q.op = "delete"
    /\ rows' = [rows EXCEPT ![<<q.h.key, q.group, q.name>>] = NoRow]
    /\ sent' = [sent EXCEPT ![<<q.h.route, q.group, q.name>>] = 0]
    /\ rreq' = [rreq EXCEPT ![r] = RIdle]
    /\ UNCHANGED <<handlers, puts>>

\* The process stops: what was let in and not yet written is gone.
RCrash ==
    /\ \E r \in RReq : rreq[r] # RIdle
    /\ rreq' = [r \in RReq |-> RIdle]
    /\ UNCHANGED <<handlers, rows, puts, sent>>

-----------------------------------------------------------------------------
(* What the reading routes answer.                                         *)

Answer(row) == [props |-> Public(row.props), put |-> row.put]

\* get
GetResource(h, g, n) ==
    IF rows[<<h.key, g, n>>] = NoRow THEN NoRow ELSE Answer(rows[<<h.key, g, n>>])

\* ListProviderResources: the rows of one provider in one group.
ListProviderResources(key, g) == {n \in Name : rows[<<key, g, n>>] # NoRow}

ListResources(h, g) ==
    {<<n, Answer(rows[<<h.key, g, n>>])>> : n \in ListProviderResources(h.key, g)}

\* listCredential of a managed cluster, behind a right of its own: the stored
\* kubeConfig, or the one put would have added.
ListCredential(g, n) ==
    LET row == rows[<<Aks.key, g, n>>] IN
    IF row = NoRow THEN NoRow ELSE [props |-> {"kubeConfig"}, put |-> row.put]

\* listRevisions of a container app: the array of revisions its PUT sent, as it
\* is, or else one revision made of two properties of the row.
ListRevisions(g, n) ==
    LET row == rows[<<ContainerApps.key, g, n>>] IN
    IF row = NoRow THEN NoRow
    ELSE [props |-> IF "revisions" \in row.props THEN {"revisions"}
                    ELSE {"latestRevisionName", "runningStatus"},
          put |-> row.put]

\* ListProviderResourcesInSubscription: provider = type or provider LIKE type/%.
ListInSubscription(type) ==
    {k \in DOMAIN rows : rows[k] # NoRow /\ IsPrefix(type, k[1])}

\* listSubProvider and armResourceJSON: the names, under the type of the route,
\* for the types that have such a route.
Inventoried == {VirtualMachines, Aks, Logic}

ListSubProvider(h) == {<<k[2], k[3]>> : k \in ListInSubscription(h.route)}

\* chatCompletions asks for its right at the account the name is found under
\* (GetProviderResourceByName: the first group in the order of the key).
ChatScope(n) ==
    LET gs == {g \in Group : rows[<<OpenAI.key, g, n>>] # NoRow} IN
    IF gs = {} THEN 0 ELSE CHOOSE g \in gs : \A k \in gs : g <= k

-----------------------------------------------------------------------------
RInit ==
    /\ handlers \in {{h, k} : h, k \in Handlers}
    /\ rows = [k \in Keys \X Group \X Name |-> NoRow]
    /\ rreq = [r \in RReq |-> RIdle]
    /\ puts = 0
    /\ sent = [k \in Routes \X Group \X Name |-> 0]

RNext ==
    \/ \E r \in RReq, h \in handlers, g \in Group, n \in Name :
          BeginDel(r, h, g, n) \/ \E body \in Body : BeginPut(r, h, g, n, body)
    \/ \E r \in RReq : UpsertProviderResource(r) \/ DeleteProviderResource(r)
    \/ RCrash

RSpec == RInit /\ [][RNext]_rvars

-----------------------------------------------------------------------------
(* Properties.                                                             *)

\* Types; a row always has the provisioning state that clients poll for.
RTypeOK ==
    /\ handlers \subseteq Handlers
    /\ rows \in [Keys \X Group \X Name -> Row \cup {NoRow}]
    /\ \A k \in DOMAIN rows : rows[k] # NoRow => "provisioningState" \in rows[k].props
    /\ rreq \in [RReq -> ArmRequest \cup {RIdle}]
    /\ puts \in 0 .. MaxPut /\ sent \in [Routes \X Group \X Name -> 0 .. puts]

\* A row is written or removed only by a request that was let in with the right
\* to write or delete that type in that group, whichever of the nineteen copies
\* it was sent to (require and the statement of put and del).
OwnRightOnly ==
    [][\A k \in DOMAIN rows :
          rows'[k] # rows[k] =>
             \E r \in RReq :
                /\ rreq[r] # RIdle /\ rreq'[r] = RIdle
                /\ rreq[r].by = [type |-> k[1], group |-> k[2],
                                verb |-> IF rows'[k] = NoRow THEN "delete" ELSE "write"]
      ]_rvars

\* The routes of a handler that read one resource.
Readings(h, g, n) ==
    {GetResource(h, g, n)}
      \cup (IF h = Aks THEN {ListCredential(g, n)} ELSE {})
      \cup (IF h = ContainerApps THEN {ListRevisions(g, n)} ELSE {})

\* A route finds what was last sent to it and not deleted through it, whole, no
\* more and nothing of another's: by name, credentials and revisions included, in
\* the group's list and in the subscription's inventory.
FoundWhereSent ==
    \A h \in handlers :
       LET live == {gn \in Group \X Name : sent[<<h.route, gn[1], gn[2]>>] # 0} IN
       /\ \A g \in Group, n \in Name : \A found \in Readings(h, g, n) :
             IF <<g, n>> \in live THEN found # NoRow /\ found.put = sent[<<h.route, g, n>>]
                                  ELSE found = NoRow
       /\ \A g \in Group : {x[1] : x \in ListResources(h, g)} = {n \in Name : <<g, n>> \in live}
       /\ h \in Inventoried => ListSubProvider(h) = live

\* The kubeConfig that put makes for every cluster is in no answer to a reader of
\* clusters, only in listCredential's, which never lacks it while the cluster
\* exists (docs/services/aks.md).  The chat route, which has no group in its path,
\* asks for its right at an account that exists.
SpecialRights ==
    /\ \A h \in handlers, g \in Group :
          h = Aks => /\ \A x \in ListResources(h, g) : "kubeConfig" \notin x[2].props
                     /\ \A n \in Name :
                           GetResource(h, g, n) # NoRow =>
                              /\ "kubeConfig" \notin GetResource(h, g, n).props
                              /\ "kubeConfig" \in ListCredential(g, n).props
    /\ OpenAI \in handlers =>
          \A n \in Name : ChatScope(n) = 0 <=> \A g \in Group : GetResource(OpenAI, g, n) = NoRow

\* Each of the nineteen types finds its own rows, whole, by every route that reads
\* them, and the two routes that ask for a right of their own find what it is for.
ResourcesInv == RTypeOK /\ FoundWhereSent /\ SpecialRights

=============================================================================
