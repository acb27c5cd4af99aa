------------------------------ MODULE MCEvents ------------------------------
(***************************************************************************)
(* The container registry, Event Hubs, Service Bus topics and Event Grid   *)
(* for TLC.  They share no state, so one behaviour exercises one of them.  *)
(* Requests to the registry meet only in uploads, blobs and manifests:     *)
(* "registry" lets root's overlap there, "access" follows one request      *)
(* through its authorisation while rows, roles and tokens change.          *)
(***************************************************************************)
EXTENDS Registry, EventHubs, ServiceBusTopics, EventGrid, TLC

VARIABLE service

evars == <<service, vars, hvars, pvars, gvars>>

EInit ==
    /\ service \in {"registry", "access", "hubs", "topics", "grid"}
    /\ Init /\ HInit /\ PInit /\ GInit

RootOnly ==
    /\ {r \in Req : req'[r] # Idle /\ req'[r].of # Root} = {}
    /\ UNCHANGED <<arm, roles, tokens>>

OneRequest ==
    /\ {r \in Req \ {1} : req'[r] # Idle} = {}
    /\ UNCHANGED <<blobs, manifests>>

\* One client publishes, the other manages subscriptions.
ByClient ==
    {r \in GReq : greq'[r] # GIdle /\ greq'[r].kind # <<"pub", "sub">>[r]} = {}

ENext ==
    \/ service = "registry" /\ Next /\ RootOnly /\ UNCHANGED <<service, hvars, pvars, gvars>>
    \/ service = "access" /\ Next /\ OneRequest /\ UNCHANGED <<service, hvars, pvars, gvars>>
    \/ service = "hubs"   /\ HNext /\ UNCHANGED <<service, vars, pvars, gvars>>
    \/ service = "topics" /\ PNext /\ UNCHANGED <<service, vars, hvars, gvars>>
    \/ service = "grid"   /\ GNext /\ ByClient /\ UNCHANGED <<service, vars, hvars, pvars>>

\* A handler that runs goes on to its answer.
Fairness ==
    \A r \in GReq :
       WF_gvars(service = "grid" /\ GProgress(r) /\ UNCHANGED <<service, vars, hvars, pvars>>)

ESpec == EInit /\ [][ENext]_evars /\ Fairness

\* The right of the one caller that is not root.
HubRoles == {<<"ann", "receive", 1>>}

\* She pulls in the subscription and pushes to the registry of one group, or to
\* whatever is in the other.
Assignments == {<<"ann", "pull", <<"subscription", None>>>>,
                <<"ann", "push", <<"registry", 1>>>>, <<"ann", "push", <<"group", 2>>>>}

=============================================================================
