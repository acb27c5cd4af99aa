---------------------------- MODULE MCResources ----------------------------
(***************************************************************************)
(* The ARM resources, App Configuration, function apps, managed identities *)
(* and listings for TLC.  They share no state, so one behaviour exercises  *)
(* one of them.                                                            *)
(***************************************************************************)
EXTENDS Resources, AppConfig, FunctionApps, Identities, ResourceGraph

VARIABLE service

avars == <<service, rvars, vars, fvars, ivars, gvars>>

AInit ==
    /\ Init /\ FInit /\ IInit /\ GInit
    /\ \/ service = "resources" /\ RInit
       \/ service \in {"stores", "functions", "identities", "graph"} /\ RInit /\ handlers = {Apim}

\* With the bounds used up nothing has to happen any more, but a request that is
\* under way can always go on.
AtRest ==
    /\ \A r \in RReq : rreq[r] = RIdle
    /\ \A q \in Req : req[q] = Idle
    /\ \A c \in Call : call[c] = Rest
    /\ \A d \in Client : client[d] = Quiet
    /\ query = NoQuery
    /\ UNCHANGED avars

\* Nothing depends on the answer given last, so after an answer it is enough that
\* rights change, and change back.
Listings == IF page = NoPage THEN GNext ELSE \E s \in Scope : ChangeRights(s)

ANext ==
    \/ service = "resources"  /\ RNext /\ UNCHANGED <<service, vars, fvars, ivars, gvars>>
    \/ service = "stores"     /\ Next /\ UNCHANGED <<service, rvars, fvars, ivars, gvars>>
    \/ service = "functions"  /\ FNext /\ UNCHANGED <<service, rvars, vars, ivars, gvars>>
    \/ service = "identities" /\ INext /\ UNCHANGED <<service, rvars, vars, fvars, gvars>>
    \/ service = "graph"      /\ Listings /\ UNCHANGED <<service, rvars, vars, fvars, ivars>>
    \/ AtRest

ASpec == AInit /\ [][ANext]_avars

\* A PUT body with a secret, and one that names its revisions.
Bodies == {{"sku", "administratorLoginPassword"}, {"revisions", "accessKeyEnabled"}}

\* The names of the properties as the lab compares them.
Words ==
    [p \in Property |->
        CASE p = "administratorLoginPassword" -> <<"administratorlogin", "password">>
          [] p = "accessKeyEnabled" -> <<"accesskey", "enabled">>
          [] p = "kubeConfig" -> <<"kubeconfig">>
          [] OTHER -> <<p>>]

\* A pair that is pinned, and one that takes an id the lab may draw.
Pins == {[principal |-> 1, client |-> 8], [principal |-> 9, client |-> 2]}

\* The services share model values (all their requests are q1 and q2, values and
\* identities v1 and v2, keys and types k1 and k2), so that one small group serves each.
Symmetry == Permutations(Req) \cup Permutations(Value) \cup Permutations(Key)

=============================================================================
