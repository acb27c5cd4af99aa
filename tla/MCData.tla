------------------------------- MODULE MCData -------------------------------
(***************************************************************************)
(* Blobs, queues, tables and Cosmos DB for TLC.  They share no state but   *)
(* the account of the first two, so one behaviour exercises one of them.   *)
(***************************************************************************)
EXTENDS Storage, Tables, Cosmos, TLC

VARIABLE service

vars == <<service, svars, tvars, cvars>>

Init == service \in {"blobs", "queues", "table", "cosmos"} /\ SInit /\ TInit /\ CInit

\* With the bounds used up nothing has to happen any more, but a request that is
\* under way can always go on.
Rest ==
    /\ \A r \in Req : req[r] = Idle
    /\ \A r \in TReq : treq[r] = TIdle
    /\ \A q \in Put : put[q] = NoPut
    /\ UNCHANGED vars

Next ==
    \/ service = "blobs"   /\ SNext /\ UNCHANGED <<service, tvars, cvars, msgs, now>>
    \/ service = "queues"  /\ SNext /\ UNCHANGED <<service, tvars, cvars, containers, blobs>>
    \/ service = "table"   /\ TNext /\ UNCHANGED <<service, svars, cvars>>
    \/ service = "cosmos"  /\ CNext /\ UNCHANGED <<service, svars, tvars>>
    \/ Rest

Spec == Init /\ [][Next]_vars

\* SAS that read, that write and that delete blobs and messages.
SasGrants == {{"r", "l", "p"}, {"w"}, {"a"}, {"d"}}

\* SAS that add, that update and that manage tables and delete.
Grants == {{"a"}, {"u"}, {"c", "d"}}

\* The services use the same names for their requests and groups.
Symmetry == Permutations(Req) \cup Permutations(Rg)

=============================================================================
