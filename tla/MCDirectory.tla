---------------------------- MODULE MCDirectory ----------------------------
(* The directory: applications and their credentials, groups and roles, and *)
(* the lab issuer's key.  A behaviour is of one of them: the one table that  *)
(* one part writes and another reads is that of the role members, which      *)
(* GiveRole of Applications extends as AddRoleMember of Groups does.         *)
EXTENDS Applications, Groups, OidcLab, TLC

VARIABLE service

\* The lab application calls, by its service principal.
RootOne == <<"user", 0>>
Principal == <<"sp", 1>>
Callers == {RootOne, Principal}
Assignments == {<<Principal, <<"app", 1>>>>}

Init ==
    /\ AInit /\ DInit /\ OInit
    /\ globals = {} /\ admins = {}
    /\ service \in {"applications", "groups", "lab"}
    /\ service # "applications" => assigned = {}

\* With the bounds used up nothing has to happen any more, but a request that is
\* under way can always go on.
Rest ==
    /\ \A r \in AReq : areq[r] = AIdle
    /\ \A r \in DReq : dreq[r] = DIdle
    /\ \A r \in OReq : oreq[r] = OIdle
    /\ UNCHANGED <<avars, dvars, ovars>>

Next ==
    /\ \/ service = "applications" /\ ANext /\ UNCHANGED <<dvars, ovars>>
       \/ service = "groups" /\ DNext /\ UNCHANGED <<avars, ovars>>
       \/ service = "lab" /\ ONext /\ UNCHANGED <<avars, dvars>>
       \/ Rest
    /\ UNCHANGED service
Spec == Init /\ [][Next]_<<avars, dvars, ovars, service>>

Symmetry == Permutations(AReq) \cup Permutations(AppKey) \cup Permutations(DReq)

=============================================================================
