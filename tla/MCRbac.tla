------------------------------- MODULE MCRbac -------------------------------
(***************************************************************************)
(* Small instances of Rbac for TLC.                                        *)
(***************************************************************************)
EXTENDS Rbac, TLC

CONSTANTS sub, rgA, g1, g2

\* A subscription and one resource group.
Pair == (sub :> NoScope) @@ (rgA :> sub)
PairUp == (sub :> {sub}) @@ (rgA :> {rgA, sub})

SeededNesting == {<<g1, g2>>}

\* Assignments of every role to callers by name and to groups as groups.
Rows(ss, rs, ws) ==
    [scope : ss, name : Name, role : rs, who : ws, asGroup : {FALSE}]
    \cup [scope : ss, name : Name, role : rs, who : ws \cap Group, asGroup : {TRUE}]
ToFirstGroup == Rows(Scope, Role, {g1}) \cup Rows(Scope, Role, Principal)
Joining      == Group \X Principal

ReadArm == {[area |-> "arm", verb |-> "read"]}

=============================================================================
