-------------------------------- MODULE Rbac --------------------------------
(***************************************************************************)
(* Role assignments and their evaluation (internal/kernel/authz/rbac.go,   *)
(* internal/services/authorization, internal/store/arm.go, directory.go).  *)
(*                                                                         *)
(* Evaluate walks from the scope of a request up to the subscription with  *)
(* one statement per scope and one per group it expands; assignments and   *)
(* group members change in between.  What it granted is done by a later    *)
(* statement.  Root is granted everything at once, so that its PUT and     *)
(* DELETE are one step here.                                               *)
(*                                                                         *)
(* A principal stands for its directory ids (appId, objectId, service      *)
(* principal id), which principalIDs makes equal.                          *)
(***************************************************************************)
EXTENDS RoleCatalog, Naturals

CONSTANTS
    Principal,  \* callers other than root
    Group,
    Nested,     \* pairs of groups that the seed makes member of one another
    Scope,      \* subscriptions, resource groups and resources
    Parent,     \* the next scope of scopeChain that can hold assignments
    Up,         \* a scope and the scopes above it
    Name,       \* names of role assignments
    Role,       \* roles that are assigned
    Asked,      \* actions that requests ask for
    PutInput,   \* assignments that are written
    RefInput,   \* members that are added to groups
    Req,        \* concurrent requests
    NoScope, NoRow, Idle

groupExpandMaxDepth == 8

ASSUME ScopeTree ==
    /\ Parent \in [Scope -> Scope \cup {NoScope}] /\ NoScope \notin Scope
    /\ Up \in [Scope -> SUBSET Scope]
    /\ \A s \in Scope :
          /\ Up[s] = {s} \cup (IF Parent[s] = NoScope THEN {} ELSE Up[Parent[s]])
          /\ \A t \in Up[s] : Up[t] \subseteq Up[s]

ASSUME Directory ==
    Nested \subseteq Group \X Group /\ Role \subseteq BuiltInRole /\ Asked \subseteq Action

\* The seed nests groups without cycles and less deep than groupContains follows.
ASSUME ShallowNesting ==
    \E depth \in [Group -> 0 .. groupExpandMaxDepth - 1] :
       \A e \in Nested : depth[e[1]] < depth[e[2]]

VARIABLES
    rows,       \* table role_assignments
    members,    \* table entra_group_members
    req,        \* what each request in progress knows
    rootOwns,   \* history: scopes where root gave a role that writes assignments
    delegated   \* history: scopes where a caller other than root wrote an assignment

vars == <<rows, members, req, rootOwns, delegated>>

\* A role assignment; asGroup: its principal_type is Group.
Row == [scope : Scope, name : Name, role : Role, who : Principal \cup Group, asGroup : BOOLEAN]

\* The id of an assignment is made of its scope and its name.
Id == [scope : Scope, name : Name]
Same(a, b) == a.scope = b.scope /\ a.name = b.name

ASSUME Inputs == PutInput \subseteq Row /\ RefInput \subseteq Group \X (Principal \cup Group)

Assign == [area |-> "roleAssignments", verb |-> "write"]

\* h is g, or a member of it through groups (any set of groups that has g and the
\* nested groups of its groups has h).
Deep(g, h) ==
    \A S \in SUBSET Group :
       g \in S /\ (\A e \in Nested : e[1] \in S => e[2] \in S) => h \in S

\* a is for p: by name, or because p is in a group that a names.
Names(a, p, ms) ==
    \/ a.who = p
    \/ a.asGroup /\ a.who \in Group /\ \E g \in Group : Deep(a.who, g) /\ <<g, p>> \in ms

Grants(a, act, s) == a.scope \in Up[s] /\ roleGrants(a.role, act)

Entitled(rs, ms, p, act, s) == \E a \in rs : Grants(a, act, s) /\ Names(a, p, ms)

\* A request: the caller, what it asks for and on which scope; the row it will
\* write or the id it will delete (NoRow: an action of another service).  at is the scope being
\* looked at, todo the assignments listed there, cur the one being expanded,
\* pending the groups to list with their depth, by the row that granted.
\* History: whether the caller was entitled at some instant of the request; quiet
\* while nothing was written.
Request ==
    [pc : {"scope", "groups", "granted"}, who : Principal, act : Action, scope : Scope,
     op : {"put", "delete", "use"}, row : Row \cup Id \cup {NoRow},
     at : Scope, todo : SUBSET Row, cur : Row \cup {NoRow},
     pending : SUBSET (Group \X Nat), seen : SUBSET Group, by : Row \cup {NoRow},
     entitled : BOOLEAN, quiet : BOOLEAN]

ASSUME AbsentAssumption == NoRow \notin Row \cup Id /\ Idle \notin Request

At(r, pc) == req[r] # Idle /\ req[r].pc = pc

Finish(r) == req' = [req EXCEPT ![r] = Idle]

-----------------------------------------------------------------------------
(* Writes.  Requests under way take note of them; those in done end.       *)

Noted(done, rs, ms) ==
    [q \in Req |->
       IF q \in done \/ req[q] = Idle THEN Idle
       ELSE [req[q] EXCEPT !.quiet = FALSE,
               !.entitled = @ \/ Entitled(rs, ms, req[q].who, req[q].act, req[q].scope)]]

\* UpsertRoleAssignment: one row per id.
UpsertRoleAssignment(a, done) ==
    /\ rows' = {x \in rows : ~ Same(x, a)} \cup {a}
    /\ req' = Noted(done, rows', members)
    /\ UNCHANGED members

DeleteRoleAssignment(a, done) ==
    /\ rows' = {x \in rows : ~ Same(x, a)}
    /\ req' = Noted(done, rows', members)
    /\ UNCHANGED members

RootPut(a) ==
    /\ UpsertRoleAssignment(a, {})
    /\ rootOwns' = IF roleGrants(a.role, Assign) THEN rootOwns \cup {a.scope} ELSE rootOwns
    /\ UNCHANGED delegated

RootDelete(a) ==
    /\ a \in rows
    /\ DeleteRoleAssignment(a, {})
    /\ UNCHANGED <<rootOwns, delegated>>

\* Graph POST members/$ref: the member's type is always user.
AddGroupMember(g, m) ==
    /\ <<g, m>> \notin members
    /\ members' = members \cup {<<g, m>>}
    /\ req' = Noted({}, rows, members')
    /\ UNCHANGED <<rows, rootOwns, delegated>>

-----------------------------------------------------------------------------
(* A request.                                                              *)

Begin(r, p, act, s, op, a) ==
    /\ req[r] = Idle
    /\ req' = [req EXCEPT ![r] =
                 [pc |-> "scope", who |-> p, act |-> act, scope |-> s, op |-> op, row |-> a,
                  at |-> s, todo |-> {}, cur |-> NoRow, pending |-> {}, seen |-> {},
                  by |-> NoRow,
                  entitled |-> Entitled(rows, members, p, act, s), quiet |-> TRUE]]
    /\ UNCHANGED <<rows, members, rootOwns, delegated>>

\* Mutant of BeginPut: the action of the GET route.
BeginPutAsGet(r, p, a) ==
    Begin(r, p, [area |-> "roleAssignments", verb |-> "read"], a.scope, "put", a)

\* PUT and DELETE of an assignment ask for it at the scope of the assignment.
BeginPut(r, p, a) == Begin(r, p, Assign, a.scope, "put", a)

BeginDelete(r, p, id) == Begin(r, p, Assign, id.scope, "delete", id)

BeginUse(r, p, act, s) == Begin(r, p, act, s, "use", NoRow)

\* Mutant of Relevant: the role of a row is not looked at.
RelevantAnyRole(a, q) ==
    a.scope = q.at /\ (a.who = q.who \/ (a.asGroup /\ a.who \in Group))

\* Row a may grant request q what it asks for: at the scope being looked at, with
\* a role that grants, and naming the caller or a group that has to be expanded.
\* principalMatches has no effect on other rows.
Relevant(a, q) ==
    /\ a.scope = q.at /\ roleGrants(a.role, q.act)
    /\ a.who = q.who \/ (a.asGroup /\ a.who \in Group)

\* ListRoleAssignmentsForScope.
ListScope(r) ==
    /\ At(r, "scope")
    /\ req' = [req EXCEPT ![r].pc = "groups", ![r].todo = {a \in rows : Relevant(a, req[r])}]
    /\ UNCHANGED <<rows, members, rootOwns, delegated>>

\* The next row, in any order: one that names the caller grants, for another one
\* groupContains starts.
NextRow(r) ==
    /\ At(r, "groups") /\ req[r].pending = {}
    /\ \E a \in req[r].todo :
          IF a.who = req[r].who
          THEN req' = [req EXCEPT ![r].pc = "granted", ![r].by = a]
          ELSE req' = [req EXCEPT ![r].todo = @ \ {a}, ![r].cur = a,
                                  ![r].pending = {<<a.who, 0>>}, ![r].seen = {}]
    /\ UNCHANGED <<rows, members, rootOwns, delegated>>

\* Mutant of ListMembers: nested groups are not expanded.
ListMembersFlat(r) ==
    LET q == req[r] IN
    /\ At(r, "groups")
    /\ \E p \in q.pending :
          LET g == p[1] IN
              IF <<g, q.who>> \in members
              THEN req' = [req EXCEPT ![r].pc = "granted", ![r].by = q.cur]
              ELSE req' = [req EXCEPT
                     ![r].seen = @ \cup {g},
                     ![r].pending = {x \in @ \ {p} :
                                       x[1] \notin q.seen \cup {g} /\ x[2] < groupExpandMaxDepth}]
    /\ UNCHANGED <<rows, members, rootOwns, delegated>>

\* ListGroupMembers of one pending group, in any order of the groups.
ListMembers(r) ==
    LET q == req[r] IN
    /\ At(r, "groups")
    /\ \E p \in q.pending :
          LET g    == p[1]
              deep == {<<e[2], p[2] + 1>> : e \in {x \in Nested : x[1] = g}}
          IN  IF <<g, q.who>> \in members
              THEN req' = [req EXCEPT ![r].pc = "granted", ![r].by = q.cur]
              ELSE req' = [req EXCEPT
                     ![r].seen = @ \cup {g},
                     ![r].pending = {x \in (@ \ {p}) \cup deep :
                                       x[1] \notin q.seen \cup {g} /\ x[2] < groupExpandMaxDepth}]
    /\ UNCHANGED <<rows, members, rootOwns, delegated>>

\* Nothing at this scope granted: the next one.
NextScope(r) ==
    /\ At(r, "groups") /\ req[r].todo = {} /\ req[r].pending = {}
    /\ Parent[req[r].at] # NoScope
    /\ req' = [req EXCEPT ![r].pc = "scope", ![r].at = Parent[@]]
    /\ UNCHANGED <<rows, members, rootOwns, delegated>>

Deny(r) ==
    /\ At(r, "groups") /\ req[r].todo = {} /\ req[r].pending = {}
    /\ Parent[req[r].at] = NoScope
    /\ Finish(r)
    /\ UNCHANGED <<rows, members, rootOwns, delegated>>

\* The request does what it was granted.  The body of a PUT is read only now, and
\* may be refused.
Commit(r) ==
    /\ At(r, "granted")
    /\ \/ /\ req[r].op = "put"
          /\ UpsertRoleAssignment(req[r].row, {r})
          /\ delegated' = delegated \cup {req[r].scope}
       \/ /\ req[r].op = "delete"
          /\ DeleteRoleAssignment(req[r].row, {r})
          /\ UNCHANGED delegated
       \/ /\ req[r].op # "delete"
          /\ Finish(r)
          /\ UNCHANGED <<rows, members, delegated>>
    /\ UNCHANGED rootOwns

-----------------------------------------------------------------------------
Init ==
    /\ rows = {} /\ rootOwns = {} /\ delegated = {}
    /\ members = Nested
    /\ req = [r \in Req |-> Idle]

Next ==
    \/ \E a \in PutInput : RootPut(a) \/ RootDelete(a)
    \/ \E e \in RefInput : AddGroupMember(e[1], e[2])
    \/ \E r \in Req :
          \/ \E p \in Principal :
                \/ \E a \in PutInput : BeginPut(r, p, a)
                \/ \E id \in Id : BeginDelete(r, p, id)
                \/ \E act \in Asked, s \in Scope : BeginUse(r, p, act, s)
          \/ ListScope(r) \/ NextRow(r) \/ ListMembers(r) \/ NextScope(r)
          \/ Deny(r) \/ Commit(r)

Spec == Init /\ [][Next]_vars

-----------------------------------------------------------------------------
(* Properties.                                                             *)

\* Every variable has its type, and an assignment id has one row.
TypeOK ==
    /\ rows \subseteq Row /\ rootOwns \subseteq Scope /\ delegated \subseteq Scope
    /\ \A a, b \in rows : Same(a, b) => a = b
    /\ members \subseteq Group \X (Principal \cup Group)
    /\ req \in [Req -> Request \cup {Idle}]

\* What Evaluate granted has a reason: an assignment it read at the scope asked
\* for or above it, with a role that grants the action, for the caller or for a
\* group the caller is in.
GrantJustified ==
    \A r \in Req : At(r, "granted") =>
       Grants(req[r].by, req[r].act, req[r].scope) /\ Names(req[r].by, req[r].who, members)

\* Authority comes from root and never flows upwards: where a caller other than
\* root wrote an assignment, root had given a role that writes assignments at
\* that scope or above it, however long the chain of owners between them.
AuthorityFromRoot ==
    \A s \in delegated : \E o \in rootOwns : o \in Up[s]

\* A request during which nothing was written is granted exactly when the caller
\* is entitled (Evaluate, principalMatches and groupContains compute it).
QuietVerdict ==
    [][\A r \in Req :
          /\ Deny(r) => ~ (req[r].quiet /\ req[r].entitled)
          /\ At(r, "granted") /\ req[r].quiet => req[r].entitled]_vars

=============================================================================
