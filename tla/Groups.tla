------------------------------- MODULE Groups -------------------------------
(***************************************************************************)
(* Users, dynamic groups and directory roles                               *)
(* (internal/services/entra/graph.go, graph_write.go,                      *)
(* internal/store/directory.go).                                           *)
(*                                                                         *)
(* A PATCH of a user, a device or a group is followed, in the same         *)
(* request, by a refresh of every dynamic group: the groups are listed,    *)
(* then the users, then each match is added by a statement of its own.     *)
(* Nothing removes a member.  No code makes a device, so the devices that  *)
(* are listed after the users are none.                                    *)
(***************************************************************************)
EXTENDS Naturals, FiniteSets

CONSTANTS
    User, RootUser,  \* users of the directory; the root caller, who is none
    SeededAdmin,     \* the user that the seed makes Global Administrator
    Group,
    Word,            \* a department or a job title is a set of words
    DReq, DIdle, NoRule,
    MaxPatch         \* bound on the requests

VARIABLES
    attrs,     \* entra_users: department and jobTitle
    rules,     \* entra_groups: membership_rule
    members,   \* entra_group_members
    roles,     \* entra_directory_role_members of the seeded roles
    dreq,      \* requests between two statements
    patched,   \* requests begun
    cut        \* history: the process stopped between a PATCH and the end of a
               \* refresh, and no refresh has ended since

dvars == <<attrs, rules, members, roles, dreq, patched, cut>>

Text == SUBSET Word
Part == {"department", "jobTitle"}
Rule == [attr : Part, want : Text]
Role == {"Global", "User", "Application"}

\* A body names the attributes that it gives a text.
Patch == UNION {[parts -> Text] : parts \in SUBSET Part}

Op == {"user", "device", "group", "member", "role"}

\* who, what: the user and the group or role named; value: the attributes or the
\* rule to set; groups, todo: what the refresh has listed.
Request ==
    [op : Op, step : {"write", "groups", "users", "add"}, who : User,
     what : Group \cup Role, value : Patch \cup Rule \cup {NoRule},
     groups : [Group -> Rule \cup {NoRule}], todo : SUBSET (Group \X User)]

ASSUME GroupsAssumption ==
    /\ SeededAdmin \in User /\ NoRule \notin Rule /\ DIdle \notin Request /\ MaxPatch \in Nat

-----------------------------------------------------------------------------
\* principalHasDirectoryRole over the seeded roles; Groups, Cloud Device and
\* Privileged Role Administrator are not among them.
RolesFor(op) == IF op \in {"role", "device"} THEN {"Global"} ELSE {"Global", "User"}

\* requireGraphDirectoryWrite.
RequireGraphDirectoryWrite(p, op) == p = RootUser \/ \E x \in RolesFor(op) : p \in roles[x]

\* matchDirectoryRule: a department need only contain the words asked for, a job
\* title must be them; extractQuoted finds no words in a rule without quotes.
MatchDirectoryRule(rule, a) ==
    CASE rule.attr = "department" -> rule.want \subseteq a.department
      [] rule.attr = "jobTitle"   -> rule.want = a.jobTitle

-----------------------------------------------------------------------------
(* Requests.                                                               *)

\* A request with the right; one without is 403 and changes nothing.  Nothing is
\* read before the right, so the request comes when the roles are read.
Begin(r, op, p, who, what, value) ==
    /\ dreq[r] = DIdle /\ patched < MaxPatch
    /\ RequireGraphDirectoryWrite(p, op)
    /\ patched' = patched + 1
    /\ dreq' = [dreq EXCEPT ![r] =
                  [op |-> op, step |-> "write", who |-> who, what |-> what, value |-> value,
                   groups |-> [g \in Group |-> NoRule], todo |-> {}]]
    /\ UNCHANGED <<attrs, rules, members, roles, cut>>

At(r, step) == dreq[r] # DIdle /\ dreq[r].step = step
Goto(r, step) == dreq' = [dreq EXCEPT ![r].step = step]
Finish(r)     == dreq' = [dreq EXCEPT ![r] = DIdle]

\* handlePatchUser: PatchDirectoryUser keeps what the body leaves empty.
PatchUser(r) ==
    /\ At(r, "write") /\ dreq[r].op = "user"
    /\ attrs' = [attrs EXCEPT ![dreq[r].who] =
                   [k \in Part |->
                      IF k \in DOMAIN dreq[r].value THEN dreq[r].value[k] ELSE @[k]]]
    /\ Goto(r, "groups")
    /\ UNCHANGED <<rules, members, roles, patched, cut>>

\* handlePatchDevice: no row has the id.
PatchDevice(r) ==
    /\ At(r, "write") /\ dreq[r].op = "device"
    /\ Goto(r, "groups")
    /\ UNCHANGED <<attrs, rules, members, roles, patched, cut>>

\* Mutant of PatchGroup: the new rule waits for the next PATCH of a user.
PatchGroupLater(r) ==
    /\ At(r, "write") /\ dreq[r].op = "group"
    /\ rules' = [rules EXCEPT ![dreq[r].what] = dreq[r].value]
    /\ Finish(r)
    /\ UNCHANGED <<attrs, members, roles, patched, cut>>

\* handlePatchGroup and UpdateGroupRule.
PatchGroup(r) ==
    /\ At(r, "write") /\ dreq[r].op = "group"
    /\ rules' = [rules EXCEPT ![dreq[r].what] = dreq[r].value]
    /\ Goto(r, "groups")
    /\ UNCHANGED <<attrs, members, roles, patched, cut>>

\* handleAddGroupMember.
AddMember(r) ==
    /\ At(r, "write") /\ dreq[r].op = "member"
    /\ members' = [members EXCEPT ![dreq[r].what] = @ \cup {dreq[r].who}]
    /\ Finish(r)
    /\ UNCHANGED <<attrs, rules, roles, patched, cut>>

\* handleAddRoleMember.
AddRoleMember(r) ==
    /\ At(r, "write") /\ dreq[r].op = "role"
    /\ roles' = [roles EXCEPT ![dreq[r].what] = @ \cup {dreq[r].who}]
    /\ Finish(r)
    /\ UNCHANGED <<attrs, rules, members, patched, cut>>

-----------------------------------------------------------------------------
(* refreshDynamicGroups.                                                   *)

\* ListDirectoryGroups.
ListGroups(r) ==
    /\ At(r, "groups")
    /\ dreq' = [dreq EXCEPT ![r].groups = rules, ![r].step = "users"]
    /\ UNCHANGED <<attrs, rules, members, roles, patched, cut>>

\* ListDirectoryUsers, and the matches with the rules listed before.
ListUsers(r) ==
    /\ At(r, "users")
    /\ dreq' = [dreq EXCEPT ![r].step = "add",
          ![r].todo = {m \in Group \X User :
             /\ dreq[r].groups[m[1]] # NoRule
             /\ MatchDirectoryRule(dreq[r].groups[m[1]], attrs[m[2]])}]
    /\ UNCHANGED <<attrs, rules, members, roles, patched, cut>>

\* AddGroupMember, one match at a time.
AddMatch(r, m) ==
    /\ At(r, "add") /\ m \in dreq[r].todo
    /\ members' = [members EXCEPT ![m[1]] = @ \cup {m[2]}]
    /\ dreq' = [dreq EXCEPT ![r].todo = @ \ {m}]
    /\ UNCHANGED <<attrs, rules, roles, patched, cut>>

EndRefresh(r) ==
    /\ At(r, "add") /\ dreq[r].todo = {}
    /\ Finish(r)
    /\ cut' = FALSE
    /\ UNCHANGED <<attrs, rules, members, roles, patched>>

\* The process stops.
DCrash ==
    /\ \E r \in DReq : dreq[r] # DIdle
    /\ cut' = (cut \/ \E r \in DReq : \E s \in {"groups", "users", "add"} : At(r, s))
    /\ dreq' = [r \in DReq |-> DIdle]
    /\ UNCHANGED <<attrs, rules, members, roles, patched>>

-----------------------------------------------------------------------------
\* SeedDirectory, with its first role member; the seeded groups have no rule, and
\* the seeded departments and titles are words that no rule here asks for.
DInit ==
    /\ attrs = [u \in User |-> [k \in Part |-> {}]]
    /\ rules = [g \in Group |-> NoRule] /\ members = [g \in Group |-> {}]
    /\ roles = [x \in Role |-> IF x = "Global" THEN {SeededAdmin} ELSE {}]
    /\ dreq = [r \in DReq |-> DIdle] /\ patched = 0 /\ cut = FALSE

DNext ==
    \/ \E r \in DReq :
          \/ \E p \in User \cup {RootUser} :
                \/ \E u \in User, v \in Patch : Begin(r, "user", p, u, "Global", v)
                \/ Begin(r, "device", p, SeededAdmin, "Global", NoRule)
                \/ \E g \in Group, v \in Rule \cup {NoRule} :
                      Begin(r, "group", p, SeededAdmin, g, v)
                \/ \E g \in Group, u \in User : Begin(r, "member", p, u, g, NoRule)
                \/ \E x \in Role, u \in User : Begin(r, "role", p, u, x, NoRule)
          \/ PatchUser(r) \/ PatchDevice(r) \/ PatchGroup(r)
          \/ AddMember(r) \/ AddRoleMember(r) \/ ListGroups(r) \/ ListUsers(r)
          \/ \E m \in Group \X User : AddMatch(r, m)
          \/ EndRefresh(r)
    \/ DCrash

DSpec == DInit /\ [][DNext]_dvars

-----------------------------------------------------------------------------
(* Properties.                                                             *)

\* Every variable has its type.
DTypeOK ==
    /\ attrs \in [User -> [Part -> Text]]
    /\ rules \in [Group -> Rule \cup {NoRule}]
    /\ members \in [Group -> SUBSET User] /\ roles \in [Role -> SUBSET User]
    /\ dreq \in [DReq -> Request \cup {DIdle}]
    /\ patched \in 0 .. MaxPatch /\ cut \in BOOLEAN

\* When no request is under way every user who matches a group's rule is its
\* member, whichever PATCHes of users and groups overlapped: the refresh of the
\* last PATCH lists both after it was stored.  Only a process that stopped
\* between a PATCH and its refresh leaves a match out, until the next refresh.
MatchingIsMember ==
    ~cut /\ (\A r \in DReq : dreq[r] = DIdle) =>
       \A g \in Group, u \in User :
          rules[g] # NoRule /\ MatchDirectoryRule(rules[g], attrs[u]) => u \in members[g]

\* When nothing is under way, dynamic groups hold everyone who matches.
GroupsInv == DTypeOK /\ MatchingIsMember

=============================================================================
