-------------------------- MODULE DirectoryProofs --------------------------
(***************************************************************************)
(* Proofs about the Entra directory, for any number of users, groups,      *)
(* requests, applications, ids and keys: the lab OIDC issuer (module       *)
(* OidcLab), groups and directory roles (module Groups), and applications  *)
(* with their service principals and credentials (module Applications).    *)
(* Each section states the inductive invariant of its module, shows that   *)
(* every action keeps it, and derives the properties that TLC checks.      *)
(***************************************************************************)
EXTENDS Applications, Groups, OidcLab, SequenceTheorems, WellFoundedInduction, TLAPS

-----------------------------------------------------------------------------
(* The lab issuer's key.                                                   *)

\* The inductive invariant of the issuer: nothing is signed before a key is stored.
LabInv == MintedVerifies /\ (labKey = 0 => assertions = {})

\* Every assertion verifies with the published key.
THEOREM MintedAlwaysVerifies == OSpec => []MintedVerifies
<1>1. OInit => LabInv
  BY DEF OInit, LabInv, MintedVerifies
<1>2. LabInv /\ [ONext]_ovars => LabInv'
  <2> SUFFICES ASSUME LabInv, [ONext]_ovars PROVE LabInv'
    OBVIOUS
  <2> USE DEF LabInv, MintedVerifies
  <2>1. ASSUME NEW r \in OReq, ReadLabKey(r) PROVE LabInv'
    BY <2>1 DEF ReadLabKey
  <2>2. ASSUME NEW r \in OReq, InsertLabKey(r) PROVE LabInv'
    BY <2>2 DEF InsertLabKey, OIdle
  <2>3. CASE OCrash \/ UNCHANGED ovars
    BY <2>3 DEF OCrash, ovars
  <2> QED
    BY <2>1, <2>2, <2>3 DEF ONext
<1>3. LabInv => MintedVerifies
  BY DEF LabInv
<1> QED
  BY <1>1, <1>2, <1>3, PTL DEF OSpec

-----------------------------------------------------------------------------
(* Groups and directory roles.                                             *)

\* What a request sets fits what it names.
AskedInv ==
    \A r \in DReq : dreq[r] # DIdle =>
       /\ dreq[r].op = "user" => dreq[r].value \in Patch
       /\ dreq[r].op = "group" => dreq[r].what \in Group /\ dreq[r].value \in Rule \cup {NoRule}
       /\ dreq[r].op = "member" => dreq[r].what \in Group
       /\ dreq[r].op = "role" => dreq[r].what \in Role

\* A match that is no member yet.
Missing(g, u) ==
    rules[g] # NoRule /\ MatchDirectoryRule(rules[g], attrs[u]) /\ u \notin members[g]

\* The refresh of r is going to add the match: it has yet to list the groups, or
\* has listed the rule that holds, or has found the match.
Covers(r, g, u) ==
    \/ At(r, "groups")
    \/ At(r, "users") /\ dreq[r].groups[g] = rules[g]
    \/ At(r, "add") /\ <<g, u>> \in dreq[r].todo

\* Some refresh has listed the groups.
Refreshing == \E r \in DReq : At(r, "users") \/ At(r, "add")

\* Unless a process was cut off and no refresh has listed the groups since, every
\* match that is missing is going to be added.
CoverInv ==
    ~cut \/ Refreshing =>
       \A g \in Group, u \in User : Missing(g, u) => \E r \in DReq : Covers(r, g, u)

\* The inductive invariant of the groups.
DirInv == DTypeOK /\ AskedInv /\ CoverInv

LEMMA AskedFields ==
    ASSUME DTypeOK, NEW r \in DReq, dreq[r] # DIdle
    PROVE  /\ dreq[r] \in Request /\ dreq[r].who \in User /\ dreq[r].todo \in SUBSET (Group \X User)
           /\ dreq[r].groups \in [Group -> Rule \cup {NoRule}]
BY DEF DTypeOK, Request

LEMMA DirInit == DInit => DirInv
<1> SUFFICES ASSUME DInit PROVE DirInv
  OBVIOUS
<1> USE DEF DInit
<1>1. DTypeOK
  <2>1. attrs \in [User -> [Part -> Text]] /\ rules \in [Group -> Rule \cup {NoRule}]
    BY DEF Text
  <2>2. members \in [Group -> SUBSET User] /\ roles \in [Role -> SUBSET User]
    BY GroupsAssumption
  <2>3. patched \in 0 .. MaxPatch
    BY GroupsAssumption
  <2> QED
    BY <2>1, <2>2, <2>3 DEF DTypeOK
<1>2. AskedInv /\ CoverInv
  BY DEF AskedInv, CoverInv, Missing
<1> QED
  BY <1>1, <1>2 DEF DirInv

\* One request goes on or ends.
LEMMA OneDirRequest ==
    ASSUME DTypeOK, NEW r \in DReq, NEW v \in Request \cup {DIdle}, dreq' = [dreq EXCEPT ![r] = v]
    PROVE  /\ dreq' \in [DReq -> Request \cup {DIdle}] /\ dreq'[r] = v
           /\ \A q \in DReq \ {r} : dreq'[q] = dreq[q]
BY DEF DTypeOK

\* A request that goes on asks for the same.
LEMMA AskedStays ==
    ASSUME DTypeOK, AskedInv, NEW r \in DReq, dreq[r] # DIdle, NEW v \in Request \cup {DIdle},
           dreq' = [dreq EXCEPT ![r] = v],
           v # DIdle => /\ v.op = dreq[r].op /\ v.value = dreq[r].value
                        /\ v.what = dreq[r].what
    PROVE  AskedInv'
<1>1. dreq'[r] = v /\ \A q \in DReq \ {r} : dreq'[q] = dreq[q]
  BY OneDirRequest
<1>2. ASSUME NEW q \in DReq, dreq'[q] # DIdle
      PROVE  /\ dreq[q] # DIdle /\ dreq'[q].op = dreq[q].op /\ dreq'[q].value = dreq[q].value
             /\ dreq'[q].what = dreq[q].what
  BY <1>1, <1>2
<1> QED
  BY <1>2 DEF AskedInv

\* The step that a request is at, and no other field, is changed.
LEMMA GotoStep ==
    ASSUME DTypeOK, NEW r \in DReq, dreq[r] # DIdle, Goto(r, "groups")
    PROVE  /\ \E v \in Request : /\ dreq' = [dreq EXCEPT ![r] = v] /\ v.step = "groups"
                                 /\ v.op = dreq[r].op /\ v.value = dreq[r].value
                                 /\ v.what = dreq[r].what
<1> DEFINE v == [dreq[r] EXCEPT !.step = "groups"]
<1>1. dreq[r] \in Request
  BY AskedFields
<1>2. /\ v \in Request /\ v.step = "groups" /\ v.op = dreq[r].op /\ v.value = dreq[r].value
      /\ v.what = dreq[r].what
  BY <1>1 DEF Request
<1>3. dreq' = [dreq EXCEPT ![r] = v]
  BY DEF Goto, DTypeOK
<1> HIDE DEF v
<1> QED
  BY <1>2, <1>3

\* A request has just stored its PATCH: its refresh covers everything.
LEMMA PatchInv ==
    ASSUME DirInv, NEW r \in DReq, dreq[r] # DIdle, Goto(r, "groups"), cut' = cut, patched' = patched,
           attrs' \in [User -> [Part -> Text]], rules' \in [Group -> Rule \cup {NoRule}],
           members' = members, roles' = roles
    PROVE  DirInv'
<1>1. PICK v \in Request : /\ dreq' = [dreq EXCEPT ![r] = v] /\ v.step = "groups"
                           /\ v.op = dreq[r].op /\ v.value = dreq[r].value
                           /\ v.what = dreq[r].what
  BY GotoStep DEF DirInv
<1>2. dreq' \in [DReq -> Request \cup {DIdle}] /\ dreq'[r] = v
  BY <1>1, OneDirRequest DEF DirInv
<1>3. DTypeOK'
  BY <1>2 DEF DirInv, DTypeOK
<1>4. AskedInv'
  BY <1>1, AskedStays DEF DirInv
<1>5. At(r, "groups")'
  BY <1>1, <1>2, GroupsAssumption DEF At
<1>6. CoverInv'
  BY <1>5 DEF CoverInv, Covers
<1> QED
  BY <1>3, <1>4, <1>6 DEF DirInv

LEMMA PatchUserInv ==
    ASSUME DirInv, NEW r \in DReq, PatchUser(r)
    PROVE  DirInv'
<1>1. /\ dreq[r] # DIdle /\ dreq[r].op = "user" /\ Goto(r, "groups")
      /\ UNCHANGED <<rules, members, roles, patched, cut>>
  BY DEF PatchUser, At
<1>2. dreq[r].value \in Patch /\ dreq[r].who \in User
  BY <1>1, AskedFields DEF DirInv, AskedInv
<1>3. PICK parts \in SUBSET Part : dreq[r].value \in [parts -> Text]
  BY <1>2 DEF Patch
<1>4. attrs' \in [User -> [Part -> Text]]
  <2> DEFINE a == [k \in Part |-> IF k \in DOMAIN dreq[r].value THEN dreq[r].value[k]
                                  ELSE attrs[dreq[r].who][k]]
  <2>1. attrs' = [attrs EXCEPT ![dreq[r].who] = a]
    BY <1>2 DEF PatchUser, DirInv, DTypeOK
  <2>2. a \in [Part -> Text]
    BY <1>2, <1>3 DEF DirInv, DTypeOK
  <2> HIDE DEF a
  <2> QED
    BY <1>2, <2>1, <2>2 DEF DirInv, DTypeOK
<1> QED
  BY <1>1, <1>4, PatchInv DEF DirInv, DTypeOK

LEMMA PatchRuleInv ==
    ASSUME DirInv, NEW r \in DReq, PatchGroup(r) \/ PatchDevice(r)
    PROVE  DirInv'
<1>1. /\ dreq[r] # DIdle /\ Goto(r, "groups") /\ UNCHANGED <<attrs, members, roles, patched, cut>>
  BY DEF PatchGroup, PatchDevice, At
<1>2. rules' \in [Group -> Rule \cup {NoRule}]
  <2>1. CASE PatchGroup(r)
    <3>1. dreq[r].what \in Group /\ dreq[r].value \in Rule \cup {NoRule}
      BY <1>1, <2>1 DEF PatchGroup, DirInv, AskedInv
    <3> QED
      BY <2>1, <3>1 DEF PatchGroup, DirInv, DTypeOK
  <2>2. CASE PatchDevice(r)
    BY <2>2 DEF PatchDevice, DirInv, DTypeOK
  <2> QED
    BY <2>1, <2>2
<1> QED
  BY <1>1, <1>2, PatchInv DEF DirInv, DTypeOK

\* A request comes with what its operation needs.
LEMMA BeginInv ==
    ASSUME DirInv, NEW r \in DReq, NEW op \in Op, NEW p, NEW who \in User, NEW what \in Group \cup Role,
           NEW value \in Patch \cup Rule \cup {NoRule}, Begin(r, op, p, who, what, value),
           op = "user" => value \in Patch,
           op = "group" => what \in Group /\ value \in Rule \cup {NoRule},
           op = "member" => what \in Group, op = "role" => what \in Role
    PROVE  DirInv'
<1> DEFINE gs == [g \in Group |-> NoRule]
           v  == [op |-> op, step |-> "write", who |-> who, what |-> what,
                  value |-> value, groups |-> gs, todo |-> {}]
<1>1. /\ dreq[r] = DIdle /\ dreq' = [dreq EXCEPT ![r] = v] /\ patched' = patched + 1
      /\ patched < MaxPatch /\ RequireGraphDirectoryWrite(p, op)
      /\ UNCHANGED <<attrs, rules, members, roles, cut>>
  BY DEF Begin
<1>2. gs \in [Group -> Rule \cup {NoRule}]
  OBVIOUS
<1> HIDE DEF gs
<1>4. /\ v \in Request /\ v.step = "write" /\ v.op = op /\ v.what = what
      /\ v.value = value
  BY <1>2 DEF Request
<1> HIDE DEF v
<1>5. /\ dreq' \in [DReq -> Request \cup {DIdle}] /\ dreq'[r] = v
      /\ \A q \in DReq \ {r} : dreq'[q] = dreq[q]
  BY <1>1, <1>4, OneDirRequest DEF DirInv
<1>6. patched' \in 0 .. MaxPatch
  BY <1>1, GroupsAssumption DEF DirInv, DTypeOK
<1>7. DTypeOK'
  BY <1>1, <1>5, <1>6 DEF DirInv, DTypeOK
<1>8. AskedInv'
  BY <1>4, <1>5 DEF DirInv, AskedInv
<1>9. \A q \in DReq : \A s \in {"groups", "users", "add"} : At(q, s)' <=> At(q, s)
  BY <1>1, <1>4, <1>5 DEF At
<1>10. \A q \in DReq, g \in Group, u \in User : Covers(q, g, u) => Covers(q, g, u)'
  BY <1>1, <1>5, <1>9 DEF Covers, At
<1>11. CoverInv'
  <2>1. Refreshing' => Refreshing
    BY <1>9 DEF Refreshing
  <2>2. \A g \in Group, u \in User : Missing(g, u)' => Missing(g, u)
    BY <1>1 DEF Missing
  <2> QED
    BY <1>1, <1>10, <2>1, <2>2 DEF DirInv, CoverInv
<1> QED
  BY <1>7, <1>8, <1>11 DEF DirInv

\* A member or a role member is added by hand.
LEMMA AddByHandInv ==
    ASSUME DirInv, NEW r \in DReq, AddMember(r) \/ AddRoleMember(r)
    PROVE  DirInv'
<1>1. /\ dreq[r] # DIdle /\ dreq[r].step = "write" /\ dreq' = [dreq EXCEPT ![r] = DIdle]
      /\ UNCHANGED <<attrs, rules, patched, cut>>
  BY DEF AddMember, AddRoleMember, At, Finish
<1>2. /\ members' \in [Group -> SUBSET User] /\ roles' \in [Role -> SUBSET User]
      /\ \A g \in Group : members[g] \subseteq members'[g]
  <2>1. dreq[r].who \in User
    BY <1>1, AskedFields DEF DirInv
  <2>2. CASE AddMember(r)
    <3>1. dreq[r].what \in Group
      BY <1>1, <2>2 DEF AddMember, DirInv, AskedInv
    <3> QED
      BY <2>1, <2>2, <3>1 DEF AddMember, DirInv, DTypeOK
  <2>3. CASE AddRoleMember(r)
    <3>1. dreq[r].what \in Role
      BY <1>1, <2>3 DEF AddRoleMember, DirInv, AskedInv
    <3> QED
      BY <2>1, <2>3, <3>1 DEF AddRoleMember, DirInv, DTypeOK
  <2> QED
    BY <2>2, <2>3
<1>3. /\ dreq' \in [DReq -> Request \cup {DIdle}] /\ dreq'[r] = DIdle
      /\ \A q \in DReq \ {r} : dreq'[q] = dreq[q]
  BY <1>1, OneDirRequest DEF DirInv
<1>4. DTypeOK'
  BY <1>1, <1>2, <1>3 DEF DirInv, DTypeOK
<1>5. AskedInv'
  BY <1>1, AskedStays DEF DirInv
<1>6. \A q \in DReq, g \in Group, u \in User : Covers(q, g, u) => Covers(q, g, u)'
  BY <1>1, <1>3 DEF Covers, At
<1>7. Refreshing' => Refreshing
  BY <1>1, <1>3 DEF Refreshing, At
<1>8. \A g \in Group, u \in User : Missing(g, u)' => Missing(g, u)
  BY <1>1, <1>2 DEF Missing
<1>9. CoverInv'
  BY <1>1, <1>6, <1>7, <1>8 DEF DirInv, CoverInv
<1> QED
  BY <1>4, <1>5, <1>9 DEF DirInv

\* The groups are listed: the rules listed are those that hold.
LEMMA ListGroupsInv ==
    ASSUME DirInv, NEW r \in DReq, ListGroups(r)
    PROVE  DirInv'
<1> DEFINE v == [dreq[r] EXCEPT !.groups = rules, !.step = "users"]
<1>1. /\ dreq[r] # DIdle /\ dreq[r] \in Request /\ UNCHANGED <<attrs, rules, members, roles, patched, cut>>
  BY AskedFields DEF ListGroups, At, DirInv
<1>2. dreq' = [dreq EXCEPT ![r] = v]
  BY DEF ListGroups, DirInv, DTypeOK
<1>3. /\ v \in Request /\ v.step = "users" /\ v.groups = rules /\ v.op = dreq[r].op
      /\ v.value = dreq[r].value /\ v.what = dreq[r].what
  BY <1>1 DEF Request, DirInv, DTypeOK
<1> HIDE DEF v
<1>4. dreq' \in [DReq -> Request \cup {DIdle}] /\ dreq'[r] = v
  BY <1>2, <1>3, OneDirRequest DEF DirInv
<1>5. DTypeOK'
  BY <1>1, <1>4 DEF DirInv, DTypeOK
<1>6. AskedInv'
  BY <1>1, <1>2, <1>3, AskedStays DEF DirInv
<1>7. \A g \in Group, u \in User : Covers(r, g, u)'
  BY <1>1, <1>3, <1>4, GroupsAssumption DEF Covers, At
<1>8. CoverInv'
  BY <1>7 DEF CoverInv
<1> QED
  BY <1>5, <1>6, <1>8 DEF DirInv

\* The users are listed: a match of the rule that holds is found.
LEMMA ListUsersInv ==
    ASSUME DirInv, NEW r \in DReq, ListUsers(r)
    PROVE  DirInv'
<1> DEFINE t == {m \in Group \X User : /\ dreq[r].groups[m[1]] # NoRule
                                       /\ MatchDirectoryRule(dreq[r].groups[m[1]], attrs[m[2]])}
           v == [dreq[r] EXCEPT !.step = "add", !.todo = t]
<1>1. /\ dreq[r] # DIdle /\ dreq[r].step = "users" /\ dreq[r] \in Request
      /\ UNCHANGED <<attrs, rules, members, roles, patched, cut>>
  BY AskedFields DEF ListUsers, At, DirInv
<1>2. dreq' = [dreq EXCEPT ![r] = v]
  BY DEF ListUsers, DirInv, DTypeOK
<1>3. t \in SUBSET (Group \X User)
  OBVIOUS
<1>4. \A g \in Group, u \in User : Missing(g, u) /\ dreq[r].groups[g] = rules[g] => <<g, u>> \in t
  BY DEF Missing
<1> HIDE DEF t
<1>5. /\ v \in Request /\ v.step = "add" /\ v.todo = t /\ v.op = dreq[r].op
      /\ v.value = dreq[r].value /\ v.what = dreq[r].what
  BY <1>1, <1>3 DEF Request
<1> HIDE DEF v
<1>6. /\ dreq' \in [DReq -> Request \cup {DIdle}] /\ dreq'[r] = v
      /\ \A q \in DReq \ {r} : dreq'[q] = dreq[q]
  BY <1>2, <1>5, OneDirRequest DEF DirInv
<1>7. DTypeOK'
  BY <1>1, <1>6 DEF DirInv, DTypeOK
<1>8. AskedInv'
  BY <1>1, <1>2, <1>5, AskedStays DEF DirInv
<1>9. ASSUME NEW q \in DReq, NEW g \in Group, NEW u \in User, Missing(g, u), Covers(q, g, u)
      PROVE  Covers(q, g, u)'
  <2>1. CASE q = r
    <3>1. dreq[r].groups[g] = rules[g]
      BY <1>1, <1>9, <2>1 DEF Covers, At
    <3>2. <<g, u>> \in dreq'[r].todo /\ dreq'[r].step = "add" /\ dreq'[r] # DIdle
      BY <1>4, <1>5, <1>6, <1>9, <3>1, GroupsAssumption
    <3> QED
      BY <2>1, <3>2 DEF Covers, At
  <2>2. CASE q # r
    BY <1>1, <1>6, <1>9, <2>2 DEF Covers, At
  <2> QED
    BY <2>1, <2>2
<1>10. CoverInv'
  <2>1. Refreshing
    BY <1>1 DEF Refreshing, At
  <2>2. \A g \in Group, u \in User : Missing(g, u)' => Missing(g, u)
    BY <1>1 DEF Missing
  <2> QED
    BY <1>9, <2>1, <2>2 DEF DirInv, CoverInv
<1> QED
  BY <1>7, <1>8, <1>10 DEF DirInv

\* A match is added.
LEMMA AddMatchInv ==
    ASSUME DirInv, NEW r \in DReq, NEW m \in Group \X User, AddMatch(r, m)
    PROVE  DirInv'
<1> DEFINE t == dreq[r].todo \ {m}
           v == [dreq[r] EXCEPT !.todo = t]
<1>1. /\ dreq[r] # DIdle /\ dreq[r].step = "add" /\ dreq[r] \in Request
      /\ dreq[r].todo \in SUBSET (Group \X User) /\ UNCHANGED <<attrs, rules, roles, patched, cut>>
  BY AskedFields DEF AddMatch, At, DirInv
<1>2. dreq' = [dreq EXCEPT ![r] = v]
  BY DEF AddMatch, DirInv, DTypeOK
<1>3. t \in SUBSET (Group \X User) /\ \A x \in dreq[r].todo : x = m \/ x \in t
  BY <1>1
<1> HIDE DEF t
<1>4. /\ v \in Request /\ v.step = "add" /\ v.todo = t /\ v.op = dreq[r].op
      /\ v.value = dreq[r].value /\ v.what = dreq[r].what
  BY <1>1, <1>3 DEF Request
<1> HIDE DEF v
<1>5. /\ dreq' \in [DReq -> Request \cup {DIdle}] /\ dreq'[r] = v
      /\ \A q \in DReq \ {r} : dreq'[q] = dreq[q]
  BY <1>2, <1>4, OneDirRequest DEF DirInv
<1>6. PICK mg \in Group, mu \in User : m = <<mg, mu>>
  OBVIOUS
<1>7. members' = [members EXCEPT ![mg] = @ \cup {mu}]
  BY <1>6 DEF AddMatch
<1>8. /\ members' \in [Group -> SUBSET User] /\ mu \in members'[mg]
      /\ \A g \in Group : members[g] \subseteq members'[g]
  BY <1>7 DEF DirInv, DTypeOK
<1>9. DTypeOK'
  BY <1>1, <1>5, <1>8 DEF DirInv, DTypeOK
<1>10. AskedInv'
  BY <1>1, <1>2, <1>4, AskedStays DEF DirInv
<1>11. ASSUME NEW q \in DReq, NEW g \in Group, NEW u \in User, Missing(g, u)', Covers(q, g, u)
       PROVE  Covers(q, g, u)'
  <2>1. CASE q = r
    <3>1. <<g, u>> \in dreq[r].todo
      BY <1>1, <1>11, <2>1 DEF Covers, At
    <3>2. <<g, u>> # m
      BY <1>6, <1>8, <1>11 DEF Missing
    <3>3. <<g, u>> \in dreq'[r].todo /\ dreq'[r].step = "add" /\ dreq'[r] # DIdle
      BY <1>3, <1>4, <1>5, <3>1, <3>2, GroupsAssumption
    <3> QED
      BY <2>1, <3>3 DEF Covers, At
  <2>2. CASE q # r
    BY <1>1, <1>5, <1>11, <2>2 DEF Covers, At
  <2> QED
    BY <2>1, <2>2
<1>12. CoverInv'
  <2>1. Refreshing
    BY <1>1 DEF Refreshing, At
  <2>2. \A g \in Group, u \in User : Missing(g, u)' => Missing(g, u)
    BY <1>1, <1>8 DEF Missing
  <2> QED
    BY <1>11, <2>1, <2>2 DEF DirInv, CoverInv
<1> QED
  BY <1>9, <1>10, <1>12 DEF DirInv

\* A refresh ends: what it had listed is added, and what changed since is another's.
LEMMA EndRefreshInv ==
    ASSUME DirInv, NEW r \in DReq, EndRefresh(r)
    PROVE  DirInv'
<1>1. /\ dreq[r] # DIdle /\ dreq[r].step = "add" /\ dreq[r].todo = {} /\ dreq' = [dreq EXCEPT ![r] = DIdle]
      /\ cut' = FALSE /\ UNCHANGED <<attrs, rules, members, roles, patched>>
  BY DEF EndRefresh, At, Finish
<1>2. /\ dreq' \in [DReq -> Request \cup {DIdle}] /\ dreq'[r] = DIdle
      /\ \A q \in DReq \ {r} : dreq'[q] = dreq[q]
  BY <1>1, OneDirRequest DEF DirInv
<1>3. DTypeOK'
  BY <1>1, <1>2 DEF DirInv, DTypeOK
<1>4. AskedInv'
  BY <1>1, AskedStays DEF DirInv
<1>5. \A q \in DReq, g \in Group, u \in User : Covers(q, g, u) => Covers(q, g, u)'
  BY <1>1, <1>2 DEF Covers, At
<1>6. CoverInv'
  <2>1. Refreshing
    BY <1>1 DEF Refreshing, At
  <2>2. \A g \in Group, u \in User : Missing(g, u)' => Missing(g, u)
    BY <1>1 DEF Missing
  <2> QED
    BY <1>5, <2>1, <2>2 DEF DirInv, CoverInv
<1> QED
  BY <1>3, <1>4, <1>6 DEF DirInv

\* The process stops: what is then missing was either covered, which is noted, or
\* was missing before.
LEMMA DCrashInv ==
    ASSUME DirInv, DCrash
    PROVE  DirInv'
<1>1. /\ dreq' = [r \in DReq |-> DIdle] /\ UNCHANGED <<attrs, rules, members, roles, patched>>
      /\ cut' = (cut \/ \E r \in DReq : \E s \in {"groups", "users", "add"} : At(r, s))
  BY DEF DCrash
<1>2. DTypeOK' /\ AskedInv'
  BY <1>1 DEF DirInv, DTypeOK, AskedInv
<1>3. ~Refreshing'
  BY <1>1 DEF Refreshing, At
<1>4. ASSUME ~cut', NEW g \in Group, NEW u \in User PROVE ~Missing(g, u)'
  <2>1. ~cut /\ \A r \in DReq : ~Covers(r, g, u)
    BY <1>1, <1>4 DEF Covers
  <2>2. ~Missing(g, u)
    BY <2>1 DEF DirInv, CoverInv
  <2> QED
    BY <1>1, <2>2 DEF Missing
<1>5. CoverInv'
  BY <1>3, <1>4 DEF CoverInv
<1> QED
  BY <1>2, <1>5 DEF DirInv

LEMMA DirStep == DirInv /\ [DNext]_dvars => DirInv'
<1> SUFFICES ASSUME DirInv, [DNext]_dvars PROVE DirInv'
  OBVIOUS
<1>1. CASE UNCHANGED dvars
  BY <1>1 DEF dvars, DirInv, DTypeOK, AskedInv, CoverInv, Refreshing, Missing, Covers, At
<1>2. ASSUME NEW r \in DReq, NEW p, NEW u \in User, NEW v \in Patch, Begin(r, "user", p, u, "Global", v)
      PROVE  DirInv'
  BY <1>2, BeginInv DEF Op, Role
<1>3. ASSUME NEW r \in DReq, NEW p, Begin(r, "device", p, SeededAdmin, "Global", NoRule)
      PROVE  DirInv'
  BY <1>3, BeginInv, GroupsAssumption DEF Op, Role
<1>4. ASSUME NEW r \in DReq, NEW p, NEW g \in Group, NEW v \in Rule \cup {NoRule},
             Begin(r, "group", p, SeededAdmin, g, v)
      PROVE  DirInv'
  BY <1>4, BeginInv, GroupsAssumption DEF Op, Role
<1>5. ASSUME NEW r \in DReq, NEW p, NEW g \in Group, NEW u \in User, Begin(r, "member", p, u, g, NoRule)
      PROVE  DirInv'
  BY <1>5, BeginInv DEF Op, Role
<1>6. ASSUME NEW r \in DReq, NEW p, NEW x \in Role, NEW u \in User, Begin(r, "role", p, u, x, NoRule)
      PROVE  DirInv'
  BY <1>6, BeginInv DEF Op
<1>7. ASSUME NEW r \in DReq,
             \/ PatchUser(r) \/ PatchDevice(r) \/ PatchGroup(r) \/ AddMember(r) \/ AddRoleMember(r)
             \/ ListGroups(r) \/ ListUsers(r) \/ EndRefresh(r)
             \/ \E m \in Group \X User : AddMatch(r, m)
      PROVE  DirInv'
  BY <1>7, PatchUserInv, PatchRuleInv, AddByHandInv, ListGroupsInv, ListUsersInv, EndRefreshInv, AddMatchInv
<1>8. CASE DCrash
  BY <1>8, DCrashInv
<1> QED
  BY <1>1, <1>2, <1>3, <1>4, <1>5, <1>6, <1>7, <1>8 DEF DNext

\* When nothing is under way and nothing was cut off, every user who matches a
\* group's rule is its member, however PATCHes and refreshes overlapped.
THEOREM GroupsAlways == DSpec => []GroupsInv
<1>1. DirInv => GroupsInv
  <2> SUFFICES ASSUME DirInv, ~cut, \A r \in DReq : dreq[r] = DIdle, NEW g \in Group, NEW u \in User
               PROVE  ~Missing(g, u)
    BY DEF DirInv, GroupsInv, MatchingIsMember, Missing
  <2>1. \A r \in DReq : ~Covers(r, g, u)
    BY DEF Covers, At
  <2> QED
    BY <2>1 DEF DirInv, CoverInv
<1> QED
  BY <1>1, DirInit, DirStep, PTL DEF DSpec

-----------------------------------------------------------------------------
(* Applications and their credentials.                                     *)

TokenOp == {"federated", "byKey", "bySecret"}

\* An id that a row has or had, and that will never be another application's.
Fixed(id) ==
    \/ \E n \in 1 .. MaxApp : id = AppId(n)
    \/ \E k \in 1 .. seen.obj : id = ObjId(k)
    \/ \E k \in 1 .. Len(sps) : id = SpId(k)

\* An object id is made for one application, and rows name ids that were made.
RowsInv ==
    /\ \A n \in 1 .. MaxApp : apps[n] # 0 => apps[n] <= seen.obj /\ appOf[apps[n]] = n
    /\ \A o \in owners : Fixed(o[1]) /\ (o[2] \in Ids => Fixed(o[2]))
    /\ \A k \in keys : Fixed(k[1])
    /\ \A s \in secrets : Fixed(s)
    /\ \A i \in 1 .. Len(fics) : Fixed(fics[i].app)

\* Why a caller with scoped assignments only may write the request's target.
InScope(q) ==
    ScopedOnly(q.of) /\ ~q.unread =>
       \/ \E a \in assigned : a[1] = q.of /\ Fixed(a[2]) /\ AppOfId(a[2]) = AppOfId(q.res)
       \/ \E o \in owners : o[1] = q.res /\ SamePrincipal(o[2], q.of)

\* What a write has found out and still relies on.
WriteInv(q) ==
    /\ IF q.op = "app" THEN q.res = Tenant ELSE q.res \in ObjIds \cup SpIds /\ Fixed(q.res)
    /\ q.op \in {"patch", "fic", "sp", "delete"} => q.res \in ObjIds
    /\ q.op \in {"patch", "sp"} => q.app # 0
    /\ q.op = "patch" => AppOfId(q.res) = q.app
    /\ q.of \in Ids => Fixed(q.of)
    /\ q.op = "key" \/ (q.op = "patch" /\ q.step \in {"count", "write"}) => q.key # NoKey
    /\ q.sawKeys => HasKeys(q.res)
    /\ q.sawSp => HasSp(q.app)
    /\ q.op \in {"key", "patch"} /\ q.sawKeys /\ q.key # NoKey /\ q.step \in {"rename", "write"}
       => <<q.res, q.proof>> \in keys
    /\ q.op = "sp" /\ q.step = "write" => ~q.sawSp
    /\ q.op \notin {"app", "sp"} /\ q.step # "gate" => InScope(q)

\* The ids of a token request are all of its client's application.
TokenInv(q) ==
    /\ Fixed(q.client)
    /\ q.op = "bySecret" => q.with \in secrets
    /\ \A i \in q.ids : Fixed(i) /\ AppOfId(i) = AppOfId(q.client)
    /\ q.op = "byKey" => q.ids \cap AppIds # {}
    /\ q.step # "match" => Fixed(q.hit) /\ AppOfId(q.hit) = AppOfId(q.client)
    /\ q.step = "answer" => Fixed(q.gets) /\ AppOfId(q.gets) = AppOfId(q.client)

RequestInv(q) == (q.op \in Write => WriteInv(q)) /\ (q.op \in TokenOp => TokenInv(q))

\* The inductive invariant of the applications.
AppsInv == ATypeOK /\ RowsInv /\ \A r \in AReq : areq[r] # AIdle => RequestInv(areq[r])

\* A set of names has a first.
LEMMA FirstOf ==
    ASSUME NEW S, S \subseteq Nat, S # {}
    PROVE  \E m \in S : \A k \in S : m <= k
<1>1. PICK m \in S : \A k \in S : ~ (<<k, m>> \in OpToRel(<, Nat))
  BY NatLessThanWellFounded, WFMin, Zenon
<1>2. \A k \in S : ~ (k < m)
  BY <1>1, Zenon DEF OpToRel
<1> QED
  BY <1>2

\* Ids of different kinds or numbers differ.
LEMMA IdsDiffer ==
    ASSUME NEW n, NEW k
    PROVE  /\ AppId(n) # ObjId(k) /\ AppId(n) # SpId(k) /\ ObjId(n) # SpId(k)
           /\ AppId(n) = AppId(k) => n = k
           /\ ObjId(n) = ObjId(k) => n = k
           /\ SpId(n) = SpId(k) => n = k
           /\ AppId(n)[2] = n /\ ObjId(n)[2] = n /\ SpId(n)[2] = n
           /\ Tenant # AppId(n) /\ Tenant # ObjId(n) /\ Tenant # SpId(n)
BY DEF AppId, ObjId, SpId, Tenant

LEMMA IdSets ==
    /\ \A n \in 1 .. MaxApp : AppId(n) \in AppIds /\ AppId(n) \notin ObjIds /\ AppId(n) \notin SpIds
    /\ \A k \in 1 .. MaxObj : ObjId(k) \in ObjIds /\ ObjId(k) \notin AppIds /\ ObjId(k) \notin SpIds
    /\ \A k \in 1 .. MaxSP : SpId(k) \in SpIds /\ SpId(k) \notin AppIds /\ SpId(k) \notin ObjIds
BY IdsDiffer DEF AppIds, ObjIds, SpIds

LEMMA AppTypes ==
    ASSUME ATypeOK
    PROVE  /\ seen.app \in 1 .. MaxApp /\ seen.obj \in 1 .. MaxObj /\ seen.begun \in 0 .. MaxBegin
           /\ Len(sps) \in Nat /\ Len(sps) <= MaxSP /\ \A k \in 1 .. Len(sps) : sps[k] \in 1 .. MaxApp
           /\ \A n \in 1 .. MaxApp : apps[n] \in 0 .. MaxObj
           /\ Len(fics) \in Nat /\ \A i \in 1 .. Len(fics) : fics[i] \in [app : ObjIds, sub : Subject]
<1>1. seen.app \in 1 .. MaxApp /\ seen.obj \in 1 .. MaxObj /\ seen.begun \in 0 .. MaxBegin
  BY DEF ATypeOK
<1>2. Len(sps) \in Nat /\ Len(sps) <= MaxSP /\ \A k \in 1 .. Len(sps) : sps[k] \in 1 .. MaxApp
  BY LenProperties, ElementOfSeq DEF ATypeOK
<1>3. Len(fics) \in Nat /\ \A i \in 1 .. Len(fics) : fics[i] \in [app : ObjIds, sub : Subject]
  BY LenProperties, ElementOfSeq DEF ATypeOK
<1>4. \A n \in 1 .. MaxApp : apps[n] \in 0 .. MaxObj
  BY DEF ATypeOK
<1> QED
  BY <1>1, <1>2, <1>3, <1>4

\* The application of each kind of id.
LEMMA AppOfEach ==
    ASSUME NEW k
    PROVE  /\ k \in 1 .. MaxApp => AppOfId(AppId(k)) = k
           /\ k \in 1 .. MaxObj => AppOfId(ObjId(k)) = appOf[k]
           /\ k \in 1 .. MaxSP => AppOfId(SpId(k)) = IF k <= Len(sps) THEN sps[k] ELSE 0
<1>1. AppId(k)[2] = k /\ ObjId(k)[2] = k /\ SpId(k)[2] = k
  BY IdsDiffer
<1> QED
  BY <1>1, IdSets DEF AppOfId

LEMMA AppOfEachNext ==
    ASSUME NEW k
    PROVE  /\ k \in 1 .. MaxApp => AppOfId(AppId(k))' = k
           /\ k \in 1 .. MaxObj => AppOfId(ObjId(k))' = appOf'[k]
           /\ k \in 1 .. MaxSP => AppOfId(SpId(k))' = IF k <= Len(sps') THEN sps'[k] ELSE 0
<1>1. AppId(k)[2] = k /\ ObjId(k)[2] = k /\ SpId(k)[2] = k
  BY IdsDiffer
<1> QED
  BY <1>1, IdSets DEF AppOfId

\* Nothing but registrations is ever removed.
Grows ==
    /\ seen.obj <= seen'.obj /\ \A k \in 1 .. seen.obj : appOf'[k] = appOf[k]
    /\ Len(sps) <= Len(sps') /\ \A k \in 1 .. Len(sps) : sps'[k] = sps[k]
    /\ owners \subseteq owners' /\ keys \subseteq keys' /\ secrets \subseteq secrets'
    /\ assigned' = assigned

LEMMA SeenNext ==
    ASSUME ATypeOK'
    PROVE  seen'.obj \in 1 .. MaxObj /\ Len(sps') \in Nat /\ Len(sps') <= MaxSP
<1>1. sps' \in Seq(1 .. MaxApp) /\ Len(sps') <= MaxSP /\ seen'.obj \in 1 .. MaxObj
  BY DEF ATypeOK
<1> QED
  BY <1>1, LenProperties

\* An id that was made stays its application's.
LEMMA FixedStays ==
    ASSUME ATypeOK, ATypeOK', Grows, NEW id, Fixed(id)
    PROVE  Fixed(id)' /\ AppOfId(id)' = AppOfId(id)
<1>1. /\ seen.obj \in 1 .. MaxObj /\ seen'.obj \in 1 .. MaxObj /\ seen.obj <= seen'.obj
      /\ Len(sps) \in Nat /\ Len(sps') \in Nat /\ Len(sps) <= Len(sps')
      /\ Len(sps) <= MaxSP /\ Len(sps') <= MaxSP
      /\ MaxApp \in Nat /\ MaxObj \in Nat /\ MaxSP \in Nat
  BY AppTypes, SeenNext, ApplicationsAssumption DEF Grows
<1>2. CASE \E n \in 1 .. MaxApp : id = AppId(n)
  <2>1. PICK n \in 1 .. MaxApp : id = AppId(n)
    BY <1>2
  <2> QED
    BY <2>1, AppOfEach, AppOfEachNext DEF Fixed
<1>3. CASE \E k \in 1 .. seen.obj : id = ObjId(k)
  <2>1. PICK k \in 1 .. seen.obj : id = ObjId(k)
    BY <1>3
  <2>2. k \in 1 .. MaxObj /\ k \in 1 .. seen'.obj
    BY <1>1
  <2>3. AppOfId(id) = appOf[k] /\ AppOfId(id)' = appOf'[k]
    BY <2>1, <2>2, AppOfEach, AppOfEachNext
  <2> QED
    BY <2>1, <2>2, <2>3 DEF Fixed, Grows
<1>4. CASE \E k \in 1 .. Len(sps) : id = SpId(k)
  <2>1. PICK k \in 1 .. Len(sps) : id = SpId(k)
    BY <1>4
  <2>2. k \in 1 .. MaxSP /\ k \in 1 .. Len(sps') /\ k <= Len(sps) /\ k <= Len(sps')
    BY <1>1
  <2>3. AppOfId(id) = sps[k] /\ AppOfId(id)' = sps'[k]
    BY <2>1, <2>2, AppOfEach, AppOfEachNext
  <2> QED
    BY <2>1, <2>2, <2>3 DEF Fixed, Grows
<1> QED
  BY <1>2, <1>3, <1>4 DEF Fixed

-----------------------------------------------------------------------------
\* ResolveEntraApp finds the row that has the id.
LEMMA ResolveFound ==
    ASSUME NEW id, NEW n, n = ResolveEntraApp(id)
    PROVE  /\ n # 0 => n \in 1 .. MaxApp /\ apps[n] # 0 /\ (id = AppId(n) \/ id = ObjId(apps[n]))
           /\ n = 0 => \A m \in 1 .. MaxApp : apps[m] # 0 => id # AppId(m) /\ id # ObjId(apps[m])
<1> DEFINE found == {m \in 1 .. MaxApp : apps[m] # 0 /\ id \in {AppId(m), ObjId(apps[m])}}
<1>1. n = IF found = {} THEN 0 ELSE CHOOSE m \in found : TRUE
  BY DEF ResolveEntraApp
<1>2. CASE found = {}
  BY <1>1, <1>2
<1>3. CASE found # {}
  <2>1. n \in found
    BY <1>1, <1>3
  <2>2. 0 \notin 1 .. MaxApp
    OBVIOUS
  <2> QED
    BY <2>1, <2>2
<1> QED
  BY <1>2, <1>3

\* GetServicePrincipal finds a row that has the id.
LEMMA PrincipalFound ==
    ASSUME NEW id, NEW k, k = GetServicePrincipal(id), Len(sps) \in Nat
    PROVE  /\ k # 0 => k \in 1 .. Len(sps) /\ (id = SpId(k) \/ id = AppId(sps[k]))
           /\ k = 0 => \A j \in 1 .. Len(sps) : id # SpId(j) /\ id # AppId(sps[j])
<1> DEFINE found == {j \in 1 .. Len(sps) : id \in {SpId(j), AppId(sps[j])}}
<1>1. k = IF found = {} THEN 0 ELSE CHOOSE j \in found : \A i \in found : j <= i
  BY DEF GetServicePrincipal
<1>2. CASE found = {}
  BY <1>1, <1>2
<1>3. CASE found # {}
  <2>0. found \subseteq Nat
    OBVIOUS
  <2>1. \E m \in found : \A i \in found : m <= i
    <3> HIDE DEF found
    <3> QED
      BY <1>3, <2>0, FirstOf
  <2>2. k \in found
    BY <1>1, <1>3, <2>1
  <2>3. 0 \notin 1 .. Len(sps)
    OBVIOUS
  <2> QED
    BY <2>2, <2>3
<1> QED
  BY <1>2, <1>3

\* Both names of an application are the application's.
LEMMA AppNamesFixed ==
    ASSUME ATypeOK, RowsInv, NEW id, NEW x \in AppNames(id)
    PROVE  /\ x \in AppIds \cup ObjIds /\ Fixed(x) /\ Fixed(id) /\ AppOfId(x) = AppOfId(id)
           /\ AppNames(id) \cap AppIds # {}
<1>1. PICK n : n = ResolveEntraApp(id)
  OBVIOUS
<1>2. n # 0 /\ AppNames(id) = {AppId(n), ObjId(apps[n])}
  BY <1>1 DEF AppNames
<1>3. n \in 1 .. MaxApp /\ apps[n] # 0 /\ (id = AppId(n) \/ id = ObjId(apps[n]))
  BY <1>1, <1>2, ResolveFound
<1>4. apps[n] \in 1 .. seen.obj /\ apps[n] \in 1 .. MaxObj /\ appOf[apps[n]] = n
  BY <1>3, AppTypes, ApplicationsAssumption DEF RowsInv
<1>5. AppId(n) \in AppIds /\ ObjId(apps[n]) \in ObjIds /\ Fixed(AppId(n)) /\ Fixed(ObjId(apps[n]))
  BY <1>3, <1>4, IdSets DEF Fixed
<1>6. AppOfId(AppId(n)) = n /\ AppOfId(ObjId(apps[n])) = n
  BY <1>3, <1>4, AppOfEach
<1> QED
  BY <1>2, <1>3, <1>5, <1>6

\* Both names of a service principal are its application's.
LEMMA SpNamesFixed ==
    ASSUME ATypeOK, NEW id, NEW k, k = GetServicePrincipal(id), k # 0
    PROVE  /\ k \in 1 .. Len(sps) /\ SpId(k) \in SpIds /\ AppId(sps[k]) \in AppIds
           /\ Fixed(SpId(k)) /\ Fixed(AppId(sps[k])) /\ Fixed(id)
           /\ AppOfId(SpId(k)) = AppOfId(id) /\ AppOfId(AppId(sps[k])) = AppOfId(id)
<1>1. k \in 1 .. Len(sps) /\ (id = SpId(k) \/ id = AppId(sps[k]))
  BY AppTypes, PrincipalFound
<1>2. sps[k] \in 1 .. MaxApp /\ k \in 1 .. MaxSP /\ k <= Len(sps)
  BY <1>1, AppTypes, ApplicationsAssumption
<1>3. AppOfId(SpId(k)) = sps[k] /\ AppOfId(AppId(sps[k])) = sps[k]
  BY <1>2, AppOfEach
<1>4. SpId(k) \in SpIds /\ AppId(sps[k]) \in AppIds /\ Fixed(SpId(k)) /\ Fixed(AppId(sps[k]))
  BY <1>1, <1>2, IdSets DEF Fixed
<1> QED
  BY <1>1, <1>3, <1>4

\* All names that are gathered for an id are its application's.
LEMMA NamesFixed ==
    ASSUME ATypeOK, RowsInv, NEW id, Fixed(id), id \in Ids, NEW x \in NamesOf(id)
    PROVE  x \in Ids /\ Fixed(x) /\ AppOfId(x) = AppOfId(id)
<1> USE DEF Ids
<1>1. CASE x = id
  BY <1>1
<1>2. CASE x \in AppNames(id)
  BY <1>2, AppNamesFixed
<1>3. PICK k : k = GetServicePrincipal(id)
  OBVIOUS
<1>4. CASE k # 0 /\ x \in {SpId(k), AppId(sps[k])}
  BY <1>3, <1>4, SpNamesFixed
<1>5. CASE k # 0 /\ x \in AppNames(AppId(sps[k]))
  BY <1>3, <1>5, AppNamesFixed, SpNamesFixed
<1> QED
  BY <1>1, <1>2, <1>3, <1>4, <1>5 DEF NamesOf, DirectoryPrincipalIDs, SpNames

\* An id that was made is one of the application ids.
LEMMA FixedIds ==
    ASSUME ATypeOK, NEW id, Fixed(id)
    PROVE  id \in Ids
<1>1. seen.obj <= MaxObj /\ Len(sps) <= MaxSP /\ seen.obj \in Nat /\ Len(sps) \in Nat
      /\ MaxObj \in Nat /\ MaxSP \in Nat
  BY AppTypes, ApplicationsAssumption
<1>2. (\A k \in 1 .. seen.obj : k \in 1 .. MaxObj) /\ (\A k \in 1 .. Len(sps) : k \in 1 .. MaxSP)
  BY <1>1
<1> QED
  BY <1>2, IdSets DEF Fixed, Ids

\* Whoever is known by an application's id is known by one that was made.
LEMMA KnownFixed ==
    ASSUME ATypeOK, NEW p, Known(p), p \in Ids
    PROVE  Fixed(p)
<1>1. p \in MadeIds
  BY DEF Known
<1>2. seen.app <= MaxApp /\ seen.app \in Nat /\ MaxApp \in Nat
  BY AppTypes, ApplicationsAssumption
<1>3. \A n \in 1 .. seen.app : n \in 1 .. MaxApp
  BY <1>2
<1> QED
  BY <1>1, <1>3 DEF MadeIds, Fixed

\* The ids of a caller are all of one principal.
LEMMA CallerIds ==
    ASSUME ATypeOK, RowsInv, NEW p, NEW x \in DirectoryPrincipalIDs(p)
    PROVE  SamePrincipal(x, p)
<1>1. CASE x = p
  BY <1>1 DEF SamePrincipal
<1>2. CASE x \in AppNames(p)
  <2>1. Fixed(x) /\ Fixed(p) /\ AppOfId(x) = AppOfId(p)
    BY <1>2, AppNamesFixed
  <2> QED
    BY <2>1, FixedIds DEF SamePrincipal
<1>3. CASE x \in SpNames(p)
  <2>1. PICK k : k = GetServicePrincipal(p)
    OBVIOUS
  <2>2. k # 0 /\ x \in {SpId(k), AppId(sps[k])}
    BY <1>3, <2>1 DEF SpNames
  <2>3. Fixed(x) /\ Fixed(p) /\ AppOfId(x) = AppOfId(p)
    BY <2>1, <2>2, SpNamesFixed
  <2> QED
    BY <2>3, FixedIds DEF SamePrincipal
<1> QED
  BY <1>1, <1>2, <1>3 DEF DirectoryPrincipalIDs

-----------------------------------------------------------------------------
LEMMA InScopeStays ==
    ASSUME ATypeOK, ATypeOK', RowsInv, Grows, NEW q, q.of \in Ids => Fixed(q.of), Fixed(q.res), InScope(q)
    PROVE  InScope(q)'
<1> SUFFICES ASSUME ScopedOnly(q.of)', ~q.unread
             PROVE  \/ \E a \in assigned' : a[1] = q.of /\ Fixed(a[2])' /\ AppOfId(a[2])' = AppOfId(q.res)'
                    \/ \E o \in owners' : o[1] = q.res /\ SamePrincipal(o[2], q.of)'
  BY DEF InScope
<1>1. ScopedOnly(q.of) /\ assigned' = assigned /\ owners \subseteq owners'
  BY DEF ScopedOnly, Grows
<1>2. AppOfId(q.res)' = AppOfId(q.res)
  BY FixedStays
<1>3. CASE \E a \in assigned : a[1] = q.of /\ Fixed(a[2]) /\ AppOfId(a[2]) = AppOfId(q.res)
  <2>1. PICK a \in assigned : a[1] = q.of /\ Fixed(a[2]) /\ AppOfId(a[2]) = AppOfId(q.res)
    BY <1>3
  <2>2. PICK s : s = a[2]
    OBVIOUS
  <2>3. Fixed(s)' /\ AppOfId(s)' = AppOfId(s)
    BY <2>1, <2>2, FixedStays
  <2> QED
    BY <1>1, <1>2, <2>1, <2>2, <2>3
<1>4. CASE \E o \in owners : o[1] = q.res /\ SamePrincipal(o[2], q.of)
  <2>1. PICK o \in owners : o[1] = q.res /\ SamePrincipal(o[2], q.of)
    BY <1>4
  <2>2. PICK c, p : c = o[2] /\ p = q.of
    OBVIOUS
  <2>3. (c \in Ids => Fixed(c)) /\ (p \in Ids => Fixed(p)) /\ SamePrincipal(c, p)
    BY <2>1, <2>2 DEF RowsInv
  <2>4. (c \in Ids => AppOfId(c)' = AppOfId(c)) /\ (p \in Ids => AppOfId(p)' = AppOfId(p))
    BY <2>3, FixedStays
  <2>5. SamePrincipal(c, p)'
    BY <2>3, <2>4 DEF SamePrincipal
  <2> QED
    BY <1>1, <2>1, <2>2, <2>5
<1> QED
  BY <1>1, <1>3, <1>4 DEF InScope

\* What a write relies on stays true while rows are only added.
LEMMA WriteStays ==
    ASSUME ATypeOK, ATypeOK', RowsInv, Grows, NEW q \in WriteRequest, WriteInv(q)
    PROVE  WriteInv(q)'
<1>1. (q.of \in Ids => Fixed(q.of)) /\ (q.of \in Ids => Fixed(q.of)')
  BY FixedStays DEF WriteInv
<1>2. Fixed(q.res) => Fixed(q.res)' /\ AppOfId(q.res)' = AppOfId(q.res)
  BY FixedStays
<1>3. HasKeys(q.res) => HasKeys(q.res)'
  BY DEF HasKeys, Grows
<1>4. HasSp(q.app) => HasSp(q.app)'
  <2> SUFFICES ASSUME HasSp(q.app) PROVE HasSp(q.app)'
    OBVIOUS
  <2>1. PICK k \in 1 .. Len(sps) : sps[k] = q.app
    BY DEF HasSp
  <2>2. k \in 1 .. Len(sps') /\ sps'[k] = sps[k]
    BY AppTypes, SeenNext DEF Grows
  <2> QED
    BY <2>1, <2>2 DEF HasSp
<1>5. keys \subseteq keys'
  BY DEF Grows
<1>6. Fixed(q.res) /\ InScope(q) => InScope(q)'
  BY <1>1, InScopeStays
<1>7. q.op \notin {"app", "sp"} \/ q.op = "patch" => q.op # "app"
  OBVIOUS
<1> QED
  BY <1>1, <1>2, <1>3, <1>4, <1>5, <1>6, <1>7 DEF WriteInv

LEMMA TokenStays ==
    ASSUME ATypeOK, ATypeOK', Grows, NEW q, TokenInv(q)
    PROVE  TokenInv(q)'
<1>1. /\ Fixed(q.client)' /\ AppOfId(q.client)' = AppOfId(q.client)
  BY FixedStays DEF TokenInv
<1>2. \A i \in q.ids : Fixed(i)' /\ AppOfId(i)' = AppOfId(i)
  BY FixedStays DEF TokenInv
<1>3. q.step # "match" => Fixed(q.hit)' /\ AppOfId(q.hit)' = AppOfId(q.hit)
  BY FixedStays DEF TokenInv
<1>4. q.step = "answer" => Fixed(q.gets)' /\ AppOfId(q.gets)' = AppOfId(q.gets)
  BY FixedStays DEF TokenInv
<1>5. secrets \subseteq secrets'
  BY DEF Grows
<1> QED
  BY <1>1, <1>2, <1>3, <1>4, <1>5 DEF TokenInv

\* A request is of one kind.
LEMMA Kinds ==
    ASSUME NEW q \in WriteRequest \cup TokenRequest
    PROVE  /\ q \in WriteRequest <=> q.op \in Write
           /\ q \in TokenRequest <=> q.op \in TokenOp
           /\ q.op \in TokenOp <=> q.op \notin Write
BY DEF WriteRequest, TokenRequest, Write, TokenOp

LEMMA RequestStays ==
    ASSUME ATypeOK, ATypeOK', RowsInv, Grows, NEW q \in WriteRequest \cup TokenRequest, RequestInv(q)
    PROVE  RequestInv(q)'
<1>1. CASE q.op \in Write
  BY <1>1, Kinds, WriteStays DEF RequestInv
<1>2. CASE q.op \in TokenOp
  BY <1>2, Kinds, TokenStays DEF RequestInv
<1> QED
  BY <1>1, <1>2, Kinds DEF RequestInv

ARequest == WriteRequest \cup TokenRequest

\* One request goes on or ends while rows are only added.
LEMMA OneAppRequest ==
    ASSUME AppsInv, ATypeOK', Grows, RowsInv', NEW r \in AReq, NEW v, areq' = [areq EXCEPT ![r] = v],
           v # AIdle => RequestInv(v)'
    PROVE  AppsInv'
<1>1. areq'[r] = v /\ \A p \in AReq \ {r} : areq'[p] = areq[p]
  BY DEF AppsInv, ATypeOK
<1>2. ASSUME NEW p \in AReq, areq'[p] # AIdle PROVE RequestInv(areq[p])'
  <2>1. CASE p = r
    BY <1>1, <1>2, <2>1
  <2>2. CASE p # r
    <3>1. PICK q : q = areq[p]
      OBVIOUS
    <3>2. q = areq'[p] /\ q \in ARequest /\ RequestInv(q)
      BY <1>1, <1>2, <2>2, <3>1 DEF AppsInv, ATypeOK, ARequest
    <3>3. RequestInv(q)'
      BY <3>2, RequestStays DEF AppsInv, ARequest
    <3> QED
      BY <3>2, <3>3
  <2> QED
    BY <2>1, <2>2
<1> QED
  BY <1>2 DEF AppsInv

\* The rows are left alone.
LEMMA RowsStay ==
    ASSUME AppsInv, ATypeOK', UNCHANGED <<apps, sps, owners, assigned, secrets, keys, fics, appOf>>,
           seen'.obj = seen.obj
    PROVE  Grows /\ RowsInv'
<1>1. seen.obj \in Nat /\ Len(sps) \in Nat
  BY AppTypes DEF AppsInv
<1>2. Grows
  BY <1>1 DEF Grows
<1>3. \A id : Fixed(id) => Fixed(id)'
  BY DEF Fixed
<1>4. RowsInv'
  BY <1>3 DEF AppsInv, RowsInv
<1> QED
  BY <1>2, <1>4

LEMMA RequestOnly ==
    ASSUME AppsInv, NEW r \in AReq, NEW v \in ARequest \cup {AIdle}, areq' = [areq EXCEPT ![r] = v],
           UNCHANGED <<apps, names, sps, owners, rights, secrets, keys, fics, appOf>>,
           seen'.obj = seen.obj, seen' \in [app : 1 .. MaxApp, obj : 1 .. MaxObj, begun : 0 .. MaxBegin],
           v # AIdle => RequestInv(v)
    PROVE  AppsInv'
<1>1. areq' \in [AReq -> ARequest \cup {AIdle}]
  BY DEF AppsInv, ATypeOK, ARequest
<1>2. ATypeOK'
  BY <1>1 DEF AppsInv, ATypeOK, rights, ARequest
<1>3. Grows /\ RowsInv'
  BY <1>2, RowsStay DEF rights
<1>4. v # AIdle => RequestInv(v)'
  BY <1>2, <1>3, RequestStays DEF AppsInv, ARequest
<1> QED
  BY <1>2, <1>3, <1>4, OneAppRequest

-----------------------------------------------------------------------------
LEMMA AppsInit == AInit => AppsInv
<1> SUFFICES ASSUME AInit PROVE AppsInv
  OBVIOUS
<1> USE DEF AInit
<1>0. MaxApp \in Nat \ {0} /\ MaxObj \in Nat \ {0} /\ MaxSP \in Nat \ {0} /\ MaxBegin \in Nat
  BY ApplicationsAssumption
<1>1. 1 \in 1 .. MaxApp /\ 1 \in 1 .. MaxObj /\ 1 \in 0 .. MaxObj /\ 1 \in 0 .. MaxApp /\ 1 <= MaxSP
  BY <1>0
<1>2. sps \in Seq(1 .. MaxApp) /\ Len(sps) = 1
  <2> DEFINE S == 1 .. MaxApp
  <2>1. 1 \in S
    BY <1>1
  <2> HIDE DEF S
  <2>2. <<1>> \in Seq(S) /\ Len(<<1>>) = 1
    BY <2>1
  <2> QED
    BY <2>2 DEF S
<1>3. fics \in Seq([app : ObjIds, sub : Subject]) /\ Len(fics) = 0
  BY EmptySeq
<1>4. /\ apps \in [1 .. MaxApp -> 0 .. MaxObj] /\ appOf \in [1 .. MaxObj -> 0 .. MaxApp]
      /\ \A n \in 1 .. MaxApp : apps[n] # 0 => n = 1 /\ apps[n] = 1
      /\ appOf[1] = 1
  BY <1>0, <1>1
<1>5. /\ seen \in [app : 1 .. MaxApp, obj : 1 .. MaxObj, begun : 0 .. MaxBegin] /\ seen.obj = 1
  BY <1>0, <1>1
<1>6. ATypeOK
  BY <1>1, <1>2, <1>3, <1>4, <1>5, ApplicationsAssumption DEF ATypeOK
<1>7. RowsInv
  BY <1>3, <1>4, <1>5 DEF RowsInv
<1> QED
  BY <1>6, <1>7 DEF AppsInv

\* A write that goes on to another step is otherwise the same.
LEMMA Stepped ==
    ASSUME NEW q \in WriteRequest, NEW s \in {"gate", "count", "rename", "write"}, NEW v,
           v = [q EXCEPT !.step = s]
    PROVE  /\ v \in WriteRequest /\ v.step = s /\ v.op = q.op /\ v.of = q.of /\ v.res = q.res
           /\ v.app = q.app /\ v.key = q.key /\ v.proof = q.proof
           /\ v.sawKeys = q.sawKeys /\ v.sawSp = q.sawSp /\ v.unread = q.unread
BY DEF WriteRequest

LEMMA WritingIs ==
    ASSUME AppsInv, NEW r \in AReq, areq[r] # AIdle, areq[r].op \in Write
    PROVE  areq[r] \in WriteRequest /\ areq[r] \in ARequest /\ WriteInv(areq[r])
BY Kinds DEF AppsInv, ATypeOK, ARequest, RequestInv

LEMMA TokenIs ==
    ASSUME AppsInv, NEW r \in AReq, areq[r] # AIdle, areq[r].op \notin Write
    PROVE  /\ areq[r] \in TokenRequest /\ areq[r] \in ARequest /\ TokenInv(areq[r])
           /\ areq[r].op \in TokenOp
BY Kinds DEF AppsInv, ATypeOK, ARequest, RequestInv

\* To another step, with the rows left alone.
LEMMA ToInv ==
    ASSUME AppsInv, NEW r \in AReq, areq[r] # AIdle, areq[r].op \in Write,
           NEW s \in {"gate", "count", "rename", "write"}, To(r, s),
           UNCHANGED <<apps, names, sps, owners, rights, secrets, keys, fics, seen, appOf>>,
           WriteInv([areq[r] EXCEPT !.step = s])
    PROVE  AppsInv'
<1>1. PICK v : v = [areq[r] EXCEPT !.step = s]
  OBVIOUS
<1>2. v \in WriteRequest /\ v.op = areq[r].op
  BY <1>1, Stepped, WritingIs
<1>3. areq' = [areq EXCEPT ![r] = v]
  BY <1>1 DEF To, AppsInv, ATypeOK
<1>4. WriteInv(v) /\ v \in ARequest
  BY <1>1, <1>2 DEF ARequest
<1>5. RequestInv(v)
  BY <1>2, <1>4, Kinds DEF RequestInv, ARequest
<1> QED
  BY <1>3, <1>4, <1>5, RequestOnly DEF AppsInv, ATypeOK

LEMMA DoneInv ==
    ASSUME AppsInv, NEW r \in AReq, ADone(r),
           UNCHANGED <<apps, names, sps, owners, rights, secrets, keys, fics, seen, appOf>>
    PROVE  AppsInv'
BY RequestOnly DEF ADone, AppsInv, ATypeOK

\* A request's target is a row that there is.
LEMMA TargetFixed ==
    ASSUME AppsInv, NEW op \in Write, NEW res \in Targets(op)
    PROVE  /\ IF op = "app" THEN res = Tenant ELSE res \in ObjIds \cup SpIds /\ Fixed(res)
           /\ op \in {"patch", "fic", "sp", "delete"} => res \in ObjIds
           /\ res \in ObjIds => ResolveEntraApp(res) # 0
<1>1. CASE op = "app"
  <2>1. res = Tenant
    BY <1>1 DEF Targets
  <2>2. Tenant \notin ObjIds
    BY IdsDiffer DEF ObjIds
  <2> QED
    BY <1>1, <2>1, <2>2
<1>2. CASE op # "app"
  <2>1. CASE \E n \in 1 .. MaxApp : apps[n] # 0 /\ res = ObjId(apps[n])
    <3>1. PICK n \in 1 .. MaxApp : apps[n] # 0 /\ res = ObjId(apps[n])
      BY <2>1
    <3>2. apps[n] \in 1 .. seen.obj /\ apps[n] \in 1 .. MaxObj
      BY <3>1, AppTypes, ApplicationsAssumption DEF AppsInv, RowsInv
    <3>3. res \in ObjIds /\ Fixed(res)
      BY <3>1, <3>2, IdSets DEF Fixed
    <3>4. ResolveEntraApp(res) # 0
      BY <3>1, ResolveFound
    <3> QED
      BY <1>2, <3>3, <3>4
  <2>2. CASE op \in {"owner", "secret", "key"} /\ \E k \in 1 .. Len(sps) : res = SpId(k)
    <3>1. PICK k \in 1 .. Len(sps) : res = SpId(k)
      BY <2>2
    <3>2. k \in 1 .. MaxSP
      BY AppTypes, ApplicationsAssumption DEF AppsInv
    <3>3. res \in SpIds /\ Fixed(res) /\ res \notin ObjIds
      BY <3>1, <3>2, IdSets DEF Fixed
    <3> QED
      BY <1>2, <2>2, <3>3
  <2> QED
    BY <1>2, <2>1, <2>2 DEF Targets
<1> QED
  BY <1>1, <1>2

LEMMA BegunOnce ==
    ASSUME ATypeOK, seen.begun < MaxBegin, seen' = [seen EXCEPT !.begun = @ + 1]
    PROVE  /\ seen' \in [app : 1 .. MaxApp, obj : 1 .. MaxObj, begun : 0 .. MaxBegin]
           /\ seen'.obj = seen.obj
<1>1. seen.begun + 1 \in 0 .. MaxBegin
  BY AppTypes, ApplicationsAssumption
<1> QED
  BY <1>1 DEF ATypeOK

LEMMA BeginWriteInv ==
    ASSUME AppsInv, NEW r \in AReq, NEW i \in WriteInput, NEW res \in Targets(i.op), BeginWrite(r, i, res)
    PROVE  AppsInv'
<1>1. /\ i.op \in Write /\ i.of \in Caller /\ i.key \in AppKey \cup {NoKey} /\ i.proof \in AppKey \cup {NoKey}
      /\ i.name \in BOOLEAN /\ i.unread \in BOOLEAN /\ (i.op = "key" => i.key # NoKey)
  BY DEF WriteInput
<1>2. PICK n : n = IF res \in ObjIds THEN ResolveEntraApp(res) ELSE 0
  OBVIOUS
<1>3. n \in 0 .. MaxApp /\ (res \in ObjIds => n # 0)
  <2>1. res \in ObjIds => n = ResolveEntraApp(res) /\ n # 0
    BY <1>1, <1>2, TargetFixed
  <2>2. res \in ObjIds => n \in 1 .. MaxApp
    BY <2>1, ResolveFound
  <2> QED
    BY <1>2, <2>1, <2>2, ApplicationsAssumption
<1>a. res \in ObjIds => AppOfId(res) = n
  <2> SUFFICES ASSUME res \in ObjIds PROVE AppOfId(res) = n
    OBVIOUS
  <2>1. n \in 1 .. MaxApp /\ apps[n] # 0 /\ (res = AppId(n) \/ res = ObjId(apps[n]))
    BY <1>2, <1>3, ResolveFound
  <2>2. res = ObjId(apps[n]) /\ apps[n] \in 1 .. MaxObj /\ appOf[apps[n]] = n
    BY <2>1, IdSets, AppTypes, ApplicationsAssumption DEF AppsInv, RowsInv
  <2> QED
    BY <2>2, AppOfEach
<1>b. i.of \in Ids => Fixed(i.of)
  BY KnownFixed DEF BeginWrite, AppsInv
<1> DEFINE hk == HasKeys(res)
           hs == n # 0 /\ HasSp(n)
           v  == [op |-> i.op, step |-> "gate", of |-> i.of, res |-> res, app |-> n, key |-> i.key,
                  proof |-> i.proof, name |-> i.name, unread |-> i.unread, sawKeys |-> hk,
                  sawSp |-> hs]
<1>4. hk \in BOOLEAN /\ hs \in BOOLEAN /\ (hk => HasKeys(res)) /\ (hs => HasSp(n))
  BY DEF HasKeys, HasSp
<1>5. /\ areq' = [areq EXCEPT ![r] = v] /\ seen.begun < MaxBegin
      /\ seen' = [seen EXCEPT !.begun = @ + 1]
      /\ UNCHANGED <<apps, names, sps, owners, rights, secrets, keys, fics, appOf>>
  BY <1>2 DEF BeginWrite
<1> HIDE DEF hk, hs
<1>6. /\ IF i.op = "app" THEN res = Tenant ELSE res \in ObjIds \cup SpIds /\ Fixed(res)
      /\ i.op \in {"patch", "fic", "sp", "delete"} => res \in ObjIds
  BY <1>1, TargetFixed
<1>7. /\ v \in WriteRequest /\ v.op = i.op /\ v.step = "gate" /\ v.res = res /\ v.app = n /\ v.key = i.key
      /\ v.sawKeys = hk /\ v.sawSp = hs /\ v.of = i.of
  BY <1>1, <1>3, <1>4, <1>6 DEF WriteRequest
<1> HIDE DEF v
<1>8. WriteInv(v)
  BY <1>1, <1>3, <1>4, <1>6, <1>7, <1>a, <1>b DEF WriteInv
<1>9. RequestInv(v) /\ v \in ARequest
  BY <1>1, <1>7, <1>8, Kinds DEF RequestInv, ARequest
<1>10. /\ seen' \in [app : 1 .. MaxApp, obj : 1 .. MaxObj, begun : 0 .. MaxBegin]
       /\ seen'.obj = seen.obj
  BY <1>5, BegunOnce DEF AppsInv
<1> QED
  BY <1>5, <1>9, <1>10, RequestOnly

\* Who passes the gate with scoped assignments only is in scope or an owner.
LEMMA GateInScope ==
    ASSUME AppsInv, NEW q \in WriteRequest, q.res \in ObjIds \cup SpIds, Fixed(q.res),
           GraphAppWriteAllowed(q.of, q.res, q.unread)
    PROVE  InScope(q)
<1> SUFFICES ASSUME ScopedOnly(q.of), ~q.unread
             PROVE  \/ \E a \in assigned : a[1] = q.of /\ Fixed(a[2]) /\ AppOfId(a[2]) = AppOfId(q.res)
                    \/ \E o \in owners : o[1] = q.res /\ SamePrincipal(o[2], q.of)
  BY DEF InScope
<1>1. CASE Owns(q.of, q.res)
  <2>1. PICK o \in owners : /\ o[1] = q.res
                            /\ DirectoryPrincipalIDs(o[2]) \cap DirectoryPrincipalIDs(q.of) # {}
    BY <1>1 DEF Owns
  <2>2. PICK c, p : c = o[2] /\ p = q.of
    OBVIOUS
  <2>3. PICK x : x \in DirectoryPrincipalIDs(c) /\ x \in DirectoryPrincipalIDs(p)
    BY <2>1, <2>2
  <2>4. SamePrincipal(x, c) /\ SamePrincipal(x, p)
    BY <2>3, CallerIds DEF AppsInv
  <2>5. SamePrincipal(c, p)
    BY <2>4 DEF SamePrincipal
  <2> QED
    BY <2>1, <2>2, <2>5
<1>2. CASE ApplicationAdministratorAllows(q.of, q.res, q.unread)
  <2> DEFINE scopes == {a[2] : a \in {x \in assigned : x[1] = q.of}}
  <2>1. scopes # {}
    BY DEF ScopedOnly
  <2>2. Tenant \in scopes \/ scopes \cap NamesOf(q.res) # {}
    BY <1>2, <2>1 DEF ApplicationAdministratorAllows
  <2>3. Tenant \notin scopes
    <3> SUFFICES ASSUME NEW a \in assigned, a[1] = q.of, a[2] = Tenant PROVE FALSE
      OBVIOUS
    <3>1. a = <<q.of, Tenant>>
      BY ApplicationsAssumption DEF AppsInv, ATypeOK
    <3> QED
      BY <3>1 DEF ScopedOnly
  <2>4. PICK a \in assigned : a[1] = q.of /\ a[2] \in NamesOf(q.res)
    BY <2>2, <2>3
  <2>5. Fixed(a[2]) /\ AppOfId(a[2]) = AppOfId(q.res)
    BY <2>4, NamesFixed DEF AppsInv, Ids
  <2> QED
    BY <2>4, <2>5
<1> QED
  BY <1>1, <1>2 DEF GraphAppWriteAllowed, ScopedOnly

LEMMA GateInv ==
    ASSUME AppsInv, NEW r \in AReq, Gate(r)
    PROVE  AppsInv'
<1>1. /\ areq[r] # AIdle /\ areq[r].op \in Write /\ areq[r].step = "gate"
      /\ UNCHANGED <<apps, names, sps, owners, rights, secrets, keys, fics, seen, appOf>>
  BY DEF Gate
<1>2. PICK q \in WriteRequest : q = areq[r] /\ WriteInv(q) /\ q.op \in Write /\ q.step = "gate"
  BY <1>1, WritingIs
<1>3. CASE ADone(r)
  BY <1>1, <1>3, DoneInv
<1>4. CASE ~ADone(r)
  <2>1. PICK s : /\ s = CASE q.op \in {"key", "sp"}          -> "count"
                          [] q.op = "patch" /\ q.key # NoKey -> "count"
                          [] q.op = "patch" /\ q.key = NoKey -> "rename"
                          [] OTHER                           -> "write"
                 /\ To(r, s)
                 /\ IF q.op \in {"app", "sp"} THEN MayCreate(q.of)
                    ELSE GraphAppWriteAllowed(q.of, q.res, q.unread)
    BY <1>2, <1>4 DEF Gate
  <2>2. /\ s \in {"gate", "count", "rename", "write"} /\ s # "gate"
        /\ q.op = "patch" => (s = "count" /\ q.key # NoKey) \/ (s = "rename" /\ q.key = NoKey)
        /\ q.op = "key" => s = "count"
        /\ q.op = "sp" => s = "count"
    BY <2>1
  <2>3. PICK v : v = [q EXCEPT !.step = s]
    OBVIOUS
  <2>4. /\ v \in WriteRequest /\ v.step = s /\ v.op = q.op /\ v.of = q.of /\ v.res = q.res
        /\ v.app = q.app /\ v.key = q.key /\ v.proof = q.proof /\ v.sawKeys = q.sawKeys /\ v.sawSp = q.sawSp
        /\ v.unread = q.unread
    BY <2>2, <2>3, Stepped
  <2>5. v.op \notin {"app", "sp"} => InScope(v)
    <3> SUFFICES ASSUME v.op \notin {"app", "sp"} PROVE InScope(v)
      OBVIOUS
    <3>1. v.res \in ObjIds \cup SpIds /\ Fixed(v.res) /\ GraphAppWriteAllowed(v.of, v.res, v.unread)
      BY <1>2, <2>1, <2>4 DEF WriteInv
    <3> QED
      BY <2>4, <3>1, GateInScope
  <2>6. WriteInv(v)
    BY <1>2, <2>2, <2>4, <2>5 DEF WriteInv
  <2> QED
    BY <1>1, <1>2, <2>1, <2>2, <2>3, <2>6, ToInv
<1> QED
  BY <1>3, <1>4

\* A key is to be added only with a proof, or where there was none.
LEMMA CountKeysInv ==
    ASSUME AppsInv, NEW r \in AReq, CountKeys(r)
    PROVE  AppsInv'
<1>1. /\ areq[r] # AIdle /\ areq[r].op \in {"key", "patch"} /\ areq[r].step = "count" /\ areq[r].op \in Write
      /\ UNCHANGED <<apps, names, sps, owners, rights, secrets, keys, fics, seen, appOf>>
  BY DEF CountKeys, Writing, Write
<1>2. PICK q \in WriteRequest : q = areq[r] /\ WriteInv(q)
  BY <1>1, WritingIs
<1>3. CASE ADone(r)
  BY <1>1, <1>3, DoneInv
<1>4. CASE ~ADone(r)
  <2>1. PICK s \in {"rename", "write"} : To(r, s)
    BY <1>4 DEF CountKeys
  <2>2. ~HasKeys(q.res) \/ <<q.res, q.proof>> \in keys
    BY <1>2, <1>4 DEF CountKeys
  <2>3. PICK v : v = [q EXCEPT !.step = s]
    OBVIOUS
  <2>4. /\ v \in WriteRequest /\ v.step = s /\ v.op = q.op /\ v.of = q.of /\ v.res = q.res
        /\ v.app = q.app /\ v.key = q.key /\ v.proof = q.proof /\ v.sawKeys = q.sawKeys /\ v.sawSp = q.sawSp
        /\ v.unread = q.unread
    BY <2>3, Stepped
  <2>5. InScope(v)
    <3>1. InScope(q)
      BY <1>1, <1>2 DEF WriteInv
    <3> QED
      BY <2>4, <3>1 DEF InScope
  <2>6. WriteInv(v)
    BY <1>1, <1>2, <2>2, <2>4, <2>5 DEF WriteInv
  <2> QED
    BY <1>1, <1>2, <2>1, <2>3, <2>6, ToInv
<1> QED
  BY <1>3, <1>4

\* Whoever saw a service principal is refused.
LEMMA CheckSPInv ==
    ASSUME AppsInv, NEW r \in AReq, CheckSP(r)
    PROVE  AppsInv'
<1>1. /\ areq[r] # AIdle /\ areq[r].op = "sp" /\ areq[r].op \in Write
      /\ UNCHANGED <<apps, names, sps, owners, rights, secrets, keys, fics, seen, appOf>>
  BY DEF CheckSP, Writing, Write
<1>2. PICK q \in WriteRequest : q = areq[r] /\ WriteInv(q)
  BY <1>1, WritingIs
<1>3. CASE ADone(r)
  BY <1>1, <1>3, DoneInv
<1>4. CASE ~ADone(r)
  <2>1. To(r, "write") /\ GetServicePrincipal(AppId(q.app)) = 0
    BY <1>2, <1>4 DEF CheckSP
  <2>2. ~HasSp(q.app)
    BY <2>1, PrincipalFound, AppTypes DEF HasSp, AppsInv
  <2>3. PICK v : v = [q EXCEPT !.step = "write"]
    OBVIOUS
  <2>4. /\ v \in WriteRequest /\ v.step = "write" /\ v.op = q.op /\ v.of = q.of /\ v.res = q.res
        /\ v.app = q.app /\ v.key = q.key /\ v.proof = q.proof /\ v.sawKeys = q.sawKeys /\ v.sawSp = q.sawSp
    BY <2>3, Stepped
  <2>5. WriteInv(v)
    BY <1>1, <1>2, <2>2, <2>4 DEF WriteInv
  <2> QED
    BY <1>1, <1>2, <2>1, <2>3, <2>5, ToInv
<1> QED
  BY <1>3, <1>4

-----------------------------------------------------------------------------
\* Rows of a request's target are added.
LEMMA AddRowsInv ==
    ASSUME AppsInv, NEW r \in AReq, ADone(r), UNCHANGED <<apps, names, sps, rights, seen, appOf>>,
           NEW res \in ObjIds \cup SpIds, Fixed(res),
           owners' \subseteq (ObjIds \cup SpIds) \X Caller, owners \subseteq owners',
           secrets' \subseteq ObjIds \cup SpIds, secrets \subseteq secrets',
           keys' \subseteq (ObjIds \cup SpIds) \X AppKey, keys \subseteq keys',
           fics' \in Seq([app : ObjIds, sub : Subject]),
           \A o \in owners' \ owners : o[1] = res /\ (o[2] \in Ids => Fixed(o[2])), \A s \in secrets' \ secrets : s = res,
           \A k \in keys' \ keys : k[1] = res,
           \A i \in 1 .. Len(fics') : fics'[i].app = res \/ (i \in 1 .. Len(fics) /\ fics'[i] = fics[i])
    PROVE  AppsInv'
<1>1. areq' = [areq EXCEPT ![r] = AIdle] /\ areq' \in [AReq -> ARequest \cup {AIdle}]
  BY DEF ADone, AppsInv, ATypeOK, ARequest
<1>2. ATypeOK'
  BY <1>1 DEF AppsInv, ATypeOK, rights, ARequest
<1>3. seen.obj \in Nat /\ Len(sps) \in Nat
  BY AppTypes DEF AppsInv
<1>4. Grows
  BY <1>3 DEF Grows, rights
<1>5. \A id : Fixed(id) => Fixed(id)'
  BY DEF Fixed
<1>6. RowsInv'
  <2>1. \A n \in 1 .. MaxApp : apps'[n] # 0 => apps'[n] <= seen'.obj /\ appOf'[apps'[n]] = n
    BY DEF AppsInv, RowsInv
  <2>2. \A o \in owners' : Fixed(o[1])' /\ (o[2] \in Ids => Fixed(o[2])')
    BY <1>5 DEF AppsInv, RowsInv
  <2>3. \A k \in keys' : Fixed(k[1])'
    BY <1>5 DEF AppsInv, RowsInv
  <2>4. \A s \in secrets' : Fixed(s)'
    BY <1>5 DEF AppsInv, RowsInv
  <2>5. \A i \in 1 .. Len(fics') : Fixed(fics[i].app)'
    BY <1>5 DEF AppsInv, RowsInv
  <2> QED
    BY <2>1, <2>2, <2>3, <2>4, <2>5 DEF RowsInv
<1> QED
  BY <1>1, <1>2, <1>4, <1>6, OneAppRequest

LEMMA AddedInv ==
    ASSUME AppsInv, NEW r \in AReq,
           \/ AddKeyCredential(r) \/ AddPassword(r)
           \/ \E o \in Caller \ {RootCaller} : AddOwner(r, o)
    PROVE  AppsInv'
<1>1. /\ areq[r] # AIdle /\ areq[r].op \in {"key", "patch", "owner", "secret"} /\ areq[r].op \in Write
      /\ areq[r].step = "write" /\ ADone(r) /\ UNCHANGED <<apps, names, sps, rights, fics, seen, appOf>>
  BY DEF AddKeyCredential, AddPassword, AddOwner, Writing, Write
<1>2. PICK q \in WriteRequest : q = areq[r] /\ WriteInv(q)
  BY <1>1, WritingIs
<1>3. PICK res \in ObjIds \cup SpIds : res = q.res /\ Fixed(res)
  BY <1>1, <1>2 DEF WriteInv
<1>4. /\ owners' \subseteq (ObjIds \cup SpIds) \X Caller /\ owners \subseteq owners'
      /\ \A o \in owners' \ owners : o[1] = res /\ (o[2] \in Ids => Fixed(o[2]))
  BY <1>2, <1>3, KnownFixed DEF AddKeyCredential, AddPassword, AddOwner, AppsInv, ATypeOK
<1>5. /\ secrets' \subseteq ObjIds \cup SpIds /\ secrets \subseteq secrets'
      /\ \A s \in secrets' \ secrets : s = res
  BY <1>2, <1>3 DEF AddKeyCredential, AddPassword, AddOwner, AppsInv, ATypeOK
<1>6. /\ keys' \subseteq (ObjIds \cup SpIds) \X AppKey /\ keys \subseteq keys'
      /\ \A k \in keys' \ keys : k[1] = res
  <2>1. CASE AddKeyCredential(r)
    <3>1. q.op \in {"key", "patch"} /\ q.step = "write"
      BY <1>2, <2>1 DEF AddKeyCredential, Writing
    <3>2. q.key \in AppKey
      BY <1>2, <3>1 DEF WriteInv, WriteRequest
    <3>3. keys' = keys \cup {<<res, q.key>>}
      BY <1>2, <1>3, <2>1 DEF AddKeyCredential
    <3> QED
      BY <3>2, <3>3 DEF AppsInv, ATypeOK
  <2>2. CASE keys' = keys
    BY <2>2 DEF AppsInv, ATypeOK
  <2> QED
    BY <2>1, <2>2 DEF AddPassword, AddOwner
<1>7. fics' \in Seq([app : ObjIds, sub : Subject]) /\ \A i \in 1 .. Len(fics') : fics'[i] = fics[i]
  BY <1>1 DEF AppsInv, ATypeOK
<1>8. Len(fics') = Len(fics)
  BY <1>1
<1> QED
  BY <1>1, <1>3, <1>4, <1>5, <1>6, <1>7, <1>8, AddRowsInv

LEMMA CreateFICInv ==
    ASSUME AppsInv, NEW r \in AReq, NEW s \in Subject, CreateFIC(r, s)
    PROVE  AppsInv'
<1>1. /\ areq[r] # AIdle /\ areq[r].op = "fic" /\ areq[r].op \in Write /\ ADone(r)
      /\ UNCHANGED <<apps, names, sps, owners, rights, secrets, keys, seen, appOf>>
  BY DEF CreateFIC, Writing, Write
<1>2. PICK q \in WriteRequest : q = areq[r] /\ WriteInv(q)
  BY <1>1, WritingIs
<1>3. PICK res \in ObjIds : res = q.res /\ Fixed(res)
  BY <1>1, <1>2 DEF WriteInv
<1>4. PICK f \in [app : ObjIds, sub : Subject] : f = [app |-> res, sub |-> s] /\ f.app = res
  <2>1. PICK f : f = [app |-> res, sub |-> s]
    OBVIOUS
  <2>2. f \in [app : ObjIds, sub : Subject] /\ f.app = res
    BY <2>1
  <2> QED
    BY <2>1, <2>2
<1>5. fics' = Append(fics, f) /\ fics \in Seq([app : ObjIds, sub : Subject])
  BY <1>2, <1>3, <1>4 DEF CreateFIC, AppsInv, ATypeOK
<1>6. /\ Len(fics) \in Nat /\ fics' \in Seq([app : ObjIds, sub : Subject]) /\ Len(fics') = Len(fics) + 1
      /\ fics'[Len(fics) + 1] = f /\ \A i \in 1 .. Len(fics) : fics'[i] = fics[i]
  BY <1>4, <1>5, AppendProperties, LenProperties
<1>7. \A i \in 1 .. Len(fics') : fics'[i].app = res \/ (i \in 1 .. Len(fics) /\ fics'[i] = fics[i])
  <2> SUFFICES ASSUME NEW i \in 1 .. Len(fics'), i \notin 1 .. Len(fics) PROVE fics'[i].app = res
    BY <1>6
  <2>1. i = Len(fics) + 1
    BY <1>6
  <2> QED
    BY <1>4, <1>6, <2>1
<1> QED
  BY <1>1, <1>3, <1>6, <1>7, AddRowsInv DEF AppsInv, ATypeOK

\* A service principal is inserted.
LEMMA CreateServicePrincipalInv ==
    ASSUME AppsInv, NEW r \in AReq, CreateServicePrincipal(r)
    PROVE  AppsInv' /\ Grows
<1>1. /\ areq[r] # AIdle /\ areq[r].op = "sp" /\ areq[r].op \in Write /\ ADone(r) /\ Len(sps) < MaxSP
      /\ UNCHANGED <<apps, names, owners, rights, secrets, keys, fics, seen, appOf>>
  BY DEF CreateServicePrincipal, Writing, Write
<1>2. areq[r].app \in 1 .. MaxApp
  <2>1. areq[r] \in WriteRequest /\ WriteInv(areq[r])
    BY <1>1, WritingIs
  <2>2. areq[r].app \in 0 .. MaxApp /\ areq[r].app # 0
    BY <1>1, <2>1 DEF WriteRequest, WriteInv
  <2> QED
    BY <2>2, ApplicationsAssumption
<1>3. PICK n \in 1 .. MaxApp : n = areq[r].app
  BY <1>2
<1>4. /\ Len(sps) \in Nat /\ sps' \in Seq(1 .. MaxApp) /\ Len(sps') = Len(sps) + 1
      /\ \A k \in 1 .. Len(sps) : sps'[k] = sps[k]
  <2> DEFINE S == 1 .. MaxApp
  <2>1. sps \in Seq(S) /\ n \in S /\ sps' = Append(sps, n)
    BY <1>3 DEF CreateServicePrincipal, AppsInv, ATypeOK
  <2> HIDE DEF S
  <2>2. /\ Len(sps) \in Nat /\ sps' \in Seq(S) /\ Len(sps') = Len(sps) + 1
        /\ \A k \in 1 .. Len(sps) : sps'[k] = sps[k]
    BY <2>1, AppendProperties, LenProperties
  <2> QED
    BY <2>2 DEF S
<1>5. areq' = [areq EXCEPT ![r] = AIdle] /\ areq' \in [AReq -> ARequest \cup {AIdle}]
  BY <1>1 DEF ADone, AppsInv, ATypeOK, ARequest
<1>6. Len(sps') <= MaxSP /\ Len(sps) <= Len(sps') /\ seen.obj \in Nat
  BY <1>1, <1>4, AppTypes, ApplicationsAssumption DEF AppsInv
<1>7. ATypeOK'
  BY <1>1, <1>4, <1>5, <1>6 DEF AppsInv, ATypeOK, rights, ARequest
<1>8. Grows
  BY <1>1, <1>4, <1>6 DEF Grows, rights
<1>9. \A id : Fixed(id) => Fixed(id)'
  BY <1>7, <1>8, FixedStays DEF AppsInv
<1>10. RowsInv'
  BY <1>1, <1>9 DEF AppsInv, RowsInv
<1> QED
  BY <1>5, <1>7, <1>8, <1>10, OneAppRequest

-----------------------------------------------------------------------------
\* Registrations: one is removed, or made with a new object id.
LEMMA RegisteredInv ==
    ASSUME AppsInv, NEW n \in 1 .. MaxApp, NEW k, k = seen.obj + 1, seen.obj < MaxObj,
           apps' = [apps EXCEPT ![n] = k], appOf' = [appOf EXCEPT ![k] = n],
           seen'.obj = k, seen' \in [app : 1 .. MaxApp, obj : 1 .. MaxObj, begun : 0 .. MaxBegin],
           names' \in [1 .. MaxApp -> Caller], UNCHANGED <<sps, owners, rights, secrets, keys, fics>>,
           areq' \in [AReq -> ARequest \cup {AIdle}]
    PROVE  ATypeOK' /\ Grows /\ RowsInv'
<1>1. /\ seen.obj \in 1 .. MaxObj /\ k \in 1 .. MaxObj /\ k \in 0 .. MaxObj /\ n \in 0 .. MaxApp
      /\ MaxObj \in Nat /\ MaxApp \in Nat /\ Len(sps) \in Nat
  BY AppTypes, ApplicationsAssumption DEF AppsInv
<1>2. apps' \in [1 .. MaxApp -> 0 .. MaxObj] /\ appOf' \in [1 .. MaxObj -> 0 .. MaxApp]
  BY <1>1 DEF AppsInv, ATypeOK
<1>3. ATypeOK'
  BY <1>2 DEF AppsInv, ATypeOK, rights, ARequest
<1>4. \A j \in 1 .. MaxObj : j # k => appOf'[j] = appOf[j]
  BY DEF AppsInv, ATypeOK
<1>5. Grows
  <2>1. \A j \in 1 .. seen.obj : appOf'[j] = appOf[j]
    BY <1>1, <1>4
  <2> QED
    BY <1>1, <2>1 DEF Grows, rights
<1>6. \A id : Fixed(id) => Fixed(id)'
  BY <1>3, <1>5, FixedStays DEF AppsInv
<1>7. ASSUME NEW m \in 1 .. MaxApp, apps'[m] # 0
      PROVE  apps'[m] <= seen'.obj /\ appOf'[apps'[m]] = m
  <2>1. CASE m = n
    BY <1>1, <1>2, <2>1 DEF AppsInv, ATypeOK
  <2>2. CASE m # n
    <3>1. apps'[m] = apps[m] /\ apps[m] \in 0 .. MaxObj
      BY <2>2 DEF AppsInv, ATypeOK
    <3>2. apps[m] <= seen.obj /\ appOf[apps[m]] = m
      BY <1>7, <3>1 DEF AppsInv, RowsInv
    <3>3. apps[m] \in 1 .. MaxObj /\ apps[m] # k /\ apps[m] <= k
      BY <1>1, <1>7, <3>1, <3>2
    <3> QED
      BY <1>4, <3>1, <3>2, <3>3
  <2> QED
    BY <2>1, <2>2
<1>8. RowsInv'
  BY <1>6, <1>7 DEF AppsInv, RowsInv
<1> QED
  BY <1>3, <1>5, <1>8

LEMMA CreateAppInv ==
    ASSUME AppsInv, NEW r \in AReq, CreateApp(r)
    PROVE  AppsInv' /\ Grows
<1>1. PICK n, k : n = seen.app + 1 /\ k = seen.obj + 1
  OBVIOUS
<1>2. /\ apps' = [apps EXCEPT ![n] = k] /\ appOf' = [appOf EXCEPT ![k] = n]
      /\ seen' = [seen EXCEPT !.app = n, !.obj = k] /\ seen.app < MaxApp /\ seen.obj < MaxObj
      /\ areq' = [areq EXCEPT ![r] = AIdle] /\ UNCHANGED <<sps, owners, rights, secrets, keys, fics>>
  BY <1>1 DEF CreateApp, ADone
<1>3. n \in 1 .. MaxApp /\ k \in 1 .. MaxObj
  <2>1. seen.app \in 1 .. MaxApp /\ seen.obj \in 1 .. MaxObj /\ seen.app < MaxApp /\ seen.obj < MaxObj
    BY <1>2, AppTypes DEF AppsInv
  <2>2. MaxApp \in Nat /\ MaxObj \in Nat
    BY ApplicationsAssumption
  <2> QED
    BY <1>1, <2>1, <2>2
<1>4. seen' \in [app : 1 .. MaxApp, obj : 1 .. MaxObj, begun : 0 .. MaxBegin] /\ seen'.obj = k
  BY <1>2, <1>3 DEF AppsInv, ATypeOK
<1>5. areq' \in [AReq -> ARequest \cup {AIdle}]
  BY <1>2 DEF AppsInv, ATypeOK, ARequest
<1>a. names' \in [1 .. MaxApp -> Caller]
  <2>1. areq[r] # AIdle /\ areq[r].op \in Write /\ names' = [names EXCEPT ![n] = areq[r].of]
    BY <1>1 DEF CreateApp, Writing, Write
  <2>2. areq[r].of \in Caller
    BY <2>1, WritingIs DEF WriteRequest
  <2> QED
    BY <2>1, <2>2 DEF AppsInv, ATypeOK
<1>6. ATypeOK' /\ Grows /\ RowsInv'
  BY <1>1, <1>2, <1>3, <1>4, <1>5, <1>a, RegisteredInv
<1> QED
  BY <1>2, <1>6, OneAppRequest

LEMMA DeleteAppInv ==
    ASSUME AppsInv, NEW r \in AReq, DeleteApp(r)
    PROVE  AppsInv'
<1>1. /\ areq' = [areq EXCEPT ![r] = AIdle] /\ areq' \in [AReq -> ARequest \cup {AIdle}]
      /\ UNCHANGED <<names, sps, owners, rights, secrets, keys, fics, seen, appOf>>
  BY DEF DeleteApp, ADone, AppsInv, ATypeOK, ARequest
<1>2. PICK res : apps' = [n \in 1 .. MaxApp |-> IF ObjId(apps[n]) = res THEN 0 ELSE apps[n]]
  BY DEF DeleteApp
<1>3. \A n \in 1 .. MaxApp : apps'[n] = 0 \/ apps'[n] = apps[n]
  BY <1>2
<1>4. apps' \in [1 .. MaxApp -> 0 .. MaxObj]
  <2>1. 0 \in 0 .. MaxObj
    BY ApplicationsAssumption
  <2> QED
    BY <1>2, <2>1 DEF AppsInv, ATypeOK
<1>5. ATypeOK'
  BY <1>1, <1>4 DEF AppsInv, ATypeOK, rights, ARequest
<1>6. seen.obj \in Nat /\ Len(sps) \in Nat
  BY AppTypes DEF AppsInv
<1>7. Grows
  BY <1>1, <1>6 DEF Grows, rights
<1>8. \A id : Fixed(id) => Fixed(id)'
  BY <1>1 DEF Fixed
<1>9. RowsInv'
  BY <1>1, <1>3, <1>8 DEF AppsInv, RowsInv
<1> QED
  BY <1>1, <1>5, <1>7, <1>9, OneAppRequest

LEMMA PatchAppInv ==
    ASSUME AppsInv, NEW r \in AReq, PatchApp(r)
    PROVE  AppsInv' /\ Grows
<1>1. /\ areq[r] # AIdle /\ areq[r].op = "patch" /\ areq[r].step = "rename" /\ areq[r].op \in Write
      /\ UNCHANGED <<sps, owners, rights, secrets, keys, fics>> /\ UpsertEntraApp(areq[r].app, areq[r].of)
  BY DEF PatchApp, Writing, Write
<1>2. PICK q \in WriteRequest : q = areq[r] /\ WriteInv(q)
  BY <1>1, WritingIs
<1>3. q.app \in 1 .. MaxApp
  <2>1. q.app \in 0 .. MaxApp /\ q.app # 0
    BY <1>1, <1>2 DEF WriteRequest, WriteInv
  <2> QED
    BY <2>1, ApplicationsAssumption
<1>4. PICK v : /\ v = IF q.key = NoKey THEN AIdle ELSE [q EXCEPT !.step = "write"]
               /\ areq' = [areq EXCEPT ![r] = v]
  BY <1>2 DEF PatchApp, ADone, To, AppsInv, ATypeOK
<1>5. v = AIdle \/ (v \in WriteRequest /\ WriteInv(v))
  <2> SUFFICES ASSUME q.key # NoKey PROVE v \in WriteRequest /\ WriteInv(v)
    BY <1>4
  <2>1. /\ v \in WriteRequest /\ v.step = "write" /\ v.op = q.op /\ v.of = q.of /\ v.res = q.res
        /\ v.app = q.app /\ v.key = q.key /\ v.proof = q.proof /\ v.sawKeys = q.sawKeys /\ v.sawSp = q.sawSp
        /\ v.unread = q.unread
    BY <1>4, Stepped
  <2>2. InScope(q)
    BY <1>1, <1>2 DEF WriteInv
  <2>3. InScope(v)
    BY <2>1, <2>2 DEF InScope
  <2>4. WriteInv(v)
    BY <1>1, <1>2, <2>1, <2>3 DEF WriteInv
  <2> QED
    BY <2>1, <2>4
<1>6. areq' \in [AReq -> ARequest \cup {AIdle}]
  BY <1>4, <1>5 DEF AppsInv, ATypeOK, ARequest
<1>7. v # AIdle => RequestInv(v) /\ v \in WriteRequest \cup TokenRequest
  BY <1>5, Kinds DEF RequestInv
<1>a. names' \in [1 .. MaxApp -> Caller]
  <2>1. q.of \in Caller /\ names' = [names EXCEPT ![q.app] = q.of]
    BY <1>1, <1>2 DEF UpsertEntraApp, WriteRequest
  <2> QED
    BY <2>1 DEF AppsInv, ATypeOK
<1>8. ATypeOK' /\ Grows /\ RowsInv'
  <2>1. CASE apps[q.app] # 0
    <3>1. UNCHANGED <<apps, seen, appOf>>
      BY <1>1, <1>2, <2>1 DEF UpsertEntraApp
    <3>2. ATypeOK'
      BY <1>1, <1>6, <1>a, <3>1 DEF AppsInv, ATypeOK, rights, ARequest
    <3> QED
      BY <1>1, <3>1, <3>2, RowsStay DEF rights
  <2>2. CASE apps[q.app] = 0
    <3>1. PICK n, k : n = q.app /\ k = seen.obj + 1
      OBVIOUS
    <3>2. /\ seen.obj < MaxObj /\ apps' = [apps EXCEPT ![n] = k] /\ appOf' = [appOf EXCEPT ![k] = n]
          /\ seen' = [seen EXCEPT !.obj = k] /\ n \in 1 .. MaxApp
      BY <1>1, <1>2, <1>3, <2>2, <3>1 DEF UpsertEntraApp
    <3>3. k \in 1 .. MaxObj
      BY <3>1, <3>2, AppTypes, ApplicationsAssumption DEF AppsInv
    <3>4. seen' \in [app : 1 .. MaxApp, obj : 1 .. MaxObj, begun : 0 .. MaxBegin] /\ seen'.obj = k
      BY <3>2, <3>3 DEF AppsInv, ATypeOK
    <3> QED
      BY <1>1, <1>6, <1>a, <3>1, <3>2, <3>4, RegisteredInv
  <2> QED
    BY <2>1, <2>2
<1>9. v # AIdle => RequestInv(v)'
  BY <1>7, <1>8, RequestStays DEF AppsInv
<1> QED
  BY <1>4, <1>8, <1>9, OneAppRequest

-----------------------------------------------------------------------------
\* A token request starts with names of its client's application only.
LEMMA BeginTokenInv ==
    ASSUME AppsInv, NEW r \in AReq, NEW op \in TokenOp, NEW c \in MadeIds,
           NEW with \in Subject \cup AppKey \cup secrets, BeginToken(r, op, c, with)
    PROVE  AppsInv'
<1>0. ATypeOK /\ RowsInv
  BY DEF AppsInv
<1>1. Fixed(c) /\ c \in Ids
  <2>1. CASE \E n \in 1 .. seen.app : c = AppId(n)
    <3>1. PICK n \in 1 .. seen.app : c = AppId(n)
      BY <2>1
    <3>2. n \in 1 .. MaxApp
      BY <1>0, AppTypes, ApplicationsAssumption
    <3> QED
      BY <3>1, <3>2, IdSets DEF Fixed, Ids
  <2>2. CASE \E k \in 1 .. seen.obj : c = ObjId(k)
    <3>1. PICK k \in 1 .. seen.obj : c = ObjId(k)
      BY <2>2
    <3>2. k \in 1 .. MaxObj
      BY <1>0, AppTypes, ApplicationsAssumption
    <3> QED
      BY <3>1, <3>2, IdSets DEF Fixed, Ids
  <2>3. CASE \E k \in 1 .. Len(sps) : c = SpId(k)
    <3>1. PICK k \in 1 .. Len(sps) : c = SpId(k)
      BY <2>3
    <3>2. k \in 1 .. MaxSP
      BY <1>0, AppTypes, ApplicationsAssumption
    <3> QED
      BY <3>1, <3>2, IdSets DEF Fixed, Ids
  <2> QED
    BY <2>1, <2>2, <2>3 DEF MadeIds
<1>2. PICK ids : ids = IF op = "byKey" THEN AppNames(c) ELSE NamesOf(c)
  OBVIOUS
<1>3. \A x \in ids : x \in Ids /\ Fixed(x) /\ AppOfId(x) = AppOfId(c)
  BY <1>0, <1>1, <1>2, AppNamesFixed, NamesFixed DEF Ids
<1>4. op = "byKey" => ids \cap AppIds # {}
  <2> SUFFICES ASSUME op = "byKey" PROVE ids \cap AppIds # {}
    OBVIOUS
  <2>1. ResolveEntraApp(c) # 0
    BY DEF BeginToken
  <2>2. PICK x \in AppNames(c) : TRUE
    BY <2>1 DEF AppNames
  <2> QED
    BY <1>0, <1>2, <2>2, AppNamesFixed
<1> DEFINE v == [op |-> op, step |-> "match", client |-> c, with |-> with, ids |-> ids,
                 hit |-> Tenant, gets |-> Tenant]
<1>5. /\ areq' = [areq EXCEPT ![r] = v] /\ seen.begun < MaxBegin
      /\ seen' = [seen EXCEPT !.begun = @ + 1] /\ (op = "bySecret" => with \in secrets)
      /\ UNCHANGED <<apps, names, sps, owners, rights, secrets, keys, fics, appOf>>
  BY <1>2 DEF BeginToken
<1>6. with \in Subject \cup AppKey \cup ObjIds \cup SpIds
  BY <1>0 DEF ATypeOK
<1>7. /\ v \in TokenRequest /\ v.op = op /\ v.step = "match" /\ v.client = c /\ v.with = with
      /\ v.ids = ids
  BY <1>1, <1>3, <1>6 DEF TokenRequest, TokenOp
<1> HIDE DEF v
<1>8. TokenInv(v)
  BY <1>1, <1>3, <1>4, <1>5, <1>7 DEF TokenInv
<1>9. RequestInv(v) /\ v \in ARequest
  BY <1>7, <1>8, Kinds DEF RequestInv, ARequest
<1>10. /\ seen' \in [app : 1 .. MaxApp, obj : 1 .. MaxObj, begun : 0 .. MaxBegin]
       /\ seen'.obj = seen.obj
  BY <1>0, <1>5, BegunOnce
<1> QED
  BY <1>5, <1>9, <1>10, RequestOnly

\* A credential that matches is one of the client's application.
LEMMA MatchedFixed ==
    ASSUME AppsInv, NEW q \in TokenRequest, TokenInv(q), NEW h \in Matched(q)
    PROVE  h \in ObjIds \cup SpIds /\ Fixed(h) /\ AppOfId(h) = AppOfId(q.client)
<1>0. ATypeOK /\ RowsInv /\ q.op \in TokenOp
  BY DEF AppsInv, TokenRequest, TokenOp
<1>1. CASE q.op = "federated"
  <2>1. PICK i \in MatchFIC(q.ids, q.with) : h = fics[i].app
    BY <1>1 DEF Matched
  <2>2. i \in 1 .. Len(fics) /\ fics[i].app \in q.ids
    BY <2>1 DEF MatchFIC
  <2>3. fics[i].app \in ObjIds
    BY <1>0, <2>2, AppTypes
  <2> QED
    BY <2>1, <2>2, <2>3 DEF TokenInv
<1>2. CASE q.op = "byKey"
  <2>1. h \in KeyHolders(q)
    BY <1>2 DEF Matched
  <2>2. h \in q.ids \cap ObjIds \/ \E k \in {GetServicePrincipal(q.client)} \ {0} : h = SpId(k)
    BY <2>1 DEF KeyHolders
  <2>3. CASE h \in q.ids \cap ObjIds
    BY <2>3 DEF TokenInv
  <2>4. CASE \E k \in {GetServicePrincipal(q.client)} \ {0} : h = SpId(k)
    <3>1. PICK k : k = GetServicePrincipal(q.client) /\ k # 0 /\ h = SpId(k)
      BY <2>4
    <3> QED
      BY <1>0, <3>1, SpNamesFixed
  <2> QED
    BY <2>2, <2>3, <2>4
<1>3. CASE q.op = "bySecret"
  <2>1. h = q.with /\ h \in q.ids
    BY <1>3 DEF Matched, PasswordSecretMatches
  <2>2. h \in secrets
    BY <1>3, <2>1 DEF TokenInv
  <2> QED
    BY <1>0, <2>1, <2>2 DEF TokenInv, ATypeOK
<1> QED
  BY <1>0, <1>1, <1>2, <1>3 DEF TokenOp

LEMMA MatchCredentialInv ==
    ASSUME AppsInv, NEW r \in AReq, MatchCredential(r)
    PROVE  AppsInv'
<1>1. /\ areq[r] # AIdle /\ areq[r].op \notin Write /\ areq[r].step = "match"
      /\ UNCHANGED <<apps, names, sps, owners, rights, secrets, keys, fics, seen, appOf>>
  BY DEF MatchCredential
<1>2. PICK q \in TokenRequest : q = areq[r] /\ TokenInv(q) /\ q.op \in TokenOp
  BY <1>1, TokenIs
<1>3. CASE ADone(r)
  BY <1>1, <1>3, DoneInv
<1>4. CASE ~ADone(r)
  <2>1. PICK h, g, s :
           /\ h = CHOOSE x \in Matched(q) : TRUE
           /\ g = IF q.op = "byKey" THEN CHOOSE a \in q.ids \cap AppIds : TRUE ELSE q.client
           /\ s = IF q.op = "federated" THEN "resolve" ELSE "answer"
    OBVIOUS
  <2>2. Matched(q) # {} /\ areq' = [areq EXCEPT ![r].hit = h, ![r].gets = g, ![r].step = s]
    <3>1. Matched(q) # {}
      BY <1>2, <1>4 DEF MatchCredential
    <3>2. /\ h = CHOOSE x \in Matched(areq[r]) : TRUE
          /\ g = IF areq[r].op = "byKey" THEN CHOOSE a \in areq[r].ids \cap AppIds : TRUE ELSE areq[r].client
          /\ s = IF areq[r].op = "federated" THEN "resolve" ELSE "answer"
      <4>1. q = areq[r]
        BY <1>2
      <4>2. h = CHOOSE x \in Matched(areq[r]) : TRUE
        BY <2>1, <4>1
      <4>3. g = IF areq[r].op = "byKey" THEN CHOOSE a \in areq[r].ids \cap AppIds : TRUE ELSE areq[r].client
        BY <2>1, <4>1
      <4> QED
        BY <2>1, <4>1, <4>2, <4>3
    <3>3. areq' = [areq EXCEPT ![r].hit = h, ![r].gets = g, ![r].step = s]
      BY <1>2, <3>1, <3>2, ZenonT(60) DEF MatchCredential
    <3> QED
      BY <3>1, <3>3
  <2>3. h \in Matched(q)
    BY <2>1, <2>2
  <2>4. h \in ObjIds \cup SpIds /\ Fixed(h) /\ AppOfId(h) = AppOfId(q.client)
    BY <1>2, <2>3, MatchedFixed
  <2>5. g \in Ids /\ Fixed(g) /\ AppOfId(g) = AppOfId(q.client)
    <3>1. CASE q.op = "byKey"
      <4>1. g \in q.ids \cap AppIds
        BY <1>2, <2>1, <3>1 DEF TokenInv
      <4> QED
        BY <1>2, <4>1 DEF TokenInv, Ids
    <3>2. CASE q.op # "byKey"
      BY <1>2, <2>1, <3>2 DEF TokenInv, TokenRequest
    <3> QED
      BY <3>1, <3>2
  <2>6. s \in {"resolve", "answer"}
    BY <2>1
  <2>7. PICK v : v = [q EXCEPT !.hit = h, !.gets = g, !.step = s]
    OBVIOUS
  <2>8. areq' = [areq EXCEPT ![r] = v]
    BY <1>2, <2>2, <2>7 DEF AppsInv, ATypeOK
  <2>9. /\ v \in TokenRequest /\ v.op = q.op /\ v.step = s /\ v.client = q.client /\ v.with = q.with
        /\ v.ids = q.ids /\ v.hit = h /\ v.gets = g
    BY <2>4, <2>5, <2>6, <2>7 DEF TokenRequest
  <2>10. TokenInv(v)
    BY <1>2, <2>4, <2>5, <2>9 DEF TokenInv
  <2>11. RequestInv(v) /\ v \in ARequest
    BY <1>2, <2>9, <2>10, Kinds DEF RequestInv, ARequest
  <2> QED
    BY <1>1, <2>8, <2>11, RequestOnly DEF AppsInv, ATypeOK
<1> QED
  BY <1>3, <1>4

LEMMA ResolveFICInv ==
    ASSUME AppsInv, NEW r \in AReq, ResolveFIC(r)
    PROVE  AppsInv'
<1>1. /\ areq[r] # AIdle /\ areq[r].op = "federated" /\ areq[r].op \notin Write /\ areq[r].step = "resolve"
      /\ UNCHANGED <<apps, names, sps, owners, rights, secrets, keys, fics, seen, appOf>>
  BY DEF ResolveFIC, Write
<1>2. PICK q \in TokenRequest : q = areq[r] /\ TokenInv(q) /\ q.op \in TokenOp
  BY <1>1, TokenIs
<1>3. CASE ADone(r)
  BY <1>1, <1>3, DoneInv
<1>4. CASE ~ADone(r)
  <2>1. PICK n, g : n = ResolveEntraApp(q.hit) /\ g = IF n # 0 THEN AppId(n) ELSE q.client
    OBVIOUS
  <2>2. areq' = [areq EXCEPT ![r].step = "answer", ![r].gets = g]
    BY <1>2, <1>4, <2>1 DEF ResolveFIC
  <2>3. Fixed(q.hit) /\ AppOfId(q.hit) = AppOfId(q.client) /\ Fixed(q.client)
    BY <1>1, <1>2 DEF TokenInv
  <2>4. g \in Ids /\ Fixed(g) /\ AppOfId(g) = AppOfId(q.client)
    <3>1. CASE n = 0
      BY <2>1, <2>3, <3>1 DEF TokenRequest
    <3>2. CASE n # 0
      <4>1. g \in AppNames(q.hit)
        BY <2>1, <3>2 DEF AppNames
      <4> QED
        BY <2>3, <4>1, AppNamesFixed DEF AppsInv, Ids
    <3> QED
      BY <3>1, <3>2
  <2>5. PICK v : v = [q EXCEPT !.step = "answer", !.gets = g]
    OBVIOUS
  <2>6. areq' = [areq EXCEPT ![r] = v]
    BY <1>2, <2>2, <2>5 DEF AppsInv, ATypeOK
  <2>7. /\ v \in TokenRequest /\ v.op = q.op /\ v.step = "answer" /\ v.client = q.client
        /\ v.with = q.with /\ v.ids = q.ids /\ v.hit = q.hit /\ v.gets = g
    BY <2>4, <2>5 DEF TokenRequest
  <2>8. TokenInv(v)
    BY <1>2, <2>3, <2>4, <2>7 DEF TokenInv
  <2>9. RequestInv(v) /\ v \in ARequest
    BY <1>2, <2>7, <2>8, Kinds DEF RequestInv, ARequest
  <2> QED
    BY <1>1, <2>6, <2>9, RequestOnly DEF AppsInv, ATypeOK
<1> QED
  BY <1>3, <1>4

\* A restart ends every request and keeps the rows.
LEMMA ACrashInv ==
    ASSUME AppsInv, ACrash
    PROVE  AppsInv'
<1>1. /\ areq' = [p \in AReq |-> AIdle]
      /\ UNCHANGED <<apps, names, sps, owners, rights, secrets, keys, fics, seen, appOf>>
  BY DEF ACrash
<1>2. ATypeOK'
  BY <1>1 DEF AppsInv, ATypeOK, rights
<1>3. RowsInv'
  BY <1>1, <1>2, RowsStay DEF rights
<1> QED
  BY <1>1, <1>2, <1>3 DEF AppsInv

\* A role is given; the rows of the applications are left alone.
LEMMA GiveRoleInv ==
    ASSUME AppsInv, NEW p \in Caller, GiveRole(p)
    PROVE  AppsInv'
<1>1. /\ seen' = [seen EXCEPT !.begun = @ + 1] /\ seen.begun < MaxBegin
      /\ UNCHANGED <<apps, names, sps, owners, assigned, secrets, keys, fics, areq, appOf>>
      /\ admins' \subseteq admins \cup {p} /\ globals' \subseteq globals \cup {p}
  BY DEF GiveRole
<1>2. /\ seen' \in [app : 1 .. MaxApp, obj : 1 .. MaxObj, begun : 0 .. MaxBegin]
      /\ seen'.obj = seen.obj
  BY <1>1, BegunOnce DEF AppsInv
<1>3. ATypeOK'
  BY <1>1, <1>2 DEF AppsInv, ATypeOK
<1>4. Grows /\ RowsInv'
  BY <1>1, <1>2, <1>3, RowsStay
<1>5. ASSUME NEW r \in AReq, areq'[r] # AIdle PROVE RequestInv(areq[r])'
  <2>1. PICK q : q = areq[r]
    OBVIOUS
  <2>2. q = areq'[r] /\ q \in WriteRequest \cup TokenRequest /\ RequestInv(q)
    BY <1>1, <1>5, <2>1 DEF AppsInv, ATypeOK
  <2>3. RequestInv(q)'
    BY <1>3, <1>4, <2>2, RequestStays DEF AppsInv
  <2> QED
    BY <2>2, <2>3
<1> QED
  BY <1>3, <1>4, <1>5 DEF AppsInv

LEMMA AppsStutter ==
    ASSUME AppsInv, UNCHANGED avars
    PROVE  AppsInv'
<1>1. UNCHANGED <<apps, names, sps, owners, rights, secrets, keys, fics, appOf>> /\ areq' = areq /\ seen' = seen
  BY DEF avars, rights
<1>2. ATypeOK'
  BY <1>1 DEF AppsInv, ATypeOK, rights
<1>3. Grows /\ RowsInv'
  BY <1>1, <1>2, RowsStay DEF rights
<1>4. ASSUME NEW p \in AReq, areq'[p] # AIdle PROVE RequestInv(areq[p])'
  <2>1. PICK q : q = areq[p]
    OBVIOUS
  <2>2. q = areq'[p] /\ q \in WriteRequest \cup TokenRequest /\ RequestInv(q)
    BY <1>1, <1>4, <2>1 DEF AppsInv, ATypeOK
  <2>3. RequestInv(q)'
    BY <1>2, <1>3, <2>2, RequestStays DEF AppsInv
  <2> QED
    BY <2>2, <2>3
<1> QED
  BY <1>2, <1>3, <1>4 DEF AppsInv

LEMMA AppsStep == AppsInv /\ [ANext]_avars => AppsInv'
<1> SUFFICES ASSUME AppsInv, [ANext]_avars PROVE AppsInv'
  OBVIOUS
<1>1. ASSUME NEW r \in AReq,
             \/ \E i \in WriteInput : \E res \in Targets(i.op) : BeginWrite(r, i, res)
             \/ Gate(r) \/ CountKeys(r) \/ CheckSP(r)
      PROVE  AppsInv'
  BY <1>1, BeginWriteInv, GateInv, CountKeysInv, CheckSPInv
<1>2. ASSUME NEW r \in AReq,
             \/ AddKeyCredential(r) \/ PatchApp(r) \/ CreateApp(r) \/ DeleteApp(r)
             \/ CreateServicePrincipal(r) \/ AddPassword(r)
             \/ \E o \in Caller \ {RootCaller} : AddOwner(r, o)
             \/ \E s \in Subject : CreateFIC(r, s)
      PROVE  AppsInv'
  BY <1>2, AddedInv, PatchAppInv, CreateAppInv, DeleteAppInv, CreateServicePrincipalInv, CreateFICInv
<1>3. ASSUME NEW r \in AReq, NEW op \in TokenOp, NEW c \in MadeIds,
             NEW with \in Subject \cup AppKey \cup secrets, BeginToken(r, op, c, with)
      PROVE  AppsInv'
  BY <1>3, BeginTokenInv
<1>4. ASSUME NEW r \in AReq, MatchCredential(r) \/ ResolveFIC(r) \/ AnswerToken(r) PROVE AppsInv'
  BY <1>4, MatchCredentialInv, ResolveFICInv, DoneInv DEF AnswerToken
<1>5. CASE ACrash
  BY <1>5, ACrashInv
<1>6. CASE UNCHANGED avars
  BY <1>6, AppsStutter
<1>7. CASE \E p \in Caller \ {RootCaller} : GiveRole(p)
  BY <1>7, GiveRoleInv
<1> QED
  BY <1>1, <1>2, <1>3, <1>4, <1>5, <1>6, <1>7 DEF ANext, TokenOp

\* A token bought with a credential names the application that the credential was
\* made for and that the client named, however many registrations, service
\* principals and credentials there are and whatever is deleted or made again
\* between the statements of a request (verifyFederatedAssertion,
\* verifyPrivateKeyJWT, clientSecretMatches).
THEOREM ApplicationsAlways == ASpec => []ApplicationsInv
<1>1. AppsInv => ApplicationsInv
  <2> SUFFICES ASSUME AppsInv PROVE ApplicationsInv
    OBVIOUS
  <2>1. ASSUME NEW r \in AReq, areq[r] # AIdle, areq[r].op \in {"federated", "byKey", "bySecret"},
               areq[r].step = "answer"
        PROVE  /\ AppOfId(areq[r].gets) = AppOfId(areq[r].hit)
               /\ AppOfId(areq[r].gets) = AppOfId(areq[r].client)
    BY <2>1 DEF AppsInv, RequestInv, TokenInv, TokenOp
  <2> QED
    BY <2>1 DEF ApplicationsInv, CredentialStaysInApp, AppsInv
<1> QED
  BY AppsInit, AppsStep, <1>1, PTL DEF ASpec

-----------------------------------------------------------------------------
(* What no step of the applications may do.                                *)

Adds(p) ==
    \/ AddKeyCredential(p) \/ AddPassword(p)
    \/ \E o \in Caller \ {RootCaller} : AddOwner(p, o)
    \/ \E s \in Subject : CreateFIC(p, s)

\* Which rows a step writes.
LEMMA StepKinds ==
    ASSUME [ANext]_avars
    PROVE  /\ UNCHANGED <<owners, secrets, keys, fics>> \/ \E p \in AReq : Adds(p)
           /\ keys' = keys \/ \E p \in AReq : AddKeyCredential(p)
           /\ sps' = sps \/ \E p \in AReq : CreateServicePrincipal(p)
           /\ UNCHANGED <<apps, names>> \/ \E p \in AReq : PatchApp(p) \/ CreateApp(p) \/ DeleteApp(p)
           /\ \/ sps' = sps /\ appOf' = appOf /\ seen'.obj = seen.obj
              \/ \E p \in AReq : PatchApp(p) \/ CreateApp(p) \/ CreateServicePrincipal(p)
           /\ assigned' = assigned
<1> DEFINE Goal ==
           /\ UNCHANGED <<owners, secrets, keys, fics>> \/ \E p \in AReq : Adds(p)
           /\ keys' = keys \/ \E p \in AReq : AddKeyCredential(p)
           /\ sps' = sps \/ \E p \in AReq : CreateServicePrincipal(p)
           /\ UNCHANGED <<apps, names>> \/ \E p \in AReq : PatchApp(p) \/ CreateApp(p) \/ DeleteApp(p)
           /\ \/ sps' = sps /\ appOf' = appOf /\ seen'.obj = seen.obj
              \/ \E p \in AReq : PatchApp(p) \/ CreateApp(p) \/ CreateServicePrincipal(p)
           /\ assigned' = assigned
<1>1. ASSUME NEW r \in AReq,
             \/ \E i \in WriteInput : \E res \in Targets(i.op) : BeginWrite(r, i, res)
             \/ \E op \in TokenOp, c \in MadeIds, with \in Subject \cup AppKey \cup secrets :
                   BeginToken(r, op, c, with)
      PROVE  Goal
  <2>1. /\ seen' = [seen EXCEPT !.begun = @ + 1]
        /\ UNCHANGED <<apps, names, sps, owners, rights, secrets, keys, fics, appOf>>
    BY <1>1 DEF BeginWrite, BeginToken
  <2>2. seen'.obj = seen.obj
    BY <2>1
  <2> QED
    BY <2>1, <2>2 DEF rights
<1>2. ASSUME UNCHANGED <<apps, names, sps, owners, rights, secrets, keys, fics, seen, appOf>>
      PROVE  Goal
  BY <1>2 DEF rights
<1>3. ASSUME NEW r \in AReq,
             \/ Gate(r) \/ CountKeys(r) \/ CheckSP(r) \/ MatchCredential(r) \/ ResolveFIC(r)
             \/ AnswerToken(r)
      PROVE  Goal
  <2>1. UNCHANGED <<apps, names, sps, owners, rights, secrets, keys, fics, seen, appOf>>
    BY <1>3 DEF Gate, CountKeys, CheckSP, MatchCredential, ResolveFIC, AnswerToken
  <2> QED
    BY <1>2, <2>1
<1>4. ASSUME NEW r \in AReq, Adds(r) PROVE Goal
  <2>1. UNCHANGED <<apps, names, sps, rights, seen, appOf>> /\ (keys' = keys \/ AddKeyCredential(r))
    BY <1>4 DEF Adds, AddKeyCredential, AddPassword, AddOwner, CreateFIC
  <2> QED
    BY <1>4, <2>1 DEF rights
<1>5. ASSUME NEW r \in AReq, PatchApp(r) \/ CreateApp(r) PROVE Goal
  <2>1. UNCHANGED <<sps, owners, rights, secrets, keys, fics>>
    BY <1>5 DEF PatchApp, CreateApp
  <2> QED
    BY <1>5, <2>1 DEF rights
<1>6. ASSUME NEW r \in AReq, DeleteApp(r) PROVE Goal
  <2>1. UNCHANGED <<names, sps, owners, rights, secrets, keys, fics, seen, appOf>>
    BY <1>6 DEF DeleteApp
  <2> QED
    BY <1>6, <2>1 DEF rights
<1>7. ASSUME NEW r \in AReq, CreateServicePrincipal(r) PROVE Goal
  <2>1. UNCHANGED <<apps, names, owners, rights, secrets, keys, fics, seen, appOf>>
    BY <1>7 DEF CreateServicePrincipal
  <2> QED
    BY <1>7, <2>1 DEF rights
<1>8. ASSUME ACrash PROVE Goal
  BY <1>2, <1>8 DEF ACrash
<1>9. ASSUME UNCHANGED avars PROVE Goal
  BY <1>2, <1>9 DEF avars, rights
<1>a. ASSUME NEW p \in Caller \ {RootCaller}, GiveRole(p) PROVE Goal
  <2>1. /\ seen' = [seen EXCEPT !.begun = @ + 1]
        /\ UNCHANGED <<apps, names, sps, owners, assigned, secrets, keys, fics, appOf>>
    BY <1>a DEF GiveRole
  <2>2. seen'.obj = seen.obj
    BY <2>1
  <2> QED
    BY <2>1, <2>2
<1> HIDE DEF Goal
<1>10. Goal
  BY <1>1, <1>3, <1>4, <1>5, <1>6, <1>7, <1>8, <1>9, <1>a DEF ANext, Adds, TokenOp
<1> QED
  BY <1>10 DEF Goal

\* The request that a step changes is the one that takes it.
LEMMA ActorIs ==
    ASSUME ATypeOK, NEW p \in AReq, NEW r \in AReq, NEW v, areq' = [areq EXCEPT ![p] = v],
           areq'[r] # areq[r]
    PROVE  p = r
BY DEF ATypeOK

LEMMA KeyStep ==
    ASSUME AppsInv, [ANext]_avars, NEW r \in AReq, areq[r] # AIdle, areq[r].op \in {"key", "patch"},
           keys' # keys, areq'[r] = AIdle, areq[r].sawKeys
    PROVE  <<areq[r].res, areq[r].proof>> \in keys
<1>1. PICK p \in AReq : AddKeyCredential(p)
  BY StepKinds
<1>2. areq' = [areq EXCEPT ![p] = AIdle]
  BY <1>1 DEF AddKeyCredential, ADone
<1>3. p = r
  BY <1>2, ActorIs DEF AppsInv
<1>4. areq[r].step = "write" /\ areq[r].op \in Write
  BY <1>1, <1>3 DEF AddKeyCredential, Writing, Write
<1>5. WriteInv(areq[r])
  BY <1>4, WritingIs
<1> QED
  BY <1>4, <1>5 DEF WriteInv

LEMMA PrincipalStep ==
    ASSUME AppsInv, [ANext]_avars, NEW r \in AReq, sps' # sps, areq[r] # AIdle, areq'[r] = AIdle
    PROVE  ~areq[r].sawSp
<1>1. PICK p \in AReq : CreateServicePrincipal(p)
  BY StepKinds
<1>2. areq' = [areq EXCEPT ![p] = AIdle]
  BY <1>1 DEF CreateServicePrincipal, ADone
<1>3. p = r
  BY <1>2, ActorIs DEF AppsInv
<1>4. areq[r].step = "write" /\ areq[r].op = "sp" /\ areq[r].op \in Write
  BY <1>1, <1>3 DEF CreateServicePrincipal, Writing, Write
<1>5. WriteInv(areq[r])
  BY <1>4, WritingIs
<1> QED
  BY <1>4, <1>5 DEF WriteInv

LEMMA RegistrationStep ==
    ASSUME AppsInv, [ANext]_avars, NEW n \in 1 .. MaxApp, apps[n] = 0, apps'[n] # 0, n <= seen.app
    PROVE  \E r \in AReq : areq[r] # AIdle /\ areq[r].op = "patch" /\ areq[r].app = n
<1>1. PICK p \in AReq : PatchApp(p) \/ CreateApp(p) \/ DeleteApp(p)
  BY StepKinds
<1>2. CASE PatchApp(p)
  <2>1. areq[p] # AIdle /\ areq[p].op = "patch" /\ UpsertEntraApp(areq[p].app, areq[p].of)
    BY <1>2 DEF PatchApp, Writing
  <2>2. PICK m, k : m = areq[p].app /\ k = seen.obj + 1
    OBVIOUS
  <2>3. apps' = [apps EXCEPT ![m] = k]
    BY <2>1, <2>2 DEF UpsertEntraApp
  <2>4. m = n
    BY <2>3 DEF AppsInv, ATypeOK
  <2> QED
    BY <2>1, <2>2, <2>4
<1>3. CASE CreateApp(p)
  <2>1. PICK m, k : m = seen.app + 1 /\ k = seen.obj + 1 /\ apps' = [apps EXCEPT ![m] = k]
    BY <1>3 DEF CreateApp
  <2>2. m # n
    BY <2>1, AppTypes, ApplicationsAssumption DEF AppsInv
  <2>3. apps'[n] = apps[n]
    BY <2>1, <2>2 DEF AppsInv, ATypeOK
  <2> QED
    BY <2>3
<1>4. CASE DeleteApp(p)
  <2>1. PICK res : apps' = [m \in 1 .. MaxApp |-> IF ObjId(apps[m]) = res THEN 0 ELSE apps[m]]
    BY <1>4 DEF DeleteApp
  <2> QED
    BY <2>1
<1> QED
  BY <1>1, <1>2, <1>3, <1>4

-----------------------------------------------------------------------------
\* Rows are only added, and those added are of another application.
LEMMA BelongingsStay ==
    ASSUME AppsInv, ATypeOK', Grows, NEW n, apps'[n] = apps[n], names'[n] = names[n],
           \A o \in owners' \ owners : AppOfId(o[1])' # n,
           \A s \in secrets' \ secrets : AppOfId(s)' # n,
           \A k \in keys' \ keys : AppOfId(k[1])' # n,
           \A i \in 1 .. Len(fics) : i \in 1 .. Len(fics') /\ fics'[i] = fics[i],
           \A i \in 1 .. Len(fics') : i \in 1 .. Len(fics) \/ AppOfId(fics[i].app)' # n
    PROVE  Belongings(n)' = Belongings(n)
<1>1. \A id : Fixed(id) => AppOfId(id)' = AppOfId(id)
  BY FixedStays DEF AppsInv
<1>2. {o \in owners' : AppOfId(o[1])' = n} = {o \in owners : AppOfId(o[1]) = n}
  BY <1>1 DEF AppsInv, RowsInv, Grows
<1>3. {s \in secrets' : AppOfId(s)' = n} = {s \in secrets : AppOfId(s) = n}
  BY <1>1 DEF AppsInv, RowsInv, Grows
<1>4. {k \in keys' : AppOfId(k[1])' = n} = {k \in keys : AppOfId(k[1]) = n}
  BY <1>1 DEF AppsInv, RowsInv, Grows
<1>5. {i \in 1 .. Len(fics') : AppOfId(fics[i].app)' = n} = {i \in 1 .. Len(fics) : AppOfId(fics[i].app) = n}
  <2>1. ASSUME NEW i \in 1 .. Len(fics) PROVE AppOfId(fics[i].app)' = AppOfId(fics[i].app)
    <3>1. PICK a : a = fics[i].app
      OBVIOUS
    <3>2. a = fics'[i].app /\ Fixed(a)
      BY <3>1 DEF AppsInv, RowsInv
    <3> QED
      BY <1>1, <3>1, <3>2
  <2> QED
    BY <2>1
<1> QED
  BY <1>2, <1>3, <1>4, <1>5 DEF Belongings

LEMMA GrowsStep ==
    ASSUME AppsInv, [ANext]_avars
    PROVE  Grows
<1>1. seen.obj \in Nat /\ Len(sps) \in Nat
  BY AppTypes DEF AppsInv
<1>2. owners \subseteq owners' /\ keys \subseteq keys' /\ secrets \subseteq secrets' /\ assigned' = assigned
  BY StepKinds DEF Adds, AddKeyCredential, AddPassword, AddOwner, CreateFIC
<1>3. CASE sps' = sps /\ appOf' = appOf /\ seen'.obj = seen.obj
  BY <1>1, <1>2, <1>3 DEF Grows
<1>4. CASE \E p \in AReq : PatchApp(p) \/ CreateApp(p) \/ CreateServicePrincipal(p)
  BY <1>4, PatchAppInv, CreateAppInv, CreateServicePrincipalInv
<1> QED
  BY <1>3, <1>4, StepKinds

\* What an adding request writes is of its target.
LEMMA AddsToTarget ==
    ASSUME AppsInv, NEW p \in AReq, Adds(p), NEW res, res = areq[p].res
    PROVE  /\ \A o \in owners' \ owners : o[1] = res
           /\ \A s \in secrets' \ secrets : s = res
           /\ \A k \in keys' \ keys : k[1] = res
           /\ \A i \in 1 .. Len(fics) : i \in 1 .. Len(fics') /\ fics'[i] = fics[i]
           /\ \A i \in 1 .. Len(fics') : i \in 1 .. Len(fics) \/ fics'[i].app = res
           /\ areq[p] # AIdle /\ areq[p].op \in {"key", "patch", "owner", "secret", "fic"}
           /\ areq[p].step = "write" /\ areq' = [areq EXCEPT ![p] = AIdle]
<1>1. /\ areq[p] # AIdle /\ areq[p].op \in {"key", "patch", "owner", "secret", "fic"}
      /\ areq[p].step = "write" /\ areq' = [areq EXCEPT ![p] = AIdle]
  BY DEF Adds, AddKeyCredential, AddPassword, AddOwner, CreateFIC, Writing, ADone
<1>2. /\ \A o \in owners' \ owners : o[1] = res
      /\ \A s \in secrets' \ secrets : s = res
      /\ \A k \in keys' \ keys : k[1] = res
  <2>1. CASE AddKeyCredential(p)
    BY <2>1 DEF AddKeyCredential
  <2>2. CASE AddPassword(p)
    BY <2>2 DEF AddPassword
  <2>3. CASE \E o \in Caller \ {RootCaller} : AddOwner(p, o)
    BY <2>3 DEF AddOwner
  <2>4. CASE \E s \in Subject : CreateFIC(p, s)
    BY <2>4 DEF CreateFIC
  <2> QED
    BY <2>1, <2>2, <2>3, <2>4 DEF Adds
<1>3. CASE fics' = fics
  BY <1>1, <1>2, <1>3
<1>4. CASE \E s \in Subject : CreateFIC(p, s)
  <2>1. PICK s \in Subject : CreateFIC(p, s)
    BY <1>4
  <2>2. PICK f : f = [app |-> res, sub |-> s]
    OBVIOUS
  <2>3. fics' = Append(fics, f) /\ f.app = res
    BY <2>1, <2>2 DEF CreateFIC
  <2>4. fics \in Seq([app : ObjIds, sub : Subject]) /\ res \in ObjIds
    <3>1. areq[p].op = "fic" /\ areq[p].op \in Write
      BY <2>1 DEF CreateFIC, Writing, Write
    <3>2. WriteInv(areq[p])
      BY <1>1, <3>1, WritingIs
    <3> QED
      BY <3>1, <3>2 DEF WriteInv, AppsInv, ATypeOK
  <2>5. f \in [app : ObjIds, sub : Subject]
    BY <2>2, <2>4
  <2>6. /\ Len(fics) \in Nat /\ Len(fics') = Len(fics) + 1 /\ fics'[Len(fics) + 1] = f
        /\ \A i \in 1 .. Len(fics) : fics'[i] = fics[i]
    BY <2>3, <2>4, <2>5, AppendProperties, LenProperties
  <2>7. \A i \in 1 .. Len(fics') : i \in 1 .. Len(fics) \/ i = Len(fics) + 1
    BY <2>6
  <2>8. \A i \in 1 .. Len(fics) : i \in 1 .. Len(fics')
    BY <2>6
  <2>9. \A i \in 1 .. Len(fics') : i \in 1 .. Len(fics) \/ fics'[i].app = res
    BY <2>3, <2>6, <2>7
  <2> QED
    BY <1>1, <1>2, <2>6, <2>8, <2>9
<1> QED
  BY <1>3, <1>4 DEF Adds, AddKeyCredential, AddPassword, AddOwner

\* The registration of an application is changed by a request for it.
LEMMA RegistrationOf ==
    ASSUME AppsInv, NEW p \in AReq, PatchApp(p) \/ CreateApp(p) \/ DeleteApp(p),
           NEW n \in 1 .. MaxApp, n <= seen.app, apps'[n] # apps[n] \/ names'[n] # names[n]
    PROVE  /\ areq[p] # AIdle /\ areq[p].op \in {"patch", "delete"} /\ areq[p].op \in Write
           /\ areq[p].step # "gate" /\ AppOfId(areq[p].res) = n
           /\ \E v : areq' = [areq EXCEPT ![p] = v]
<1>1. CASE PatchApp(p)
  <2>1. /\ areq[p] # AIdle /\ areq[p].op = "patch" /\ areq[p].step = "rename" /\ areq[p].op \in Write
        /\ UpsertEntraApp(areq[p].app, areq[p].of) /\ (ADone(p) \/ To(p, "write"))
    BY <1>1 DEF PatchApp, Writing, Write
  <2>2. PICK q : q = areq[p] /\ WriteInv(q)
    BY <2>1, WritingIs
  <2>3. PICK m, k : m = q.app /\ k = seen.obj + 1
    OBVIOUS
  <2>4. (apps' = apps \/ apps' = [apps EXCEPT ![m] = k]) /\ names' = [names EXCEPT ![m] = q.of]
    BY <2>1, <2>2, <2>3 DEF UpsertEntraApp
  <2>5. m = n
    BY <2>4 DEF AppsInv, ATypeOK
  <2>6. AppOfId(q.res) = n
    BY <2>1, <2>2, <2>3, <2>5 DEF WriteInv
  <2>7. \E v : areq' = [areq EXCEPT ![p] = v]
    BY <2>1 DEF ADone, To
  <2> QED
    BY <2>1, <2>2, <2>6, <2>7
<1>2. CASE CreateApp(p)
  <2>1. PICK m, k : /\ m = seen.app + 1 /\ apps' = [apps EXCEPT ![m] = k]
                    /\ names' = [names EXCEPT ![m] = areq[p].of]
    BY <1>2 DEF CreateApp
  <2>2. m # n
    BY <2>1, AppTypes DEF AppsInv
  <2> QED
    BY <2>1, <2>2 DEF AppsInv, ATypeOK
<1>3. CASE DeleteApp(p)
  <2>1. /\ areq[p] # AIdle /\ areq[p].op = "delete" /\ areq[p].step = "write" /\ areq[p].op \in Write
        /\ areq' = [areq EXCEPT ![p] = AIdle] /\ names' = names
        /\ apps' = [m \in 1 .. MaxApp |-> IF ObjId(apps[m]) = areq[p].res THEN 0 ELSE apps[m]]
    BY <1>3 DEF DeleteApp, Writing, Write, ADone
  <2>2. apps[n] # 0 /\ ObjId(apps[n]) = areq[p].res
    BY <2>1
  <2>3. apps[n] \in 1 .. MaxObj /\ appOf[apps[n]] = n
    BY <2>2, AppTypes, ApplicationsAssumption DEF AppsInv, RowsInv
  <2>4. AppOfId(areq[p].res) = n
    BY <2>2, <2>3, AppOfEach
  <2> QED
    BY <2>1, <2>4
<1> QED
  BY <1>1, <1>2, <1>3

\* What is added to an application is added by a request for it.
LEMMA AddedTo ==
    ASSUME AppsInv, ATypeOK', Grows, NEW p \in AReq, Adds(p), NEW n \in 1 .. MaxApp,
           Belongings(n)' # Belongings(n)
    PROVE  /\ areq[p] # AIdle /\ areq[p].op \in {"key", "patch", "owner", "secret", "fic"}
           /\ areq[p].op \in Write /\ areq[p].step # "gate" /\ AppOfId(areq[p].res) = n
           /\ \E v : areq' = [areq EXCEPT ![p] = v]
<1>1. PICK res : res = areq[p].res
  OBVIOUS
<1>2. /\ \A o \in owners' \ owners : o[1] = res
      /\ \A s \in secrets' \ secrets : s = res
      /\ \A k \in keys' \ keys : k[1] = res
      /\ \A i \in 1 .. Len(fics) : i \in 1 .. Len(fics') /\ fics'[i] = fics[i]
      /\ \A i \in 1 .. Len(fics') : i \in 1 .. Len(fics) \/ fics'[i].app = res
      /\ areq[p] # AIdle /\ areq[p].op \in {"key", "patch", "owner", "secret", "fic"}
      /\ areq[p].step = "write" /\ areq' = [areq EXCEPT ![p] = AIdle]
  BY <1>1, AddsToTarget
<1>3. areq[p].op \in Write /\ apps' = apps /\ names' = names
  BY <1>2 DEF Write, Adds, AddKeyCredential, AddPassword, AddOwner, CreateFIC
<1>4. Fixed(res)
  BY <1>1, <1>2, <1>3, WritingIs DEF WriteInv
<1>5. AppOfId(res)' = AppOfId(res)
  BY <1>4, FixedStays DEF AppsInv
<1>6. AppOfId(res) = n
  <2> SUFFICES ASSUME AppOfId(res) # n PROVE FALSE
    OBVIOUS
  <2>1. AppOfId(res)' # n
    BY <1>5
  <2>2. \A i \in 1 .. Len(fics') : i \in 1 .. Len(fics) \/ AppOfId(fics[i].app)' # n
    BY <1>2, <2>1
  <2>3. /\ \A o \in owners' \ owners : AppOfId(o[1])' # n
        /\ \A s \in secrets' \ secrets : AppOfId(s)' # n
        /\ \A k \in keys' \ keys : AppOfId(k[1])' # n
    BY <1>2, <2>1
  <2>4. Belongings(n)' = Belongings(n)
    BY <1>2, <1>3, <2>2, <2>3, BelongingsStay
  <2> QED
    BY <2>4
<1> QED
  BY <1>1, <1>2, <1>3, <1>6

LEMMA ScopeStep ==
    ASSUME AppsInv, [ANext]_avars, NEW n \in 1 .. MaxApp, NEW r \in AReq,
           areq[r] # AIdle, areq'[r] # areq[r], areq[r].op \in Write, ~areq[r].unread,
           ScopedOnly(areq[r].of), n <= seen.app, Belongings(n)' # Belongings(n)
    PROVE  \/ \E a \in assigned : a[1] = areq[r].of /\ AppOfId(a[2]) = n
           \/ \E o \in owners : AppOfId(o[1]) = n /\ SamePrincipal(o[2], areq[r].of)
<1>1. Grows /\ ATypeOK' /\ ATypeOK
  BY GrowsStep, AppsStep DEF AppsInv
<1>2. PICK p \in AReq :
        /\ areq[p] # AIdle /\ areq[p].op \in {"key", "patch", "owner", "secret", "fic", "delete"}
        /\ areq[p].op \in Write /\ areq[p].step # "gate" /\ AppOfId(areq[p].res) = n
        /\ \E v : areq' = [areq EXCEPT ![p] = v]
  <2>1. CASE \E p \in AReq : Adds(p)
    BY <1>1, <2>1, AddedTo
  <2>2. CASE UNCHANGED <<owners, secrets, keys, fics>>
    <3>1. owners' \ owners = {} /\ secrets' \ secrets = {} /\ keys' \ keys = {} /\ fics' = fics
      BY <2>2
    <3>2. apps'[n] # apps[n] \/ names'[n] # names[n]
      BY <1>1, <3>1, BelongingsStay
    <3>3. \E p \in AReq : PatchApp(p) \/ CreateApp(p) \/ DeleteApp(p)
      BY <3>2, StepKinds
    <3> QED
      BY <3>2, <3>3, RegistrationOf
  <2> QED
    BY <2>1, <2>2, StepKinds
<1>3. p = r
  BY <1>1, <1>2, ActorIs
<1>4. InScope(areq[r])
  BY <1>2, <1>3, WritingIs DEF WriteInv
<1> QED
  BY <1>2, <1>3, <1>4 DEF InScope

\* No write, however stale its look-ups, registers a further key without a proof,
\* makes a second service principal or a deleted registration anew without an
\* overlap, or leaves the scope of its caller's App Admin assignments.
THEOREM ApplicationsStepAlways == ASpec => ApplicationSteps
<1>1. AppsInv /\ [ANext]_avars =>
        [\A r \in AReq : areq[r] # AIdle /\ areq[r].op \in {"key", "patch"} =>
            (keys' # keys /\ areq'[r] = AIdle /\ areq[r].sawKeys =>
                <<areq[r].res, areq[r].proof>> \in keys)]_avars
  BY KeyStep
<1>2. AppsInv /\ [ANext]_avars =>
        [/\ \A r \in AReq : sps' # sps /\ areq[r] # AIdle /\ areq'[r] = AIdle => ~areq[r].sawSp
         /\ \A n \in 1 .. MaxApp :
               apps[n] = 0 /\ apps'[n] # 0 /\ n <= seen.app =>
                  \E r \in AReq : areq[r] # AIdle /\ areq[r].op = "patch" /\ areq[r].app = n]_avars
  BY PrincipalStep, RegistrationStep
<1>3. AppsInv /\ [ANext]_avars =>
        [\A n \in 1 .. MaxApp, r \in AReq :
            /\ areq[r] # AIdle /\ areq'[r] # areq[r] /\ areq[r].op \in Write /\ ~areq[r].unread
            /\ ScopedOnly(areq[r].of) /\ n <= seen.app /\ Belongings(n)' # Belongings(n)
            => \/ \E a \in assigned : a[1] = areq[r].of /\ AppOfId(a[2]) = n
               \/ \E o \in owners : AppOfId(o[1]) = n /\ SamePrincipal(o[2], areq[r].of)]_avars
  BY ScopeStep
<1> QED
  BY <1>1, <1>2, <1>3, AppsInit, AppsStep, PTL
     DEF ASpec, ApplicationSteps, KeyNeedsProof, MadeTwiceOnlyByRace, ScopedStaysInScope

=============================================================================
