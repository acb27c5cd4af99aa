----------------------------- MODULE RbacProofs -----------------------------
(***************************************************************************)
(* GrantJustified, AuthorityFromRoot and QuietVerdict for any tree of      *)
(* scopes, any nesting of groups that groupContains can follow, and any    *)
(* number of callers and requests.  What a role grants plays no part:      *)
(* roleGrants is never expanded.                                           *)
(***************************************************************************)
EXTENDS Rbac, TLAPS

\* Root gave a role that writes assignments at s or above it.
Owned(ro, s) == \E o \in ro : o \in Up[s]

\* A row that lets its principal write assignments goes back to root.
Rooted(a, ro) == roleGrants(a.role, Assign) => Owned(ro, a.scope)

\* A row that request q may rely on: it may be gone from the table by now.
Good(a, q, ro) == a \in Row /\ Grants(a, q.act, q.scope) /\ Rooted(a, ro)

\* What a request knows is sound: it looks at scopes above the one asked for, and
\* the rows it holds, the groups it expands and the row that granted are right.
Sound(q, ms, ro) ==
    /\ q.at \in Up[q.scope]
    /\ q.op = "put" => q.row \in Row /\ q.row.scope = q.scope /\ q.act = Assign
    /\ \A a \in q.todo : Good(a, q, ro) /\ (a.who = q.who \/ (a.asGroup /\ a.who \in Group))
    /\ \A x \in q.pending : Good(q.cur, q, ro) /\ q.cur.asGroup /\ q.cur.who \in Group
                            /\ Deep(q.cur.who, x[1])
    /\ q.pc = "granted" => Good(q.by, q, ro) /\ Names(q.by, q.who, ms)

RowsRooted == \A a \in rows : Rooted(a, rootOwns)

RequestsSound == \A r \in Req : req[r] # Idle => Sound(req[r], members, rootOwns)

\* The inductive invariant.
RInv == TypeOK /\ RowsRooted /\ RequestsSound /\ AuthorityFromRoot

-----------------------------------------------------------------------------
\* Expansion may go one group deeper.
LEMMA Deeper ==
    ASSUME NEW g \in Group, NEW h, NEW k, Deep(g, h), <<h, k>> \in Nested
    PROVE  Deep(g, k)
<1> SUFFICES ASSUME NEW S \in SUBSET Group, g \in S,
                    \A e \in Nested : e[1] \in S => e[2] \in S
             PROVE  k \in S
  BY DEF Deep
<1>1. h \in S
  BY DEF Deep
<1> QED
  BY <1>1

LEMMA DeepSelf == \A g : Deep(g, g)
BY DEF Deep

\* Authority at a scope is authority below it.
LEMMA OwnedBelow ==
    ASSUME NEW ro, NEW s \in Scope, NEW t \in Up[s], Owned(ro, t)
    PROVE  Owned(ro, s)
BY ScopeTree DEF Owned

\* Root gives more, and groups gain members: what was right stays right.
LEMMA SoundKept ==
    ASSUME NEW q \in Request, NEW b, NEW c, NEW ms, NEW ms2, NEW ro, NEW ro2,
           Sound(q, ms, ro), ms \subseteq ms2, ro \subseteq ro2
    PROVE  Sound([q EXCEPT !.quiet = b, !.entitled = c], ms2, ro2)
<1> DEFINE p == [q EXCEPT !.quiet = b, !.entitled = c]
<1>1. /\ p.at = q.at /\ p.scope = q.scope /\ p.op = q.op /\ p.row = q.row /\ p.act = q.act
      /\ p.todo = q.todo /\ p.pending = q.pending /\ p.cur = q.cur /\ p.who = q.who
      /\ p.pc = q.pc /\ p.by = q.by
  BY DEF Request
<1>2. \A s : Owned(ro, s) => Owned(ro2, s)
  BY DEF Owned
<1>3. \A a : Rooted(a, ro) => Rooted(a, ro2)
  BY <1>2 DEF Rooted
<1>4. \A a : Good(a, q, ro) => Good(a, p, ro2)
  BY <1>1, <1>3 DEF Good
<1>5. \A a : Names(a, q.who, ms) => Names(a, p.who, ms2)
  BY <1>1 DEF Names
<1> HIDE DEF p
<1>6. Sound(p, ms2, ro2)
  BY <1>1, <1>4, <1>5 DEF Sound
<1> QED
  BY <1>6 DEF p

-----------------------------------------------------------------------------
LEMMA InitInv == Init => RInv
<1> SUFFICES ASSUME Init PROVE RInv
  OBVIOUS
<1>1. members \subseteq Group \X (Principal \cup Group)
  BY Directory DEF Init
<1>2. TypeOK
  BY <1>1 DEF Init, TypeOK
<1>3. RowsRooted /\ RequestsSound /\ AuthorityFromRoot
  BY DEF Init, RowsRooted, RequestsSound, AuthorityFromRoot
<1> QED
  BY <1>2, <1>3 DEF RInv

\* A step of request r alone keeps the invariant when what r knows stays sound.
LEMMA OneRequest ==
    ASSUME RInv, NEW r \in Req, NEW q \in Request \cup {Idle},
           q # Idle => Sound(q, members, rootOwns),
           req' = [req EXCEPT ![r] = q],
           UNCHANGED <<rows, members, rootOwns, delegated>>
    PROVE  RInv'
<1>1. TypeOK'
  BY DEF RInv, TypeOK
<1>2. RowsRooted' /\ AuthorityFromRoot'
  BY DEF RInv, RowsRooted, AuthorityFromRoot
<1>3. RequestsSound'
  BY DEF RInv, TypeOK, RequestsSound
<1> QED
  BY <1>1, <1>2, <1>3 DEF RInv

\* A write keeps what the requests know sound.
LEMMA NotedSound ==
    ASSUME RInv, NEW done, NEW rs, NEW ms, NEW ro,
           members \subseteq ms, rootOwns \subseteq ro,
           ms \subseteq Group \X (Principal \cup Group)
    PROVE  /\ Noted(done, rs, ms) \in [Req -> Request \cup {Idle}]
           /\ \A r \in Req : Noted(done, rs, ms)[r] # Idle => Sound(Noted(done, rs, ms)[r], ms, ro)
<1> SUFFICES ASSUME NEW r \in Req
             PROVE  /\ Noted(done, rs, ms)[r] \in Request \cup {Idle}
                    /\ Noted(done, rs, ms)[r] # Idle => Sound(Noted(done, rs, ms)[r], ms, ro)
  BY DEF Noted
<1>1. CASE r \in done \/ req[r] = Idle
  BY <1>1 DEF Noted
<1>2. CASE ~ (r \in done \/ req[r] = Idle)
  <2> DEFINE c == req[r].entitled \/ Entitled(rs, ms, req[r].who, req[r].act, req[r].scope)
  <2>1. req[r] \in Request /\ Sound(req[r], members, rootOwns)
    BY <1>2 DEF RInv, TypeOK, RequestsSound
  <2>2. Noted(done, rs, ms)[r] = [req[r] EXCEPT !.quiet = FALSE, !.entitled = c]
    BY <1>2 DEF Noted
  <2>3. c \in BOOLEAN
    BY <2>1 DEF Request, Entitled
  <2> HIDE DEF c
  <2>4. [req[r] EXCEPT !.quiet = FALSE, !.entitled = c] \in Request
    BY <2>1, <2>3 DEF Request
  <2>5. Sound([req[r] EXCEPT !.quiet = FALSE, !.entitled = c], ms, ro)
    BY <2>1, SoundKept
  <2> QED
    BY <2>2, <2>4, <2>5
<1> QED
  BY <1>1, <1>2

-----------------------------------------------------------------------------
(* The writes.                                                             *)

\* Writing row a at a scope of which root, or an owner below root, disposes.
LEMMA Upsert ==
    ASSUME RInv, NEW a \in Row, NEW done, UpsertRoleAssignment(a, done),
           rootOwns \subseteq rootOwns', rootOwns' \subseteq Scope,
           delegated' \subseteq Scope,
           Rooted(a, rootOwns'),
           \A s \in delegated' : s \in delegated \/ Owned(rootOwns', s)
    PROVE  RInv'
<1>1. /\ members' = members /\ rows' = {x \in rows : ~ Same(x, a)} \cup {a}
      /\ req' = Noted(done, rows', members)
  BY DEF UpsertRoleAssignment
<1>2. members \subseteq Group \X (Principal \cup Group)
  BY DEF RInv, TypeOK
<1>3. /\ req' \in [Req -> Request \cup {Idle}]
      /\ \A r \in Req : req'[r] # Idle => Sound(req'[r], members, rootOwns')
  BY <1>1, <1>2, NotedSound
<1>4. rows' \subseteq Row /\ \A x, y \in rows' : Same(x, y) => x = y
  BY <1>1 DEF RInv, TypeOK, Same
<1>5. TypeOK'
  BY <1>1, <1>2, <1>3, <1>4 DEF TypeOK
<1>6. RowsRooted'
  <2>1. \A x \in rows : Rooted(x, rootOwns')
    BY DEF RInv, RowsRooted, Rooted, Owned
  <2> QED
    BY <1>1, <2>1 DEF RowsRooted
<1>7. RequestsSound'
  BY <1>1, <1>3 DEF RequestsSound
<1>8. AuthorityFromRoot'
  BY DEF RInv, AuthorityFromRoot, Owned
<1> QED
  BY <1>5, <1>6, <1>7, <1>8 DEF RInv

LEMMA Delete ==
    ASSUME RInv, NEW a, NEW done, DeleteRoleAssignment(a, done),
           UNCHANGED <<rootOwns, delegated>>
    PROVE  RInv'
<1>1. /\ members' = members /\ rows' \subseteq rows
      /\ req' = Noted(done, rows', members)
  BY DEF DeleteRoleAssignment
<1>2. members \subseteq Group \X (Principal \cup Group)
  BY DEF RInv, TypeOK
<1>3. /\ req' \in [Req -> Request \cup {Idle}]
      /\ \A r \in Req : req'[r] # Idle => Sound(req'[r], members, rootOwns)
  BY <1>1, <1>2, NotedSound
<1>4. TypeOK'
  BY <1>1, <1>2, <1>3 DEF RInv, TypeOK
<1>5. RowsRooted' /\ RequestsSound' /\ AuthorityFromRoot'
  BY <1>1, <1>3 DEF RInv, RowsRooted, RequestsSound, AuthorityFromRoot
<1> QED
  BY <1>4, <1>5 DEF RInv

LEMMA Join ==
    ASSUME RInv, NEW e \in RefInput, AddGroupMember(e[1], e[2])
    PROVE  RInv'
<1>1. /\ members' = members \cup {<<e[1], e[2]>>}
      /\ req' = Noted({}, rows, members') /\ UNCHANGED <<rows, rootOwns, delegated>>
  BY DEF AddGroupMember
<1>2. members' \subseteq Group \X (Principal \cup Group)
  BY <1>1, Inputs DEF RInv, TypeOK
<1>3. members \subseteq members'
  BY <1>1
<1>4. /\ req' \in [Req -> Request \cup {Idle}]
      /\ \A r \in Req : req'[r] # Idle => Sound(req'[r], members', rootOwns)
  BY <1>1, <1>2, <1>3, NotedSound
<1>5. TypeOK'
  BY <1>1, <1>2, <1>4 DEF RInv, TypeOK
<1>6. RowsRooted' /\ RequestsSound' /\ AuthorityFromRoot'
  BY <1>1, <1>4 DEF RInv, RowsRooted, RequestsSound, AuthorityFromRoot
<1> QED
  BY <1>5, <1>6 DEF RInv

-----------------------------------------------------------------------------
(* The steps of a request.                                                 *)

LEMMA Started ==
    ASSUME RInv, NEW r \in Req, NEW p \in Principal, NEW act \in Action, NEW s \in Scope,
           NEW op \in {"put", "delete", "use"}, NEW a \in Row \cup Id \cup {NoRow},
           op = "put" => a \in Row /\ a.scope = s /\ act = Assign,
           Begin(r, p, act, s, op, a)
    PROVE  RInv'
<1> DEFINE c == Entitled(rows, members, p, act, s)
           q == [pc |-> "scope", who |-> p, act |-> act, scope |-> s, op |-> op, row |-> a,
                 at |-> s, todo |-> {}, cur |-> NoRow, pending |-> {}, seen |-> {},
                 by |-> NoRow, entitled |-> c, quiet |-> TRUE]
<1>1. c \in BOOLEAN
  BY DEF Entitled
<1>2. req' = [req EXCEPT ![r] = q] /\ UNCHANGED <<rows, members, rootOwns, delegated>>
  BY DEF Begin
<1> HIDE DEF c
<1>3. q \in Request
  BY <1>1 DEF Request
<1>4. s \in Up[s]
  BY ScopeTree
<1>5. Sound(q, members, rootOwns)
  BY <1>4 DEF Sound
<1> HIDE DEF q
<1> QED
  BY <1>2, <1>3, <1>5, OneRequest

LEMMA Listed ==
    ASSUME RInv, NEW r \in Req, ListScope(r)
    PROVE  RInv'
<1> DEFINE q == req[r]
           t == {a \in rows : Relevant(a, q)}
           n == [q EXCEPT !.pc = "groups", !.todo = t]
<1>1. q \in Request /\ Sound(q, members, rootOwns)
  BY DEF RInv, TypeOK, RequestsSound, ListScope, At
<1>2. t \subseteq Row /\ \A a \in t : Rooted(a, rootOwns)
  BY DEF RInv, TypeOK, RowsRooted
<1>3. \A a \in t : /\ a.scope = q.at /\ roleGrants(a.role, q.act)
                   /\ a.who = q.who \/ (a.asGroup /\ a.who \in Group)
  BY DEF Relevant
<1>4. req' = [req EXCEPT ![r] = n] /\ UNCHANGED <<rows, members, rootOwns, delegated>>
  BY DEF ListScope, RInv, TypeOK
<1> HIDE DEF q, t
<1>5. n \in Request
  BY <1>1, <1>2 DEF Request
<1>6. Sound(n, members, rootOwns)
  <2>1. /\ n.pc = "groups" /\ n.todo = t /\ n.at = q.at /\ n.scope = q.scope /\ n.op = q.op
        /\ n.row = q.row /\ n.act = q.act /\ n.who = q.who /\ n.pending = q.pending /\ n.cur = q.cur
    BY <1>1 DEF Request
  <2>2. \A a : Good(a, n, rootOwns) <=> Good(a, q, rootOwns)
    BY <2>1 DEF Good
  <2>3. \A a \in t : Good(a, q, rootOwns)
    BY <1>1, <1>2, <1>3 DEF Good, Grants, Sound
  <2> HIDE DEF n
  <2> QED
    BY <1>1, <1>3, <2>1, <2>2, <2>3 DEF Sound
<1> HIDE DEF n
<1> QED
  BY <1>4, <1>5, <1>6, OneRequest

LEMMA RowTaken ==
    ASSUME RInv, NEW r \in Req, NextRow(r)
    PROVE  RInv'
<1> DEFINE q == req[r]
<1>1. q \in Request /\ Sound(q, members, rootOwns)
  BY DEF RInv, TypeOK, RequestsSound, NextRow, At
<1>2. PICK a \in q.todo :
        IF a.who = q.who
        THEN req' = [req EXCEPT ![r].pc = "granted", ![r].by = a]
        ELSE req' = [req EXCEPT ![r].todo = @ \ {a}, ![r].cur = a,
                                ![r].pending = {<<a.who, 0>>}, ![r].seen = {}]
  BY DEF NextRow
<1>3. UNCHANGED <<rows, members, rootOwns, delegated>> /\ q.pending = {}
  BY DEF NextRow
<1>4. Good(a, q, rootOwns) /\ (a.who = q.who \/ (a.asGroup /\ a.who \in Group)) /\ a \in Row
  BY <1>1 DEF Sound, Good
<1>5. req \in [Req -> Request \cup {Idle}]
  BY DEF RInv, TypeOK
<1>6. CASE a.who = q.who
  <2> DEFINE n == [q EXCEPT !.pc = "granted", !.by = a]
  <2>1. req' = [req EXCEPT ![r] = n]
    BY <1>2, <1>5, <1>6
  <2> HIDE DEF q
  <2>2. n \in Request
    BY <1>1, <1>4 DEF Request
  <2>3. /\ n.by = a /\ n.todo = q.todo /\ n.at = q.at /\ n.scope = q.scope /\ n.op = q.op
        /\ n.row = q.row /\ n.act = q.act /\ n.who = q.who /\ n.pending = q.pending
    BY <1>1 DEF Request
  <2>4. \A x : Good(x, n, rootOwns) <=> Good(x, q, rootOwns)
    BY <2>3 DEF Good
  <2>5. Names(a, n.who, members)
    BY <1>6, <2>3 DEF Names
  <2> HIDE DEF n
  <2>6. Sound(n, members, rootOwns)
    BY <1>1, <1>3, <1>4, <2>3, <2>4, <2>5 DEF Sound
  <2> QED
    BY <1>3, <2>1, <2>2, <2>6, OneRequest
<1>7. CASE a.who # q.who
  <2> DEFINE n == [q EXCEPT !.todo = @ \ {a}, !.cur = a, !.pending = {<<a.who, 0>>}, !.seen = {}]
  <2>1. req' = [req EXCEPT ![r] = n]
    BY <1>2, <1>5, <1>7
  <2>2. At(r, "groups")
    BY DEF NextRow
  <2>3. q.pc = "groups"
    BY <2>2 DEF At
  <2> HIDE DEF q
  <2>4. n \in Request
    <3>1. {<<a.who, 0>>} \subseteq Group \X Nat
      BY <1>4, <1>7
    <3>2. q.todo \ {a} \subseteq Row
      BY <1>1 DEF Request
    <3> QED
      BY <1>1, <1>4, <3>1, <3>2 DEF Request
  <2>5. /\ n.pc = "groups" /\ n.cur = a /\ n.todo = q.todo \ {a} /\ n.at = q.at
        /\ n.scope = q.scope /\ n.op = q.op /\ n.row = q.row /\ n.act = q.act /\ n.who = q.who
        /\ n.pending = {<<a.who, 0>>}
    BY <1>1, <2>3 DEF Request
  <2>6. \A x : Good(x, n, rootOwns) <=> Good(x, q, rootOwns)
    BY <2>5 DEF Good
  <2> HIDE DEF n
  <2>7. \A x \in n.pending : x[1] = a.who
    BY <2>5
  <2>8. Sound(n, members, rootOwns)
    BY <1>1, <1>4, <1>7, <2>5, <2>6, <2>7, DeepSelf DEF Sound
  <2> QED
    BY <1>3, <2>1, <2>4, <2>8, OneRequest
<1> QED
  BY <1>6, <1>7

LEMMA MembersListed ==
    ASSUME RInv, NEW r \in Req, ListMembers(r)
    PROVE  RInv'
<1> DEFINE q == req[r]
           next(p) == {<<e[2], p[2] + 1>> : e \in {x \in Nested : x[1] = p[1]}}
           left(p) == {x \in (q.pending \ {p}) \cup next(p) :
                         x[1] \notin q.seen \cup {p[1]} /\ x[2] < groupExpandMaxDepth}
<1>1. q \in Request /\ Sound(q, members, rootOwns) /\ q.pc = "groups"
  BY DEF RInv, TypeOK, RequestsSound, ListMembers, At
<1>5. req \in [Req -> Request \cup {Idle}]
  BY DEF RInv, TypeOK
<1>2. PICK p \in q.pending :
        IF <<p[1], q.who>> \in members
        THEN req' = [req EXCEPT ![r].pc = "granted", ![r].by = q.cur]
        ELSE req' = [req EXCEPT ![r].seen = @ \cup {p[1]}, ![r].pending = left(p)]
  BY <1>5 DEF ListMembers
<1>3. UNCHANGED <<rows, members, rootOwns, delegated>>
  BY DEF ListMembers
<1>4. /\ Good(q.cur, q, rootOwns) /\ q.cur.asGroup /\ q.cur.who \in Group
      /\ Deep(q.cur.who, p[1]) /\ q.cur \in Row
      /\ p \in Group \X Nat /\ p[1] \in Group
  BY <1>1 DEF Sound, Good, Request
<1>6. CASE <<p[1], q.who>> \in members
  <2> DEFINE n == [q EXCEPT !.pc = "granted", !.by = q.cur]
  <2>1. req' = [req EXCEPT ![r] = n]
    BY <1>2, <1>5, <1>6
  <2> HIDE DEF q
  <2>2. n \in Request
    BY <1>1, <1>4 DEF Request
  <2>3. /\ n.by = q.cur /\ n.todo = q.todo /\ n.at = q.at /\ n.scope = q.scope /\ n.op = q.op
        /\ n.row = q.row /\ n.act = q.act /\ n.who = q.who /\ n.pending = q.pending /\ n.cur = q.cur
    BY <1>1 DEF Request
  <2>4. \A x : Good(x, n, rootOwns) <=> Good(x, q, rootOwns)
    BY <2>3 DEF Good
  <2>5. Names(q.cur, n.who, members)
    BY <1>4, <1>6, <2>3 DEF Names
  <2> HIDE DEF n
  <2>6. Sound(n, members, rootOwns)
    BY <1>1, <1>4, <2>3, <2>4, <2>5 DEF Sound
  <2> QED
    BY <1>3, <2>1, <2>2, <2>6, OneRequest
<1>7. CASE <<p[1], q.who>> \notin members
  <2> DEFINE l == left(p)
             n == [q EXCEPT !.seen = @ \cup {p[1]}, !.pending = l]
  <2>1. req' = [req EXCEPT ![r] = n]
    BY <1>2, <1>5, <1>7
  <2> HIDE DEF q
  <2>2. \A x \in next(p) : x \in Group \X Nat /\ Deep(q.cur.who, x[1])
    <3> SUFFICES ASSUME NEW e \in Nested, e[1] = p[1]
                 PROVE  /\ <<e[2], p[2] + 1>> \in Group \X Nat
                        /\ Deep(q.cur.who, <<e[2], p[2] + 1>>[1])
      OBVIOUS
    <3>1. e \in Group \X Group
      BY Directory
    <3>2. e = <<p[1], e[2]>> /\ e[2] \in Group /\ p[2] + 1 \in Nat
      BY <1>4, <3>1
    <3>3. Deep(q.cur.who, e[2])
      BY <1>4, <3>2, Deeper
    <3> QED
      BY <3>2, <3>3
  <2>3. \A x \in q.pending : x \in Group \X Nat /\ Deep(q.cur.who, x[1])
    BY <1>1 DEF Sound, Request
  <2>4. \A x \in l : x \in Group \X Nat /\ Deep(q.cur.who, x[1])
    BY <2>2, <2>3
  <2> HIDE DEF l
  <2>5. n \in Request
    BY <1>1, <1>4, <2>4 DEF Request
  <2>6. /\ n.pc = "groups" /\ n.todo = q.todo /\ n.at = q.at /\ n.scope = q.scope /\ n.op = q.op
        /\ n.row = q.row /\ n.act = q.act /\ n.who = q.who /\ n.pending = l /\ n.cur = q.cur
    BY <1>1 DEF Request
  <2>7. \A x : Good(x, n, rootOwns) <=> Good(x, q, rootOwns)
    BY <2>6 DEF Good
  <2> HIDE DEF n
  <2>8. Sound(n, members, rootOwns)
    BY <1>1, <1>4, <2>4, <2>6, <2>7 DEF Sound
  <2> QED
    BY <1>3, <2>1, <2>5, <2>8, OneRequest
<1> QED
  BY <1>6, <1>7

LEMMA ScopeLeft ==
    ASSUME RInv, NEW r \in Req, NextScope(r)
    PROVE  RInv'
<1> DEFINE q == req[r]
           n == [q EXCEPT !.pc = "scope", !.at = Parent[@]]
<1>1. q \in Request /\ Sound(q, members, rootOwns)
  BY DEF RInv, TypeOK, RequestsSound, NextScope, At
<1>2. req' = [req EXCEPT ![r] = n] /\ UNCHANGED <<rows, members, rootOwns, delegated>>
  BY DEF NextScope, RInv, TypeOK
<1>3. Parent[q.at] # NoScope /\ q.todo = {} /\ q.pending = {}
  BY DEF NextScope
<1> HIDE DEF q
<1>4. q.at \in Scope /\ q.scope \in Scope /\ Parent[q.at] \in Scope
  BY <1>1, <1>3, ScopeTree DEF Request
<1>5. Parent[q.at] \in Up[q.scope]
  <2>1. Parent[q.at] \in Up[Parent[q.at]] /\ Up[Parent[q.at]] \subseteq Up[q.at]
    BY <1>3, <1>4, ScopeTree
  <2>2. Up[q.at] \subseteq Up[q.scope]
    BY <1>1, <1>4, ScopeTree DEF Sound
  <2> QED
    BY <2>1, <2>2
<1>6. n \in Request
  BY <1>1, <1>4 DEF Request
<1>7. /\ n.pc = "scope" /\ n.todo = {} /\ n.pending = {} /\ n.at = Parent[q.at]
      /\ n.scope = q.scope /\ n.op = q.op /\ n.row = q.row /\ n.act = q.act
  BY <1>1, <1>3 DEF Request
<1> HIDE DEF n
<1>8. Sound(n, members, rootOwns)
  BY <1>1, <1>5, <1>7 DEF Sound
<1> QED
  BY <1>2, <1>6, <1>8, OneRequest

LEMMA Committed ==
    ASSUME RInv, NEW r \in Req, Commit(r)
    PROVE  RInv'
<1> DEFINE q == req[r]
<1>1. q \in Request /\ Sound(q, members, rootOwns) /\ q.pc = "granted" /\ q.scope \in Scope
  BY DEF RInv, TypeOK, RequestsSound, Commit, At, Request
<1>2. rootOwns' = rootOwns /\ rootOwns \subseteq Scope /\ delegated \subseteq Scope
  BY DEF Commit, RInv, TypeOK
<1>3. CASE /\ q.op = "put" /\ UpsertRoleAssignment(q.row, {r})
           /\ delegated' = delegated \cup {q.scope}
  <2>1. q.row \in Row /\ q.row.scope = q.scope /\ q.act = Assign
    BY <1>1, <1>3 DEF Sound
  <2>2. q.by.scope \in Up[q.scope] /\ Owned(rootOwns, q.by.scope)
    BY <1>1, <2>1 DEF Sound, Good, Grants, Rooted
  <2>3. Owned(rootOwns, q.scope)
    BY <1>1, <2>2, OwnedBelow
  <2>4. Rooted(q.row, rootOwns)
    BY <2>1, <2>3 DEF Rooted
  <2>5. Rooted(q.row, rootOwns')
    BY <1>2, <2>4
  <2>6. \A s \in delegated' : s \in delegated \/ Owned(rootOwns', s)
    BY <1>2, <1>3, <2>3
  <2>7. rootOwns \subseteq rootOwns' /\ rootOwns' \subseteq Scope /\ delegated' \subseteq Scope
    BY <1>1, <1>2, <1>3
  <2>8. UpsertRoleAssignment(q.row, {r})
    BY <1>3
  <2> HIDE DEF q
  <2> QED
    BY <2>1, <2>5, <2>6, <2>7, <2>8, Upsert
<1>4. CASE q.op = "delete" /\ DeleteRoleAssignment(q.row, {r}) /\ UNCHANGED delegated
  <2> HIDE DEF q
  <2> QED
    BY <1>2, <1>4, Delete
<1>5. CASE Finish(r) /\ UNCHANGED <<rows, members, delegated>>
  BY <1>2, <1>5, OneRequest DEF Finish
<1> QED
  BY <1>3, <1>4, <1>5 DEF Commit

-----------------------------------------------------------------------------
LEMMA Inductive == RInv /\ [Next]_vars => RInv'
<1> SUFFICES ASSUME RInv, [Next]_vars PROVE RInv'
  OBVIOUS
<1>a. Assign \in Action
  BY DEF Assign, Action, ControlAction
<1>1. ASSUME NEW a \in PutInput, RootPut(a) PROVE RInv'
  <2>1. a \in Row /\ a.scope \in Scope
    BY Inputs DEF Row
  <2>2. /\ UpsertRoleAssignment(a, {}) /\ delegated' = delegated
        /\ rootOwns' = IF roleGrants(a.role, Assign) THEN rootOwns \cup {a.scope} ELSE rootOwns
    BY <1>1 DEF RootPut
  <2>3. rootOwns \subseteq rootOwns' /\ rootOwns' \subseteq Scope /\ delegated' \subseteq Scope
    BY <2>1, <2>2 DEF RInv, TypeOK
  <2>4. roleGrants(a.role, Assign) => Owned(rootOwns', a.scope)
    BY <2>1, <2>2, ScopeTree DEF Owned
  <2>5. Rooted(a, rootOwns')
    BY <2>4 DEF Rooted
  <2>6. \A s \in delegated' : s \in delegated \/ Owned(rootOwns', s)
    BY <2>2
  <2> QED
    BY <2>1, <2>2, <2>3, <2>5, <2>6, Upsert
<1>2. ASSUME NEW a \in PutInput, RootDelete(a) PROVE RInv'
  BY <1>2, Delete DEF RootDelete
<1>3. ASSUME NEW e \in RefInput, AddGroupMember(e[1], e[2]) PROVE RInv'
  BY <1>3, Join
<1>4. ASSUME NEW r \in Req, NEW p \in Principal, NEW a \in PutInput, BeginPut(r, p, a) PROVE RInv'
  <2>1. a \in Row /\ a.scope \in Scope
    BY Inputs DEF Row
  <2> QED
    BY <1>a, <1>4, <2>1, Started DEF BeginPut
<1>5. ASSUME NEW r \in Req, NEW p \in Principal, NEW i \in Id, BeginDelete(r, p, i) PROVE RInv'
  <2>1. i.scope \in Scope
    BY DEF Id
  <2> QED
    BY <1>a, <1>5, <2>1, Started DEF BeginDelete
<1>6. ASSUME NEW r \in Req, NEW p \in Principal, NEW act \in Asked, NEW s \in Scope,
             BeginUse(r, p, act, s)
      PROVE  RInv'
  <2>1. act \in Action
    BY Directory
  <2> QED
    BY <1>6, <2>1, Started DEF BeginUse
<1>7. ASSUME NEW r \in Req, Deny(r) PROVE RInv'
  BY <1>7, OneRequest DEF Deny, Finish
<1>8. CASE UNCHANGED vars
  <2>1. /\ rows' = rows /\ members' = members /\ req' = req
        /\ rootOwns' = rootOwns /\ delegated' = delegated
    BY <1>8 DEF vars
  <2> QED
    BY <2>1 DEF RInv, TypeOK, RowsRooted, RequestsSound, AuthorityFromRoot
<1>9. ASSUME NEW r \in Req,
             ListScope(r) \/ NextRow(r) \/ ListMembers(r) \/ NextScope(r) \/ Commit(r)
      PROVE  RInv'
  BY <1>9, Listed, RowTaken, MembersListed, ScopeLeft, Committed
<1> QED
  BY <1>1, <1>2, <1>3, <1>4, <1>5, <1>6, <1>7, <1>8, <1>9 DEF Next

\* Every reachable state is well typed and no assignment id has two rows.
THEOREM RbacTyped == Spec => []TypeOK
<1>1. Init => RInv
  BY InitInv
<1>2. RInv /\ [Next]_vars => RInv'
  BY Inductive
<1>3. RInv => TypeOK
  BY DEF RInv
<1> QED
  BY <1>1, <1>2, <1>3, PTL DEF Spec

\* Whatever is written while Evaluate reads, what it grants has a reason: an
\* assignment it read at the scope or above it, for the caller or a group of it.
THEOREM GrantAlwaysJustified == Spec => []GrantJustified
<1>1. Init => RInv
  BY InitInv
<1>2. RInv /\ [Next]_vars => RInv'
  BY Inductive
<1>3. RInv => GrantJustified
  <2> SUFFICES ASSUME RInv, NEW r \in Req, At(r, "granted")
               PROVE  /\ Grants(req[r].by, req[r].act, req[r].scope)
                      /\ Names(req[r].by, req[r].who, members)
    BY DEF GrantJustified
  <2>1. req[r] # Idle /\ req[r].pc = "granted"
    BY DEF At
  <2>2. Sound(req[r], members, rootOwns)
    BY <2>1 DEF RInv, RequestsSound
  <2> QED
    BY <2>1, <2>2 DEF Sound, Good
<1> QED
  BY <1>1, <1>2, <1>3, PTL DEF Spec

\* However long the chain of owners and whatever was revoked meanwhile, callers
\* write assignments only at and below scopes that root gave away.
THEOREM AuthorityAlwaysFromRoot == Spec => []AuthorityFromRoot
<1>1. Init => RInv
  BY InitInv
<1>2. RInv /\ [Next]_vars => RInv'
  BY Inductive
<1>3. RInv => AuthorityFromRoot
  BY DEF RInv
<1> QED
  BY <1>1, <1>2, <1>3, PTL DEF Spec

-----------------------------------------------------------------------------
(* The verdict of a request during which nothing was written.              *)

\* How deep a group is nested.
Depth == CHOOSE depth \in [Group -> 0 .. groupExpandMaxDepth - 1] :
            \A e \in Nested : depth[e[1]] < depth[e[2]]

\* Whom request q looks for is in no group that it has listed, and every group
\* nested in one of these is listed or pending, at a depth that is followed.
Explored(q, ms) ==
    /\ q.cur.who # q.who /\ q.cur.who \in q.seen \cup {x[1] : x \in q.pending}
    /\ \A e \in Nested : e[1] \in q.seen => e[2] \in q.seen \cup {x[1] : x \in q.pending}
    /\ \A g \in q.seen : <<g, q.who>> \notin ms
    /\ \A x \in q.pending : x[2] <= Depth[x[1]]

\* The groups directly in a pending one, to be listed next.
Inner(p) == {<<e[2], p[2] + 1>> : e \in {y \in Nested : y[1] = p[1]}}

Entitles(a, q, ms) == Grants(a, q.act, q.scope) /\ Names(a, q.who, ms)

\* An entitling row is still to come: at a scope above, among those listed, or the
\* one whose groups are being listed.
Ahead(a, q, ms) ==
    /\ a.scope \in Up[q.at]
    /\ q.pc = "groups" /\ a.scope = q.at => a \in q.todo \/ (a = q.cur /\ Explored(q, ms))

\* A quiet request has missed no row so far and holds rows of the table.
Thorough(q, rs, ms) ==
    q.quiet =>
       /\ q.entitled <=> \E a \in rs : Entitles(a, q, ms)
       /\ q.todo \subseteq rs /\ (q.pending # {} => q.cur \in rs)
       /\ q.pc = "granted" => q.by \in rs
       /\ q.pc # "granted" => \A a \in rs : Entitles(a, q, ms) => Ahead(a, q, ms)

RequestsThorough == \A r \in Req : req[r] # Idle => Thorough(req[r], rows, members)

\* The inductive invariant with the quiet requests.
QInv == RInv /\ RequestsThorough

LEMMA DepthType ==
    /\ Depth \in [Group -> 0 .. groupExpandMaxDepth - 1]
    /\ \A e \in Nested : Depth[e[1]] < Depth[e[2]]
BY ShallowNesting, Zenon DEF Depth

\* When nothing is pending, the row whose groups were listed is not for the caller.
LEMMA ExploredAll ==
    ASSUME NEW q \in Request, NEW ms, Explored(q, ms), q.pending = {}
    PROVE  ~ Names(q.cur, q.who, ms)
<1>1. /\ q.cur.who # q.who /\ q.cur.who \in q.seen /\ q.seen \in SUBSET Group
      /\ \A e \in Nested : e[1] \in q.seen => e[2] \in q.seen
      /\ \A g \in q.seen : <<g, q.who>> \notin ms
  BY DEF Explored, Request
<1>2. \A g : Deep(q.cur.who, g) => g \in q.seen
  BY <1>1 DEF Deep
<1> QED
  BY <1>1, <1>2 DEF Names

\* A step of request r alone.
LEMMA OneThorough ==
    ASSUME QInv, NEW r \in Req, NEW q, req' = [req EXCEPT ![r] = q], UNCHANGED <<rows, members>>,
           q # Idle => Thorough(q, rows, members)
    PROVE  RequestsThorough'
BY DEF QInv, RInv, TypeOK, RequestsThorough

\* A write ends every quiet request's quiet.
LEMMA NotedThorough ==
    ASSUME QInv, NEW done, NEW rs, NEW ms, req' = Noted(done, rs, ms)
    PROVE  RequestsThorough'
<1> SUFFICES ASSUME NEW r \in Req, req'[r] # Idle PROVE ~ req'[r].quiet
  BY DEF RequestsThorough, Thorough
<1>1. PICK q : q = req[r]
  OBVIOUS
<1>2. PICK c : c = (q.entitled \/ Entitled(rs, ms, q.who, q.act, q.scope))
  OBVIOUS
<1>3. q # Idle /\ req'[r] = [q EXCEPT !.quiet = FALSE, !.entitled = c]
  BY <1>1, <1>2 DEF Noted
<1>4. q \in Request
  BY <1>1, <1>3 DEF QInv, RInv, TypeOK
<1> QED
  BY <1>3, <1>4 DEF Request

LEMMA StartedThorough ==
    ASSUME QInv, NEW r \in Req, NEW p, NEW act, NEW s \in Scope, NEW op, NEW a,
           Begin(r, p, act, s, op, a)
    PROVE  RequestsThorough'
<1>1. PICK c : c = Entitled(rows, members, p, act, s)
  OBVIOUS
<1> DEFINE q == [pc |-> "scope", who |-> p, act |-> act, scope |-> s, op |-> op, row |-> a,
                 at |-> s, todo |-> {}, cur |-> NoRow, pending |-> {}, seen |-> {},
                 by |-> NoRow, entitled |-> c, quiet |-> TRUE]
<1>2. req' = [req EXCEPT ![r] = q] /\ UNCHANGED <<rows, members>>
  BY <1>1 DEF Begin
<1>3. /\ q.pc = "scope" /\ q.who = p /\ q.act = act /\ q.scope = s /\ q.at = s /\ q.todo = {}
      /\ q.pending = {} /\ q.entitled = c
  OBVIOUS
<1> HIDE DEF q
<1>4. q.entitled <=> \E x \in rows : Entitles(x, q, members)
  BY <1>1, <1>3 DEF Entitled, Entitles
<1>5. \A x \in rows : Entitles(x, q, members) => Ahead(x, q, members)
  BY <1>3 DEF Entitles, Grants, Ahead
<1>6. Thorough(q, rows, members)
  BY <1>3, <1>4, <1>5 DEF Thorough
<1> QED
  BY <1>2, <1>6, OneThorough

LEMMA ListedThorough ==
    ASSUME QInv, NEW r \in Req, ListScope(r)
    PROVE  RequestsThorough'
<1>1. PICK q : q = req[r]
  OBVIOUS
<1>2. q \in Request /\ q # Idle /\ q.pc = "scope" /\ Thorough(q, rows, members)
  BY <1>1 DEF ListScope, At, QInv, RInv, TypeOK, RequestsThorough
<1>3. PICK t : t = {a \in rows : Relevant(a, q)}
  OBVIOUS
<1>4. PICK n : n = [q EXCEPT !.pc = "groups", !.todo = t]
  OBVIOUS
<1>5. req' = [req EXCEPT ![r] = n] /\ UNCHANGED <<rows, members>>
  BY <1>1, <1>3, <1>4 DEF ListScope, QInv, RInv, TypeOK
<1>6. /\ n.pc = "groups" /\ n.todo = t /\ n.at = q.at /\ n.scope = q.scope /\ n.act = q.act
      /\ n.who = q.who /\ n.pending = q.pending /\ n.cur = q.cur /\ n.seen = q.seen
      /\ n.quiet = q.quiet /\ n.entitled = q.entitled
  BY <1>2, <1>4 DEF Request
<1>7. \A a : Entitles(a, n, members) <=> Entitles(a, q, members)
  BY <1>6 DEF Entitles
<1>8. ASSUME NEW a \in rows, Entitles(a, q, members), a.scope = q.at PROVE a \in t
  BY <1>3, <1>8 DEF Entitles, Grants, Names, Relevant
<1>9. t \subseteq rows
  BY <1>3
<1>10. Thorough(n, rows, members)
  <2> SUFFICES ASSUME n.quiet
               PROVE  /\ n.entitled <=> \E a \in rows : Entitles(a, n, members)
                      /\ n.todo \subseteq rows /\ (n.pending # {} => n.cur \in rows)
                      /\ \A a \in rows : Entitles(a, n, members) => Ahead(a, n, members)
    BY <1>6 DEF Thorough
  <2>1. n.entitled <=> \E a \in rows : Entitles(a, n, members)
    BY <1>2, <1>6, <1>7 DEF Thorough
  <2>2. n.todo \subseteq rows /\ (n.pending # {} => n.cur \in rows)
    BY <1>2, <1>6, <1>9 DEF Thorough
  <2>3. ASSUME NEW a \in rows, Entitles(a, n, members) PROVE Ahead(a, n, members)
    <3>1. Entitles(a, q, members) /\ a.scope \in Up[q.at]
      BY <1>2, <1>6, <1>7, <2>3 DEF Thorough, Ahead
    <3> QED
      BY <1>6, <1>8, <3>1 DEF Ahead
  <2> QED
    BY <2>1, <2>2, <2>3
<1> QED
  BY <1>5, <1>10, OneThorough

LEMMA TakenThorough ==
    ASSUME QInv, NEW r \in Req, NextRow(r)
    PROVE  RequestsThorough'
<1>1. PICK q : q = req[r]
  OBVIOUS
<1>2. /\ q \in Request /\ q # Idle /\ q.pc = "groups" /\ q.pending = {}
      /\ Thorough(q, rows, members) /\ Sound(q, members, rootOwns)
  BY <1>1 DEF NextRow, At, QInv, RInv, TypeOK, RequestsThorough, RequestsSound
<1>3. PICK a \in q.todo :
        IF a.who = q.who
        THEN req' = [req EXCEPT ![r].pc = "granted", ![r].by = a]
        ELSE req' = [req EXCEPT ![r].todo = @ \ {a}, ![r].cur = a,
                                ![r].pending = {<<a.who, 0>>}, ![r].seen = {}]
  BY <1>1 DEF NextRow
<1>4. UNCHANGED <<rows, members>> /\ req \in [Req -> Request \cup {Idle}]
  BY DEF NextRow, QInv, RInv, TypeOK
<1>5. CASE a.who = q.who
  <2>1. PICK n : n = [q EXCEPT !.pc = "granted", !.by = a]
    OBVIOUS
  <2>2. req' = [req EXCEPT ![r] = n]
    BY <1>1, <1>3, <1>4, <1>5, <2>1
  <2>3. /\ n.pc = "granted" /\ n.by = a /\ n.todo = q.todo /\ n.scope = q.scope /\ n.act = q.act
        /\ n.who = q.who /\ n.pending = q.pending /\ n.quiet = q.quiet /\ n.entitled = q.entitled
    BY <1>2, <2>1 DEF Request
  <2>4. \A x : Entitles(x, n, members) <=> Entitles(x, q, members)
    BY <2>3 DEF Entitles
  <2>5. Thorough(n, rows, members)
    BY <1>2, <2>3, <2>4 DEF Thorough
  <2> QED
    BY <1>4, <2>2, <2>5, OneThorough
<1>6. CASE a.who # q.who
  <2>1. PICK n : n = [q EXCEPT !.todo = @ \ {a}, !.cur = a, !.pending = {<<a.who, 0>>}, !.seen = {}]
    OBVIOUS
  <2>2. req' = [req EXCEPT ![r] = n]
    BY <1>1, <1>3, <1>4, <1>6, <2>1
  <2>3. /\ n.pc = "groups" /\ n.at = q.at /\ n.cur = a /\ n.todo = q.todo \ {a} /\ n.scope = q.scope
        /\ n.act = q.act /\ n.who = q.who /\ n.pending = {<<a.who, 0>>} /\ n.seen = {}
        /\ n.quiet = q.quiet /\ n.entitled = q.entitled
    BY <1>2, <2>1 DEF Request
  <2>4. \A x : Entitles(x, n, members) <=> Entitles(x, q, members)
    BY <2>3 DEF Entitles
  <2>5. Explored(n, members)
    <3>1. a.who \in Group
      BY <1>2, <1>6 DEF Sound
    <3>2. 0 <= Depth[a.who]
      BY <3>1, DepthType DEF groupExpandMaxDepth
    <3>3. \A x \in n.pending : x = <<a.who, 0>> /\ x[1] = a.who /\ x[2] = 0
      BY <2>3
    <3>4. <<a.who, 0>> \in n.pending /\ <<a.who, 0>>[1] = a.who
      BY <2>3
    <3> QED
      BY <1>6, <2>3, <3>2, <3>3, <3>4 DEF Explored
  <2>6. Thorough(n, rows, members)
    <3> SUFFICES ASSUME n.quiet
                 PROVE  /\ n.entitled <=> \E x \in rows : Entitles(x, n, members)
                        /\ n.todo \subseteq rows /\ n.cur \in rows
                        /\ \A x \in rows : Entitles(x, n, members) => Ahead(x, n, members)
      BY <2>3 DEF Thorough
    <3>1. n.entitled <=> \E x \in rows : Entitles(x, n, members)
      BY <1>2, <2>3, <2>4 DEF Thorough
    <3>2. n.todo \subseteq rows /\ n.cur \in rows
      BY <1>2, <2>3 DEF Thorough
    <3>3. ASSUME NEW x \in rows, Entitles(x, n, members) PROVE Ahead(x, n, members)
      <4>1. Entitles(x, q, members) /\ Ahead(x, q, members)
        BY <1>2, <2>3, <2>4, <3>3 DEF Thorough
      <4>2. ~ (x = q.cur /\ Explored(q, members))
        BY <1>2, <4>1, ExploredAll DEF Entitles
      <4>3. x.scope = q.at => x \in q.todo
        BY <1>2, <4>1, <4>2 DEF Ahead
      <4>4. x \in q.todo => x \in n.todo \/ x = n.cur
        BY <2>3
      <4> QED
        BY <2>3, <2>5, <4>1, <4>3, <4>4 DEF Ahead
    <3> QED
      BY <3>1, <3>2, <3>3
  <2> QED
    BY <1>4, <2>2, <2>6, OneThorough
<1> QED
  BY <1>5, <1>6

\* One more group is listed, and the groups nested in it are pending.
LEMMA ExploredMore ==
    ASSUME NEW q \in Request, NEW ms, Explored(q, ms),
           NEW p \in q.pending, <<p[1], q.who>> \notin ms,
           NEW n, n.cur = q.cur, n.who = q.who, n.seen = q.seen \cup {p[1]},
           n.pending = {x \in (q.pending \ {p}) \cup Inner(p) :
                          x[1] \notin n.seen /\ x[2] < groupExpandMaxDepth}
    PROVE  Explored(n, ms)
<1>1. /\ \A x \in q.pending : x[1] \in Group /\ x[2] \in Nat /\ x[2] <= Depth[x[1]]
      /\ p[1] \in Group /\ p[2] \in Nat /\ p[2] <= Depth[p[1]]
  BY DEF Explored, Request
<1>2. \A g \in Group : Depth[g] \in Nat /\ Depth[g] < groupExpandMaxDepth
  BY DepthType DEF groupExpandMaxDepth
<1>3. ASSUME NEW e \in Nested, e[1] = p[1]
      PROVE  p[2] + 1 <= Depth[e[2]] /\ p[2] + 1 < groupExpandMaxDepth
  <2>1. e[2] \in Group
    BY Directory
  <2>2. Depth[p[1]] < Depth[e[2]]
    BY <1>3, DepthType
  <2> QED
    BY <1>1, <1>2, <2>1, <2>2 DEF groupExpandMaxDepth
<1>4. \A x \in q.pending : x[2] < groupExpandMaxDepth
  BY <1>1, <1>2 DEF groupExpandMaxDepth
<1>5. \A x \in q.pending : x[1] \in n.seen \/ x \in n.pending
  BY <1>4
<1>6. ASSUME NEW e \in Nested, e[1] = p[1]
      PROVE  e[2] \in n.seen \/ \E x \in n.pending : x[1] = e[2]
  <2>1. PICK x : x = <<e[2], p[2] + 1>>
    OBVIOUS
  <2>2. x \in Inner(p) /\ x[1] = e[2] /\ x[2] = p[2] + 1
    BY <1>6, <2>1 DEF Inner
  <2> QED
    BY <1>3, <1>6, <2>2
<1>7. \A x \in n.pending : x[2] <= Depth[x[1]]
  <2> SUFFICES ASSUME NEW x \in n.pending PROVE x[2] <= Depth[x[1]]
    OBVIOUS
  <2>1. CASE x \in q.pending
    BY <1>1, <2>1
  <2>2. CASE x \in Inner(p)
    <3>1. PICK e \in Nested : e[1] = p[1] /\ x = <<e[2], p[2] + 1>>
      BY <2>2 DEF Inner
    <3> QED
      BY <1>3, <3>1
  <2> QED
    BY <2>1, <2>2
<1>8. n.cur.who \in n.seen \cup {x[1] : x \in n.pending}
  BY <1>5 DEF Explored
<1>9. \A e \in Nested : e[1] \in n.seen => e[2] \in n.seen \cup {x[1] : x \in n.pending}
  <2> SUFFICES ASSUME NEW e \in Nested, e[1] \in n.seen
               PROVE  e[2] \in n.seen \cup {x[1] : x \in n.pending}
    OBVIOUS
  <2>1. CASE e[1] \in q.seen
    <3>1. e[2] \in q.seen \/ \E x \in q.pending : x[1] = e[2]
      BY <2>1 DEF Explored
    <3> QED
      BY <1>5, <3>1
  <2>2. CASE e[1] = p[1]
    BY <1>6, <2>2
  <2> QED
    BY <2>1, <2>2
<1>10. n.cur.who # n.who /\ \A g \in n.seen : <<g, n.who>> \notin ms
  BY DEF Explored
<1> QED
  BY <1>7, <1>8, <1>9, <1>10 DEF Explored

LEMMA MembersThorough ==
    ASSUME QInv, NEW r \in Req, ListMembers(r)
    PROVE  RequestsThorough'
<1> DEFINE q == req[r]
<1>1. q = req[r]
  OBVIOUS
<1>2. /\ q \in Request /\ q # Idle /\ q.pc = "groups" /\ Thorough(q, rows, members)
  BY DEF ListMembers, At, QInv, RInv, TypeOK, RequestsThorough
<1> DEFINE left(p) == {x \in (q.pending \ {p}) \cup Inner(p) :
                         x[1] \notin q.seen \cup {p[1]} /\ x[2] < groupExpandMaxDepth}
<1>3. UNCHANGED <<rows, members>> /\ req \in [Req -> Request \cup {Idle}]
  BY DEF ListMembers, QInv, RInv, TypeOK
<1>4. PICK p \in q.pending :
        IF <<p[1], q.who>> \in members
        THEN req' = [req EXCEPT ![r].pc = "granted", ![r].by = q.cur]
        ELSE req' = [req EXCEPT ![r].seen = @ \cup {p[1]}, ![r].pending = left(p)]
  BY <1>3 DEF ListMembers, Inner
<1> HIDE DEF q
<1>5. CASE <<p[1], q.who>> \in members
  <2>1. PICK n : n = [q EXCEPT !.pc = "granted", !.by = q.cur]
    OBVIOUS
  <2>2. req' = [req EXCEPT ![r] = n]
    BY <1>1, <1>3, <1>4, <1>5, <2>1
  <2>3. /\ n.pc = "granted" /\ n.by = q.cur /\ n.todo = q.todo /\ n.scope = q.scope /\ n.act = q.act
        /\ n.who = q.who /\ n.pending = q.pending /\ n.cur = q.cur
        /\ n.quiet = q.quiet /\ n.entitled = q.entitled
    BY <1>2, <2>1 DEF Request
  <2>4. \A x : Entitles(x, n, members) <=> Entitles(x, q, members)
    BY <2>3 DEF Entitles
  <2>5. Thorough(n, rows, members)
    BY <1>2, <2>3, <2>4 DEF Thorough
  <2> QED
    BY <1>3, <2>2, <2>5, OneThorough
<1>6. CASE <<p[1], q.who>> \notin members
  <2>1. PICK l : l = left(p)
    OBVIOUS
  <2>2. PICK n : n = [q EXCEPT !.seen = @ \cup {p[1]}, !.pending = l]
    OBVIOUS
  <2>3. req' = [req EXCEPT ![r] = n]
    BY <1>1, <1>3, <1>4, <1>6, <2>1, <2>2
  <2>4. /\ n.pc = "groups" /\ n.at = q.at /\ n.cur = q.cur /\ n.todo = q.todo /\ n.scope = q.scope
        /\ n.act = q.act /\ n.who = q.who /\ n.pending = l /\ n.seen = q.seen \cup {p[1]}
        /\ n.quiet = q.quiet /\ n.entitled = q.entitled
    BY <1>2, <2>2 DEF Request
  <2>5. n.pending = {x \in (q.pending \ {p}) \cup Inner(p) :
                       x[1] \notin n.seen /\ x[2] < groupExpandMaxDepth}
    BY <2>1, <2>4
  <2>6. Explored(q, members) => Explored(n, members)
    BY <1>2, <1>6, <2>4, <2>5, ExploredMore
  <2>7. \A x : Entitles(x, n, members) <=> Entitles(x, q, members)
    BY <2>4 DEF Entitles
  <2>8. \A x : Ahead(x, q, members) => Ahead(x, n, members)
    BY <1>2, <2>4, <2>6 DEF Ahead
  <2> HIDE DEF left
  <2>9. Thorough(n, rows, members)
    BY <1>2, <2>4, <2>7, <2>8 DEF Thorough
  <2> QED
    BY <1>3, <2>3, <2>9, OneThorough
<1> QED
  BY <1>5, <1>6

\* A scope that is left, or the last one, entitled the caller to nothing.
LEMMA ScopeIsDone ==
    ASSUME NEW q \in Request, NEW rs, NEW ms, Thorough(q, rs, ms), q.quiet, q.pc = "groups",
           q.todo = {}, q.pending = {}, NEW a \in rs, Entitles(a, q, ms)
    PROVE  a.scope \in Up[q.at] /\ a.scope # q.at
<1>1. Ahead(a, q, ms)
  BY DEF Thorough
<1>2. ~ (a = q.cur /\ Explored(q, ms))
  BY ExploredAll DEF Entitles
<1> QED
  BY <1>1, <1>2 DEF Ahead

LEMMA LeftThorough ==
    ASSUME QInv, NEW r \in Req, NextScope(r)
    PROVE  RequestsThorough'
<1>1. PICK q : q = req[r]
  OBVIOUS
<1>2. /\ q \in Request /\ q # Idle /\ q.pc = "groups" /\ q.todo = {} /\ q.pending = {}
      /\ Parent[q.at] # NoScope /\ Thorough(q, rows, members) /\ q.at \in Scope
  BY <1>1 DEF NextScope, At, QInv, RInv, TypeOK, RequestsThorough, Request
<1>3. PICK n : n = [q EXCEPT !.pc = "scope", !.at = Parent[q.at]]
  OBVIOUS
<1>4. req' = [req EXCEPT ![r] = n] /\ UNCHANGED <<rows, members>>
  BY <1>1, <1>3 DEF NextScope, QInv, RInv, TypeOK
<1>5. /\ n.pc = "scope" /\ n.at = Parent[q.at] /\ n.todo = {} /\ n.pending = {} /\ n.scope = q.scope
      /\ n.act = q.act /\ n.who = q.who /\ n.quiet = q.quiet /\ n.entitled = q.entitled
  BY <1>2, <1>3 DEF Request
<1>6. \A x : Entitles(x, n, members) <=> Entitles(x, q, members)
  BY <1>5 DEF Entitles
<1>7. Up[q.at] = {q.at} \cup Up[Parent[q.at]]
  BY <1>2, ScopeTree
<1>8. ASSUME q.quiet, NEW x \in rows, Entitles(x, n, members) PROVE Ahead(x, n, members)
  <2>1. x.scope \in Up[q.at] /\ x.scope # q.at
    BY <1>2, <1>6, <1>8, ScopeIsDone
  <2> QED
    BY <1>5, <1>7, <2>1 DEF Ahead
<1>9. Thorough(n, rows, members)
  BY <1>2, <1>5, <1>6, <1>8 DEF Thorough
<1> QED
  BY <1>4, <1>9, OneThorough

LEMMA QuietStep == QInv /\ [Next]_vars => QInv'
<1> SUFFICES ASSUME QInv, [Next]_vars PROVE RequestsThorough'
  BY Inductive DEF QInv
<1>1. ASSUME NEW a, RootPut(a) \/ RootDelete(a) PROVE RequestsThorough'
  <2>1. \E rs : req' = Noted({}, rs, members)
    BY <1>1 DEF RootPut, RootDelete, UpsertRoleAssignment, DeleteRoleAssignment
  <2> QED
    BY <2>1, NotedThorough
<1>2. ASSUME NEW g, NEW m, AddGroupMember(g, m) PROVE RequestsThorough'
  <2>1. \E ms : req' = Noted({}, rows, ms)
    BY <1>2 DEF AddGroupMember
  <2> QED
    BY <2>1, NotedThorough
<1>3. ASSUME NEW r \in Req, NEW p \in Principal, NEW a \in PutInput, BeginPut(r, p, a)
      PROVE  RequestsThorough'
  <2>1. a.scope \in Scope
    BY Inputs DEF Row
  <2> QED
    BY <1>3, <2>1, StartedThorough DEF BeginPut
<1>4. ASSUME NEW r \in Req, NEW p \in Principal, NEW i \in Id, BeginDelete(r, p, i)
      PROVE  RequestsThorough'
  <2>1. i.scope \in Scope
    BY DEF Id
  <2> QED
    BY <1>4, <2>1, StartedThorough DEF BeginDelete
<1>5. ASSUME NEW r \in Req, NEW p \in Principal, NEW act \in Asked, NEW s \in Scope,
             BeginUse(r, p, act, s)
      PROVE  RequestsThorough'
  BY <1>5, StartedThorough DEF BeginUse
<1>6. ASSUME NEW r \in Req, Deny(r) PROVE RequestsThorough'
  BY <1>6, OneThorough DEF Deny, Finish
<1>7. ASSUME NEW r \in Req, Commit(r) PROVE RequestsThorough'
  <2>1. (\E rs : req' = Noted({r}, rs, members)) \/ (Finish(r) /\ UNCHANGED <<rows, members>>)
    BY <1>7 DEF Commit, UpsertRoleAssignment, DeleteRoleAssignment
  <2> QED
    BY <2>1, NotedThorough, OneThorough DEF Finish
<1>8. ASSUME NEW r \in Req, ListScope(r) \/ NextRow(r) \/ ListMembers(r) \/ NextScope(r)
      PROVE  RequestsThorough'
  BY <1>8, ListedThorough, TakenThorough, MembersThorough, LeftThorough
<1>9. CASE UNCHANGED vars
  BY <1>9 DEF vars, QInv, RequestsThorough
<1> QED
  BY <1>1, <1>2, <1>3, <1>4, <1>5, <1>6, <1>7, <1>8, <1>9 DEF Next

\* While nothing is written, Evaluate computes what it should, for every tree of
\* scopes and every nesting of groups the depth limit allows: it denies nobody who
\* is entitled and grants to nobody who is not, in whatever order it takes the rows
\* and the groups (Evaluate, principalMatches, groupContains).
THEOREM QuietAlwaysRight == Spec => QuietVerdict
<1>1. Init => QInv
  BY InitInv DEF QInv, RequestsThorough, Init
<1>2. QInv /\ [Next]_vars => QInv'
  BY QuietStep
<1>3. ASSUME QInv, NEW r \in Req
      PROVE  /\ Deny(r) => ~ (req[r].quiet /\ req[r].entitled)
             /\ At(r, "granted") /\ req[r].quiet => req[r].entitled
  <2>1. PICK q : q = req[r]
    OBVIOUS
  <2>2. q # Idle => /\ q \in Request /\ Thorough(q, rows, members)
                    /\ Sound(q, members, rootOwns)
    BY <1>3, <2>1 DEF QInv, RInv, TypeOK, RequestsThorough, RequestsSound
  <2>3. ASSUME Deny(r), q.quiet, q.entitled PROVE FALSE
    <3>1. /\ q # Idle /\ q.pc = "groups" /\ q.todo = {} /\ q.pending = {} /\ Parent[q.at] = NoScope
          /\ q.at \in Scope
      BY <2>1, <2>2, <2>3 DEF Deny, At, Request
    <3>2. PICK a \in rows : Entitles(a, q, members)
      BY <2>2, <2>3, <3>1 DEF Thorough
    <3>3. a.scope \in Up[q.at] /\ a.scope # q.at
      BY <2>2, <2>3, <3>1, <3>2, ScopeIsDone
    <3>4. Up[q.at] = {q.at}
      BY <3>1, ScopeTree
    <3> QED
      BY <3>3, <3>4
  <2>4. ASSUME At(r, "granted"), q.quiet PROVE q.entitled
    <3>1. q # Idle /\ q.pc = "granted"
      BY <2>1, <2>4 DEF At
    <3>2. q.by \in rows
      BY <2>2, <2>4, <3>1 DEF Thorough
    <3>3. Entitles(q.by, q, members)
      BY <2>2, <3>1 DEF Sound, Good, Entitles
    <3> QED
      BY <2>2, <2>4, <3>1, <3>2, <3>3 DEF Thorough
  <2> QED
    BY <2>1, <2>3, <2>4
<1>4. QInv => [\A r \in Req :
                  /\ Deny(r) => ~ (req[r].quiet /\ req[r].entitled)
                  /\ At(r, "granted") /\ req[r].quiet => req[r].entitled]_vars
  BY <1>3
<1> QED
  BY <1>1, <1>2, <1>4, PTL DEF Spec, QuietVerdict

=============================================================================
