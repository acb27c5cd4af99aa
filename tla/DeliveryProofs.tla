--------------------------- MODULE DeliveryProofs ---------------------------
(***************************************************************************)
(* What the container registry, Event Grid, Service Bus topics and Event   *)
(* Hubs promise, for every set of callers, requests and topics and for     *)
(* every bound on sessions, events and sends.  The four share no variable: *)
(* each section proves its component's invariants of its own specification.*)
(***************************************************************************)
EXTENDS Registry, EventHubs, ServiceBusTopics, EventGrid,
        FiniteSetTheorems, SequenceTheorems, WellFoundedInduction, TLAPS

-----------------------------------------------------------------------------
(* Container registry.                                                     *)

\* The history of a request has what is true now.
Noticed(q) == Held(roles, q.of) \subseteq q.held /\ arm \subseteq q.rows

\* A request that was let through may push, and one that is being looked at has
\* the group of a row that was there.  What it carries when it is about to write.
PushInv ==
    \A r \in Req : req[r] # Idle =>
       /\ Noticed(req[r])
       /\ req[r].step \in {"registry", "group"} => req[r].group \in req[r].rows
       /\ req[r].step = "go" /\ req[r].op # "read" => MayPush(req[r])
       /\ req[r].op = "finish" => /\ req[r].id \in 1 .. MaxUpload /\ req[r].content \in Content
                                  /\ req[r].digest = Digest(req[r].content)
       /\ req[r].op = "digest" => req[r].repo \in Repo /\ req[r].content \in Content

\* An open session was never finished, nor was one that is yet to be opened.
SessionInv ==
    \A id \in 1 .. MaxUpload :
       /\ finished[id] \in {0, 1}
       /\ id \in uploads => finished[id] = 0 /\ id < nextUpload
       /\ id >= nextUpload => finished[id] = 0

\* The inductive invariant of the registry.
RegInv == TypeOK /\ DigestNamesContent /\ AnsweredIsPullable /\ PushInv /\ SessionInv

LEMMA DigestType == \A c \in Content : Digest(c) \in Digests /\ Digest(c) \in Reference
BY DEF Digests, Reference

LEMMA RequestFields ==
    ASSUME NEW q \in Request
    PROVE  /\ q.of \in Principal /\ q.id \in 0 .. MaxUpload /\ q.repo \in Repo \cup {None}
           /\ q.digest \in Digests \cup {None} /\ q.content \in Content \cup {None}
           /\ q.held \subseteq RegScope /\ q.rows \subseteq RGroup
BY DEF Request

\* A request that waits or ends carries nothing that the invariant asks about.
LEMMA FinishKeeps ==
    ASSUME TypeOK, PushInv, NEW r \in Req, Finish(r), UNCHANGED <<arm, roles>>
    PROVE  PushInv' /\ req' \in [Req -> Request \cup {Idle}]
BY DEF TypeOK, PushInv, Finish, Noticed

\* The other requests are left alone, and this one keeps the invariant.
LEMMA RequestKeeps ==
    ASSUME TypeOK, PushInv, NEW r \in Req, NEW v \in Request,
           req' = [req EXCEPT ![r] = v], UNCHANGED <<arm, roles>>,
           Noticed(v), v.step \in {"registry", "group"} => v.group \in v.rows,
           v.step = "go" /\ v.op # "read" => MayPush(v),
           v.op = "finish" => /\ v.id \in 1 .. MaxUpload /\ v.content \in Content
                              /\ v.digest = Digest(v.content),
           v.op = "digest" => v.repo \in Repo /\ v.content \in Content
    PROVE  PushInv' /\ req' \in [Req -> Request \cup {Idle}]
BY DEF TypeOK, PushInv, Noticed

LEMMA RegistryInit == Init => RegInv
<1> SUFFICES ASSUME Init PROVE RegInv
  OBVIOUS
<1> USE DEF Init
<1>1. TypeOK
  <2>1. tokens \subseteq Token
    BY DEF Token
  <2>2. blobs \in [Digests -> Content \cup {None}]
    OBVIOUS
  <2>3. manifests \in [Repo -> [Reference -> Manifest \cup {None}]]
    OBVIOUS
  <2>4. nextUpload \in 1 .. (MaxUpload + 1) /\ finished \in [1 .. MaxUpload -> Nat]
    BY RegistryAssumption
  <2> QED
    BY <2>1, <2>2, <2>3, <2>4 DEF TypeOK
<1>2. PushInv /\ AnsweredIsPullable
  BY DEF PushInv, AnsweredIsPullable
<1>3. DigestNamesContent
  BY DigestType DEF DigestNamesContent, GetBlob, GetManifest
<1>4. SessionInv
  BY RegistryAssumption DEF SessionInv
<1> QED
  BY <1>1, <1>2, <1>3, <1>4 DEF RegInv

\* A change of the roles or of the ARM row is noticed by every request.
LEMMA NoticeInv ==
    ASSUME RegInv, NEW rs \in SUBSET Assignable, NEW groups \in SUBSET RGroup,
           Notice(rs, groups),
           UNCHANGED <<tokens, nextUpload, uploads, blobs, manifests, finished, answered, misput>>
    PROVE  RegInv'
<1> USE DEF RegInv
<1>1. ASSUME NEW r \in Req, req[r] # Idle
      PROVE  /\ req'[r] \in Request
             /\ req'[r].op = req[r].op /\ req'[r].id = req[r].id /\ req'[r].repo = req[r].repo
             /\ req'[r].digest = req[r].digest /\ req'[r].content = req[r].content
             /\ req'[r].step = req[r].step /\ req'[r].of = req[r].of
             /\ req'[r].group = req[r].group
             /\ req'[r].held = req[r].held \cup Held(rs, req[r].of)
             /\ req'[r].rows = req[r].rows \cup groups
  <2>1. req[r] \in Request
    BY <1>1 DEF TypeOK
  <2>2. req'[r] = [req[r] EXCEPT !.held = @ \cup Held(rs, req[r].of), !.rows = @ \cup groups]
    BY <1>1 DEF Notice
  <2>3. /\ req[r].held \cup Held(rs, req[r].of) \in SUBSET RegScope
        /\ req[r].rows \cup groups \in SUBSET RGroup
    BY <2>1 DEF Request, Held
  <2> QED
    BY <2>1, <2>2, <2>3 DEF Request
<1>2. TypeOK'
  BY <1>1 DEF TypeOK, Notice
<1>3. \A r \in Req : req[r] = Idle => req'[r] = Idle
  BY DEF Notice
<1>4. PushInv'
  <2> SUFFICES ASSUME NEW r \in Req, req'[r] # Idle
               PROVE  /\ Noticed(req[r])'
                      /\ req'[r].step \in {"registry", "group"} => req'[r].group \in req'[r].rows
                      /\ req'[r].step = "go" /\ req'[r].op # "read" => MayPush(req'[r])
                      /\ req'[r].op = "finish" => /\ req'[r].id \in 1 .. MaxUpload
                                                  /\ req'[r].content \in Content
                                                  /\ req'[r].digest = Digest(req'[r].content)
                      /\ req'[r].op = "digest" => req'[r].repo \in Repo /\ req'[r].content \in Content
    BY DEF PushInv
  <2>1. req[r] # Idle
    BY <1>3
  <2>2. Noticed(req[r])'
    <3>1. roles' = rs /\ arm' = groups
      BY DEF Notice
    <3>2. /\ req'[r].of = req[r].of /\ req'[r].held = req[r].held \cup Held(rs, req[r].of)
          /\ req'[r].rows = req[r].rows \cup groups
      BY <1>1, <2>1
    <3>3. Held(roles', req'[r].of) = Held(rs, req[r].of)
      BY <3>1, <3>2 DEF Held
    <3> HIDE DEF RegInv
    <3> QED
      BY <3>1, <3>2, <3>3 DEF Noticed, Held
  <2>3. MayPush(req[r]) => MayPush(req'[r])
    BY <1>1, <2>1 DEF MayPush
  <2> QED
    BY <1>1, <2>1, <2>2, <2>3 DEF PushInv
<1> QED
  BY <1>2, <1>4 DEF DigestNamesContent, AnsweredIsPullable, SessionInv, GetBlob, GetManifest

LEMMA TokenInv ==
    ASSUME RegInv, NEW t \in tokens, NEW aud \in {"acr", "graph"}, NEW scope \in Scope,
           scope \in {"pull", "push"}, Oauth2Token(t, aud, scope)
    PROVE  RegInv'
<1> USE DEF RegInv, Oauth2Token
<1>1. tokens' \subseteq Token
  BY DEF TypeOK, Token
<1> QED
  BY <1>1 DEF TypeOK, DigestNamesContent, AnsweredIsPullable, SessionInv, PushInv, Noticed, GetBlob,
              GetManifest

\* A request begins: only root's is let through at once.
LEMMA BeginInv ==
    ASSUME RegInv, NEW r \in Req, NEW t \in tokens, NEW op \in {"start", "check", "tag", "read"},
           Begin(r, t, op)
    PROVE  RegInv'
<1> USE DEF RegInv
<1> DEFINE q == [step |-> RequireV2(t, op # "read"), op |-> op, of |-> t.of, group |-> None,
                 id |-> 0, repo |-> None, digest |-> None, content |-> None,
                 held |-> Held(roles, t.of), rows |-> arm]
<1>1. q \in Request
  <2>1. t.of \in Principal /\ arm \subseteq RGroup
    BY DEF TypeOK, Token
  <2>2. Held(roles, t.of) \subseteq RegScope
    BY DEF Held
  <2>3. RequireV2(t, op # "read") \in {"go", "row"}
    BY DEF RequireV2
  <2>4. 0 \in 0 .. MaxUpload
    BY RegistryAssumption
  <2> HIDE DEF Held, RequireV2
  <2> QED
    BY <2>1, <2>2, <2>3, <2>4 DEF Request
<1>2. req' = [req EXCEPT ![r] = q]
  BY DEF Begin
<1>3. /\ q.op # "finish" /\ q.op # "digest" /\ q.step \in {"go", "row"}
      /\ q.step = "go" => q.of = Root
  BY DEF RequireV2
<1>4. Noticed(q)
  BY DEF Noticed
<1> HIDE DEF q
<1>5. PushInv' /\ req' \in [Req -> Request \cup {Idle}]
  <2>1. UNCHANGED <<arm, roles>>
    BY DEF Begin
  <2>2. q.step = "go" => MayPush(q)
    BY <1>3 DEF MayPush
  <2> QED
    BY <1>1, <1>2, <1>3, <1>4, <2>1, <2>2, RequestKeeps
<1>6. TypeOK'
  BY <1>5 DEF TypeOK, Begin
<1> QED
  BY <1>5, <1>6 DEF DigestNamesContent, AnsweredIsPullable, SessionInv, GetBlob, GetManifest, Begin

\* The row that the scope is taken from is there.
LEMMA ScopeInv ==
    ASSUME RegInv, NEW r \in Req, RegistryAuthzScope(r)
    PROVE  RegInv'
<1> USE DEF RegInv
<1>1. req[r] \in Request /\ req[r] # Idle /\ Noticed(req[r]) /\ req[r].step = "row"
  BY DEF RegistryAuthzScope, TypeOK, PushInv
<1>2. UNCHANGED <<arm, roles, tokens, nextUpload, uploads, blobs, manifests, finished, answered,
                  misput>>
  BY DEF RegistryAuthzScope
<1>3. PushInv' /\ req' \in [Req -> Request \cup {Idle}]
  <2>1. CASE req' = [req EXCEPT ![r].step = "subscription"]
    <3> DEFINE v == [req[r] EXCEPT !.step = "subscription"]
    <3>1. req' = [req EXCEPT ![r] = v]
      BY <2>1, <1>1 DEF TypeOK
    <3>2. /\ v \in Request /\ v.step = "subscription" /\ v.op = req[r].op /\ v.of = req[r].of
          /\ v.held = req[r].held /\ v.rows = req[r].rows /\ v.id = req[r].id
          /\ v.repo = req[r].repo /\ v.digest = req[r].digest /\ v.content = req[r].content
      BY <1>1 DEF Request
    <3> HIDE DEF v
    <3>3. Noticed(v)
      BY <1>1, <3>2 DEF Noticed
    <3> QED
      BY <1>1, <1>2, <3>1, <3>2, <3>3, RequestKeeps DEF PushInv
  <2>2. ASSUME NEW g \in arm, req' = [req EXCEPT ![r].step = "registry", ![r].group = g]
        PROVE  PushInv' /\ req' \in [Req -> Request \cup {Idle}]
    <3> DEFINE v == [req[r] EXCEPT !.step = "registry", !.group = g]
    <3>1. req' = [req EXCEPT ![r] = v]
      BY <2>2, <1>1 DEF TypeOK, Request
    <3>2. /\ v \in Request /\ v.step = "registry" /\ v.op = req[r].op /\ v.of = req[r].of
          /\ v.held = req[r].held /\ v.rows = req[r].rows /\ v.id = req[r].id /\ v.group = g
          /\ v.repo = req[r].repo /\ v.digest = req[r].digest /\ v.content = req[r].content
      BY <1>1 DEF Request, TypeOK
    <3> HIDE DEF v
    <3>3. Noticed(v) /\ g \in v.rows
      BY <1>1, <3>2 DEF Noticed
    <3> QED
      BY <1>1, <1>2, <3>1, <3>2, <3>3, RequestKeeps DEF PushInv
  <2> QED
    BY <2>1, <2>2 DEF RegistryAuthzScope
<1>4. TypeOK'
  BY <1>2, <1>3 DEF TypeOK
<1> QED
  BY <1>2, <1>3, <1>4 DEF DigestNamesContent, AnsweredIsPullable, SessionInv, GetBlob, GetManifest

\* An assignment that lets a request through is one of its history, on a scope of
\* its row or on the subscription.
LEMMA EvaluateScopeInv ==
    ASSUME RegInv, NEW r \in Req, EvaluateScope(r)
    PROVE  RegInv'
<1> USE DEF RegInv
<1> DEFINE q     == req[r]
           scope == IF q.step = "subscription" THEN <<"subscription", None>> ELSE <<q.step, q.group>>
<1>1. /\ q \in Request /\ q # Idle /\ Noticed(q) /\ q.rows \subseteq RGroup
      /\ q.step \in {"registry", "group", "subscription"}
      /\ q.step \in {"registry", "group"} => q.group \in q.rows
  BY DEF EvaluateScope, TypeOK, PushInv, Request
<1>2. UNCHANGED <<arm, roles, tokens, nextUpload, uploads, blobs, manifests, finished, answered,
                  misput>>
  BY DEF EvaluateScope
<1>3. ASSUME NEW s \in {"registry", "group", "subscription", "go"},
             req' = [req EXCEPT ![r].step = s],
             s = "registry" => q.step = "registry",
             s = "group" => q.step = "registry",
             s = "go" /\ q.op # "read" => <<q.of, "push", scope>> \in roles
      PROVE  PushInv' /\ req' \in [Req -> Request \cup {Idle}]
  <2> DEFINE v == [q EXCEPT !.step = s]
  <2>1. req' = [req EXCEPT ![r] = v]
    BY <1>1, <1>3 DEF TypeOK
  <2>2. /\ v \in Request /\ v.step = s /\ v.op = q.op /\ v.of = q.of
        /\ v.held = q.held /\ v.rows = q.rows /\ v.id = q.id /\ v.group = q.group
        /\ v.repo = q.repo /\ v.digest = q.digest /\ v.content = q.content
    BY <1>1 DEF Request
  <2>3. scope \in RegScope
    BY <1>1 DEF RegScope
  <2>4. s = "go" /\ q.op # "read" => scope \in q.held
    BY <1>1, <1>3, <2>3 DEF Noticed, Held
  <2>5. s = "go" /\ q.op # "read" => MayPush(v)
    BY <1>1, <2>2, <2>4 DEF MayPush
  <2> HIDE DEF v, scope
  <2>6. Noticed(v)
    BY <1>1, <2>2 DEF Noticed
  <2> QED
    BY <1>1, <1>2, <1>3, <2>1, <2>2, <2>5, <2>6, RequestKeeps DEF PushInv
<1>4. PushInv' /\ req' \in [Req -> Request \cup {Idle}]
  <2>1. CASE <<q.of, IF q.op = "read" THEN "pull" ELSE "push", scope>> \in roles
    <3>1. req' = [req EXCEPT ![r].step = "go"]
      BY <2>1 DEF EvaluateScope
    <3> HIDE DEF scope
    <3> QED
      BY <2>1, <3>1, <1>3
  <2>2. CASE /\ <<q.of, IF q.op = "read" THEN "pull" ELSE "push", scope>> \notin roles
             /\ q.step = "subscription"
    <3>1. Finish(r)
      BY <2>2 DEF EvaluateScope
    <3> QED
      BY <1>2, <3>1, FinishKeeps
  <2>3. CASE /\ <<q.of, IF q.op = "read" THEN "pull" ELSE "push", scope>> \notin roles
             /\ q.step # "subscription"
    <3>1. req' = [req EXCEPT ![r].step = IF q.step = "registry" THEN "group" ELSE "subscription"]
      BY <2>3, <1>1 DEF EvaluateScope
    <3> HIDE DEF scope
    <3> QED
      BY <1>1, <3>1, <1>3
  <2> QED
    BY <2>1, <2>2, <2>3
<1>5. TypeOK'
  BY <1>2, <1>4 DEF TypeOK
<1> QED
  BY <1>2, <1>4, <1>5 DEF DigestNamesContent, AnsweredIsPullable, SessionInv, GetBlob, GetManifest

\* A session is opened under an id that was never used.
LEMMA StartUploadInv ==
    ASSUME RegInv, NEW r \in Req, StartUpload(r)
    PROVE  RegInv'
<1> USE DEF RegInv, StartUpload
<1>1. PushInv' /\ req' \in [Req -> Request \cup {Idle}]
  BY FinishKeeps
<1>2. nextUpload' \in 1 .. (MaxUpload + 1) /\ uploads' \subseteq 1 .. MaxUpload
  BY RegistryAssumption DEF TypeOK
<1>3. TypeOK'
  BY <1>1, <1>2 DEF TypeOK
<1>4. SessionInv'
  BY RegistryAssumption DEF SessionInv, TypeOK
<1> QED
  BY <1>1, <1>3, <1>4 DEF DigestNamesContent, AnsweredIsPullable, GetBlob, GetManifest

LEMMA CheckUploadInv ==
    ASSUME RegInv, NEW r \in Req, NEW id \in 1 .. MaxUpload, NEW d \in Digests, NEW c \in Content,
           CheckUpload(r, id, d, c)
    PROVE  RegInv'
<1> USE DEF RegInv
<1>1. PushInv' /\ req' \in [Req -> Request \cup {Idle}]
  <2>1. CASE id \in uploads /\ Digest(c) = d
    <3> DEFINE q == [req[r] EXCEPT !.op = "finish", !.id = id, !.digest = d, !.content = c]
    <3>1. req[r] \in Request
      BY DEF CheckUpload, At, TypeOK
    <3>2. req' = [req EXCEPT ![r] = q]
      BY <2>1, <3>1 DEF CheckUpload, TypeOK, Request
    <3>3. id \in 0 .. MaxUpload
      BY RegistryAssumption
    <3>4. /\ q \in Request /\ q.op = "finish" /\ q.id = id /\ q.digest = d /\ q.content = c
          /\ q.held = req[r].held /\ q.rows = req[r].rows /\ q.of = req[r].of
          /\ q.step = req[r].step
      BY <3>1, <3>3 DEF Request
    <3>5. MayPush(req[r]) /\ Noticed(req[r]) /\ req[r].step = "go"
      BY DEF CheckUpload, At, PushInv
    <3> HIDE DEF q
    <3>6. MayPush(q) /\ Noticed(q)
      BY <3>4, <3>5 DEF MayPush, Noticed
    <3>7. UNCHANGED <<arm, roles>>
      BY DEF CheckUpload
    <3> QED
      BY <2>1, <3>2, <3>4, <3>5, <3>6, <3>7, RequestKeeps
  <2>2. CASE ~(id \in uploads /\ Digest(c) = d)
    BY <2>2, FinishKeeps DEF CheckUpload
  <2> QED
    BY <2>1, <2>2
<1>2. UNCHANGED <<arm, roles, tokens, nextUpload, uploads, blobs, manifests, finished, answered,
                  misput>>
  BY DEF CheckUpload
<1>3. TypeOK'
  BY <1>1, <1>2 DEF TypeOK
<1> QED
  BY <1>1, <1>2, <1>3 DEF DigestNamesContent, AnsweredIsPullable, SessionInv, GetBlob, GetManifest

\* The session that ends was open, so this is the first time; its blob has the
\* digest that was compared before.
LEMMA FinishUploadInv ==
    ASSUME RegInv, NEW r \in Req, FinishUpload(r)
    PROVE  RegInv'
<1> USE DEF RegInv
<1>1. PushInv' /\ req' \in [Req -> Request \cup {Idle}]
  BY FinishKeeps DEF FinishUpload
<1>2. CASE req[r].id \in uploads
  <2> DEFINE id == req[r].id
             c  == req[r].content
  <2>1. id \in 1 .. MaxUpload /\ c \in Content /\ req[r].digest = Digest(c) /\ Digest(c) \in Digests
    BY DigestType DEF FinishUpload, At, PushInv
  <2>2. /\ blobs' = [blobs EXCEPT ![Digest(c)] = c] /\ uploads' = uploads \ {id}
        /\ finished' = [finished EXCEPT ![id] = @ + 1]
    BY <1>2, <2>1 DEF FinishUpload
  <2>3. UNCHANGED <<arm, roles, tokens, nextUpload, manifests, answered, misput>>
    BY DEF FinishUpload
  <2> HIDE DEF id, c
  <2>4. blobs' \in [Digests -> Content \cup {None}] /\ finished' \in [1 .. MaxUpload -> Nat]
    BY <2>1, <2>2 DEF TypeOK
  <2>5. TypeOK'
    BY <1>1, <2>2, <2>3, <2>4 DEF TypeOK
  <2>6. SessionInv'
    <3> SUFFICES ASSUME NEW i \in 1 .. MaxUpload
                 PROVE  /\ finished'[i] \in {0, 1}
                        /\ i \in uploads' => finished'[i] = 0 /\ i < nextUpload'
                        /\ i >= nextUpload' => finished'[i] = 0
      BY DEF SessionInv
    <3>1. finished'[i] = IF i = id THEN finished[i] + 1 ELSE finished[i]
      BY <2>1, <2>2 DEF TypeOK
    <3>2. id \in uploads /\ id < nextUpload /\ finished[id] = 0
      BY <1>2, <2>1 DEF SessionInv, id
    <3> QED
      BY <2>1, <2>2, <2>3, <3>1, <3>2 DEF SessionInv, TypeOK
  <2>7. \A x \in Content : blobs'[Digest(x)] \in {x, None}
    <3> TAKE x \in Content
    <3>1. CASE x = c
      BY <2>1, <2>2, <3>1 DEF TypeOK
    <3>2. CASE x # c
      <4>1. Digest(x) # Digest(c)
        BY <3>2 DEF Digest
      <4>2. blobs'[Digest(x)] = blobs[Digest(x)]
        BY <2>2, <4>1, DigestType DEF TypeOK
      <4> QED
        BY <4>2 DEF DigestNamesContent, GetBlob
    <3> QED
      BY <3>1, <3>2
  <2> QED
    BY <1>1, <2>3, <2>5, <2>6, <2>7 DEF DigestNamesContent, AnsweredIsPullable, GetBlob, GetManifest
<1>3. CASE req[r].id \notin uploads
  BY <1>1, <1>3 DEF FinishUpload, TypeOK, DigestNamesContent, AnsweredIsPullable, SessionInv,
                    GetBlob, GetManifest
<1> QED
  BY <1>2, <1>3

\* A manifest is written under a reference: it has its digest, the reference is
\* there from now on, and a reference that is another digest is counted.
LEMMA WriteManifest ==
    ASSUME TypeOK, DigestNamesContent, AnsweredIsPullable,
           NEW repo \in Repo, NEW ref \in Reference, NEW c \in Content,
           manifests' = [manifests EXCEPT ![repo][ref] = [digest |-> Digest(c), content |-> c]],
           misput \subseteq misput', ref \in Digests /\ ref # Digest(c) => <<repo, ref>> \in misput',
           answered' \subseteq answered \cup {<<repo, ref>>},
           UNCHANGED blobs
    PROVE  /\ manifests' \in [Repo -> [Reference -> Manifest \cup {None}]]
           /\ DigestNamesContent' /\ AnsweredIsPullable'
<1> DEFINE m == [digest |-> Digest(c), content |-> c]
<1>1. m \in Manifest /\ m.digest = Digest(c) /\ m.content = c
  BY DigestType DEF Manifest
<1>2. m # None
  BY <1>1, RegistryAssumption
<1>3. manifests' = [manifests EXCEPT ![repo] = [manifests[repo] EXCEPT ![ref] = m]]
  BY DEF TypeOK
<1> HIDE DEF m
<1>4. [manifests[repo] EXCEPT ![ref] = m] \in [Reference -> Manifest \cup {None}]
  BY <1>1 DEF TypeOK
<1>5. manifests' \in [Repo -> [Reference -> Manifest \cup {None}]]
  BY <1>3, <1>4 DEF TypeOK
<1>6. \A p \in Repo, f \in Reference :
         manifests'[p][f] = IF p = repo /\ f = ref THEN m ELSE manifests[p][f]
  BY <1>3 DEF TypeOK
<1>7. DigestNamesContent'
  <2>1. \A x \in Content : blobs'[Digest(x)] \in {x, None}
    BY DEF DigestNamesContent, GetBlob
  <2>2. ASSUME NEW p \in Repo, NEW f \in Reference, manifests'[p][f] # None
        PROVE  /\ manifests'[p][f].digest = Digest(manifests'[p][f].content)
               /\ f \in Digests /\ <<p, f>> \notin misput' => manifests'[p][f].digest = f
    <3>1. CASE p = repo /\ f = ref
      BY <1>1, <1>6, <3>1
    <3>2. CASE ~(p = repo /\ f = ref)
      BY <1>6, <2>2, <3>2 DEF DigestNamesContent, GetManifest
    <3> QED
      BY <3>1, <3>2
  <2> QED
    BY <2>1, <2>2 DEF DigestNamesContent, GetBlob, GetManifest
<1>8. AnsweredIsPullable'
  <2> SUFFICES ASSUME NEW a \in answered' PROVE manifests'[a[1]][a[2]] # None
    BY DEF AnsweredIsPullable, GetManifest
  <2>1. CASE a = <<repo, ref>>
    BY <1>2, <1>6, <2>1
  <2>2. CASE a \in answered
    <3>1. a[1] \in Repo /\ a[2] \in Reference /\ manifests[a[1]][a[2]] # None
      BY <2>2 DEF TypeOK, AnsweredIsPullable, GetManifest, Reference
    <3> QED
      BY <1>2, <1>6, <3>1
  <2> QED
    BY <2>1, <2>2
<1> QED
  BY <1>5, <1>7, <1>8

LEMMA PutManifestInv ==
    ASSUME RegInv, NEW r \in Req, NEW repo \in Repo, NEW ref \in Reference, NEW c \in Content,
           PutManifest(r, repo, ref, c)
    PROVE  RegInv'
<1> USE DEF RegInv
<1>1. /\ PushInv' /\ req' \in [Req -> Request \cup {Idle}]
      /\ misput \subseteq misput' /\ misput' \subseteq Repo \X Digests
      /\ ref \in Digests /\ ref # Digest(c) => <<repo, ref>> \in misput'
      /\ answered' \subseteq answered \cup {<<repo, ref>>} /\ answered' \subseteq Repo \X Digests
  <2>1. CASE ref = Digest(c)
    <3>1. Finish(r) /\ answered' = answered \cup {<<repo, ref>>} /\ UNCHANGED misput
      BY <2>1 DEF PutManifest
    <3> QED
      <4>1. UNCHANGED <<arm, roles>>
        BY DEF PutManifest
      <4>2. PushInv' /\ req' \in [Req -> Request \cup {Idle}]
        BY <3>1, <4>1, FinishKeeps
      <4> QED
        BY <2>1, <3>1, <4>2, DigestType DEF TypeOK
  <2>2. CASE ref # Digest(c)
    <3> DEFINE q == [req[r] EXCEPT !.op = "digest", !.repo = repo, !.content = c]
    <3>1. req[r] \in Request /\ MayPush(req[r]) /\ Noticed(req[r]) /\ req[r].step = "go"
      BY DEF PutManifest, At, TypeOK, PushInv
    <3>2. req' = [req EXCEPT ![r] = q]
      BY <2>2, <3>1 DEF PutManifest, TypeOK, Request
    <3>3. /\ q \in Request /\ q.op = "digest" /\ q.repo = repo /\ q.content = c
          /\ q.held = req[r].held /\ q.rows = req[r].rows /\ q.of = req[r].of /\ q.step = req[r].step
      BY <3>1 DEF Request
    <3> HIDE DEF q
    <3>4. PushInv' /\ req' \in [Req -> Request \cup {Idle}]
      <4>1. MayPush(q) /\ Noticed(q)
        BY <3>1, <3>3 DEF MayPush, Noticed
      <4>2. UNCHANGED <<arm, roles>>
        BY DEF PutManifest
      <4> QED
        BY <3>1, <3>2, <3>3, <4>1, <4>2, RequestKeeps
    <3>5. misput' = misput \cup ({<<repo, ref>>} \cap ({repo} \X Digests)) /\ answered' = answered
      BY <2>2 DEF PutManifest
    <3>6. misput' \subseteq Repo \X Digests /\ (ref \in Digests => <<repo, ref>> \in misput')
      BY <3>5 DEF TypeOK
    <3> QED
      BY <3>4, <3>5, <3>6 DEF TypeOK
  <2> QED
    BY <2>1, <2>2
<1>2. manifests' = [manifests EXCEPT ![repo][ref] = [digest |-> Digest(c), content |-> c]]
  BY DEF PutManifest
<1>3. UNCHANGED <<arm, roles, tokens, nextUpload, uploads, blobs, finished>>
  BY DEF PutManifest
<1>4. /\ manifests' \in [Repo -> [Reference -> Manifest \cup {None}]]
      /\ DigestNamesContent' /\ AnsweredIsPullable'
  BY <1>1, <1>2, <1>3, WriteManifest
<1>5. TypeOK' /\ SessionInv'
  BY <1>1, <1>3, <1>4 DEF TypeOK, SessionInv
<1> QED
  BY <1>1, <1>4, <1>5

LEMMA PutManifestDigestInv ==
    ASSUME RegInv, NEW r \in Req, PutManifestDigest(r)
    PROVE  RegInv'
<1> USE DEF RegInv
<1> DEFINE repo == req[r].repo
           c    == req[r].content
<1>1. repo \in Repo /\ c \in Content /\ Digest(c) \in Digests /\ Digest(c) \in Reference
  BY DigestType DEF PutManifestDigest, At, PushInv
<1>2. /\ manifests' = [manifests EXCEPT ![repo][Digest(c)] = [digest |-> Digest(c), content |-> c]]
      /\ answered' = answered \cup {<<repo, Digest(c)>>}
      /\ UNCHANGED <<arm, roles, tokens, nextUpload, uploads, blobs, finished, misput>>
  BY DEF PutManifestDigest
<1>3. PushInv' /\ req' \in [Req -> Request \cup {Idle}]
  BY FinishKeeps DEF PutManifestDigest
<1> HIDE DEF repo, c
<1>4. /\ manifests' \in [Repo -> [Reference -> Manifest \cup {None}]]
      /\ DigestNamesContent' /\ AnsweredIsPullable'
  BY <1>1, <1>2, WriteManifest
<1>5. TypeOK' /\ SessionInv'
  BY <1>1, <1>2, <1>3, <1>4 DEF TypeOK, SessionInv
<1> QED
  BY <1>3, <1>4, <1>5

\* Requests end, one or all of them, and nothing is written.
LEMMA EndInv ==
    ASSUME RegInv, (\E r \in Req : Pull(r)) \/ Crash
    PROVE  RegInv'
<1> USE DEF RegInv
<1>1. UNCHANGED <<arm, roles, tokens, nextUpload, uploads, blobs, manifests, finished, answered,
                  misput>>
  BY DEF Pull, Crash
<1>2. PushInv' /\ req' \in [Req -> Request \cup {Idle}]
  <2>1. CASE \E r \in Req : Pull(r)
    BY <2>1, FinishKeeps DEF Pull
  <2>2. CASE Crash
    BY <2>2 DEF Crash, PushInv
  <2> QED
    BY <2>1, <2>2
<1> QED
  BY <1>1, <1>2 DEF TypeOK, DigestNamesContent, AnsweredIsPullable, SessionInv, GetBlob, GetManifest

LEMMA RegistryStep == RegInv /\ [Next]_vars => RegInv'
<1> SUFFICES ASSUME RegInv, [Next]_vars PROVE RegInv'
  OBVIOUS
<1>1. CASE UNCHANGED vars
  BY <1>1 DEF vars, RegInv, TypeOK, DigestNamesContent, AnsweredIsPullable, SessionInv, PushInv,
              Noticed, GetBlob, GetManifest
<1>2. CASE \/ \E g \in RGroup : PutRegistry(g) \/ DeleteRegistry(g)
           \/ \E a \in Assignable : ChangeRole(a)
  BY <1>2, NoticeInv DEF PutRegistry, DeleteRegistry, ChangeRole, RegInv, TypeOK
<1>3. ASSUME NEW t \in tokens, NEW aud \in {"acr", "graph"}, NEW scope \in Scope,
             Oauth2Token(t, aud, scope)
      PROVE  RegInv'
  BY <1>3, TokenInv, RegistryAssumption
<1>4. ASSUME NEW r \in Req, NEW t \in tokens, NEW op \in {"start", "check", "tag", "read"},
             Begin(r, t, op)
      PROVE  RegInv'
  BY <1>4, BeginInv
<1>5. ASSUME NEW r \in Req, StartUpload(r) \/ FinishUpload(r) \/ PutManifestDigest(r)
                               \/ RegistryAuthzScope(r) \/ EvaluateScope(r)
      PROVE  RegInv'
  BY <1>5, StartUploadInv, FinishUploadInv, PutManifestDigestInv, ScopeInv, EvaluateScopeInv
<1>6. ASSUME NEW r \in Req, NEW c \in Content, NEW d \in Digests, NEW id \in 1 .. MaxUpload,
             CheckUpload(r, id, d, c)
      PROVE  RegInv'
  BY <1>6, CheckUploadInv
<1>7. ASSUME NEW r \in Req, NEW repo \in Repo, NEW ref \in Reference, NEW c \in Content,
             PutManifest(r, repo, ref, c)
      PROVE  RegInv'
  BY <1>7, PutManifestInv
<1>8. CASE (\E r \in Req : Pull(r)) \/ Crash
  BY <1>8, EndInv
<1> QED
  BY <1>1, <1>2, <1>3, <1>4, <1>5, <1>6, <1>7, <1>8 DEF Next

\* Whatever overlaps or stops, a session is finished once, a digest names its
\* content and a manifest that was answered is there.
THEOREM RegistryAlways == Spec => []RegistryInv
<1>1. RegInv => RegistryInv
  BY DEF RegInv, RegistryInv, UploadOnce, SessionInv, TypeOK
<1> QED
  BY <1>1, RegistryInit, RegistryStep, PTL DEF Spec

\* A step that changes uploads, blobs or manifests is one of a request that may
\* push.
LEMMA PushStep ==
    ASSUME RegInv, Next, <<uploads, blobs, manifests>>' # <<uploads, blobs, manifests>>
    PROVE  \E r \in Req : req[r] # Idle /\ req'[r] # req[r] /\ MayPush(req[r])
<1>1. PICK r \in Req : \/ StartUpload(r) \/ FinishUpload(r) \/ PutManifestDigest(r)
                       \/ \E repo \in Repo, ref \in Reference, c \in Content :
                             PutManifest(r, repo, ref, c)
  BY ZenonT(60) DEF Next, PutRegistry, DeleteRegistry, ChangeRole, Oauth2Token, Begin,
                    RegistryAuthzScope, EvaluateScope, CheckUpload, Pull, Crash
<1>2. /\ req[r] # Idle /\ req[r].op \in {"start", "finish", "digest", "tag"}
      /\ req[r].step = "go"
  BY <1>1 DEF StartUpload, FinishUpload, PutManifestDigest, PutManifest, At
<1>3. MayPush(req[r]) /\ req[r] \in Request
  BY <1>2 DEF RegInv, PushInv, TypeOK
<1>4. req'[r] = Idle \/ req'[r].op # req[r].op
  <2>1. CASE Finish(r)
    BY <2>1 DEF Finish, RegInv, TypeOK
  <2>2. CASE \E repo \in Repo, ref \in Reference, c \in Content :
                PutManifest(r, repo, ref, c) /\ ref # Digest(c)
    <3>1. PICK repo \in Repo, c \in Content :
             /\ req[r].op = "tag"
             /\ req' = [req EXCEPT ![r].op = "digest", ![r].repo = repo, ![r].content = c]
      BY <2>2 DEF PutManifest, At
    <3>2. req'[r] = [req[r] EXCEPT !.op = "digest", !.repo = repo, !.content = c]
      BY <3>1, <1>3 DEF RegInv, TypeOK, Request
    <3>3. req'[r].op = "digest"
      BY <3>2, <1>3 DEF Request
    <3> QED
      BY <3>1, <3>3
  <2> QED
    BY ZenonT(60), <1>1, <2>1, <2>2 DEF StartUpload, FinishUpload, PutManifestDigest, PutManifest
<1> QED
  BY <1>2, <1>3, <1>4

\* No pull role, role on a group without the registry, token audience or token
\* scope lets anyone but root write, whatever rows and roles change between the
\* statements of a request.
THEOREM PushAlwaysNeedsRole == Spec => PushNeedsRole
<1>1. RegInv /\ [Next]_vars =>
        [<<uploads, blobs, manifests>>' # <<uploads, blobs, manifests>> =>
          \E r \in Req : req[r] # Idle /\ req'[r] # req[r] /\ MayPush(req[r])]_vars
  BY PushStep
<1> QED
  BY <1>1, RegistryInit, RegistryStep, PTL DEF Spec, PushNeedsRole

-----------------------------------------------------------------------------
(* Event Grid.                                                             *)

LogRow == [pub : 1 .. MaxPublish, topic : Topic, delivered : BOOLEAN]

\* A url that is stored, about to be stored or about to be posted to has echoed.
DestValidated ==
    /\ \A t \in Topic, n \in GSub : esubs[t][n] \in Url => esubs[t][n] \in echoed
    /\ \A r \in GReq : greq[r] # GIdle =>
          /\ greq[r].kind = "sub" /\ greq[r].checked /\ greq[r].url \in Url
             => greq[r].url \in echoed
          /\ greq[r].kind = "sub" /\ greq[r].url = NoUrl => greq[r].checked
          /\ greq[r].kind = "pub" =>
             \A n \in GSub : greq[r].dest[n] \in Url => greq[r].dest[n] \in echoed

\* What the loop has still to do has a url, and so has what it dials.
LoopInv ==
    \A r \in GReq : Publishing(r) =>
       /\ greq[r].dial # NoRow => greq[r].listed /\ greq[r].dial \in greq[r].todo
       /\ \A n \in greq[r].todo : greq[r].dest[n] \in Url

\* A publication belongs to one request, and is recorded when that has ended.
OwnInv ==
    /\ \A r \in GReq : Publishing(r) => greq[r].pub \in 1 .. Len(posts)
    /\ \A r, q \in GReq : Publishing(r) /\ Publishing(q) /\ r # q => greq[r].pub # greq[q].pub
    /\ \A i \in 1 .. Len(log) :
          /\ log[i].pub \in 1 .. Len(posts)
          /\ \A r \in GReq : Publishing(r) => greq[r].pub # log[i].pub

SomeAnswer(s) == \E j \in 1 .. Len(s) : s[j].out = "answer"
PostsTo(s, u) == {j \in 1 .. Len(s) : s[j].url = u}
Waiting(todo, dest, u) == {n \in todo : dest[n] = u}

\* The flag of a publication says whether a webhook has answered so far.
FlagInv ==
    \A r \in GReq : Publishing(r) => (greq[r].delivered <=> SomeAnswer(posts[greq[r].pub]))

\* What egress has allowed ever since the listing, it allows now.
SteadyInv == \A r \in GReq : Publishing(r) => \A u \in greq[r].steady : Allowed(u)

\* Such a url was posted to, or waits, once for each subscription of the listing.
CountInv ==
    \A r \in GReq : Publishing(r) =>
       IF greq[r].listed
       THEN \A u \in greq[r].steady :
               Cardinality(PostsTo(posts[greq[r].pub], u))
                  + Cardinality(Waiting(greq[r].todo, greq[r].dest, u))
               = Cardinality(Waiting(GSub, greq[r].dest, u))
       ELSE posts[greq[r].pub] = <<>>

\* The inductive invariant of Event Grid.
GridIInv ==
    /\ GTypeOK /\ PostedWasValidated /\ PrivateIsNotReached /\ RecordIsTrue
    /\ DestValidated /\ LoopInv /\ OwnInv /\ FlagInv /\ SteadyInv /\ CountInv

LEMMA GridKind ==
    ASSUME NEW q \in GRequest
    PROVE  /\ q.kind = "sub" => q \in SubRequest
           /\ q.kind = "pub" => q \in PubRequest
           /\ q.kind \in {"sub", "pub"}
BY DEF GRequest, SubRequest, PubRequest

LEMMA GridTyped ==
    ASSUME GTypeOK, NEW r \in GReq, greq[r] # GIdle
    PROVE  /\ greq[r] \in GRequest
           /\ greq[r].kind = "sub" => greq[r] \in SubRequest
           /\ greq[r].kind = "pub" => greq[r] \in PubRequest
           /\ Publishing(r) <=> greq[r].kind = "pub"
BY GridKind DEF GTypeOK, Publishing

\* A step of one request leaves the others where they are.
LEMMA OneRequest ==
    ASSUME GTypeOK, NEW r \in GReq, NEW v \in GRequest \cup {GIdle}, greq' = [greq EXCEPT ![r] = v]
    PROVE  /\ greq' \in [GReq -> GRequest \cup {GIdle}]
           /\ greq'[r] = v
           /\ \A q \in GReq \ {r} : greq'[q] = greq[q]
           /\ Publishing(r)' <=> v # GIdle /\ v.kind = "pub"
           /\ \A q \in GReq \ {r} : Publishing(q)' <=> Publishing(q)
BY DEF GTypeOK, Publishing

\* Everything but the requests and what happens to urls is left alone, and the
\* publishing requests are among those that were there.
LEMMA PublishersKept ==
    ASSUME GridIInv, GTypeOK',
           UNCHANGED <<private, log, posts>>, echoed \subseteq echoed',
           \A q \in GReq : Publishing(q)' => Publishing(q) /\ greq'[q] = greq[q]
    PROVE  /\ PostedWasValidated' /\ PrivateIsNotReached' /\ RecordIsTrue'
           /\ LoopInv' /\ OwnInv' /\ FlagInv' /\ SteadyInv' /\ CountInv'
<1> USE DEF GridIInv
<1>1. PostedWasValidated'
  BY DEF PostedWasValidated
<1>2. PrivateIsNotReached'
  BY DEF PrivateIsNotReached
<1>3. RecordIsTrue'
  BY DEF RecordIsTrue
<1>4. LoopInv'
  BY DEF LoopInv
<1>5. OwnInv'
  BY DEF OwnInv
<1>6. FlagInv'
  BY DEF FlagInv
<1>7. SteadyInv' /\ CountInv'
  BY DEF SteadyInv, CountInv, Allowed, IsPrivate, Enabled
<1> QED
  BY <1>1, <1>2, <1>3, <1>4, <1>5, <1>6, <1>7

LEMMA GridInit == GInit => GridIInv
<1> SUFFICES ASSUME GInit PROVE GridIInv
  OBVIOUS
<1> USE DEF GInit
<1>1. GTypeOK
  BY GridAssumption DEF GTypeOK
<1>2. \A r \in GReq : greq[r] = GIdle
  OBVIOUS
<1>3. LoopInv /\ FlagInv /\ SteadyInv /\ CountInv
  BY <1>2 DEF LoopInv, FlagInv, SteadyInv, CountInv, Publishing
<1>4. DestValidated
  BY <1>2, GridAssumption DEF DestValidated
<1>5. OwnInv /\ PostedWasValidated /\ PrivateIsNotReached /\ RecordIsTrue
  BY <1>2 DEF OwnInv, PostedWasValidated, PrivateIsNotReached, RecordIsTrue, Publishing
<1> QED
  BY <1>1, <1>3, <1>4, <1>5 DEF GridIInv

\* A topic, a failure or a stop: no request goes further.
LEMMA OutsideInv ==
    ASSUME GridIInv,
           (\E t \in Topic : PutTopicRow(t)) \/ (\E r \in GReq : ListFails(r)) \/ GCrash
    PROVE  GridIInv'
<1> USE DEF GridIInv
<1>1. /\ UNCHANGED <<private, esubs, log, echoed, posts>>
      /\ \A q \in GReq : greq'[q] = greq[q] \/ greq'[q] = GIdle
  BY DEF PutTopicRow, ListFails, GCrash, GTypeOK
<1>2. GTypeOK'
  BY <1>1 DEF GTypeOK, PutTopicRow, ListFails, GCrash
<1>3. \A q \in GReq : Publishing(q)' => Publishing(q) /\ greq'[q] = greq[q]
  BY <1>1 DEF Publishing
<1>4. DestValidated'
  BY <1>1 DEF DestValidated
<1> QED
  BY <1>1, <1>2, <1>3, <1>4, PublishersKept

\* A name that moves is no longer steady; the others are allowed as before.
LEMMA RebindInv ==
    ASSUME GridIInv, NEW u \in Url \ LabLocal, Rebind(u)
    PROVE  GridIInv'
<1> USE DEF GridIInv
<1>1. UNCHANGED <<topics, esubs, log, echoed, posts>>
  BY DEF Rebind
<1>2. \A r \in GReq : ~Publishing(r) => greq'[r] = greq[r]
  BY DEF Rebind
<1>3. ASSUME NEW r \in GReq, Publishing(r)
      PROVE  /\ greq'[r] \in PubRequest /\ greq'[r].kind = "pub" /\ greq'[r].pub = greq[r].pub
             /\ greq'[r].listed = greq[r].listed /\ greq'[r].todo = greq[r].todo
             /\ greq'[r].dial = greq[r].dial /\ greq'[r].dest = greq[r].dest
             /\ greq'[r].delivered = greq[r].delivered
             /\ greq'[r].steady = greq[r].steady \ {u}
  <2>1. greq[r] \in PubRequest
    BY <1>3, GridTyped DEF Publishing
  <2>2. greq'[r] = [greq[r] EXCEPT !.steady = @ \ {u}]
    BY <1>3 DEF Rebind
  <2> QED
    BY <2>1, <2>2 DEF PubRequest
<1>4. greq' \in [GReq -> GRequest \cup {GIdle}]
  <2>1. DOMAIN greq' = GReq /\ greq' = [r \in GReq |-> greq'[r]]
    BY DEF Rebind
  <2>2. \A r \in GReq : greq'[r] \in GRequest \cup {GIdle}
    BY <1>2, <1>3 DEF GTypeOK, GRequest
  <2> QED
    BY <2>1, <2>2
<1>5. GTypeOK'
  BY <1>1, <1>4 DEF GTypeOK, Rebind
<1>6. \A r \in GReq : Publishing(r)' <=> Publishing(r)
  BY <1>2, <1>3, GridAssumption DEF Publishing, GRequest
<1>7. DestValidated'
  BY <1>1, <1>2, <1>3, <1>6 DEF DestValidated, Publishing
<1>8. LoopInv' /\ OwnInv' /\ FlagInv'
  BY <1>1, <1>3, <1>6 DEF LoopInv, OwnInv, FlagInv
<1>9. SteadyInv'
  <2>1. \A x : x # u => (x \in private' <=> x \in private)
    BY DEF Rebind
  <2> QED
    BY <1>3, <1>6, <2>1 DEF SteadyInv, Allowed, IsPrivate, Enabled
<1>10. CountInv'
  BY <1>1, <1>3, <1>6 DEF CountInv
<1>11. PostedWasValidated' /\ PrivateIsNotReached' /\ RecordIsTrue'
  BY <1>1 DEF PostedWasValidated, PrivateIsNotReached, RecordIsTrue
<1> QED
  BY <1>5, <1>7, <1>8, <1>9, <1>10, <1>11

LEMMA PutSubInv ==
    ASSUME GridIInv, NEW r \in GReq, NEW t \in Topic, NEW n \in GSub, NEW u \in Url \cup {NoUrl},
           PutSub(r, t, n, u)
    PROVE  GridIInv'
<1> USE DEF GridIInv
<1> DEFINE v == [kind |-> "sub", topic |-> t, name |-> n, url |-> u, checked |-> u = NoUrl]
<1>1. v \in GRequest /\ v.kind = "sub" /\ v.url = u /\ (v.checked <=> u = NoUrl)
  BY DEF GRequest, SubRequest
<1>2. greq' = [greq EXCEPT ![r] = v] /\ UNCHANGED <<private, topics, esubs, log, echoed, posts>>
  BY DEF PutSub
<1> HIDE DEF v
<1>3. GTypeOK'
  BY <1>1, <1>2, OneRequest DEF GTypeOK
<1>4. \A q \in GReq : Publishing(q)' => Publishing(q) /\ greq'[q] = greq[q]
  BY <1>1, <1>2, OneRequest
<1>5. DestValidated'
  BY <1>1, <1>2, OneRequest, GridAssumption DEF DestValidated
<1> QED
  BY <1>2, <1>3, <1>4, <1>5, PublishersKept

\* A subscription goes on to be stored only with a url that has echoed.
LEMMA HandshakeInv ==
    ASSUME GridIInv, NEW r \in GReq, NEW ok \in BOOLEAN, Handshake(r, ok)
    PROVE  GridIInv'
<1> USE DEF GridIInv
<1> DEFINE u == greq[r].url
           v == IF Allowed(u) /\ ok THEN [greq[r] EXCEPT !.checked = TRUE] ELSE GIdle
<1>1. greq[r] \in SubRequest /\ greq[r] # GIdle /\ ~Publishing(r)
  BY GridTyped DEF Handshake, Publishing
<1>2. greq' = [greq EXCEPT ![r] = v]
  BY DEF Handshake, GTypeOK
<1>3. /\ echoed' = (IF Allowed(u) /\ ok THEN echoed \cup {u} ELSE echoed)
      /\ UNCHANGED <<private, topics, esubs, log, posts>>
  BY DEF Handshake
<1>4. Allowed(u) /\ ok => v \in SubRequest /\ v.kind = "sub" /\ v.url = u
  BY <1>1 DEF SubRequest
<1>5. v \in GRequest \cup {GIdle} /\ (v = GIdle \/ (v.kind = "sub" /\ v.url = u))
  BY <1>4 DEF GRequest
<1>6. (v = GIdle \/ u \in echoed') /\ u \in Url
  <2>1. u \in Url \cup {NoUrl} /\ u # NoUrl
    BY <1>1 DEF SubRequest, Handshake, DestValidated
  <2> QED
    BY <1>3, <2>1
<1> HIDE DEF v, u
<1>7. GTypeOK'
  BY <1>2, <1>3, <1>5, <1>6, OneRequest DEF GTypeOK
<1>8. \A q \in GReq : Publishing(q)' => Publishing(q) /\ greq'[q] = greq[q]
  BY <1>2, <1>5, OneRequest
<1>9. DestValidated'
  BY <1>2, <1>3, <1>5, <1>6, OneRequest, GridAssumption DEF DestValidated
<1> QED
  BY <1>3, <1>7, <1>8, <1>9, PublishersKept

LEMMA StoreSubInv ==
    ASSUME GridIInv, NEW r \in GReq, StoreSub(r)
    PROVE  GridIInv'
<1> USE DEF GridIInv
<1> DEFINE t == greq[r].topic
           n == greq[r].name
           u == greq[r].url
<1>1. greq[r] \in SubRequest /\ ~Publishing(r) /\ (u \in Url => u \in echoed)
  BY GridTyped DEF StoreSub, Publishing, DestValidated
<1>2. t \in Topic /\ n \in GSub /\ u \in Url \cup {NoUrl, NoRow}
  BY <1>1 DEF SubRequest
<1>3. /\ esubs' = [esubs EXCEPT ![t] = [esubs[t] EXCEPT ![n] = u]]
      /\ greq' = [greq EXCEPT ![r] = GIdle]
      /\ UNCHANGED <<private, topics, log, echoed, posts>>
  BY <1>2 DEF StoreSub, GTypeOK
<1> HIDE DEF t, n, u
<1>4. \A s \in Topic, m \in GSub : esubs'[s][m] = IF s = t /\ m = n THEN u ELSE esubs[s][m]
  BY <1>2, <1>3 DEF GTypeOK
<1>5. esubs' \in [Topic -> [GSub -> Url \cup {NoUrl, NoRow}]]
  BY <1>2, <1>3 DEF GTypeOK
<1>6. GTypeOK'
  BY <1>3, <1>5, OneRequest DEF GTypeOK
<1>7. \A q \in GReq : greq'[q] = GIdle \/ greq'[q] = greq[q]
  BY <1>3 DEF GTypeOK
<1>8. \A q \in GReq : Publishing(q)' => Publishing(q) /\ greq'[q] = greq[q]
  BY <1>7 DEF Publishing
<1>9. DestValidated'
  BY <1>1, <1>3, <1>4, <1>7 DEF DestValidated
<1> QED
  BY <1>3, <1>6, <1>8, <1>9, PublishersKept

-----------------------------------------------------------------------------
\* A publication gets a number of its own.
LEMMA PublishInv ==
    ASSUME GridIInv, NEW r \in GReq, NEW t \in Topic, Publish(r, t)
    PROVE  GridIInv'
<1> USE DEF GridIInv
<1> DEFINE p == Len(posts) + 1
           d == [n \in GSub |-> NoRow]
           v == [kind |-> "pub", topic |-> t, pub |-> p, listed |-> FALSE, todo |-> {},
                 dial |-> NoRow, dest |-> d, delivered |-> FALSE, steady |-> {}]
<1>1. p \in 1 .. MaxPublish
  BY GridAssumption DEF Publish, GTypeOK
<1>2. /\ v \in PubRequest /\ v.kind = "pub" /\ v.pub = p /\ v.listed = FALSE /\ v.todo = {}
      /\ v.dial = NoRow /\ v.dest = d /\ v.delivered = FALSE /\ v.steady = {}
  BY <1>1 DEF PubRequest, Destinations
<1>3. v # GIdle
  BY <1>2, GridAssumption DEF GRequest
<1>4. /\ greq' = [greq EXCEPT ![r] = v] /\ posts' = Append(posts, <<>>)
      /\ UNCHANGED <<private, topics, esubs, log, echoed>>
  BY DEF Publish
<1>5. /\ Len(posts) \in Nat /\ Len(posts') = p /\ p = Len(posts) + 1
      /\ posts'[p] = <<>>
      /\ \A i \in 1 .. Len(posts) : posts'[i] = posts[i]
      /\ posts' \in Seq(Seq(Post))
  BY <1>4 DEF GTypeOK
<1> HIDE DEF p, v
<1>6. /\ greq'[r] = v /\ Publishing(r)'
      /\ \A q \in GReq \ {r} : greq'[q] = greq[q] /\ (Publishing(q)' <=> Publishing(q))
      /\ greq' \in [GReq -> GRequest \cup {GIdle}]
  BY <1>2, <1>3, <1>4, OneRequest DEF GRequest
<1>7. GTypeOK'
  BY <1>1, <1>4, <1>5, <1>6 DEF GTypeOK
<1>8. PostedWasValidated' /\ PrivateIsNotReached'
  <2>1. \A i \in 1 .. Len(posts') : posts'[i] = <<>> \/ (i \in 1 .. Len(posts) /\ posts'[i] = posts[i])
    BY <1>5
  <2>2. 1 .. Len(<<>>) = {}
    OBVIOUS
  <2>3. ASSUME NEW i \in 1 .. Len(posts'), NEW j \in 1 .. Len(posts'[i])
        PROVE  i \in 1 .. Len(posts) /\ posts'[i] = posts[i]
    BY <2>1, <2>2
  <2>4. PostedWasValidated'
    BY <1>4, <2>3 DEF PostedWasValidated
  <2>5. PrivateIsNotReached'
    BY <1>4, <2>3 DEF PrivateIsNotReached
  <2> QED
    BY <2>4, <2>5
<1>9. RecordIsTrue'
  BY <1>4, <1>5 DEF RecordIsTrue, OwnInv
<1>10. DestValidated'
  BY <1>2, <1>4, <1>6, GridAssumption DEF DestValidated
<1>11. LoopInv'
  BY <1>2, <1>6 DEF LoopInv
<1>12. OwnInv'
  BY <1>2, <1>4, <1>5, <1>6 DEF OwnInv
<1>13. /\ ~greq'[r].listed /\ ~greq'[r].delivered /\ posts'[greq'[r].pub] = <<>>
       /\ \A q \in GReq \ {r} : Publishing(q) => posts'[greq'[q].pub] = posts[greq[q].pub]
  BY <1>2, <1>5, <1>6 DEF OwnInv
<1>14. FlagInv'
  <2>1. ~SomeAnswer(<<>>)
    BY DEF SomeAnswer
  <2> QED
    BY <1>6, <1>13, <2>1 DEF FlagInv
<1>15. SteadyInv' /\ CountInv'
  <2>1. SteadyInv'
    <3>1. \A u : Allowed(u)' <=> Allowed(u)
      BY <1>4 DEF Allowed, IsPrivate, Enabled
    <3>2. greq'[r].steady = {}
      BY <1>2, <1>6
    <3> QED
      BY <1>6, <3>1, <3>2 DEF SteadyInv
  <2>2. CountInv'
    BY <1>6, <1>13 DEF CountInv
  <2> QED
    BY <2>1, <2>2
<1> QED
  BY <1>7, <1>8, <1>9, <1>10, <1>11, <1>12, <1>14, <1>15

\* What a publishing request may turn into without posting: its number and its flag
\* stay, and nothing is posted or recorded.
LEMMA LoopTurn ==
    ASSUME GridIInv, NEW r \in GReq, Publishing(r), NEW v \in PubRequest,
           greq' = [greq EXCEPT ![r] = v], UNCHANGED <<private, topics, esubs, log, echoed, posts>>,
           v.pub = greq[r].pub, v.delivered = greq[r].delivered,
           \A n \in GSub : v.dest[n] \in Url => v.dest[n] \in echoed,
           v.dial # NoRow => v.listed /\ v.dial \in v.todo,
           \A n \in v.todo : v.dest[n] \in Url,
           v.listed,
           \A u \in v.steady : Allowed(u),
           \A u \in v.steady :
              Cardinality(PostsTo(posts[v.pub], u)) + Cardinality(Waiting(v.todo, v.dest, u))
                 = Cardinality(Waiting(GSub, v.dest, u))
    PROVE  GridIInv'
<1> USE DEF GridIInv
<1>1. /\ greq'[r] = v /\ v.kind = "pub"
      /\ \A q \in GReq \ {r} : greq'[q] = greq[q]
      /\ \A q \in GReq : Publishing(q)' => Publishing(q)
      /\ greq' \in [GReq -> GRequest \cup {GIdle}]
  BY OneRequest DEF GRequest, PubRequest
<1>2. GTypeOK'
  BY <1>1 DEF GTypeOK
<1>3. PostedWasValidated' /\ PrivateIsNotReached' /\ RecordIsTrue'
  BY DEF PostedWasValidated, PrivateIsNotReached, RecordIsTrue
<1>4. DestValidated'
  BY <1>1 DEF DestValidated
<1>5. LoopInv'
  BY <1>1 DEF LoopInv
<1>6. OwnInv'
  BY <1>1 DEF OwnInv
<1>7. FlagInv'
  BY <1>1 DEF FlagInv
<1>8. SteadyInv' /\ CountInv'
  BY <1>1 DEF SteadyInv, CountInv, Allowed, IsPrivate, Enabled
<1> QED
  BY <1>2, <1>3, <1>4, <1>5, <1>6, <1>7, <1>8

\* The listing gives every subscription that has a url.
LEMMA ListInv ==
    ASSUME GridIInv, NEW r \in GReq, ListEventSubscriptions(r)
    PROVE  GridIInv'
<1> USE DEF GridIInv
<1> DEFINE d == esubs[greq[r].topic]
           w == {n \in GSub : d[n] \in Url}
           a == {u \in Url : Allowed(u)}
           v == [greq[r] EXCEPT !.listed = TRUE, !.dest = d, !.todo = w, !.steady = a]
<1>1. greq[r] \in PubRequest /\ Publishing(r) /\ ~greq[r].listed
  BY GridTyped DEF ListEventSubscriptions, Publishing
<1>2. d \in Destinations /\ w \in SUBSET GSub /\ a \in SUBSET Url /\ \A u \in a : Allowed(u)
  BY <1>1 DEF PubRequest, GTypeOK, Destinations
<1>3. greq' = [greq EXCEPT ![r] = v] /\ UNCHANGED <<private, topics, esubs, log, echoed, posts>>
  BY DEF ListEventSubscriptions, GTypeOK
<1>4. \A n \in GSub : d[n] \in Url => d[n] \in echoed
  BY <1>1 DEF PubRequest, DestValidated
<1>5. \A n \in w : n \in GSub /\ d[n] \in Url
  OBVIOUS
<1>6. \A u \in a : Waiting(w, d, u) = Waiting(GSub, d, u)
  BY DEF Waiting
<1> HIDE DEF d, w, a
<1>7. /\ v \in PubRequest /\ v.listed /\ v.dest = d /\ v.todo = w /\ v.pub = greq[r].pub
      /\ v.delivered = greq[r].delivered /\ v.dial = greq[r].dial /\ v.steady = a
  BY <1>1, <1>2 DEF PubRequest
<1> HIDE DEF v
<1>8. v.dial = NoRow
  BY <1>1, <1>7 DEF LoopInv
<1>9. posts[v.pub] = <<>>
  BY <1>1, <1>7 DEF CountInv
<1>10. \A u : PostsTo(posts[v.pub], u) = {}
  BY <1>9 DEF PostsTo
<1>11. \A u \in a : Cardinality(Waiting(GSub, d, u)) \in Nat
  <2> TAKE u \in a
  <2>1. Waiting(GSub, d, u) \subseteq GSub
    BY DEF Waiting
  <2> QED
    BY <2>1, FS_Subset, FS_CardinalityType, GridAssumption
<1>12. \A u \in a :
          Cardinality(PostsTo(posts[v.pub], u)) + Cardinality(Waiting(v.todo, v.dest, u))
             = Cardinality(Waiting(GSub, v.dest, u))
  <2> TAKE u \in a
  <2>1. Cardinality(PostsTo(posts[v.pub], u)) = 0
    BY <1>10, FS_EmptySet
  <2>2. Waiting(v.todo, v.dest, u) = Waiting(GSub, d, u) /\ Waiting(GSub, v.dest, u) = Waiting(GSub, d, u)
    BY <1>6, <1>7
  <2> QED
    BY <2>1, <2>2, <1>11
<1> QED
  BY <1>1, <1>2, <1>3, <1>4, <1>5, <1>7, <1>8, <1>12, LoopTurn

\* One subscription less waits.
LEMMA WaitingLess ==
    ASSUME NEW todo \in SUBSET GSub, NEW n \in todo, NEW dest, NEW u
    PROVE  /\ Cardinality(Waiting(todo, dest, u)) \in Nat
           /\ dest[n] # u => Waiting(todo \ {n}, dest, u) = Waiting(todo, dest, u)
           /\ dest[n] = u => Cardinality(Waiting(todo, dest, u))
                                = Cardinality(Waiting(todo \ {n}, dest, u)) + 1
           /\ Cardinality(Waiting(todo \ {n}, dest, u)) \in Nat
<1>1. Waiting(todo, dest, u) \subseteq GSub /\ Waiting(todo \ {n}, dest, u) \subseteq GSub
  BY DEF Waiting
<1>2. IsFiniteSet(Waiting(todo, dest, u)) /\ IsFiniteSet(Waiting(todo \ {n}, dest, u))
  BY <1>1, GridAssumption, FS_Subset
<1>3. /\ Cardinality(Waiting(todo, dest, u)) \in Nat
      /\ Cardinality(Waiting(todo \ {n}, dest, u)) \in Nat
  BY <1>2, FS_CardinalityType
<1>4. dest[n] # u => Waiting(todo \ {n}, dest, u) = Waiting(todo, dest, u)
  BY DEF Waiting
<1>5. dest[n] = u => /\ Waiting(todo, dest, u) = Waiting(todo \ {n}, dest, u) \cup {n}
                     /\ n \notin Waiting(todo \ {n}, dest, u)
  BY DEF Waiting
<1>6. dest[n] = u => Cardinality(Waiting(todo, dest, u))
                       = Cardinality(Waiting(todo \ {n}, dest, u)) + 1
  BY <1>2, <1>5, FS_AddElement
<1> QED
  BY <1>3, <1>4, <1>6

LEMMA BoundedSet ==
    ASSUME NEW k \in Nat, NEW T \in SUBSET (1 .. k)
    PROVE  IsFiniteSet(T) /\ Cardinality(T) \in Nat
<1>1. 1 \in Int /\ k \in Int
  OBVIOUS
<1>2. IsFiniteSet(1 .. k)
  BY <1>1, FS_Interval
<1>3. IsFiniteSet(T)
  BY <1>2, FS_Subset
<1> QED
  BY <1>3, FS_CardinalityType

\* One post more.
LEMMA PostsMore ==
    ASSUME NEW s \in Seq(Post), NEW x \in Post, NEW u
    PROVE  /\ Cardinality(PostsTo(s, u)) \in Nat
           /\ x.url # u => PostsTo(Append(s, x), u) = PostsTo(s, u)
           /\ x.url = u => Cardinality(PostsTo(Append(s, x), u)) = Cardinality(PostsTo(s, u)) + 1
           /\ SomeAnswer(Append(s, x)) <=> SomeAnswer(s) \/ x.out = "answer"
<1> DEFINE a == Append(s, x)
           k == Len(s) + 1
<1>1. /\ Len(s) \in Nat /\ Len(a) = k /\ k = Len(s) + 1 /\ a[k] = x
      /\ \A j \in 1 .. Len(s) : a[j] = s[j]
  OBVIOUS
<1> HIDE DEF a, k
<1>2. PostsTo(s, u) \subseteq 1 .. Len(s)
  BY DEF PostsTo
<1>3. IsFiniteSet(PostsTo(s, u)) /\ Cardinality(PostsTo(s, u)) \in Nat
  BY <1>1, <1>2, BoundedSet
<1>4. x.url # u => PostsTo(a, u) = PostsTo(s, u)
  BY <1>1 DEF PostsTo
<1>5. x.url = u => PostsTo(a, u) = PostsTo(s, u) \cup {k} /\ k \notin PostsTo(s, u)
  BY <1>1 DEF PostsTo
<1>6. x.url = u => Cardinality(PostsTo(a, u)) = Cardinality(PostsTo(s, u)) + 1
  BY <1>3, <1>5, FS_AddElement
<1>7. SomeAnswer(a) <=> SomeAnswer(s) \/ x.out = "answer"
  BY <1>1 DEF SomeAnswer
<1> QED
  BY <1>3, <1>4, <1>6, <1>7 DEF a

\* A turn of the loop passes over no steady url: egress allows it.
LEMMA CheckEgressInv ==
    ASSUME GridIInv, NEW r \in GReq, NEW n \in GSub, CheckEgress(r, n)
    PROVE  GridIInv'
<1> USE DEF GridIInv
<1> DEFINE g == greq[r]
<1>1. g \in PubRequest /\ Publishing(r) /\ g.listed /\ g.dial = NoRow /\ n \in g.todo
  BY GridTyped DEF CheckEgress, Publishing
<1>2. /\ \A m \in GSub : g.dest[m] \in Url => g.dest[m] \in echoed
      /\ \A m \in g.todo : g.dest[m] \in Url
      /\ \A u \in g.steady : Allowed(u)
      /\ \A u \in g.steady :
            Cardinality(PostsTo(posts[g.pub], u)) + Cardinality(Waiting(g.todo, g.dest, u))
               = Cardinality(Waiting(GSub, g.dest, u))
  BY <1>1 DEF DestValidated, LoopInv, SteadyInv, CountInv, Publishing
<1>3. CASE Allowed(g.dest[n])
  <2> DEFINE v == [g EXCEPT !.dial = n]
  <2>1. greq' = [greq EXCEPT ![r] = v] /\ UNCHANGED <<private, topics, esubs, log, echoed, posts>>
    BY <1>3 DEF CheckEgress, GTypeOK
  <2> HIDE DEF g
  <2>2. /\ v \in PubRequest /\ v.dial = n /\ v.listed = g.listed /\ v.todo = g.todo
        /\ v.dest = g.dest /\ v.pub = g.pub /\ v.delivered = g.delivered
    BY <1>1 DEF PubRequest
  <2>3. v.pub = greq[r].pub /\ v.delivered = greq[r].delivered
    BY <2>2 DEF g
  <2>4. v.steady = g.steady
    BY <1>1 DEF PubRequest
  <2> HIDE DEF v
  <2> QED
    BY <1>1, <1>2, <2>4, <2>1, <2>2, <2>3, LoopTurn
<1>4. CASE ~Allowed(g.dest[n])
  <2> DEFINE v == [g EXCEPT !.todo = @ \ {n}]
  <2>1. greq' = [greq EXCEPT ![r] = v] /\ UNCHANGED <<private, topics, esubs, log, echoed, posts>>
    BY <1>4 DEF CheckEgress, GTypeOK
  <2> HIDE DEF g
  <2>2. /\ v \in PubRequest /\ v.dial = g.dial /\ v.listed = g.listed /\ v.todo = g.todo \ {n}
        /\ v.dest = g.dest /\ v.pub = g.pub /\ v.delivered = g.delivered
    BY <1>1 DEF PubRequest
  <2>3. v.pub = greq[r].pub /\ v.delivered = greq[r].delivered
    BY <2>2 DEF g
  <2>4. /\ v.steady = g.steady
        /\ \A u \in g.steady : Waiting(g.todo \ {n}, g.dest, u) = Waiting(g.todo, g.dest, u)
    <3>1. v.steady = g.steady
      BY <1>1 DEF PubRequest
    <3>2. \A u \in g.steady : g.dest[n] # u
      BY <1>2, <1>4
    <3> QED
      BY <3>1, <3>2 DEF Waiting
  <2>5. \A m \in v.todo : v.dest[m] \in Url
    BY <1>2, <2>2
  <2>6. \A u \in v.steady :
           Cardinality(PostsTo(posts[v.pub], u)) + Cardinality(Waiting(v.todo, v.dest, u))
              = Cardinality(Waiting(GSub, v.dest, u))
    BY <1>2, <2>2, <2>4
  <2> HIDE DEF v
  <2> QED
    BY <1>1, <1>2, <2>1, <2>2, <2>3, <2>4, <2>5, <2>6, LoopTurn
<1> QED
  BY <1>3, <1>4

\* A post goes to a url that has echoed, and to a private address only when it is
\* the lab's own; what it is answered goes into the flag.
LEMMA PostEndsInv ==
    ASSUME GridIInv, NEW r \in GReq, NEW out \in Outcome, PostEnds(r, out)
    PROVE  GridIInv'
<1> USE DEF GridIInv
<1> DEFINE g == greq[r]
           p == g.pub
           d == g.dial
           x == PostOf(r, out)
           v == [g EXCEPT !.todo = @ \ {d}, !.dial = NoRow, !.delivered = @ \/ out = "answer"]
<1>1. /\ g \in PubRequest /\ g # GIdle /\ g.kind = "pub" /\ Publishing(r)
      /\ d # NoRow /\ g.listed /\ d \in g.todo
  BY GridTyped DEF PostEnds, Dialing, Publishing, LoopInv
<1>2. /\ d \in GSub /\ g.dest[d] \in Url /\ g.dest[d] \in echoed /\ p \in 1 .. Len(posts)
      /\ posts[p] \in Seq(Post)
  <2>1. d \in GSub
    BY <1>1 DEF PubRequest
  <2>2. g.dest[d] \in Url
    BY <1>1 DEF LoopInv
  <2>3. g.dest[d] \in echoed
    BY <1>1, <2>1, <2>2 DEF DestValidated
  <2>4. p \in 1 .. Len(posts)
    BY <1>1 DEF OwnInv
  <2>5. posts[p] \in Seq(Post)
    BY <2>4 DEF GTypeOK
  <2> QED
    BY <2>1, <2>2, <2>3, <2>4, <2>5
<1>3. /\ x \in Post /\ x.url = g.dest[d] /\ x.out = out
      /\ x.private /\ x.url \notin LabLocal => x.out = "unreachable"
  <2> DEFINE u == g.dest[d]
             b == u \in private
  <2>1. x = [url |-> u, out |-> out, private |-> b]
    BY DEF PostOf
  <2>2. b /\ u \notin LabLocal => out = "unreachable"
    BY DEF PostEnds, PinnedDialContext, IsPrivate
  <2>3. u \in Url /\ b \in BOOLEAN
    BY <1>2
  <2> HIDE DEF x, u, b
  <2>4. x \in Post /\ x.url = u /\ x.out = out /\ x.private = b
    BY <2>1, <2>3 DEF Post
  <2> QED
    BY <2>2, <2>4 DEF u
<1>4. /\ greq' = [greq EXCEPT ![r] = v] /\ posts' = [posts EXCEPT ![p] = Append(posts[p], x)]
      /\ UNCHANGED <<private, topics, esubs, log, echoed>>
  BY DEF PostEnds, GTypeOK
<1> HIDE DEF x, d, p
<1>5. /\ v \in PubRequest /\ v.kind = "pub" /\ v.dial = NoRow /\ v.listed = g.listed
      /\ v.todo = g.todo \ {d} /\ v.dest = g.dest /\ v.pub = g.pub /\ v.steady = g.steady
      /\ v.delivered <=> g.delivered \/ out = "answer"
  BY <1>1 DEF PubRequest
<1>6. /\ greq'[r] = v /\ Publishing(r)'
      /\ \A q \in GReq \ {r} : greq'[q] = greq[q] /\ (Publishing(q)' <=> Publishing(q))
      /\ greq' \in [GReq -> GRequest \cup {GIdle}]
  BY <1>4, <1>5, OneRequest, GridAssumption DEF GRequest
<1> HIDE DEF v, g
<1>7. /\ posts' \in Seq(Seq(Post)) /\ Len(posts') = Len(posts)
      /\ posts'[p] = Append(posts[p], x)
      /\ \A i \in 1 .. Len(posts) : i # p => posts'[i] = posts[i]
  <2>1. Append(posts[p], x) \in Seq(Post)
    BY <1>2, <1>3
  <2>2. posts \in Seq(Seq(Post))
    BY DEF GTypeOK
  <2> QED
    BY <1>2, <1>4, <2>1, <2>2, ExceptSeq
<1>8. GTypeOK'
  BY <1>4, <1>6, <1>7 DEF GTypeOK
<1>9. /\ Len(posts[p]) \in Nat /\ Len(posts'[p]) = Len(posts[p]) + 1
      /\ posts'[p][Len(posts[p]) + 1] = x
      /\ \A j \in 1 .. Len(posts[p]) : posts'[p][j] = posts[p][j]
  BY <1>2, <1>3, <1>7
<1>10. PostedWasValidated' /\ PrivateIsNotReached'
  <2> SUFFICES ASSUME NEW i \in 1 .. Len(posts'), NEW j \in 1 .. Len(posts'[i])
               PROVE  /\ posts'[i][j].url \in echoed'
                      /\ posts'[i][j].private /\ posts'[i][j].url \notin LabLocal
                           => posts'[i][j].out = "unreachable"
    BY DEF PostedWasValidated, PrivateIsNotReached
  <2>1. CASE i # p
    BY <1>4, <1>7, <2>1 DEF PostedWasValidated, PrivateIsNotReached
  <2>2. CASE i = p /\ j \in 1 .. Len(posts[p])
    BY <1>2, <1>4, <1>9, <2>2 DEF PostedWasValidated, PrivateIsNotReached
  <2>3. CASE i = p /\ j = Len(posts[p]) + 1
    BY <1>2, <1>3, <1>4, <1>9, <2>3
  <2> QED
    BY <1>9, <2>1, <2>2, <2>3
<1>11. RecordIsTrue'
  <2>1. \A i \in 1 .. Len(log) : log[i].pub # p /\ log[i].pub \in 1 .. Len(posts)
    BY <1>1 DEF OwnInv, p, g
  <2> QED
    BY <1>4, <1>7, <2>1 DEF RecordIsTrue
<1>12. DestValidated'
  BY <1>1, <1>4, <1>5, <1>6 DEF DestValidated, g
<1>13. LoopInv'
  BY <1>1, <1>5, <1>6 DEF LoopInv, g
<1>14. greq'[r].pub = p /\ p = greq[r].pub
  BY <1>5, <1>6 DEF p, g
<1>15. OwnInv'
  BY <1>1, <1>4, <1>6, <1>7, <1>14 DEF OwnInv
<1>16. \A q \in GReq \ {r} : Publishing(q) => posts'[greq'[q].pub] = posts[greq[q].pub]
  BY <1>1, <1>6, <1>7, <1>14 DEF OwnInv
<1>17. FlagInv'
  <2>1. SomeAnswer(posts'[p]) <=> SomeAnswer(posts[p]) \/ out = "answer"
    <3>1. SomeAnswer(Append(posts[p], x)) <=> SomeAnswer(posts[p]) \/ x.out = "answer"
      BY <1>2, <1>3, PostsMore
    <3> QED
      BY <1>3, <1>7, <3>1
  <2>2. greq'[r].delivered <=> SomeAnswer(posts'[p])
    BY <1>1, <1>5, <1>6, <1>14, <2>1 DEF FlagInv, g
  <2> QED
    BY <1>6, <1>14, <1>16, <2>2 DEF FlagInv
<1>18. CountInv'
  <2>1. ASSUME NEW u \in g.steady
        PROVE  Cardinality(PostsTo(posts'[p], u)) + Cardinality(Waiting(v.todo, v.dest, u))
                  = Cardinality(Waiting(GSub, v.dest, u))
    <3>1. Cardinality(PostsTo(posts[p], u)) + Cardinality(Waiting(g.todo, g.dest, u))
             = Cardinality(Waiting(GSub, g.dest, u))
      BY <1>1, <1>14 DEF CountInv, g
    <3>2. g.todo \in SUBSET GSub
      BY <1>1 DEF PubRequest
    <3>3. CASE x.url = u
      <4>1. Cardinality(PostsTo(posts'[p], u)) = Cardinality(PostsTo(posts[p], u)) + 1
        BY <1>2, <1>3, <1>7, <3>3, PostsMore
      <4>2. Cardinality(Waiting(g.todo, g.dest, u)) = Cardinality(Waiting(v.todo, g.dest, u)) + 1
        <5>1. Cardinality(Waiting(g.todo, g.dest, u))
                = Cardinality(Waiting(g.todo \ {d}, g.dest, u)) + 1
          <6>1. g.dest[d] = u /\ d \in g.todo
            BY <1>1, <1>3, <3>3
          <6> HIDE DEF GridIInv
          <6> QED
            BY <3>2, <6>1, WaitingLess
        <5> QED
          BY <1>5, <5>1
      <4>3. /\ Cardinality(PostsTo(posts[p], u)) \in Nat
            /\ Cardinality(Waiting(v.todo, g.dest, u)) \in Nat
        <5>1. Cardinality(PostsTo(posts[p], u)) \in Nat
          BY <1>2, <1>3, PostsMore
        <5>2. Cardinality(Waiting(g.todo \ {d}, g.dest, u)) \in Nat
          BY <1>1, <3>2, WaitingLess
        <5> QED
          BY <1>5, <5>1, <5>2
      <4> QED
        BY <1>5, <3>1, <4>1, <4>2, <4>3
    <3>4. CASE x.url # u
      <4>1. PostsTo(posts'[p], u) = PostsTo(posts[p], u)
        BY <1>2, <1>3, <1>7, <3>4, PostsMore
      <4>2. Waiting(v.todo, g.dest, u) = Waiting(g.todo, g.dest, u)
        BY <1>1, <1>3, <1>5, <3>2, <3>4, WaitingLess
      <4> QED
        BY <1>5, <3>1, <4>1, <4>2
    <3> QED
      BY <3>3, <3>4
  <2>2. greq'[r].listed
    BY <1>1, <1>5, <1>6
  <2>3. \A u \in greq'[r].steady :
           Cardinality(PostsTo(posts'[greq'[r].pub], u))
              + Cardinality(Waiting(greq'[r].todo, greq'[r].dest, u))
           = Cardinality(Waiting(GSub, greq'[r].dest, u))
    BY <1>5, <1>6, <1>14, <2>1
  <2> QED
    BY <1>6, <1>16, <2>2, <2>3 DEF CountInv
<1>19. SteadyInv'
  BY <1>1, <1>4, <1>5, <1>6 DEF SteadyInv, Allowed, IsPrivate, Enabled, g
<1> QED
  BY <1>8, <1>10, <1>11, <1>12, <1>13, <1>15, <1>17, <1>18, <1>19

\* The record takes over the flag, and the request that owned the number ends.
LEMMA RecordEventInv ==
    ASSUME GridIInv, NEW r \in GReq, NEW ok \in BOOLEAN, RecordEvent(r, ok)
    PROVE  GridIInv'
<1> USE DEF GridIInv
<1> DEFINE g == greq[r]
           e == [pub |-> g.pub, topic |-> g.topic, delivered |-> g.delivered]
<1>1. g \in PubRequest /\ Publishing(r)
  BY GridTyped DEF RecordEvent, Publishing
<1>2. e \in LogRow /\ e.pub = g.pub /\ e.delivered = g.delivered
  BY <1>1 DEF LogRow, PubRequest
<1>3. /\ greq' = [greq EXCEPT ![r] = GIdle] /\ log' = (IF ok THEN Append(log, e) ELSE log)
      /\ UNCHANGED <<private, topics, esubs, echoed, posts>>
  BY DEF RecordEvent
<1> HIDE DEF e
<1>4. /\ greq'[r] = GIdle /\ ~Publishing(r)'
      /\ \A q \in GReq \ {r} : greq'[q] = greq[q] /\ (Publishing(q)' <=> Publishing(q))
      /\ greq' \in [GReq -> GRequest \cup {GIdle}]
  BY <1>3, OneRequest
<1>5. log \in Seq(LogRow)
  BY DEF GTypeOK, LogRow
<1>6. /\ log' \in Seq(LogRow)
      /\ \A i \in 1 .. Len(log') : (i \in 1 .. Len(log) /\ log'[i] = log[i]) \/ log'[i] = e
  BY <1>2, <1>3, <1>5
<1>7. GTypeOK'
  BY <1>3, <1>4, <1>6 DEF GTypeOK, LogRow
<1>8. PostedWasValidated' /\ PrivateIsNotReached'
  BY <1>3 DEF PostedWasValidated, PrivateIsNotReached
<1>9. RecordIsTrue'
  <2>1. e.delivered <=> SomeAnswer(posts[e.pub])
    BY <1>1, <1>2 DEF FlagInv
  <2> QED
    BY <1>3, <1>6, <2>1 DEF RecordIsTrue, SomeAnswer
<1>10. DestValidated' /\ LoopInv' /\ FlagInv' /\ SteadyInv' /\ CountInv'
  BY <1>3, <1>4 DEF DestValidated, LoopInv, FlagInv, SteadyInv, CountInv, Allowed, IsPrivate, Enabled
<1>11. OwnInv'
  BY <1>1, <1>2, <1>3, <1>4, <1>6 DEF OwnInv
<1> QED
  BY <1>7, <1>8, <1>9, <1>10, <1>11

LEMMA GridStep == GridIInv /\ [GNext]_gvars => GridIInv'
<1> SUFFICES ASSUME GridIInv, [GNext]_gvars PROVE GridIInv'
  OBVIOUS
<1>1. CASE UNCHANGED gvars
  <2> USE <1>1 DEF gvars, GridIInv
  <2>1. GTypeOK' /\ DestValidated'
    BY DEF GTypeOK, DestValidated
  <2>2. \A q \in GReq : Publishing(q)' => Publishing(q) /\ greq'[q] = greq[q]
    BY DEF Publishing
  <2> QED
    BY <2>1, <2>2, PublishersKept
<1>2. CASE (\E t \in Topic : PutTopicRow(t)) \/ (\E r \in GReq : ListFails(r)) \/ GCrash
  BY <1>2, OutsideInv
<1>9. ASSUME NEW u \in Url \ LabLocal, Rebind(u)
      PROVE  GridIInv'
  BY <1>9, RebindInv
<1>3. ASSUME NEW r \in GReq, NEW t \in Topic, NEW n \in GSub, NEW u \in Url \cup {NoUrl},
             PutSub(r, t, n, u)
      PROVE  GridIInv'
  BY <1>3, PutSubInv
<1>4. ASSUME NEW r \in GReq, NEW ok \in BOOLEAN, Handshake(r, ok) \/ RecordEvent(r, ok)
      PROVE  GridIInv'
  BY <1>4, HandshakeInv, RecordEventInv
<1>5. ASSUME NEW r \in GReq, StoreSub(r) \/ ListEventSubscriptions(r)
      PROVE  GridIInv'
  BY <1>5, StoreSubInv, ListInv
<1>6. ASSUME NEW r \in GReq, NEW t \in Topic, Publish(r, t)
      PROVE  GridIInv'
  BY <1>6, PublishInv
<1>7. ASSUME NEW r \in GReq, NEW n \in GSub, CheckEgress(r, n)
      PROVE  GridIInv'
  BY <1>7, CheckEgressInv
<1>8. ASSUME NEW r \in GReq, NEW out \in Outcome, PostEvent(r, out) \/ PostTimeout(r, out)
      PROVE  GridIInv'
  BY <1>8, PostEndsInv DEF PostEvent, PostTimeout
<1> QED
  BY <1>1, <1>2, <1>3, <1>4, <1>5, <1>6, <1>7, <1>8, <1>9 DEF GNext

\* Events are posted to urls that have echoed, a private address that a name came
\* to resolve to is not reached, and the record says whether a webhook answered.
THEOREM GridAlways == GSpec => []GridInv
<1>1. GridIInv => GridInv
  BY DEF GridIInv, GridInv
<1> QED
  BY <1>1, GridInit, GridStep, PTL DEF GSpec

\* When a publication is answered, each webhook of its listing that egress allowed
\* all the time was posted to, however the posts before ended.
THEOREM EveryoneAlwaysPosted == GSpec => EveryoneIsPosted
<1>1. ASSUME GridIInv, NEW r \in GReq, Publishing(r), NEW ok \in BOOLEAN, RecordEvent(r, ok),
             NEW u \in greq[r].steady
      PROVE  Cardinality({j \in 1 .. Len(posts[greq[r].pub]) : posts[greq[r].pub][j].url = u})
                = Cardinality({n \in GSub : greq[r].dest[n] = u})
  <2> DEFINE P == PostsTo(posts[greq[r].pub], u)
             W == Waiting(GSub, greq[r].dest, u)
  <2>1. greq[r].listed /\ greq[r].todo = {}
    BY <1>1 DEF RecordEvent
  <2>2. Cardinality(P) + Cardinality(Waiting({}, greq[r].dest, u)) = Cardinality(W)
    <3>1. Publishing(r) /\ u \in greq[r].steady
      BY <1>1
    <3>2. CountInv
      BY <1>1 DEF GridIInv
    <3> QED
      BY <2>1, <3>1, <3>2 DEF CountInv
  <2>3. Waiting({}, greq[r].dest, u) = {}
    BY DEF Waiting
  <2>4. Cardinality(P) \in Nat
    <3>1. posts[greq[r].pub] \in Seq(Post)
      BY <1>1 DEF GridIInv, OwnInv, GTypeOK
    <3>2. Len(posts[greq[r].pub]) \in Nat /\ P \subseteq 1 .. Len(posts[greq[r].pub])
      BY <3>1 DEF PostsTo
    <3> QED
      BY <3>2, BoundedSet
  <2>5. Cardinality(Waiting({}, greq[r].dest, u)) = 0
    BY <2>3, FS_EmptySet
  <2> HIDE DEF P, W
  <2>6. Cardinality(P) = Cardinality(W)
    BY <2>2, <2>4, <2>5
  <2> QED
    BY <2>6 DEF PostsTo, Waiting, P, W
<1>2. GridIInv /\ [GNext]_gvars =>
        [\A r \in GReq :
          /\ Publishing(r) /\ \E ok \in BOOLEAN : RecordEvent(r, ok)
          => \A u \in greq[r].steady :
                Cardinality({j \in 1 .. Len(posts[greq[r].pub]) : posts[greq[r].pub][j].url = u})
                   = Cardinality({n \in GSub : greq[r].dest[n] = u})]_gvars
  BY <1>1
<1> QED
  BY <1>2, GridInit, GridStep, PTL DEF GSpec, EveryoneIsPosted

-----------------------------------------------------------------------------
(* Service Bus topics.                                                     *)

\* Send i is among the copies g that a subscription was given.
In(g, i) == \E n \in 1 .. Len(g) : g[n] = i

AllGiven == [s \in Subscription |-> Given(s)]

\* The subscriptions that a send has to reach.
Wanted(w) == IF w.to = 0 THEN w.before ELSE {w.to}

\* No send is twice in a subscription, and every copy is of a send.
GivenOnce ==
    \A s \in Subscription :
       /\ \A m, n \in 1 .. Len(Given(s)) : Given(s)[m] = Given(s)[n] => m = n
       /\ \A n \in 1 .. Len(Given(s)) : Given(s)[n] \in 1 .. Len(sends)

\* Subscriptions stay; what a send came after was answered; an answered send is
\* everywhere it should be.
SendInv ==
    \A i \in 1 .. Len(sends) :
       /\ sends[i].before \subseteq subs
       /\ \A a \in sends[i].after : a \in 1 .. Len(sends) /\ sends[a].end = "answered"
       /\ sends[i].end = "answered" => \A s \in Wanted(sends[i]) : In(AllGiven[s], i)

\* What request q has made of its send w, when g are the copies everywhere: it is
\* not where it has still to go, and it is where it need not go any more.
Fits(q, w, g) ==
    /\ w.end = "open"
    /\ \A s \in q.todo : ~In(g[s], q.send)
    /\ q.listed => \A s \in Wanted(w) : s \in q.todo \/ In(g[s], q.send)
    /\ ~q.listed => w.to = 0 /\ \A s \in Subscription : ~In(g[s], q.send)

\* Every request fits its send, which is no other's.
OpenInv ==
    /\ \A r \in TReq : treq[r] # TIdle =>
          treq[r].send \in 1 .. Len(sends) /\ Fits(treq[r], sends[treq[r].send], AllGiven)
    /\ \A r, q \in TReq : treq[r] # TIdle /\ treq[q] # TIdle /\ r # q
                             => treq[r].send # treq[q].send

\* The inductive invariant of a topic.
TopicIInv == PTypeOK /\ GivenOnce /\ SendInv /\ OpenInv /\ TopicInOrder

LEMMA GivenType ==
    ASSUME PTypeOK, NEW s \in Subscription
    PROVE  /\ Given(s) \in Seq(1 .. MaxSend) /\ Len(Given(s)) \in Nat
           /\ Len(Given(s)) = Len(received[s]) + Len(waiting[s])
<1>1. received[s] \in Seq(1 .. MaxSend) /\ waiting[s] \in Seq(1 .. MaxSend)
  BY DEF PTypeOK
<1> QED
  BY <1>1, ConcatProperties, LenProperties DEF Given

LEMMA TRequestFields ==
    ASSUME PTypeOK, NEW r \in TReq, treq[r] # TIdle
    PROVE  /\ treq[r] \in TRequest /\ treq[r].send \in 1 .. MaxSend
           /\ treq[r].listed \in BOOLEAN /\ treq[r].todo \in SUBSET Subscription
BY DEF PTypeOK, TRequest

LEMMA SendFields ==
    ASSUME PTypeOK, NEW i \in 1 .. Len(sends)
    PROVE  /\ sends[i] \in Send /\ sends[i].before \in SUBSET Subscription
           /\ sends[i].to \in Subscription \cup {0} /\ Wanted(sends[i]) \subseteq Subscription
           /\ sends[i].after \in SUBSET (1 .. MaxSend)
<1>1. sends[i] \in Send
  BY DEF PTypeOK
<1> QED
  BY <1>1 DEF Send, Wanted

LEMMA TopicInit == PInit => TopicIInv
<1> SUFFICES ASSUME PInit PROVE TopicIInv
  OBVIOUS
<1> USE DEF PInit
<1>1. PTypeOK
  <2>1. \A S : <<>> \in Seq(S) /\ Len(<<>>) = 0
    BY EmptySeq
  <2>2. waiting \in [Subscription -> Seq(1 .. MaxSend)]
    BY <2>1
  <2>3. received \in [Subscription -> Seq(1 .. MaxSend)]
    BY <2>1
  <2>4. sends \in Seq(Send) /\ Len(sends) <= MaxSend
    BY <2>1, TopicAssumption
  <2> QED
    BY <2>2, <2>3, <2>4 DEF PTypeOK
<1>2. \A s \in Subscription : Len(Given(s)) = 0
  BY DEF Given
<1>3. GivenOnce /\ TopicInOrder
  BY <1>2 DEF GivenOnce, TopicInOrder
<1>4. SendInv /\ OpenInv
  BY DEF SendInv, OpenInv
<1> QED
  BY <1>1, <1>3, <1>4 DEF TopicIInv

\* No copy is made, and every send keeps all but its end: the order stays.
LEMMA SameGiven ==
    ASSUME TopicIInv, \A s \in Subscription : Given(s)' = Given(s), Len(sends') >= Len(sends),
           Len(sends') \in Nat, \A i \in 1 .. Len(sends) : sends'[i].after = sends[i].after
    PROVE  AllGiven' = AllGiven /\ GivenOnce' /\ TopicInOrder'
<1> USE DEF TopicIInv
<1>1. AllGiven' = AllGiven
  BY DEF AllGiven
<1>2. \A s \in Subscription : \A n \in 1 .. Len(Given(s)) : Given(s)[n] \in 1 .. Len(sends)
  BY DEF GivenOnce
<1>3. Len(sends) \in Nat
  BY DEF PTypeOK
<1>4. GivenOnce'
  BY <1>2, <1>3 DEF GivenOnce
<1>5. TopicInOrder'
  BY <1>2 DEF TopicInOrder
<1> QED
  BY <1>1, <1>4, <1>5

\* The topic is created, or a subscription.
LEMMA PutTopicInv ==
    ASSUME TopicIInv, PutTopic \/ \E s \in Subscription : PutSubscription(s)
    PROVE  TopicIInv'
<1> USE DEF TopicIInv
<1>1. /\ UNCHANGED <<waiting, treq, sends, received>> /\ subs \subseteq subs'
      /\ topic' \in BOOLEAN /\ subs' \subseteq Subscription
  BY DEF PutTopic, PutSubscription, PTypeOK
<1>2. PTypeOK'
  BY <1>1 DEF PTypeOK
<1>3. AllGiven' = AllGiven
  BY <1>1 DEF AllGiven, Given
<1>4. GivenOnce' /\ TopicInOrder'
  BY ZenonT(60), <1>1 DEF GivenOnce, TopicInOrder, Given
<1>5. SendInv'
  BY <1>1, <1>3 DEF SendInv
<1>6. OpenInv'
  BY <1>1, <1>3 DEF OpenInv
<1> QED
  BY <1>2, <1>4, <1>5, <1>6

\* A send comes: it is the newest, and nothing has a copy of it.
LEMMA PostTopicInv ==
    ASSUME TopicIInv, NEW r \in TReq, NEW to \in Subscription \cup {0}, PostTopicMessage(r, to)
    PROVE  TopicIInv'
<1> USE DEF TopicIInv
<1> DEFINE k == Len(sends) + 1
           w == [end |-> "open", before |-> subs, after |-> Answered, to |-> to]
           v == [send |-> k, listed |-> to # 0, todo |-> {to} \ {0}]
<1>1. k \in 1 .. MaxSend /\ Len(sends) \in Nat /\ k = Len(sends) + 1
  BY TopicAssumption DEF PostTopicMessage, PTypeOK
<1>2. /\ \A a \in Answered : a \in 1 .. Len(sends) /\ sends[a].end = "answered"
      /\ Answered \subseteq 1 .. MaxSend
  <2>1. \A a \in Answered : a \in 1 .. Len(sends) /\ sends[a].end = "answered"
    BY DEF Answered
  <2>2. \A a \in 1 .. Len(sends) : a \in 1 .. MaxSend
    BY <1>1, TopicAssumption
  <2> QED
    BY <2>1, <2>2
<1>3. w \in Send /\ w.end = "open" /\ w.before = subs /\ w.after = Answered /\ w.to = to
  BY <1>2 DEF Send, PTypeOK
<1>4. v \in TRequest /\ v.send = k /\ (v.listed <=> to # 0) /\ v.todo = {to} \ {0}
  BY <1>1 DEF TRequest
<1>5. v # TIdle
  BY <1>4, TopicAssumption
<1>6. /\ sends' = Append(sends, w) /\ treq' = [treq EXCEPT ![r] = v]
      /\ UNCHANGED <<topic, subs, waiting, received>>
  BY DEF PostTopicMessage
<1> HIDE DEF k, w, v
<1>7. /\ sends' \in Seq(Send) /\ Len(sends') = k /\ sends'[k] = w
      /\ \A i \in 1 .. Len(sends) : i \in 1 .. Len(sends') /\ sends'[i] = sends[i]
  <2>1. sends \in Seq(Send)
    BY DEF PTypeOK
  <2>2. /\ sends' \in Seq(Send) /\ Len(sends') = k /\ sends'[k] = w
        /\ \A i \in 1 .. Len(sends) : sends'[i] = sends[i]
    BY <1>1, <1>3, <1>6, <2>1, AppendProperties
  <2> QED
    BY <1>1, <2>2
<1>8. /\ treq' \in [TReq -> TRequest \cup {TIdle}] /\ treq'[r] = v
      /\ \A q \in TReq \ {r} : treq'[q] = treq[q]
  BY <1>4, <1>6 DEF PTypeOK
<1>9. PTypeOK'
  BY <1>1, <1>6, <1>7, <1>8 DEF PTypeOK
<1>10. AllGiven' = AllGiven /\ GivenOnce' /\ TopicInOrder'
  <2>1. \A s \in Subscription : Given(s)' = Given(s)
    BY <1>6 DEF Given
  <2> QED
    BY <1>1, <1>7, <2>1, SameGiven
<1>11. \A s \in Subscription : ~In(AllGiven[s], k)
  BY <1>1 DEF In, GivenOnce, AllGiven
<1>12. SendInv'
  <2> SUFFICES ASSUME NEW i \in 1 .. Len(sends')
               PROVE  /\ sends'[i].before \subseteq subs'
                      /\ \A a \in sends'[i].after :
                            a \in 1 .. Len(sends') /\ sends'[a].end = "answered"
                      /\ sends'[i].end = "answered" =>
                            \A s \in Wanted(sends'[i]) : In(AllGiven'[s], i)
    BY DEF SendInv
  <2>1. CASE i = k
    BY <1>2, <1>3, <1>6, <1>7, <2>1
  <2>2. CASE i \in 1 .. Len(sends)
    BY <1>6, <1>7, <1>10, <2>2 DEF SendInv
  <2> QED
    BY <1>1, <1>7, <2>1, <2>2
<1>13. Fits(v, w, AllGiven)
  <2>1. Wanted(w) = IF to = 0 THEN subs ELSE {to}
    BY <1>3 DEF Wanted
  <2>2. v.todo \subseteq Subscription
    BY <1>4
  <2> QED
    BY <1>3, <1>4, <1>11, <2>1, <2>2 DEF Fits
<1>14. OpenInv'
  <2>1. \A q \in TReq \ {r} : treq[q] # TIdle =>
           treq[q].send \in 1 .. Len(sends) /\ Fits(treq[q], sends[treq[q].send], AllGiven)
    BY DEF OpenInv
  <2>2. ASSUME NEW q \in TReq, treq'[q] # TIdle
        PROVE  /\ treq'[q].send \in 1 .. Len(sends')
               /\ Fits(treq'[q], sends'[treq'[q].send], AllGiven')
    <3>1. CASE q = r
      BY <1>1, <1>4, <1>7, <1>8, <1>10, <1>13, <3>1
    <3>2. CASE q # r
      BY <1>7, <1>8, <1>10, <2>1, <2>2, <3>2
    <3> QED
      BY <3>1, <3>2
  <2>3. ASSUME NEW p \in TReq, NEW q \in TReq, treq'[p] # TIdle, treq'[q] # TIdle, p # q
        PROVE  treq'[p].send # treq'[q].send
    BY <1>1, <1>4, <1>8, <2>1, <2>3 DEF OpenInv
  <2> QED
    BY <2>2, <2>3 DEF OpenInv
<1> QED
  BY <1>9, <1>10, <1>12, <1>14

\* The listing names every subscription that was there when the send came.
LEMMA ListSubscriptionsInv ==
    ASSUME TopicIInv, NEW r \in TReq, ListSubscriptions(r)
    PROVE  TopicIInv'
<1> USE DEF TopicIInv
<1> DEFINE v == [treq[r] EXCEPT !.listed = TRUE, !.todo = subs]
           w == sends[treq[r].send]
<1>1. treq[r] # TIdle /\ ~treq[r].listed /\ treq[r] \in TRequest
  BY TRequestFields DEF ListSubscriptions
<1>2. /\ treq' = [treq EXCEPT ![r] = v] /\ UNCHANGED <<topic, subs, waiting, sends, received>>
  BY DEF ListSubscriptions, PTypeOK
<1>3. v \in TRequest /\ v.listed /\ v.todo = subs /\ v.send = treq[r].send
  BY <1>1 DEF TRequest, PTypeOK
<1> HIDE DEF v
<1>4. v # TIdle
  BY <1>3, TopicAssumption
<1>5. /\ treq' \in [TReq -> TRequest \cup {TIdle}] /\ treq'[r] = v
      /\ \A q \in TReq \ {r} : treq'[q] = treq[q]
  BY <1>2, <1>3 DEF PTypeOK
<1>6. PTypeOK'
  BY <1>2, <1>5 DEF PTypeOK
<1>7. AllGiven' = AllGiven /\ GivenOnce' /\ TopicInOrder'
  BY ZenonT(60), <1>2 DEF AllGiven, Given, GivenOnce, TopicInOrder
<1>8. SendInv'
  BY <1>2, <1>7 DEF SendInv
<1>9. Fits(v, w, AllGiven)
  <2>1. Fits(treq[r], w, AllGiven) /\ treq[r].send \in 1 .. Len(sends)
    BY <1>1 DEF OpenInv
  <2>2. w.before \subseteq subs /\ subs \subseteq Subscription
    BY <2>1 DEF SendInv, PTypeOK
  <2> HIDE DEF w
  <2> QED
    BY <1>1, <1>3, <2>1, <2>2 DEF Fits, Wanted
<1>10. OpenInv'
  BY <1>1, <1>2, <1>3, <1>5, <1>7, <1>9 DEF OpenInv
<1> QED
  BY <1>6, <1>7, <1>8, <1>10

\* A set of names has a first.
LEMMA FirstOf ==
    ASSUME NEW S, S \subseteq Nat, S # {}
    PROVE  \E m \in S : \A k \in S : m <= k
<1>1. PICK m \in S : \A k \in S : ~ (<<k, m>> \in OpToRel(<, Nat))
  BY NatLessThanWellFounded, WFMin, Zenon
<1>2. \A k \in S : ~ (k < m)
  BY <1>1, Zenon DEF OpToRel
<1> QED
  BY <1>2

\* A copy behind all others is one copy more.
LEMMA CopyBehind ==
    ASSUME NEW S, NEW g \in Seq(S), NEW i \in S
    PROVE  /\ Append(g, i) \in Seq(S) /\ Len(g) \in Nat /\ Len(Append(g, i)) = Len(g) + 1
           /\ Append(g, i)[Len(g) + 1] = i
           /\ \A n \in 1 .. Len(g) : Append(g, i)[n] = g[n]
           /\ \A j : In(Append(g, i), j) <=> In(g, j) \/ j = i
<1>1. /\ Append(g, i) \in Seq(S) /\ Len(g) \in Nat /\ Len(Append(g, i)) = Len(g) + 1
      /\ Append(g, i)[Len(g) + 1] = i /\ \A n \in 1 .. Len(g) : Append(g, i)[n] = g[n]
  BY AppendProperties, LenProperties
<1> DEFINE h == Append(g, i)
<1> HIDE DEF h
<1>2. \A j : In(h, j) <=> In(g, j) \/ j = i
  BY <1>1 DEF In, h
<1> QED
  BY <1>1, <1>2 DEF h

\* Handing out the first copy, or adding a last one, to what was given.
LEMMA AppendGiven ==
    ASSUME NEW S, NEW a \in Seq(S), NEW b \in Seq(S), NEW i \in S
    PROVE  a \o Append(b, i) = Append(a \o b, i)
<1>1. /\ Append(b, i) \in Seq(S) /\ a \o b \in Seq(S) /\ Len(a) \in Nat /\ Len(b) \in Nat
      /\ Len(Append(b, i)) = Len(b) + 1 /\ Len(a \o b) = Len(a) + Len(b)
  BY AppendProperties, ConcatProperties, LenProperties
<1>2. /\ a \o Append(b, i) \in Seq(S) /\ Append(a \o b, i) \in Seq(S)
      /\ Len(a \o Append(b, i)) = Len(Append(a \o b, i))
      /\ Len(a \o Append(b, i)) = Len(a) + Len(b) + 1
  BY <1>1, AppendProperties, ConcatProperties
<1>3. ASSUME NEW n \in 1 .. (Len(a) + Len(b) + 1)
      PROVE  (a \o Append(b, i))[n] = Append(a \o b, i)[n]
  BY <1>1, <1>3
<1> QED
  BY <1>2, <1>3, SeqEqual

LEMMA HandOver ==
    ASSUME NEW S, NEW a \in Seq(S), NEW b \in Seq(S), b # <<>>
    PROVE  Append(a, Head(b)) \o Tail(b) = a \o b
<1>1. /\ Head(b) \in S /\ Tail(b) \in Seq(S) /\ Len(Tail(b)) = Len(b) - 1 /\ Len(b) \in Nat
      /\ Len(b) # 0 /\ Head(b) = b[1] /\ \A n \in 1 .. Len(Tail(b)) : Tail(b)[n] = b[n + 1]
  BY HeadTailProperties, LenProperties, EmptySeq
<1>2. /\ Append(a, Head(b)) \in Seq(S) /\ Len(Append(a, Head(b))) = Len(a) + 1 /\ Len(a) \in Nat
  BY <1>1, AppendProperties, LenProperties
<1>3. /\ Append(a, Head(b)) \o Tail(b) \in Seq(S) /\ a \o b \in Seq(S)
      /\ Len(Append(a, Head(b)) \o Tail(b)) = Len(a) + Len(b) /\ Len(a \o b) = Len(a) + Len(b)
  BY <1>1, <1>2, ConcatProperties
<1>4. ASSUME NEW n \in 1 .. (Len(a) + Len(b))
      PROVE  (Append(a, Head(b)) \o Tail(b))[n] = (a \o b)[n]
  BY <1>1, <1>2, <1>4
<1> QED
  BY <1>3, <1>4, SeqEqual

\* One INSERT of the loop.  The send is open, so nothing came after it was
\* answered, and the copy may stand behind all others.
LEMMA OneCopy ==
    ASSUME TopicIInv, NEW r \in TReq, treq[r] # TIdle, treq[r].listed,
           NEW s \in treq[r].todo, NEW i, i = treq[r].send,
           waiting' = [waiting EXCEPT ![s] = Append(@, i)], treq' = [treq EXCEPT ![r].todo = @ \ {s}],
           UNCHANGED <<topic, subs, sends, received>>
    PROVE  TopicIInv'
<1> USE DEF TopicIInv
<1> DEFINE w == sends[i]
           v == [treq[r] EXCEPT !.todo = @ \ {s}]
<1>1. treq[r] \in TRequest /\ treq[r].todo \subseteq Subscription /\ i \in 1 .. MaxSend
  BY TRequestFields
<1>3. /\ i \in 1 .. Len(sends) /\ Fits(treq[r], w, AllGiven)
  BY DEF OpenInv
<1>4. waiting' = [waiting EXCEPT ![s] = Append(waiting[s], i)] /\ treq' = [treq EXCEPT ![r] = v]
  BY DEF PTypeOK
<1> HIDE DEF w
<1>5. v \in TRequest /\ v.listed = treq[r].listed /\ v.todo = treq[r].todo \ {s} /\ v.send = i
  BY <1>1 DEF TRequest
<1> HIDE DEF v
<1>6. v # TIdle
  BY <1>5, TopicAssumption
<1>7. /\ treq' \in [TReq -> TRequest \cup {TIdle}] /\ treq'[r] = v
      /\ \A q \in TReq \ {r} : treq'[q] = treq[q]
  BY <1>4, <1>5 DEF PTypeOK
<1>8. s \in Subscription /\ received[s] \in Seq(1 .. MaxSend) /\ waiting[s] \in Seq(1 .. MaxSend)
  BY <1>1 DEF PTypeOK
<1>9. waiting' \in [Subscription -> Seq(1 .. MaxSend)] /\ waiting'[s] = Append(waiting[s], i)
  <2>1. Append(waiting[s], i) \in Seq(1 .. MaxSend)
    BY <1>1, <1>8, AppendProperties
  <2> QED
    BY <1>4, <1>8, <2>1 DEF PTypeOK
<1>10. PTypeOK'
  BY <1>4, <1>7, <1>9 DEF PTypeOK
<1>11. Given(s)' = Append(Given(s), i) /\ \A t \in Subscription \ {s} : Given(t)' = Given(t)
  <2>1. received[s] \o Append(waiting[s], i) = Append(received[s] \o waiting[s], i)
    <3> DEFINE S == 1 .. MaxSend
               a == received[s]
               b == waiting[s]
    <3>1. a \in Seq(S) /\ b \in Seq(S) /\ i \in S
      BY <1>1, <1>8
    <3> HIDE DEF S, a, b
    <3>2. a \o Append(b, i) = Append(a \o b, i)
      BY <3>1, AppendGiven
    <3> QED
      BY <3>2 DEF a, b
  <2>2. \A t \in Subscription \ {s} : waiting'[t] = waiting[t]
    BY <1>4 DEF PTypeOK
  <2> QED
    BY <1>9, <2>1, <2>2 DEF Given
<1>13. Given(s) \in Seq(1 .. MaxSend) /\ Len(Given(s)) \in Nat
  BY <1>8, GivenType
<1> DEFINE k == Len(Given(s)) + 1
<1>14. /\ Len(Given(s)') = k /\ k = Len(Given(s)) + 1 /\ Given(s)'[k] = i
       /\ \A n \in 1 .. Len(Given(s)) : Given(s)'[n] = Given(s)[n]
       /\ \A j : In(Given(s)', j) <=> In(Given(s), j) \/ j = i
  <2> DEFINE g == Given(s)
             h == Given(s)'
  <2>1. /\ Len(Append(g, i)) = Len(g) + 1 /\ Append(g, i)[Len(g) + 1] = i
        /\ \A n \in 1 .. Len(g) : Append(g, i)[n] = g[n]
        /\ \A j : In(Append(g, i), j) <=> In(g, j) \/ j = i
    <3> DEFINE S == 1 .. MaxSend
    <3>1. g \in Seq(S) /\ i \in S
      BY <1>1, <1>13
    <3> HIDE DEF S, g, TopicIInv
    <3> QED
      BY <3>1, CopyBehind
  <2>2. h = Append(g, i)
    BY <1>11
  <2> QED
    BY <2>1, <2>2, Zenon
<1> HIDE DEF k
<1>15. \A t \in Subscription, j \in 1 .. Len(sends) :
          In(AllGiven'[t], j) <=> In(AllGiven[t], j) \/ (t = s /\ j = i)
  BY <1>8, <1>11, <1>14 DEF AllGiven
<1>16. ~In(Given(s), i) /\ \A n \in 1 .. Len(Given(s)) : Given(s)[n] # i
  <2>1. ~In(AllGiven[s], treq[r].send)
    BY <1>3 DEF Fits
  <2> QED
    BY <1>8, <2>1 DEF AllGiven, In
<1>17. GivenOnce'
  <2>1. ASSUME NEW t \in Subscription \ {s}
        PROVE  /\ \A m, n \in 1 .. Len(Given(t)') : Given(t)'[m] = Given(t)'[n] => m = n
               /\ \A n \in 1 .. Len(Given(t)') : Given(t)'[n] \in 1 .. Len(sends')
    BY <1>4, <1>11 DEF GivenOnce
  <2>2. \A n \in 1 .. Len(Given(s)') : n \in 1 .. Len(Given(s)) \/ n = k
    BY <1>13, <1>14
  <2>3. \A m, n \in 1 .. Len(Given(s)') : Given(s)'[m] = Given(s)'[n] => m = n
    BY <1>8, <1>14, <1>16, <2>2 DEF GivenOnce
  <2>4. \A n \in 1 .. Len(Given(s)') : Given(s)'[n] \in 1 .. Len(sends')
    BY <1>3, <1>4, <1>8, <1>14, <2>2 DEF GivenOnce
  <2> QED
    BY <2>1, <2>3, <2>4 DEF GivenOnce
<1>18. \A j \in 1 .. Len(sends) : i \notin sends[j].after
  <2>1. w.end = "open"
    BY <1>3 DEF Fits
  <2> QED
    BY <2>1 DEF SendInv, w
<1>19. TopicInOrder'
  <2> SUFFICES ASSUME NEW t \in Subscription, NEW m \in 1 .. Len(Given(t)'),
                      NEW n \in 1 .. Len(Given(t)'),
                      Given(t)'[m] \in sends[Given(t)'[n]].after
               PROVE  m < n
    BY <1>4 DEF TopicInOrder
  <2>1. Given(t)'[n] \in 1 .. Len(sends)
    BY <1>4, <1>17 DEF GivenOnce
  <2>2. Given(t)'[m] # i
    BY <1>18, <2>1
  <2>3. CASE t # s
    BY <1>11, <2>3 DEF TopicInOrder
  <2>4. CASE t = s
    <3>1. m \in 1 .. Len(Given(s)) /\ Given(s)'[m] = Given(s)[m]
      BY <1>13, <1>14, <2>2, <2>4
    <3>2. CASE n = k
      BY <1>13, <1>14, <3>1, <3>2
    <3>3. CASE n \in 1 .. Len(Given(s))
      BY <1>8, <1>14, <2>4, <3>1, <3>3 DEF TopicInOrder
    <3> QED
      BY <1>13, <1>14, <2>4, <3>2, <3>3
  <2> QED
    BY <2>3, <2>4
<1>20. SendInv'
  <2>1. \A j \in 1 .. Len(sends) : Wanted(sends[j]) \subseteq Subscription
    BY SendFields
  <2> QED
    BY <1>4, <1>15, <2>1 DEF SendInv
<1>21. Fits(v, w, AllGiven')
  <2>1. Wanted(w) \subseteq Subscription
    BY <1>3, SendFields DEF w
  <2>2. \A t \in v.todo : t \in Subscription /\ t # s /\ ~In(AllGiven[t], i)
    BY <1>1, <1>3, <1>5 DEF Fits
  <2>3. \A t \in Wanted(w) : t \in v.todo \/ In(AllGiven'[t], i)
    BY <1>3, <1>5, <1>15, <2>1 DEF Fits
  <2>4. w.end = "open"
    BY <1>3 DEF Fits
  <2> QED
    BY <1>1, <1>3, <1>5, <1>15, <2>2, <2>3, <2>4 DEF Fits
<1>22. ASSUME NEW q \in TReq \ {r}, treq[q] # TIdle
       PROVE  /\ treq[q].send \in 1 .. Len(sends) /\ treq[q].send # i
              /\ Fits(treq[q], sends[treq[q].send], AllGiven')
  <2>1. /\ treq[q].send \in 1 .. Len(sends) /\ treq[q].send # i
        /\ Fits(treq[q], sends[treq[q].send], AllGiven)
    BY <1>22 DEF OpenInv
  <2>2. treq[q].todo \subseteq Subscription /\ Wanted(sends[treq[q].send]) \subseteq Subscription
    BY <1>22, <2>1, TRequestFields, SendFields
  <2>3. \A t \in Subscription : In(AllGiven'[t], treq[q].send) <=> In(AllGiven[t], treq[q].send)
    BY <1>15, <2>1
  <2> QED
    BY <2>1, <2>2, <2>3 DEF Fits
<1>23. OpenInv'
  <2>1. /\ treq'[r].send \in 1 .. Len(sends') /\ treq'[r].send = i
        /\ Fits(treq'[r], sends'[treq'[r].send], AllGiven')
    BY <1>3, <1>4, <1>5, <1>7, <1>21 DEF w
  <2>2. \A p, q \in TReq : treq'[p] # TIdle /\ treq'[q] # TIdle /\ p # q
                             => treq'[p].send # treq'[q].send
    BY <1>7, <1>22, <2>1 DEF OpenInv
  <2> QED
    BY <1>4, <1>7, <1>22, <2>1, <2>2 DEF OpenInv
<1> QED
  BY <1>10, <1>17, <1>19, <1>20, <1>23

LEMMA EnqueueInv ==
    ASSUME TopicIInv, NEW r \in TReq, EnqueueSBTopic(r)
    PROVE  TopicIInv'
<1>1. treq[r] # TIdle /\ treq[r].todo # {} /\ treq[r].todo \subseteq Subscription
  BY TRequestFields DEF EnqueueSBTopic, TopicIInv
<1>2. \E m \in treq[r].todo : \A k \in treq[r].todo : m <= k
  BY <1>1, FirstOf, TopicAssumption
<1>3. PICK s \in treq[r].todo : s = CHOOSE x \in treq[r].todo : \A y \in treq[r].todo : x <= y
  BY <1>2
<1>4. PICK i : i = treq[r].send
  OBVIOUS
<1> QED
  BY <1>1, <1>3, <1>4, OneCopy DEF EnqueueSBTopic

\* A send is answered or fails, and its request ends.
Ends(r, e) ==
    /\ sends' = [sends EXCEPT ![treq[r].send].end = e]
    /\ treq' = [treq EXCEPT ![r] = TIdle]

LEMMA EndsInv ==
    ASSUME TopicIInv, NEW r \in TReq, treq[r] # TIdle, NEW e \in {"answered", "failed"}, Ends(r, e),
           e = "answered" => treq[r].listed /\ treq[r].todo = {},
           UNCHANGED <<topic, subs, waiting, received>>
    PROVE  TopicIInv'
<1> USE DEF TopicIInv
<1>0. PICK i : i = treq[r].send
  OBVIOUS
<1>1. i \in 1 .. Len(sends) /\ Fits(treq[r], sends[i], AllGiven)
  BY <1>0 DEF OpenInv
<1>2. /\ sends' \in Seq(Send) /\ Len(sends') = Len(sends) /\ Len(sends) \in Nat
      /\ \A j \in 1 .. Len(sends) :
            /\ sends'[j].before = sends[j].before /\ sends'[j].after = sends[j].after
            /\ sends'[j].to = sends[j].to
            /\ sends'[j].end = IF j = i THEN e ELSE sends[j].end
            /\ j # i => sends'[j] = sends[j]
  <2> DEFINE v == [sends[i] EXCEPT !.end = e]
  <2>1. sends[i] \in Send /\ sends \in Seq(Send) /\ Len(sends) \in Nat
    BY <1>1 DEF PTypeOK
  <2>2. /\ v \in Send /\ v.before = sends[i].before /\ v.after = sends[i].after
        /\ v.to = sends[i].to /\ v.end = e
    BY <2>1 DEF Send
  <2>3. sends' = [sends EXCEPT ![i] = v]
    BY <1>0, <1>1, <2>1 DEF Ends
  <2> HIDE DEF v, TopicIInv
  <2>4. /\ sends' \in Seq(Send) /\ Len(sends') = Len(sends)
        /\ \A j \in 1 .. Len(sends) : sends'[j] = IF j = i THEN v ELSE sends[j]
    BY <1>1, <2>1, <2>2, <2>3, ExceptSeq
  <2> QED
    BY <2>1, <2>2, <2>4
<1>3. /\ treq' \in [TReq -> TRequest \cup {TIdle}] /\ treq'[r] = TIdle
      /\ \A q \in TReq \ {r} : treq'[q] = treq[q]
  BY DEF PTypeOK, Ends
<1>4. PTypeOK'
  BY <1>2, <1>3 DEF PTypeOK
<1>5. AllGiven' = AllGiven /\ GivenOnce' /\ TopicInOrder'
  <2>1. \A s \in Subscription : Given(s)' = Given(s)
    BY DEF Given
  <2> QED
    BY <1>2, <2>1, SameGiven
<1>6. e = "answered" => \A s \in Wanted(sends[i]) : In(AllGiven[s], i)
  BY <1>0, <1>1 DEF Fits
<1>7. \A j \in 1 .. Len(sends) : Wanted(sends'[j]) = Wanted(sends[j])
  BY <1>2 DEF Wanted
<1>8. sends[i].end = "open"
  BY <1>1 DEF Fits
<1>9. SendInv'
  BY <1>1, <1>2, <1>5, <1>6, <1>7, <1>8 DEF SendInv
<1>10. OpenInv'
  <2>1. \A q \in TReq \ {r} : treq[q] # TIdle =>
           treq[q].send # i /\ sends'[treq[q].send] = sends[treq[q].send]
    BY <1>0, <1>2 DEF OpenInv
  <2> QED
    BY <1>2, <1>3, <1>5, <2>1 DEF OpenInv
<1> QED
  BY <1>4, <1>5, <1>9, <1>10

LEMMA DequeueInv ==
    ASSUME TopicIInv, NEW s \in Subscription, DequeueSBTopic(s)
    PROVE  TopicIInv'
<1> USE DEF TopicIInv
<1> DEFINE a == received[s]
           b == waiting[s]
<1>1. a \in Seq(1 .. MaxSend) /\ b \in Seq(1 .. MaxSend) /\ b # <<>>
  BY DEF PTypeOK, DequeueSBTopic
<1>2. /\ received' = [received EXCEPT ![s] = Append(a, Head(b))]
      /\ waiting' = [waiting EXCEPT ![s] = Tail(b)] /\ UNCHANGED <<topic, subs, treq, sends>>
  BY DEF DequeueSBTopic
<1> HIDE DEF a, b
<1>3. Append(a, Head(b)) \in Seq(1 .. MaxSend) /\ Tail(b) \in Seq(1 .. MaxSend)
  BY <1>1, HeadTailProperties, AppendProperties
<1>4. /\ waiting' \in [Subscription -> Seq(1 .. MaxSend)] /\ waiting'[s] = Tail(b)
      /\ received' \in [Subscription -> Seq(1 .. MaxSend)] /\ received'[s] = Append(a, Head(b))
      /\ \A t \in Subscription \ {s} : waiting'[t] = waiting[t] /\ received'[t] = received[t]
  BY <1>2, <1>3 DEF PTypeOK
<1>5. PTypeOK'
  BY <1>2, <1>4 DEF PTypeOK
<1>6. Append(a, Head(b)) \o Tail(b) = a \o b
  BY <1>1, HandOver
<1>7. \A t \in Subscription : Given(t)' = Given(t)
  BY <1>4, <1>6 DEF Given, a, b
<1>8. Len(sends) \in Nat
  BY DEF PTypeOK
<1>9. AllGiven' = AllGiven /\ GivenOnce' /\ TopicInOrder'
  BY <1>2, <1>7, <1>8, SameGiven
<1>10. SendInv' /\ OpenInv'
  BY <1>2, <1>9 DEF SendInv, OpenInv
<1> QED
  BY <1>5, <1>9, <1>10

\* The process stops: every open send has failed.
LEMMA TopicCrashInv ==
    ASSUME TopicIInv, PCrash
    PROVE  TopicIInv'
<1> USE DEF TopicIInv
<1> DEFINE f(j) == IF sends[j].end = "open" THEN [sends[j] EXCEPT !.end = "failed"] ELSE sends[j]
<1>1. sends' = [j \in 1 .. Len(sends) |-> f(j)] /\ UNCHANGED <<topic, subs, waiting, received>>
  BY DEF PCrash
<1>2. Len(sends) \in Nat /\ sends \in Seq(Send)
  BY DEF PTypeOK
<1>3. ASSUME NEW j \in 1 .. Len(sends)
      PROVE  /\ f(j) \in Send /\ f(j).before = sends[j].before /\ f(j).after = sends[j].after
             /\ f(j).to = sends[j].to /\ (f(j).end = "answered" <=> sends[j].end = "answered")
  <2>1. sends[j] \in Send
    BY <1>2
  <2> QED
    BY <2>1 DEF Send
<1> HIDE DEF f
<1>4. sends' \in Seq(Send) /\ Len(sends') = Len(sends) /\ \A j \in 1 .. Len(sends) : sends'[j] = f(j)
  BY <1>1, <1>2, <1>3
<1>5. PTypeOK'
  BY <1>1, <1>4 DEF PTypeOK, PCrash
<1>6. AllGiven' = AllGiven /\ GivenOnce' /\ TopicInOrder'
  <2>1. \A s \in Subscription : Given(s)' = Given(s)
    BY <1>1 DEF Given
  <2> QED
    BY <1>2, <1>3, <1>4, <2>1, SameGiven
<1>7. SendInv'
  BY <1>1, <1>3, <1>4, <1>6 DEF SendInv, Wanted
<1>8. OpenInv'
  BY DEF OpenInv, PCrash
<1> QED
  BY <1>5, <1>6, <1>7, <1>8

LEMMA TopicStep == TopicIInv /\ [PNext]_pvars => TopicIInv'
<1> SUFFICES ASSUME TopicIInv, [PNext]_pvars PROVE TopicIInv'
  OBVIOUS
<1>1. CASE UNCHANGED pvars
  <2> USE <1>1 DEF pvars, TopicIInv
  <2>1. AllGiven' = AllGiven /\ PTypeOK' /\ GivenOnce' /\ TopicInOrder'
    BY DEF AllGiven, Given, PTypeOK, GivenOnce, TopicInOrder
  <2>2. SendInv' /\ OpenInv'
    BY <2>1 DEF SendInv, OpenInv
  <2> QED
    BY <2>1, <2>2
<1>2. CASE PutTopic \/ \E s \in Subscription : PutSubscription(s)
  BY <1>2, PutTopicInv
<1>3. ASSUME NEW s \in Subscription, DequeueSBTopic(s) PROVE TopicIInv'
  BY <1>3, DequeueInv
<1>4. ASSUME NEW r \in TReq, NEW to \in Subscription \cup {0}, PostTopicMessage(r, to)
      PROVE  TopicIInv'
  BY <1>4, PostTopicInv
<1>5. ASSUME NEW r \in TReq, ListSubscriptions(r) \/ EnqueueSBTopic(r) PROVE TopicIInv'
  BY <1>5, ListSubscriptionsInv, EnqueueInv
<1>6. ASSUME NEW r \in TReq, AnswerSend(r) PROVE TopicIInv'
  BY <1>6, EndsInv DEF AnswerSend, Ends
<1>7. ASSUME NEW r \in TReq, FailSend(r) PROVE TopicIInv'
  BY <1>7, EndsInv DEF FailSend, Ends
<1>8. CASE PCrash
  BY <1>8, TopicCrashInv
<1> QED
  BY <1>1, <1>2, <1>3, <1>4, <1>5, <1>6, <1>7, <1>8 DEF PNext

\* From positions to numbers of copies.
LEMMA CopiesOf ==
    ASSUME TopicIInv, NEW s \in Subscription, NEW i \in 1 .. Len(sends)
    PROVE  Copies(s, i) <= 1 /\ (In(Given(s), i) => Copies(s, i) = 1)
<1> DEFINE T == {n \in 1 .. Len(Given(s)) : Given(s)[n] = i}
<1>0. Copies(s, i) = Cardinality(T)
  BY DEF Copies
<1>1. CASE T = {}
  <2>1. ~In(Given(s), i)
    BY <1>1 DEF In
  <2>2. Cardinality(T) = 0
    BY <1>1, FS_EmptySet
  <2> HIDE DEF T
  <2> QED
    BY <1>0, <2>1, <2>2
<1>2. CASE T # {}
  <2>1. PICK n \in 1 .. Len(Given(s)) : Given(s)[n] = i
    BY <1>2
  <2>2. T = {n}
    BY <2>1 DEF TopicIInv, GivenOnce
  <2>3. Cardinality(T) = 1
    BY <2>2, FS_Singleton
  <2> HIDE DEF T
  <2> QED
    BY <1>0, <2>3
<1> QED
  BY <1>1, <1>2

\* An answered send is once in every subscription it found, behind all that was
\* answered before it came.
THEOREM TopicsAlways == PSpec => []TopicsInv
<1>1. TopicIInv => TopicsInv
  <2> SUFFICES ASSUME TopicIInv PROVE FanOutIsWhole
    BY DEF TopicIInv, TopicsInv
  <2> SUFFICES ASSUME NEW i \in 1 .. Len(sends), NEW s \in Subscription
               PROVE  /\ Copies(s, i) <= 1
                      /\ sends[i].end = "answered"
                           /\ (IF sends[i].to = 0 THEN s \in sends[i].before ELSE s = sends[i].to)
                           => Copies(s, i) = 1
    BY DEF FanOutIsWhole
  <2>1. sends[i].end = "answered" /\ s \in Wanted(sends[i]) => In(Given(s), i)
    BY DEF TopicIInv, SendInv, AllGiven
  <2> QED
    BY <2>1, CopiesOf DEF Wanted
<1> QED
  BY <1>1, TopicInit, TopicStep, PTL DEF PSpec

-----------------------------------------------------------------------------
(* Event Hubs.                                                             *)

SamePartition(d, e) == d.ns = e.ns /\ d.part = e.part

\* Copies are numbered as they come, and waiting events stand in that order.
IdInv ==
    /\ \A i \in 1 .. Len(captured) : captured[i].id = i
    /\ \A i, j \in 1 .. Len(live) : i < j => live[i].id < live[j].id

\* What was taken of a partition came in order and before what waits.
TakenInv ==
    /\ \A i, j \in 1 .. Len(taken) :
          i < j /\ SamePartition(taken[i], taken[j]) => taken[i].id < taken[j].id
    /\ \A i \in 1 .. Len(taken), j \in 1 .. Len(live) :
          SamePartition(taken[i], live[j]) => taken[i].id < live[j].id

\* A request has noticed every right that its caller has, and found only such.
HeldInv ==
    \A r \in HReq : hreq[r] # HIdle =>
       /\ hreq[r].keys \subseteq hreq[r].held
       /\ HeldBy(hroles, hreq[r].of, hreq[r].op) \subseteq hreq[r].held

\* The inductive invariant of a hub.
HubIInv == HTypeOK /\ CaptureIsWhole /\ IdInv /\ TakenInv /\ HeldInv

\* What a request may name.
PartName == Partition \cup {""}

LEMMA HubTypes ==
    ASSUME HTypeOK
    PROVE  /\ live \in Seq(Event) /\ captured \in Seq(Event) /\ taken \in Seq(Event)
           /\ Len(live) \in Nat /\ Len(captured) \in Nat /\ Len(taken) \in Nat
           /\ Len(captured) <= MaxEvent
BY DEF HTypeOK

LEMMA HRequestFields ==
    ASSUME HTypeOK, NEW r \in HReq, hreq[r] # HIdle
    PROVE  /\ hreq[r] \in HRequest /\ hreq[r].todo \in SUBSET HGroup
           /\ hreq[r].keys \in SUBSET HGroup /\ hreq[r].held \in SUBSET HGroup
           /\ hreq[r].op \in {"send", "receive", "capture"} /\ hreq[r].of \in Caller
BY DEF HTypeOK, HRequest

LEMMA HubInit == HInit => HubIInv
<1> SUFFICES ASSUME HInit PROVE HubIInv
  OBVIOUS
<1> USE DEF HInit
<1>1. \A S : <<>> \in Seq(S) /\ Len(<<>>) = 0
  BY EmptySeq
<1>2. HTypeOK
  <2>1. MaxEvent \in Nat
    BY HubAssumption
  <2>2. <<>> \in Seq(Event) /\ Len(<<>>) <= MaxEvent
    BY <1>1, <2>1
  <2>3. \A q \in {live, captured, taken} : q \in Seq(Event) /\ Len(q) <= MaxEvent
    BY <2>2
  <2> QED
    BY <2>3 DEF HTypeOK
<1>3. CaptureIsWhole
  BY <1>1 DEF CaptureIsWhole, Elements
<1>4. IdInv /\ TakenInv /\ HeldInv
  BY <1>1 DEF IdInv, TakenInv, HeldInv
<1> QED
  BY <1>2, <1>3, <1>4 DEF HubIInv

\* The events are left alone.
LEMMA EventsStay ==
    ASSUME HubIInv, UNCHANGED <<live, captured, taken>>, hns' \subseteq HGroup, hns \subseteq hns',
           hroles' \subseteq HubRole, hubs' \in BOOLEAN, hubs' => hns' # {},
           hreq' \in [HReq -> HRequest \cup {HIdle}], HeldInv'
    PROVE  HubIInv'
<1> USE DEF HubIInv
<1>1. HTypeOK'
  BY DEF HTypeOK
<1>2. CaptureIsWhole'
  BY ZenonT(60) DEF CaptureIsWhole, Elements
<1>3. IdInv' /\ TakenInv'
  BY DEF IdInv, TakenInv
<1> QED
  BY <1>1, <1>2, <1>3

\* Namespaces and hubs are created.
LEMMA HubManagementInv ==
    ASSUME HubIInv, NEW g \in HGroup, PutNamespace(g) \/ PutHub(g) \/ PutConsumerGroup(g)
    PROVE  HubIInv'
<1> USE DEF HubIInv
<1>1. /\ UNCHANGED <<live, captured, taken, hroles, hreq>> /\ hns' \subseteq HGroup /\ hns \subseteq hns'
      /\ hubs' \in BOOLEAN /\ (hubs' => hns' # {})
  BY DEF PutNamespace, PutHub, PutConsumerGroup, HTypeOK
<1>2. HeldInv'
  BY <1>1 DEF HeldInv, HeldBy, Evaluate
<1> QED
  BY <1>1, <1>2, EventsStay DEF HTypeOK

\* Every request notices a right that its caller is given.
LEMMA ChangeHubRoleInv ==
    ASSUME HubIInv, NEW a \in HubRole, ChangeHubRole(a)
    PROVE  HubIInv'
<1> USE DEF HubIInv
<1> DEFINE rs == IF a \in hroles THEN hroles \ {a} ELSE hroles \cup {a}
           h(r) == HeldBy(rs, hreq[r].of, hreq[r].op)
<1>1. /\ hroles' = rs /\ hroles' \subseteq HubRole /\ UNCHANGED <<hns, hubs, live, captured, taken>>
      /\ hreq' = [r \in HReq |-> IF hreq[r] = HIdle THEN HIdle
                                 ELSE [hreq[r] EXCEPT !.held = @ \cup h(r)]]
  BY DEF ChangeHubRole, HTypeOK
<1> HIDE DEF rs
<1>2. ASSUME NEW r \in HReq, hreq[r] # HIdle
      PROVE  /\ hreq'[r] \in HRequest
             /\ hreq'[r].keys \subseteq hreq'[r].held
             /\ HeldBy(hroles', hreq'[r].of, hreq'[r].op) \subseteq hreq'[r].held
  <2>1. hreq[r] \in HRequest /\ hreq[r].held \in SUBSET HGroup /\ hreq[r].keys \subseteq hreq[r].held
    BY <1>2, HRequestFields DEF HeldInv
  <2>2. h(r) \in SUBSET HGroup
    BY DEF HeldBy
  <2>3. hreq'[r] = [hreq[r] EXCEPT !.held = @ \cup h(r)]
    BY <1>1, <1>2
  <2>4. h(r) = HeldBy(hroles', hreq[r].of, hreq[r].op)
    BY <1>1
  <2> HIDE DEF h
  <2>5. /\ hreq'[r] \in HRequest /\ hreq'[r].keys = hreq[r].keys
        /\ hreq'[r].held = hreq[r].held \cup h(r)
        /\ hreq'[r].of = hreq[r].of /\ hreq'[r].op = hreq[r].op
    BY <2>1, <2>2, <2>3 DEF HRequest
  <2> QED
    BY <2>1, <2>4, <2>5
<1>3. \A r \in HReq : hreq[r] = HIdle => hreq'[r] = HIdle
  BY <1>1
<1>4. hreq' \in [HReq -> HRequest \cup {HIdle}]
  BY <1>1, <1>2
<1>5. HeldInv'
  BY <1>2, <1>3 DEF HeldInv
<1> QED
  BY <1>1, <1>4, <1>5, EventsStay DEF HTypeOK

\* One request takes a step or ends, and nothing else happens.
LEMMA OneHubRequest ==
    ASSUME HubIInv, NEW r \in HReq, NEW v \in HRequest \cup {HIdle}, hreq' = [hreq EXCEPT ![r] = v],
           UNCHANGED hroles,
           v # HIdle => v.keys \subseteq v.held /\ HeldBy(hroles, v.of, v.op) \subseteq v.held
    PROVE  hreq' \in [HReq -> HRequest \cup {HIdle}] /\ HeldInv'
<1>1. /\ hreq' \in [HReq -> HRequest \cup {HIdle}] /\ hreq'[r] = v
      /\ \A q \in HReq \ {r} : hreq'[q] = hreq[q]
  BY DEF HubIInv, HTypeOK
<1> QED
  BY <1>1 DEF HubIInv, HeldInv

LEMMA ListNamespacesInv ==
    ASSUME HubIInv, NEW r \in HReq, NEW p \in Caller, NEW op \in {"send", "receive", "capture"},
           NEW aud, ListNamespaces(r, p, op, aud)
    PROVE  HubIInv'
<1> USE DEF HubIInv
<1> DEFINE h == HeldBy(hroles, p, op)
           v == [op |-> op, of |-> p, todo |-> hns, keys |-> {}, held |-> h]
<1>1. h \in SUBSET HGroup /\ hns \in SUBSET HGroup
  BY DEF HeldBy, HTypeOK
<1>2. hreq' = [hreq EXCEPT ![r] = v] /\ UNCHANGED <<hns, hubs, hroles, live, captured, taken>>
  BY DEF ListNamespaces
<1> HIDE DEF h
<1>3. v \in HRequest /\ v.keys = {} /\ v.held = h /\ v.of = p /\ v.op = op
  BY <1>1 DEF HRequest
<1>4. HeldBy(hroles, v.of, v.op) \subseteq v.held
  BY <1>3 DEF h
<1> HIDE DEF v
<1>5. hreq' \in [HReq -> HRequest \cup {HIdle}] /\ HeldInv'
  BY <1>2, <1>3, <1>4, OneHubRequest
<1> QED
  BY <1>2, <1>5, EventsStay DEF HTypeOK

\* A namespace is allowed only while its group is held.
LEMMA EvaluateRowInv ==
    ASSUME HubIInv, NEW r \in HReq, EvaluateRow(r)
    PROVE  HubIInv'
<1> USE DEF HubIInv
<1>1. /\ hreq[r] # HIdle /\ hreq[r].todo # {} /\ hreq[r] \in HRequest
      /\ hreq[r].todo \in SUBSET HGroup /\ hreq[r].keys \in SUBSET HGroup
  BY HRequestFields DEF EvaluateRow
<1>2. \E m \in hreq[r].todo : \A k \in hreq[r].todo : m <= k
  BY <1>1, FirstOf, HubAssumption
<1>3. PICK g \in hreq[r].todo : g = CHOOSE x \in hreq[r].todo : \A y \in hreq[r].todo : x <= y
  BY <1>2
<1> DEFINE ok == Evaluate(hroles, hreq[r].of, HubAction(hreq[r].op), g)
           ks == IF ok THEN hreq[r].keys \cup {g} ELSE hreq[r].keys
           v  == [hreq[r] EXCEPT !.todo = @ \ {g}, !.keys = ks]
<1>4. /\ hreq' = [hreq EXCEPT ![r].todo = @ \ {g}, ![r].keys = ks]
      /\ UNCHANGED <<hns, hubs, hroles, live, captured, taken>>
  BY <1>3 DEF EvaluateRow
<1>5. hreq' = [hreq EXCEPT ![r] = v]
  BY <1>4 DEF HTypeOK
<1>6. ks \in SUBSET HGroup /\ ks \subseteq hreq[r].held
  <2>1. g \in HGroup
    BY <1>1, <1>3
  <2>2. ok => g \in HeldBy(hroles, hreq[r].of, hreq[r].op)
    BY <2>1 DEF HeldBy
  <2>3. hreq[r].keys \subseteq hreq[r].held /\ HeldBy(hroles, hreq[r].of, hreq[r].op) \subseteq hreq[r].held
    BY <1>1 DEF HeldInv
  <2> HIDE DEF ok
  <2> QED
    BY <1>1, <2>1, <2>2, <2>3
<1> HIDE DEF ks
<1>7. v \in HRequest /\ v.keys = ks /\ v.held = hreq[r].held /\ v.of = hreq[r].of /\ v.op = hreq[r].op
  BY <1>1, <1>6 DEF HRequest
<1> HIDE DEF v
<1>8. v.keys \subseteq v.held /\ HeldBy(hroles, v.of, v.op) \subseteq v.held
  BY <1>1, <1>6, <1>7 DEF HeldInv
<1>9. hreq' \in [HReq -> HRequest \cup {HIdle}] /\ HeldInv'
  BY <1>4, <1>5, <1>7, <1>8, OneHubRequest
<1> QED
  BY <1>4, <1>9, EventsStay DEF HTypeOK

\* Requests end and no event is sent or received.
LEMMA HubEndInv ==
    ASSUME HubIInv,
           \/ HCrash
           \/ \E r \in HReq : \/ Refuse(r) \/ CapturedEvents(r)
                              \/ \E id \in 1 .. MaxEvent : GetCapturedEvent(r, id)
    PROVE  HubIInv'
<1> USE DEF HubIInv
<1>1. UNCHANGED <<hns, hubs, hroles, live, captured, taken>>
  BY DEF HCrash, Refuse, CapturedEvents, GetCapturedEvent
<1>2. \A q \in HReq : hreq'[q] = hreq[q] \/ hreq'[q] = HIdle
  BY DEF HCrash, Refuse, CapturedEvents, GetCapturedEvent, HFinish, HTypeOK
<1>3. hreq' \in [HReq -> HRequest \cup {HIdle}]
  BY DEF HCrash, Refuse, CapturedEvents, GetCapturedEvent, HFinish, HTypeOK
<1>4. HeldInv'
  BY <1>1, <1>2 DEF HeldInv
<1> QED
  BY <1>1, <1>3, <1>4, EventsStay DEF HTypeOK

-----------------------------------------------------------------------------
\* The one namespace that was allowed.
LEMMA KeyIsHeld ==
    ASSUME HubIInv, NEW r \in HReq, hreq[r] # HIdle, Cardinality(hreq[r].keys) = 1
    PROVE  TheKey(r) \in hreq[r].keys /\ TheKey(r) \in HGroup /\ TheKey(r) \in hreq[r].held
<1>1. hreq[r].keys # {}
  BY FS_EmptySet
<1>2. TheKey(r) \in hreq[r].keys
  BY <1>1 DEF TheKey
<1>3. hreq[r].keys \in SUBSET HGroup /\ hreq[r].keys \subseteq hreq[r].held
  BY HRequestFields DEF HubIInv, HeldInv
<1> QED
  BY <1>2, <1>3

LEMMA ElementsAppend ==
    ASSUME NEW S, NEW q \in Seq(S), NEW e \in S
    PROVE  Elements(Append(q, e)) = Elements(q) \cup {e}
<1> DEFINE a == Append(q, e)
<1>1. /\ Len(q) \in Nat /\ Len(a) = Len(q) + 1 /\ a[Len(q) + 1] = e
      /\ \A i \in 1 .. Len(q) : a[i] = q[i]
  BY AppendProperties, LenProperties
<1> HIDE DEF a
<1>2. ASSUME NEW x PROVE x \in Elements(a) <=> x \in Elements(q) \cup {e}
  <2>1. ASSUME x \in Elements(a) PROVE x \in Elements(q) \cup {e}
    <3>1. PICK i \in 1 .. Len(a) : x = a[i]
      BY <2>1 DEF Elements
    <3>2. i \in 1 .. Len(q) \/ i = Len(q) + 1
      BY <1>1
    <3> QED
      BY <1>1, <3>1, <3>2 DEF Elements
  <2>2. ASSUME x \in Elements(q) PROVE x \in Elements(a)
    <3>1. PICK i \in 1 .. Len(q) : x = q[i]
      BY <2>2 DEF Elements
    <3>2. i \in 1 .. Len(a) /\ x = a[i]
      BY <1>1, <3>1
    <3> QED
      BY <3>2 DEF Elements
  <2>3. e \in Elements(a)
    <3>1. Len(q) + 1 \in 1 .. Len(a)
      BY <1>1
    <3> QED
      BY <1>1, <3>1 DEF Elements
  <2> QED
    BY <2>1, <2>2, <2>3
<1> QED
  BY <1>2 DEF a

\* The sequence without its i-th element.
Without(q, i) == [j \in 1 .. (Len(q) - 1) |-> q[IF j < i THEN j ELSE j + 1]]

LEMMA WithoutOne ==
    ASSUME NEW S, NEW q \in Seq(S), NEW i \in 1 .. Len(q)
    PROVE  /\ Without(q, i) \in Seq(S) /\ Len(Without(q, i)) = Len(q) - 1 /\ Len(q) \in Nat
           /\ \A j \in 1 .. (Len(q) - 1) : Without(q, i)[j] = q[IF j < i THEN j ELSE j + 1]
           /\ Elements(q) = Elements(Without(q, i)) \cup {q[i]}
<1> DEFINE w == Without(q, i)
<1>0. Len(q) \in Nat /\ Len(q) - 1 \in Nat
  BY LenProperties
<1>1. /\ w = [j \in 1 .. (Len(q) - 1) |-> q[IF j < i THEN j ELSE j + 1]]
      /\ \A j \in 1 .. (Len(q) - 1) : q[IF j < i THEN j ELSE j + 1] \in S
  <2>1. \A j \in 1 .. (Len(q) - 1) : (IF j < i THEN j ELSE j + 1) \in 1 .. Len(q)
    BY <1>0
  <2> QED
    BY <2>1, ElementOfSeq DEF Without
<1>2. w \in Seq(S) /\ Len(w) = Len(q) - 1
  BY <1>0, <1>1
<1>3. \A j \in 1 .. (Len(q) - 1) : w[j] = q[IF j < i THEN j ELSE j + 1]
  BY <1>1
<1> HIDE DEF w
<1>4. ASSUME NEW x PROVE x \in Elements(q) <=> x \in Elements(w) \cup {q[i]}
  <2>1. ASSUME x \in Elements(q), x # q[i] PROVE x \in Elements(w)
    <3>1. PICK j \in 1 .. Len(q) : x = q[j] /\ j # i
      BY <2>1 DEF Elements
    <3>2. CASE j < i
      <4>1. j \in 1 .. Len(w) /\ w[j] = x
        BY <1>0, <1>2, <1>3, <3>1, <3>2
      <4> QED
        BY <4>1 DEF Elements
    <3>3. CASE j > i
      <4>1. j - 1 \in 1 .. Len(w) /\ w[j - 1] = x
        BY <1>0, <1>2, <1>3, <3>1, <3>3
      <4> QED
        BY <4>1 DEF Elements
    <3> QED
      BY <1>0, <3>1, <3>2, <3>3
  <2>2. ASSUME x \in Elements(w) PROVE x \in Elements(q)
    <3>1. PICK j \in 1 .. Len(w) : x = w[j]
      BY <2>2 DEF Elements
    <3>2. (IF j < i THEN j ELSE j + 1) \in 1 .. Len(q) /\ x = q[IF j < i THEN j ELSE j + 1]
      BY <1>0, <1>2, <1>3, <3>1
    <3> QED
      BY <3>2 DEF Elements
  <2>3. q[i] \in Elements(q)
    BY DEF Elements
  <2> QED
    BY <2>1, <2>2, <2>3
<1> QED
  BY <1>0, <1>2, <1>3, <1>4 DEF w

\* Ids are those of the copies.
LEMMA IdsBounded ==
    ASSUME HubIInv
    PROVE  /\ \A i \in 1 .. Len(live) : live[i].id \in 1 .. Len(captured)
           /\ \A i \in 1 .. Len(taken) : taken[i].id \in 1 .. Len(captured)
<1>1. \A e \in Elements(captured) : e.id \in 1 .. Len(captured)
  BY DEF HubIInv, IdInv, Elements
<1>2. /\ \A i \in 1 .. Len(live) : live[i] \in Elements(captured)
      /\ \A i \in 1 .. Len(taken) : taken[i] \in Elements(captured)
  BY DEF HubIInv, CaptureIsWhole, Elements
<1> QED
  BY <1>1, <1>2

\* An event is sent: it has a new number and waits behind all others.
LEMMA SendEventInv ==
    ASSUME HubIInv, NEW ns \in HGroup, NEW part \in PartName, EnqueueEventHub(ns, part),
           Len(captured) < MaxEvent, UNCHANGED <<hns, hubs, hroles, taken>>,
           hreq' \in [HReq -> HRequest \cup {HIdle}], HeldInv'
    PROVE  HubIInv' /\ \A e \in Elements(captured') \ Elements(captured) : e.ns = ns
<1> USE DEF HubIInv
<1>1. /\ live \in Seq(Event) /\ captured \in Seq(Event) /\ taken \in Seq(Event)
      /\ Len(live) \in Nat /\ Len(captured) \in Nat /\ Len(taken) \in Nat
  BY HubTypes
<1>2. PICK k : k = Len(captured) + 1
  OBVIOUS
<1>3. PICK e : e = [id |-> k, ns |-> ns, part |-> IF part = "" THEN "0" ELSE part]
  OBVIOUS
<1>4. e \in Event /\ e.id = k /\ e.ns = ns
  <2>1. k \in 1 .. MaxEvent
    BY <1>1, <1>2, HubAssumption
  <2>2. (IF part = "" THEN "0" ELSE part) \in Partition
    BY HubAssumption DEF PartName
  <2> QED
    BY <1>3, <2>1, <2>2 DEF Event
<1>5. live' = Append(live, e) /\ captured' = Append(captured, e)
  BY <1>2, <1>3 DEF EnqueueEventHub
<1>6. /\ Elements(live') = Elements(live) \cup {e} /\ Elements(captured') = Elements(captured) \cup {e}
  BY <1>1, <1>4, <1>5, ElementsAppend
<1>7. /\ live' \in Seq(Event) /\ Len(live') = Len(live) + 1 /\ live'[Len(live) + 1] = e
      /\ \A i \in 1 .. Len(live) : live'[i] = live[i]
      /\ captured' \in Seq(Event) /\ Len(captured') = k /\ captured'[k] = e
      /\ \A i \in 1 .. Len(captured) : captured'[i] = captured[i]
  BY <1>1, <1>2, <1>4, <1>5, AppendProperties
<1>8. CaptureIsWhole'
  BY <1>1, <1>2, <1>6, <1>7 DEF CaptureIsWhole
<1>9. HTypeOK'
  <2>1. k <= MaxEvent /\ Len(live') <= MaxEvent /\ Len(taken') <= MaxEvent
    BY <1>1, <1>2, <1>7, <1>8, HubAssumption DEF CaptureIsWhole
  <2> QED
    BY <1>7, <2>1 DEF HTypeOK
<1>10. IdInv'
  <2>1. ASSUME NEW i \in 1 .. Len(captured') PROVE captured'[i].id = i
    <3>1. CASE i = k
      BY <1>4, <1>7, <3>1
    <3>2. CASE i \in 1 .. Len(captured)
      <4>1. captured'[i] = captured[i]
        BY <1>7, <3>2
      <4> QED
        BY <3>2, <4>1 DEF IdInv
    <3> QED
      BY <1>1, <1>2, <1>7, <3>1, <3>2
  <2>2. ASSUME NEW i \in 1 .. Len(live'), NEW j \in 1 .. Len(live'), i < j
        PROVE  live'[i].id < live'[j].id
    <3>1. i \in 1 .. Len(live)
      BY <1>1, <1>7, <2>2
    <3>2. CASE j = Len(live) + 1
      BY <1>1, <1>2, <1>4, <1>7, <3>1, <3>2, IdsBounded
    <3>3. CASE j \in 1 .. Len(live)
      BY <1>7, <2>2, <3>1, <3>3 DEF IdInv
    <3> QED
      BY <1>1, <1>7, <3>2, <3>3
  <2> QED
    BY <2>1, <2>2 DEF IdInv
<1>11. TakenInv'
  <2>1. ASSUME NEW i \in 1 .. Len(taken), NEW j \in 1 .. Len(live'), SamePartition(taken[i], live'[j])
        PROVE  taken[i].id < live'[j].id
    <3>2. CASE j = Len(live) + 1
      BY <1>1, <1>2, <1>4, <1>7, <3>2, IdsBounded
    <3>3. CASE j \in 1 .. Len(live)
      BY <1>7, <2>1, <3>3 DEF TakenInv
    <3> QED
      BY <1>1, <1>7, <3>2, <3>3
  <2> QED
    BY <2>1 DEF TakenInv
<1> QED
  BY <1>4, <1>6, <1>8, <1>9, <1>10, <1>11

LEMMA CandidatesWait ==
    ASSUME NEW ns, NEW part, NEW i \in Candidates(ns, part)
    PROVE  i \in 1 .. Len(live) /\ live[i].ns = ns
BY Zenon DEF Candidates

\* The first waiting event of a partition, or of all, is handed out.
LEMMA TakeEventInv ==
    ASSUME HubIInv, NEW ns \in HGroup, NEW part \in PartName, DequeueEventHub(ns, part),
           Candidates(ns, part) # {}, UNCHANGED <<hns, hubs, hroles, captured>>,
           hreq' \in [HReq -> HRequest \cup {HIdle}], HeldInv'
    PROVE  HubIInv' /\ \A e \in Elements(taken') \ Elements(taken) : e.ns = ns
<1> USE DEF HubIInv
<1>1. /\ live \in Seq(Event) /\ captured \in Seq(Event) /\ taken \in Seq(Event)
      /\ Len(live) \in Nat /\ Len(captured) \in Nat /\ Len(taken) \in Nat
  BY HubTypes
<1>2. PICK i \in Candidates(ns, part) : /\ \A y \in Candidates(ns, part) : i <= y
                                        /\ taken' = Append(taken, live[i])
                                        /\ live' = Without(live, i)
  <2>1. Candidates(ns, part) \subseteq Nat
    BY <1>1, CandidatesWait
  <2>2. \E m \in Candidates(ns, part) : \A y \in Candidates(ns, part) : m <= y
    BY <2>1, FirstOf
  <2> QED
    BY <2>2 DEF DequeueEventHub, Without
<1>3. i \in 1 .. Len(live) /\ live[i].ns = ns /\ live[i] \in Event
  BY <1>1, <1>2, CandidatesWait, ElementOfSeq
<1>4. PICK x : x = live[i]
  OBVIOUS
<1>5. /\ taken' \in Seq(Event) /\ Len(taken') = Len(taken) + 1 /\ taken'[Len(taken) + 1] = x
      /\ \A j \in 1 .. Len(taken) : taken'[j] = taken[j]
      /\ Elements(taken') = Elements(taken) \cup {x}
  BY <1>1, <1>2, <1>3, <1>4, AppendProperties, ElementsAppend
<1>6. /\ live' \in Seq(Event) /\ Len(live') = Len(live) - 1
      /\ \A j \in 1 .. (Len(live) - 1) : live'[j] = live[IF j < i THEN j ELSE j + 1]
      /\ Elements(live) = Elements(live') \cup {x}
  <2>1. /\ Without(live, i) \in Seq(Event) /\ Len(Without(live, i)) = Len(live) - 1
        /\ \A j \in 1 .. (Len(live) - 1) : Without(live, i)[j] = live[IF j < i THEN j ELSE j + 1]
        /\ Elements(live) = Elements(Without(live, i)) \cup {live[i]}
    BY <1>1, <1>3, WithoutOne
  <2> QED
    BY <1>2, <1>4, <2>1
<1>7. CaptureIsWhole'
  <2>1. Elements(captured) = Elements(live') \cup Elements(taken')
    BY <1>5, <1>6 DEF CaptureIsWhole
  <2>2. Len(captured) = Len(live') + Len(taken')
    BY <1>1, <1>5, <1>6 DEF CaptureIsWhole
  <2> QED
    BY <2>1, <2>2 DEF CaptureIsWhole
<1>8. HTypeOK'
  <2>1. Len(live') <= MaxEvent /\ Len(taken') <= MaxEvent
    BY <1>1, <1>3, <1>5, <1>6, HubAssumption DEF CaptureIsWhole, HTypeOK
  <2> QED
    BY <1>5, <1>6, <2>1 DEF HTypeOK
<1>9. ASSUME NEW j \in 1 .. Len(live')
      PROVE  \E m \in 1 .. Len(live) : live'[j] = live[m] /\ m # i /\ m = IF j < i THEN j ELSE j + 1
  <2>1. PICK m : m = IF j < i THEN j ELSE j + 1
    OBVIOUS
  <2>2. i \in Nat /\ j \in 1 .. (Len(live) - 1)
    BY <1>1, <1>3, <1>6
  <2>3. m \in 1 .. Len(live) /\ m # i
    BY <1>1, <1>3, <2>1, <2>2
  <2>4. live'[j] = live[m]
    BY <1>6, <2>1, <2>2
  <2> QED
    BY <2>1, <2>3, <2>4
<1>10. IdInv'
  <2>1. ASSUME NEW a \in 1 .. Len(live'), NEW b \in 1 .. Len(live'), a < b
        PROVE  live'[a].id < live'[b].id
    <3>1. PICK m \in 1 .. Len(live) : live'[a] = live[m] /\ m = IF a < i THEN a ELSE a + 1
      BY <1>9
    <3>2. PICK n \in 1 .. Len(live) : live'[b] = live[n] /\ n = IF b < i THEN b ELSE b + 1
      BY <1>9
    <3>3. m < n
      BY <1>1, <1>3, <1>6, <2>1, <3>1, <3>2
    <3> QED
      BY <3>1, <3>2, <3>3 DEF IdInv
  <2> QED
    BY <2>1 DEF IdInv
<1>11. ASSUME NEW j \in 1 .. Len(live'), SamePartition(x, live'[j])
       PROVE  x.id < live'[j].id
  <2>1. PICK m \in 1 .. Len(live) : live'[j] = live[m] /\ m # i
    BY <1>9
  <2>2. m \in Candidates(ns, part)
    BY <1>2, <1>4, <1>11, <2>1 DEF Candidates, SamePartition
  <2>3. i < m
    BY <1>1, <1>2, <1>3, <2>1, <2>2
  <2> QED
    BY <1>3, <1>4, <2>1, <2>3 DEF IdInv
<1>12. TakenInv'
  <2>1. ASSUME NEW a \in 1 .. Len(taken'), NEW b \in 1 .. Len(taken'), a < b,
               SamePartition(taken'[a], taken'[b])
        PROVE  taken'[a].id < taken'[b].id
    <3>1. a \in 1 .. Len(taken) /\ taken'[a] = taken[a]
      BY <1>1, <1>5, <2>1
    <3>2. CASE b = Len(taken) + 1
      BY <1>3, <1>4, <1>5, <2>1, <3>1, <3>2 DEF TakenInv
    <3>3. CASE b \in 1 .. Len(taken)
      BY <1>5, <2>1, <3>1, <3>3 DEF TakenInv
    <3> QED
      BY <1>1, <1>5, <3>2, <3>3
  <2>2. ASSUME NEW a \in 1 .. Len(taken'), NEW j \in 1 .. Len(live'), SamePartition(taken'[a], live'[j])
        PROVE  taken'[a].id < live'[j].id
    <3>1. CASE a = Len(taken) + 1
      BY <1>5, <1>11, <2>2, <3>1
    <3>2. CASE a \in 1 .. Len(taken)
      <4>1. PICK m \in 1 .. Len(live) : live'[j] = live[m]
        BY <1>9
      <4> QED
        BY <1>5, <2>2, <3>2, <4>1 DEF TakenInv
    <3> QED
      BY <1>1, <1>5, <3>1, <3>2
  <2> QED
    BY <2>1, <2>2 DEF TakenInv
<1> QED
  BY <1>3, <1>4, <1>5, <1>7, <1>8, <1>10, <1>12

LEMMA HFinishHeld ==
    ASSUME HubIInv, NEW r \in HReq, HFinish(r), UNCHANGED hroles
    PROVE  hreq' \in [HReq -> HRequest \cup {HIdle}] /\ HeldInv'
BY OneHubRequest DEF HFinish

\* A send or a receive touches only the namespace that was allowed.
LEMMA PostMsgInv ==
    ASSUME HubIInv, NEW r \in HReq, NEW part \in PartName, PostMsg(r, part)
    PROVE  HubIInv' /\ \A e \in Elements(captured') \ Elements(captured) : e.ns \in hreq[r].held
<1>1. PICK g : g = TheKey(r)
  OBVIOUS
<1>2. g \in HGroup /\ g \in hreq[r].held
  BY <1>1, KeyIsHeld DEF PostMsg, Asked
<1>3. hreq' \in [HReq -> HRequest \cup {HIdle}] /\ HeldInv'
  BY HFinishHeld DEF PostMsg
<1>4. HubIInv' /\ \A e \in Elements(captured') \ Elements(captured) : e.ns = g
  BY <1>1, <1>2, <1>3, SendEventInv DEF PostMsg
<1> QED
  BY <1>2, <1>4

LEMMA GetMsgInv ==
    ASSUME HubIInv, NEW r \in HReq, NEW part \in PartName, GetMsg(r, part)
    PROVE  HubIInv' /\ \A e \in Elements(taken') \ Elements(taken) : e.ns \in hreq[r].held
<1>1. PICK g : g = TheKey(r)
  OBVIOUS
<1>2. g \in HGroup /\ g \in hreq[r].held
  BY <1>1, KeyIsHeld DEF GetMsg, Asked
<1>3. hreq' \in [HReq -> HRequest \cup {HIdle}] /\ HeldInv'
  BY HFinishHeld DEF GetMsg
<1>4. CASE Candidates(g, part) = {}
  BY <1>1, <1>3, <1>4, EventsStay DEF GetMsg, HubIInv, HTypeOK
<1>5. CASE Candidates(g, part) # {}
  <2>1. HubIInv' /\ \A e \in Elements(taken') \ Elements(taken) : e.ns = g
    BY <1>1, <1>2, <1>3, <1>5, TakeEventInv DEF GetMsg
  <2> QED
    BY <1>2, <2>1
<1> QED
  BY <1>4, <1>5

LEMMA HubStep == HubIInv /\ [HNext]_hvars => HubIInv'
<1> SUFFICES ASSUME HubIInv, [HNext]_hvars PROVE HubIInv'
  OBVIOUS
<1>1. CASE UNCHANGED hvars
  BY <1>1, EventsStay DEF hvars, HubIInv, HTypeOK, HeldInv
<1>2. ASSUME NEW g \in HGroup, PutNamespace(g) \/ PutHub(g) \/ PutConsumerGroup(g)
      PROVE  HubIInv'
  BY <1>2, HubManagementInv
<1>3. ASSUME NEW a \in HubRole, ChangeHubRole(a) PROVE HubIInv'
  BY <1>3, ChangeHubRoleInv
<1>4. ASSUME NEW r \in HReq, NEW p \in Caller, NEW op \in {"send", "receive", "capture"},
             NEW aud \in {"none", "eventhubs", "graph"}, ListNamespaces(r, p, op, aud)
      PROVE  HubIInv'
  BY <1>4, ListNamespacesInv
<1>5. ASSUME NEW r \in HReq, EvaluateRow(r) PROVE HubIInv'
  BY <1>5, EvaluateRowInv
<1>6. ASSUME NEW r \in HReq, NEW part \in PartName, PostMsg(r, part) \/ GetMsg(r, part)
      PROVE  HubIInv'
  BY <1>6, PostMsgInv, GetMsgInv
<1>7. CASE \/ HCrash
           \/ \E r \in HReq : \/ Refuse(r) \/ CapturedEvents(r)
                              \/ \E id \in 1 .. MaxEvent : GetCapturedEvent(r, id)
  BY <1>7, HubEndInv
<1> QED
  BY <1>1, <1>2, <1>3, <1>4, <1>5, <1>6, <1>7 DEF HNext, PartName

\* An event is captured once and handed out at most once, each partition's in the
\* order in which they were sent.
THEOREM HubsAlways == HSpec => []HubsInv
<1>1. HubIInv => HubsInv
  <2> SUFFICES ASSUME HubIInv PROVE PartitionInOrder
    BY DEF HubIInv, HubsInv
  <2> DEFINE sent == taken \o live
  <2>1. /\ Len(live) \in Nat /\ Len(taken) \in Nat /\ Len(sent) = Len(taken) + Len(live)
        /\ \A i \in 1 .. Len(sent) : sent[i] = IF i <= Len(taken) THEN taken[i] ELSE live[i - Len(taken)]
    <3>1. live \in Seq(Event) /\ taken \in Seq(Event) /\ Len(live) \in Nat /\ Len(taken) \in Nat
      BY HubTypes DEF HubIInv
    <3> QED
      BY <3>1, ConcatProperties
  <2> SUFFICES ASSUME NEW i \in 1 .. Len(sent), NEW j \in 1 .. Len(sent), i < j, i <= Len(taken),
                      sent[i].ns = sent[j].ns, sent[i].part = sent[j].part
               PROVE  sent[i].id < sent[j].id
    BY DEF PartitionInOrder
  <2> HIDE DEF sent
  <2>2. i \in 1 .. Len(taken) /\ sent[i] = taken[i] /\ SamePartition(sent[i], sent[j])
    BY <2>1 DEF SamePartition
  <2>3. CASE j <= Len(taken)
    BY <2>1, <2>2, <2>3 DEF HubIInv, TakenInv
  <2>4. CASE j > Len(taken)
    <3>1. j - Len(taken) \in 1 .. Len(live) /\ sent[j] = live[j - Len(taken)]
      BY <2>1, <2>4
    <3> QED
      BY <2>2, <3>1 DEF HubIInv, TakenInv
  <2> QED
    BY <2>1, <2>3, <2>4
<1> QED
  BY <1>1, HubInit, HubStep, PTL DEF HSpec

\* Nobody sends to, receives from or is shown the captures of a namespace in whose
\* group he never held the right while his request ran.
THEOREM EventsAlwaysStay == HSpec => EventsStayInGroup
<1>1. ASSUME HubIInv, HNext, NEW r \in HReq, hreq[r] # HIdle, hreq'[r] = HIdle
      PROVE  LET q == hreq[r]
                 shown == IF q.op = "capture" /\ q.todo = {}
                          THEN ListCaptured(q.keys)
                               \cup UNION {GetCaptured(q.keys, id) : id \in 1 .. MaxEvent}
                          ELSE {}
             IN  \A e \in (Elements(captured') \ Elements(captured))
                           \cup (Elements(taken') \ Elements(taken)) \cup shown :
                    e.ns \in q.held
  <2> DEFINE q == hreq[r]
             shown == IF q.op = "capture" /\ q.todo = {}
                      THEN ListCaptured(q.keys)
                           \cup UNION {GetCaptured(q.keys, id) : id \in 1 .. MaxEvent}
                      ELSE {}
  <2>1. \A e \in shown : e.ns \in q.held
    <3>1. \A e \in shown : e.ns \in q.keys
      BY DEF ListCaptured, GetCaptured
    <3>2. q.keys \subseteq q.held
      BY <1>1 DEF HubIInv, HeldInv
    <3> QED
      BY <3>1, <3>2
  <2>2. \A e \in (Elements(captured') \ Elements(captured)) \cup (Elements(taken') \ Elements(taken)) :
           e.ns \in q.held
    <3>1. CASE captured' = captured /\ taken' = taken
      BY <3>1
    <3>2. CASE ~(captured' = captured /\ taken' = taken)
      <4>1. PICK p \in HReq, part \in PartName : PostMsg(p, part) \/ GetMsg(p, part)
        BY <1>1, <3>2 DEF HNext, PartName, PutNamespace, PutHub, PutConsumerGroup, ChangeHubRole, ListNamespaces,
                          EvaluateRow, Refuse, CapturedEvents, GetCapturedEvent, HCrash
      <4>2. p = r
        BY <1>1, <4>1 DEF PostMsg, GetMsg, HFinish, HubIInv, HTypeOK
      <4>3. CASE PostMsg(p, part)
        <5>1. taken' = taken
          BY <4>3 DEF PostMsg
        <5>2. \A e \in Elements(captured') \ Elements(captured) : e.ns \in hreq[p].held
          BY <1>1, <4>3, PostMsgInv
        <5> QED
          BY <4>2, <5>1, <5>2
      <4>4. CASE GetMsg(p, part)
        <5>1. captured' = captured
          BY <4>4 DEF GetMsg
        <5>2. \A e \in Elements(taken') \ Elements(taken) : e.ns \in hreq[p].held
          BY <1>1, <4>4, GetMsgInv
        <5> QED
          BY <4>2, <5>1, <5>2
      <4> QED
        BY <4>1, <4>3, <4>4
    <3> QED
      BY <3>1, <3>2
  <2> QED
    BY <2>1, <2>2
<1>2. HubIInv /\ [HNext]_hvars =>
        [\A r \in HReq :
          hreq[r] # HIdle /\ hreq'[r] = HIdle =>
          LET q == hreq[r]
              shown == IF q.op = "capture" /\ q.todo = {}
                       THEN ListCaptured(q.keys)
                            \cup UNION {GetCaptured(q.keys, id) : id \in 1 .. MaxEvent}
                       ELSE {}
          IN  \A e \in (Elements(captured') \ Elements(captured))
                        \cup (Elements(taken') \ Elements(taken)) \cup shown :
                 e.ns \in q.held]_hvars
  BY <1>1
<1> QED
  BY <1>2, HubInit, HubStep, PTL DEF HSpec, EventsStayInGroup

=============================================================================
