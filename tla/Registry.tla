------------------------------ MODULE Registry ------------------------------
(***************************************************************************)
(* One container registry: blob uploads, blobs and manifests of Registry   *)
(* V2, its tokens and the ARM row that scopes its role assignments         *)
(* (internal/services/acr, internal/store/acr.go, resources.go).           *)
(*                                                                         *)
(* requireV2 finds the ARM row of the name with one statement (rows of one *)
(* name may be in several resource groups) and asks for assignments with   *)
(* one more per scope above it; rows and assignments change in between and *)
(* before the write.  PUT upload looks whether the session is open before  *)
(* it reads the body and asks again in the transaction; PUT manifest       *)
(* writes the reference and the digest in two commits.  sha256 is perfect: *)
(* the digest of a content is named by it.                                 *)
(***************************************************************************)
EXTENDS Naturals, FiniteSets

CONSTANTS
    Principal, Repo, Tag, Content,
    Root,       \* the principal that is granted everything
    RGroup,     \* resource groups
    Assignable, \* role assignments that may be made: <<principal, action, scope>>
    Scope,      \* scopes that tokens are asked for: "pull", "push"
    Req,        \* concurrent requests
    None, Idle,
    MaxUpload   \* bound: upload sessions

VARIABLES
    arm,        \* arm_lab_resources: groups that have a row of the registry's name
    roles,      \* role assignments in force
    tokens,     \* access tokens that were issued
    nextUpload,
    uploads,    \* acr_uploads: open sessions
    blobs,      \* acr_blobs: content by digest
    manifests,  \* acr_manifests: by repository and reference
    req,        \* requests between two of their steps
    finished,   \* history: requests that finished each session
    answered,   \* history: <<repository, digest>> of manifests answered with 201
    misput      \* history: <<repository, digest>> put with another content

vars == <<arm, roles, tokens, nextUpload, uploads, blobs, manifests, req,
          finished, answered, misput>>

Digest(c) == <<"sha256", c>>
Digests   == {Digest(c) : c \in Content}
Reference == Tag \cup Digests
Manifest  == [digest : Digests, content : Content]
Token     == [of : Principal, aud : {"arm", "acr", "graph"}, scope : {"pull", "push"}]

\* The scopes of assignments: a registry, its group, the subscription.
RegScope == ({"registry", "group"} \X RGroup) \cup {<<"subscription", None>>}

\* step is what requireV2 does next, then op what the handler does.  group is that
\* of the row found.  History, over the life of the request: where the principal
\* had the push role, and which groups had a row.
Request == [step : {"row", "registry", "group", "subscription", "go"},
            op : {"start", "check", "finish", "tag", "digest", "read"}, of : Principal,
            group : RGroup \cup {None}, id : 0 .. MaxUpload, repo : Repo \cup {None},
            digest : Digests \cup {None}, content : Content \cup {None},
            held : SUBSET RegScope, rows : SUBSET RGroup]

ASSUME RegistryAssumption ==
    /\ MaxUpload \in Nat /\ Scope \subseteq {"pull", "push"}
    /\ None \notin Manifest /\ Idle \notin Request

-----------------------------------------------------------------------------
(* Authorisation.                                                          *)

\* AllowsRegistry: the management audience, the registry's own, or an opaque token
\* without one.
AllowsRegistry(t) == t.aud \in {"arm", "acr", "none"}

\* Where p has the push role.
Held(rs, p) == {s \in RegScope : <<p, "push", s>> \in rs}

\* Mutant of RequireV2: the scope a token was asked for grants.
RequireV2ByScope(t, push) ==
    IF t.of = Root \/ (push /\ t.scope = "push") THEN "go" ELSE "row"

\* requireV2: root is let through, the role of everyone else is looked up on every
\* call, whatever the token says.
RequireV2(t, push) == IF t.of = Root THEN "go" ELSE "row"

At(r, op) == req[r] # Idle /\ req[r].step = "go" /\ req[r].op = op
Finish(r) == req' = [req EXCEPT ![r] = Idle]

\* The route decides between push and pull: POST and PUT push.
Begin(r, t, op) ==
    /\ req[r] = Idle
    /\ t \in tokens /\ AllowsRegistry(t)
    /\ op \in {"start", "check", "tag", "read"}
    /\ req' = [req EXCEPT ![r] =
                 [step |-> RequireV2(t, op # "read"), op |-> op, of |-> t.of, group |-> None,
                  id |-> 0, repo |-> None, digest |-> None, content |-> None,
                  held |-> Held(roles, t.of), rows |-> arm]]
    /\ UNCHANGED <<arm, roles, tokens, nextUpload, uploads, blobs, manifests, finished,
                   answered, misput>>

\* registryAuthzScope: the first row of the name that the store finds; without one,
\* and when the read fails, the subscription.
RegistryAuthzScope(r) ==
    /\ req[r] # Idle /\ req[r].step = "row"
    /\ \/ \E g \in arm : req' = [req EXCEPT ![r].step = "registry", ![r].group = g]
       \/ req' = [req EXCEPT ![r].step = "subscription"]
    /\ UNCHANGED <<arm, roles, tokens, nextUpload, uploads, blobs, manifests, finished,
                   answered, misput>>

\* Evaluate, on one scope of the chain: an assignment lets the request through, the
\* last scope without one is 403.
EvaluateScope(r) ==
    LET q == req[r]
        scope == IF q.step = "subscription" THEN <<"subscription", None>>
                 ELSE <<q.step, q.group>>
    IN
    /\ q # Idle /\ q.step \in {"registry", "group", "subscription"}
    /\ IF <<q.of, IF q.op = "read" THEN "pull" ELSE "push", scope>> \in roles
       THEN req' = [req EXCEPT ![r].step = "go"]
       ELSE IF q.step = "subscription" THEN Finish(r)
       ELSE req' = [req EXCEPT ![r].step = IF @ = "registry" THEN "group" ELSE "subscription"]
    /\ UNCHANGED <<arm, roles, tokens, nextUpload, uploads, blobs, manifests, finished,
                   answered, misput>>

\* mintRegistryToken: who may call the registry gets a token for the service and
\* the scope named in the query.
Oauth2Token(t, aud, scope) ==
    /\ t \in tokens /\ AllowsRegistry(t)
    /\ tokens' = tokens \cup {[of |-> t.of, aud |-> aud, scope |-> scope]}
    /\ UNCHANGED <<arm, roles, nextUpload, uploads, blobs, manifests, req, finished,
                   answered, misput>>

\* Requests notice a change of the roles and rows, for their history.
Notice(rs, groups) ==
    /\ roles' = rs /\ arm' = groups
    /\ req' = [r \in Req |->
                 IF req[r] = Idle THEN Idle
                 ELSE [req[r] EXCEPT !.held = @ \cup Held(rs, req[r].of), !.rows = @ \cup groups]]

\* PUT and DELETE of an ARM row; the data stays.
PutRegistry(g) ==
    /\ Notice(roles, arm \cup {g})
    /\ UNCHANGED <<tokens, nextUpload, uploads, blobs, manifests, finished, answered, misput>>

DeleteRegistry(g) ==
    /\ g \in arm /\ Notice(roles, arm \ {g})
    /\ UNCHANGED <<tokens, nextUpload, uploads, blobs, manifests, finished, answered, misput>>

ChangeRole(a) ==
    /\ Notice(IF a \in roles THEN roles \ {a} ELSE roles \cup {a}, arm)
    /\ UNCHANGED <<tokens, nextUpload, uploads, blobs, manifests, finished, answered, misput>>

-----------------------------------------------------------------------------
(* Requests.                                                               *)

\* CreateACRUpload.
StartUpload(r) ==
    /\ At(r, "start") /\ nextUpload <= MaxUpload
    /\ uploads' = uploads \cup {nextUpload}
    /\ nextUpload' = nextUpload + 1
    /\ Finish(r)
    /\ UNCHANGED <<arm, roles, tokens, blobs, manifests, finished, answered, misput>>

\* putUpload: the session must be open and the digest that of the body.  The
\* repository of the session is not compared.
CheckUpload(r, id, d, c) ==
    /\ At(r, "check")
    /\ IF id \in uploads /\ Digest(c) = d
       THEN req' = [req EXCEPT ![r].op = "finish", ![r].id = id, ![r].digest = d,
                               ![r].content = c]
       ELSE Finish(r)
    /\ UNCHANGED <<arm, roles, tokens, nextUpload, uploads, blobs, manifests, finished,
                   answered, misput>>

\* Mutant of FinishUpload: the session is not asked for again.
FinishUploadUnasked(r) ==
    /\ At(r, "finish")
    /\ blobs' = [blobs EXCEPT ![req[r].digest] = req[r].content]
    /\ uploads' = uploads \ {req[r].id}
    /\ finished' = [finished EXCEPT ![req[r].id] = @ + 1]
    /\ Finish(r)
    /\ UNCHANGED <<arm, roles, tokens, nextUpload, manifests, answered, misput>>

\* FinishACRUpload, one transaction: a session that was closed meanwhile is 404.
FinishUpload(r) ==
    /\ At(r, "finish")
    /\ IF req[r].id \in uploads
       THEN /\ blobs' = [blobs EXCEPT ![req[r].digest] = req[r].content]
            /\ uploads' = uploads \ {req[r].id}
            /\ finished' = [finished EXCEPT ![req[r].id] = @ + 1]
       ELSE UNCHANGED <<blobs, uploads, finished>>
    /\ Finish(r)
    /\ UNCHANGED <<arm, roles, tokens, nextUpload, manifests, answered, misput>>

\* putManifest: the reference; nothing compares a digest reference with the body.
PutManifest(r, repo, ref, c) ==
    /\ At(r, "tag")
    /\ manifests' = [manifests EXCEPT ![repo][ref] = [digest |-> Digest(c), content |-> c]]
    /\ IF ref = Digest(c)
       THEN Finish(r) /\ answered' = answered \cup {<<repo, ref>>} /\ UNCHANGED misput
       ELSE /\ req' = [req EXCEPT ![r].op = "digest", ![r].repo = repo, ![r].content = c]
            /\ misput' = misput \cup ({<<repo, ref>>} \cap ({repo} \X Digests))
            /\ UNCHANGED answered
    /\ UNCHANGED <<arm, roles, tokens, nextUpload, uploads, blobs, finished>>

\* ... then its digest, in a second commit.
PutManifestDigest(r) ==
    LET repo == req[r].repo  c == req[r].content IN
    /\ At(r, "digest")
    /\ manifests' = [manifests EXCEPT ![repo][Digest(c)] = [digest |-> Digest(c), content |-> c]]
    /\ answered' = answered \cup {<<repo, Digest(c)>>}
    /\ Finish(r)
    /\ UNCHANGED <<arm, roles, tokens, nextUpload, uploads, blobs, finished, misput>>

\* GET and HEAD.
GetBlob(d) == blobs[d]
GetManifest(repo, ref) == manifests[repo][ref]

Pull(r) ==
    /\ At(r, "read")
    /\ Finish(r)
    /\ UNCHANGED <<arm, roles, tokens, nextUpload, uploads, blobs, manifests, finished,
                   answered, misput>>

Crash ==
    /\ \E r \in Req : req[r] # Idle
    /\ req' = [r \in Req |-> Idle]
    /\ UNCHANGED <<arm, roles, tokens, nextUpload, uploads, blobs, manifests, finished,
                   answered, misput>>

-----------------------------------------------------------------------------
\* Everyone starts with a token for the management audience.
Init ==
    /\ arm = {} /\ roles = {}
    /\ tokens = [of : Principal, aud : {"arm"}, scope : {"pull"}]
    /\ nextUpload = 1 /\ uploads = {}
    /\ blobs = [d \in Digests |-> None]
    /\ manifests = [repo \in Repo |-> [ref \in Reference |-> None]]
    /\ req = [r \in Req |-> Idle]
    /\ finished = [id \in 1 .. MaxUpload |-> 0]
    /\ answered = {} /\ misput = {}

Next ==
    \/ \E g \in RGroup : PutRegistry(g) \/ DeleteRegistry(g)
    \/ \E a \in Assignable : ChangeRole(a)
    \/ \E t \in tokens, aud \in {"acr", "graph"}, scope \in Scope :
          Oauth2Token(t, aud, scope)
    \/ \E r \in Req :
          \/ \E t \in tokens, op \in {"start", "check", "tag", "read"} : Begin(r, t, op)
          \/ RegistryAuthzScope(r) \/ EvaluateScope(r)
          \/ StartUpload(r) \/ FinishUpload(r) \/ PutManifestDigest(r) \/ Pull(r)
          \/ \E c \in Content, d \in Digests, id \in 1 .. MaxUpload : CheckUpload(r, id, d, c)
          \/ \E repo \in Repo, ref \in Reference, c \in Content : PutManifest(r, repo, ref, c)
    \/ Crash

Spec == Init /\ [][Next]_vars

-----------------------------------------------------------------------------
(* Properties.                                                             *)

\* Every variable has its type.
TypeOK ==
    /\ arm \subseteq RGroup /\ roles \subseteq Assignable /\ tokens \subseteq Token
    /\ nextUpload \in 1 .. (MaxUpload + 1) /\ uploads \subseteq 1 .. MaxUpload
    /\ blobs \in [Digests -> Content \cup {None}]
    /\ manifests \in [Repo -> [Reference -> Manifest \cup {None}]]
    /\ req \in [Req -> Request \cup {Idle}]
    /\ finished \in [1 .. MaxUpload -> Nat]
    /\ answered \subseteq Repo \X Digests /\ misput \subseteq Repo \X Digests

\* A blob or a manifest that is pulled by a digest has that digest, unless a PUT
\* of a manifest named that digest for another content (putManifest does not
\* compare them), and the digest answered with a manifest is always its own.
DigestNamesContent ==
    /\ \A c \in Content : GetBlob(Digest(c)) \in {c, None}
    /\ \A repo \in Repo, ref \in Reference :
          GetManifest(repo, ref) # None =>
             LET m == GetManifest(repo, ref) IN
             /\ m.digest = Digest(m.content)
             /\ ref \in Digests /\ <<repo, ref>> \notin misput => m.digest = ref

\* An upload session is finished once, however many PUTs overlap on it.
UploadOnce ==
    \A id \in 1 .. MaxUpload : finished[id] + (IF id \in uploads THEN 1 ELSE 0) <= 1

\* A manifest that was answered with 201 can be pulled by the digest that the
\* answer named, whatever crashes and requests came after its first commit.
AnsweredIsPullable ==
    \A a \in answered : GetManifest(a[1], a[2]) # None

\* What entitles a request to push: to be root's, the push role on the
\* subscription, or that role on a registry or the group of a registry.  The role
\* and the row were there while the request ran, each at an instant of its own:
\* the statements that find them are not one transaction.
MayPush(q) ==
    \/ q.of = Root
    \/ <<"subscription", None>> \in q.held
    \/ \E g \in q.rows : <<"registry", g>> \in q.held \/ <<"group", g>> \in q.held

\* Uploads, blobs and manifests change only in a request that may push, although
\* rows and roles come and go between its statements: a pull role, a role on the
\* registry of a group that has none, a token's audience or the scope it was asked
\* for are not enough ("the JWT scope query string does not grant push",
\* docs/services/acr.md).
PushNeedsRole ==
    [][<<uploads, blobs, manifests>>' # <<uploads, blobs, manifests>> =>
          \E r \in Req : req[r] # Idle /\ req'[r] # req[r] /\ MayPush(req[r])]_vars

\* What was pushed can be pulled: a session ends once, a digest names its content
\* and a manifest that was answered is there, whatever stops or overlaps.
RegistryInv == TypeOK /\ DigestNamesContent /\ UploadOnce /\ AnsweredIsPullable

=============================================================================
