---------------------------- MODULE EntraTokens ----------------------------
(***************************************************************************)
(* The token endpoint of the Entra emulator                                *)
(* (internal/services/entra/token.go, conditional_access.go, handler.go,   *)
(* internal/store/directory.go): the password, refresh, device code and    *)
(* client credentials grants, Conditional Access, the signing key, and the *)
(* acceptance of access tokens (internal/kernel/authn/jwt.go).             *)
(*                                                                         *)
(* How a client proves itself (clientSecretMatches, verifyClientAssertion) *)
(* is left to the caller: BeginClient starts where it succeeded.  Users and *)
(* their passwords do not change while the program runs.                   *)
(***************************************************************************)
EXTENDS Integers

CONSTANTS
    User, App,  \* principals
    Audience,   \* audiences, the empty one among them
    NoAud,      \* no scope and no resource in the request
    Client,     \* client ids a request can carry
    Agent,      \* User-Agent headers
    NoAgent,    \* the empty one
    Form,       \* the audience, client id and agent of requests
    CondInput,  \* conditions of the policies that are written
    PolicyId,   \* ids of Conditional Access policies
    Code,       \* device codes, each with its user code
    Key,        \* signing keys
    Req,        \* concurrent requests
    AllClients, AnyAgent, NoClient, NoUser, NoPolicy, NoCode, NoKey, NoReq, Idle,
    AccessTTL, RefreshTTL, DeviceTTL,   \* lives, in ticks
    MaxTime,    \* bound: the clock, in ticks
    MaxBegun    \* bound: requests to the token, device and key endpoints

\* The clock is finer than the seconds in which the store keeps expiry.
TicksPerSecond == 2

ASSUME TimeAssumption ==
    {AccessTTL, RefreshTTL, DeviceTTL, MaxTime, MaxBegun} \subseteq Nat

VARIABLES
    now,        \* wall clock
    policies,   \* table entra_ca_policies; NoPolicy: no row, or not enabled
    codes,      \* table device_codes
    refresh,    \* table refresh_tokens
    tokens,     \* table access_tokens, with the claims of each token
    signers,    \* table entra_signing_keys, the lab issuer's key left out
    foreign,    \* history: the keys among them that the registry made
    priv,       \* the signing key the service keeps in memory
    mu,         \* the request that holds Service.mu across statements
    req,        \* what each request in progress knows and does next
    begun,      \* how many requests there were
    proved,     \* history: principals and the audiences they proved themselves for
    told        \* history: approvals of a code that were answered with success

keyVars == <<signers, foreign, priv, mu>>
vars == <<now, policies, codes, refresh, tokens, signers, foreign, priv, mu, req, begun, proved, told>>

Time      == 0 .. MaxTime
Principal == User \cup App

\* A policy applies to clients and lets agents through (AnyAgent: it names none).
Cond == [include : SUBSET (Client \cup {AllClients}), exclude : SUBSET Client,
         agents : SUBSET (Agent \cup {AnyAgent})]

DeviceCode == [who : User \cup {NoUser}, made : Time]
Issued     == [who : Principal, aud : Audience, made : Time]
Access     == [who : Principal, aud : Audience, made : Time, key : Key]

\* A request: whom it acts for, for what, with which form, whether a refresh
\* token is due, the code it approves, the key it signs with, whether the policies
\* could not be read for it, and (history) whether no policy blocked it at an
\* instant of its life.
Request ==
    [pc : {"approve", "ca", "key", "keygen", "reggen", "mint", "offline"},
     who : Principal \cup {NoUser}, aud : Audience, client : Client \cup {NoClient},
     agent : Agent, offline : BOOLEAN, code : Code \cup {NoCode}, key : Key \cup {NoKey},
     unread : BOOLEAN, open : BOOLEAN]

ASSUME InputAssumption ==
    /\ NoAud \in Audience /\ NoAgent \in Agent /\ App \subseteq Client /\ User \cap App = {}
    /\ Form \subseteq [aud : Audience, client : Client \cup {NoClient}, agent : Agent]
    /\ CondInput \subseteq Cond

ASSUME AbsentAssumption ==
    /\ NoClient \notin Client /\ AllClients \notin Client \cup {NoClient}
    /\ NoUser \notin Principal /\ NoKey \notin Key /\ NoReq \notin Req
    /\ NoPolicy \notin Cond /\ NoCode \notin DeviceCode \cup Code /\ Idle \notin Request

-----------------------------------------------------------------------------
(* Expiry.  expires_at and exp are whole seconds, cut off.                 *)

Second(t) == t \div TicksPerSecond
Expiry(made, ttl) == Second(made + ttl)

\* now.After(expires_at), of LookupAccessToken, LookupRefreshToken, LookupDeviceCode.
After(t, expiry) == t > TicksPerSecond * expiry

\* A test that lets a token live on for a second.
VerifyRS256JWTLate(t, expiry) == Second(t) < expiry + 2

\* now.Unix() > exp, of VerifyRS256JWT.
VerifyRS256JWT(t, expiry) == Second(t) <= expiry

LookupAccessToken(x) == x \in tokens /\ ~ After(now, Expiry(x.made, AccessTTL))

\* AuthenticateToken: the hash in the store, else the signature and the claims,
\* by the one key ensureKey gives: the one in memory, else one of the store.
AuthenticateToken(x) ==
    \/ LookupAccessToken(x)
    \/ /\ x.key = priv \/ (priv = NoKey /\ x.key \in signers)
       /\ VerifyRS256JWT(now, Expiry(x.made, AccessTTL))

-----------------------------------------------------------------------------
(* Conditional Access.                                                     *)

caClientIncluded(p, c) ==
    \/ AllClients \in p.include
    \/ c \in p.include
    \/ c = NoClient /\ p.include # {}

caClientExcluded(p, c) == c # NoClient /\ c \in p.exclude

caUserAgentAllowed(p, ua) == AnyAgent \in p.agents \/ (ua # NoAgent /\ ua \in p.agents)

conditionalAccessBlocked(ps, c, ua) ==
    \E i \in PolicyId :
       /\ ps[i] # NoPolicy
       /\ ~ caClientExcluded(ps[i], c)
       /\ caClientIncluded(ps[i], c)
       /\ ~ caUserAgentAllowed(ps[i], ua)

\* POST conditionalAccess/policies, enabled or not.  Requests under way notice,
\* for the history of what blocked them.
UpsertCAPolicy(i, p) ==
    /\ policies' = [policies EXCEPT ![i] = p]
    /\ req' = [r \in Req |->
                 IF req[r] = Idle THEN Idle
                 ELSE [req[r] EXCEPT !.open =
                         @ \/ ~ conditionalAccessBlocked(policies', req[r].client, req[r].agent)]]
    /\ UNCHANGED <<now, codes, refresh, tokens, keyVars, proved, told, begun>>

-----------------------------------------------------------------------------
(* The grants up to writeToken.                                            *)

At(r, pc) == req[r] # Idle /\ req[r].pc = pc

Goto(r, pc) == req' = [req EXCEPT ![r].pc = pc]

Finish(r) == req' = [req EXCEPT ![r] = Idle]

Start(r, pc, who, aud, f, offline, c) ==
    /\ req[r] = Idle /\ begun < MaxBegun
    /\ begun' = begun + 1
    /\ req' = [req EXCEPT ![r] =
                 [pc |-> pc, who |-> who, aud |-> aud, client |-> f.client, agent |-> f.agent,
                  offline |-> offline, code |-> c, key |-> NoKey, unread |-> FALSE,
                  open |-> ~ conditionalAccessBlocked(policies, f.client, f.agent)]]

\* Requests that mint nothing do not read the form.
NoForm == [aud |-> NoAud, client |-> NoClient, agent |-> NoAgent]

\* tokenPassword, once the password matched.
BeginPassword(r, u, f) ==
    /\ Start(r, "ca", u, f.aud, f, TRUE, NoCode)
    /\ proved' = proved \cup {<<u, f.aud>>}
    /\ UNCHANGED <<now, policies, codes, refresh, tokens, keyVars, told>>

\* tokenClientCredentials, once the secret or assertion was verified.  An
\* assertion names the application, so the form need not.  The entry in the
\* sign-in log, whose failure nobody looks at, decides nothing and is left out.
BeginClient(r, a, f) ==
    /\ f.client \in {a, NoClient}
    /\ Start(r, "ca", a, f.aud, f, FALSE, NoCode)
    /\ proved' = proved \cup {<<a, f.aud>>}
    /\ UNCHANGED <<now, policies, codes, refresh, tokens, keyVars, told>>

LookupRefreshToken(x) == x \in refresh /\ ~ After(now, Expiry(x.made, RefreshTTL))

\* The token would be minted for the audience the request names.
BeginRefreshAsked(r, x, f) ==
    /\ LookupRefreshToken(x)
    /\ Start(r, "ca", x.who, IF f.aud = NoAud THEN x.aud ELSE f.aud, f, TRUE, NoCode)
    /\ UNCHANGED <<now, policies, codes, refresh, tokens, keyVars, proved, told>>

\* tokenRefresh: the token stays in the store and keeps its audience.
BeginRefresh(r, x, f) ==
    /\ LookupRefreshToken(x)
    /\ f.aud \in {NoAud, x.aud}
    /\ Start(r, "ca", x.who, x.aud, f, TRUE, NoCode)
    /\ UNCHANGED <<now, policies, codes, refresh, tokens, keyVars, proved, told>>

\* handleDeviceCode.
PutDeviceCode(c) ==
    /\ codes[c] = NoCode
    /\ codes' = [codes EXCEPT ![c] = [who |-> NoUser, made |-> now]]
    /\ UNCHANGED <<now, policies, refresh, tokens, keyVars, req, begun, proved, told>>

\* handleDeviceApprove, once the password matched ...
BeginApprove(r, u, c) ==
    /\ codes[c] # NoCode
    /\ Start(r, "approve", u, NoAud, NoForm, FALSE, c)
    /\ UNCHANGED <<now, policies, codes, refresh, tokens, keyVars, proved, told>>

\* What the UPDATE of a code does: the user has now spoken for every audience
\* the holder of the code may ask for.
Bind(r, c) ==
    /\ codes' = [codes EXCEPT ![c].who = req[r].who]
    /\ told' = told \cup {<<c, req[r].who>>}
    /\ proved' = proved \cup ({req[r].who} \X Audience)

\* A second user could take an approved code over.
ApproveDeviceCodeAgain(r) ==
    LET c   == req[r].code
        hit == Expiry(codes[c].made, DeviceTTL) > Second(now)
    IN  /\ At(r, "approve")
        /\ (hit /\ Bind(r, c)) \/ (~ hit /\ UNCHANGED <<codes, told, proved>>)
        /\ Finish(r)
        /\ UNCHANGED <<now, policies, refresh, tokens, keyVars, begun>>

\* A code could be approved in the second in which it expires.
ApproveDeviceCodeLate(r) ==
    LET c   == req[r].code
        hit == codes[c].who = NoUser /\ Expiry(codes[c].made, DeviceTTL) >= Second(now)
    IN  /\ At(r, "approve")
        /\ (hit /\ Bind(r, c)) \/ (~ hit /\ UNCHANGED <<codes, told, proved>>)
        /\ Finish(r)
        /\ UNCHANGED <<now, policies, refresh, tokens, keyVars, begun>>

\* ... UPDATE device_codes WHERE approved = 0 AND expires_at > now, which
\* compares seconds.
ApproveDeviceCode(r) ==
    LET c   == req[r].code
        hit == codes[c].who = NoUser /\ Expiry(codes[c].made, DeviceTTL) > Second(now)
    IN  /\ At(r, "approve")
        /\ (hit /\ Bind(r, c)) \/ (~ hit /\ UNCHANGED <<codes, told, proved>>)
        /\ Finish(r)
        /\ UNCHANGED <<now, policies, refresh, tokens, keyVars, begun>>

LookupDeviceCode(c) == codes[c] # NoCode /\ ~ After(now, Expiry(codes[c].made, DeviceTTL))

\* tokenDeviceCode: the code is not used up; the request names the audience.
BeginDevice(r, c, f) ==
    /\ LookupDeviceCode(c)
    /\ codes[c].who # NoUser
    /\ Start(r, "ca", codes[c].who, f.aud, f, TRUE, NoCode)
    /\ UNCHANGED <<now, policies, codes, refresh, tokens, keyVars, proved, told>>

-----------------------------------------------------------------------------
(* writeToken.                                                             *)

\* Conditional Access would not run.
CheckAccessSkipped(r) ==
    /\ At(r, "ca")
    /\ Goto(r, "key")
    /\ UNCHANGED <<now, policies, codes, refresh, tokens, keyVars, proved, told, begun>>

\* conditionalAccessBlocked, or on to the key, as also when the policies cannot
\* be read.
CheckAccess(r) ==
    /\ At(r, "ca")
    /\ \/ conditionalAccessBlocked(policies, req[r].client, req[r].agent) /\ Finish(r)
       \/ ~ conditionalAccessBlocked(policies, req[r].client, req[r].agent) /\ Goto(r, "key")
       \/ req' = [req EXCEPT ![r] = [@ EXCEPT !.pc = "key", !.unread = TRUE]]
    /\ UNCHANGED <<now, policies, codes, refresh, tokens, keyVars, proved, told, begun>>

\* handleJWKS, and a bearer token whose hash is unknown: they want the key only.
BeginKey(r) ==
    /\ Start(r, "key", NoUser, NoAud, NoForm, FALSE, NoCode)
    /\ UNCHANGED <<now, policies, codes, refresh, tokens, keyVars, proved, told>>

\* What a request does with the key: sign a token, or answer.
Use(r, k) ==
    req' = [req EXCEPT ![r] = IF @.who = NoUser THEN Idle ELSE [@ EXCEPT !.pc = "mint", !.key = k]]

\* ensureKey, when the key is in memory or in the store ...
ensureKey(r) ==
    /\ At(r, "key") /\ mu = NoReq
    /\ \E k \in Key :
          /\ k = priv \/ (priv = NoKey /\ k \in signers)
          /\ priv' = k
          /\ Use(r, k)
    /\ UNCHANGED <<now, policies, codes, refresh, tokens, signers, foreign, mu, proved, told, begun>>

\* The lock would not be held while the key is made.
EnsureKeyUnlocked(r) ==
    /\ At(r, "key")
    /\ priv = NoKey /\ signers = {}
    /\ Goto(r, "keygen")
    /\ UNCHANGED <<now, policies, codes, refresh, tokens, keyVars, proved, told, begun>>

\* ... and when it is in neither: the SELECT found no row ...
EnsureKeyRead(r) ==
    /\ At(r, "key") /\ mu = NoReq
    /\ priv = NoKey /\ signers = {}
    /\ mu' = r
    /\ Goto(r, "keygen")
    /\ UNCHANGED <<now, policies, codes, refresh, tokens, signers, foreign, priv, proved, told, begun>>

\* ... and the INSERT stores a new one.
EnsureKeyInsert(r, k) ==
    /\ At(r, "keygen")
    /\ k \notin signers /\ \A x \in tokens : x.key # k
    /\ signers' = signers \cup {k}
    /\ priv' = k
    /\ mu' = NoReq
    /\ Use(r, k)
    /\ UNCHANGED <<now, policies, codes, refresh, tokens, foreign, proved, told, begun>>

\* mintRegistryToken of the container registry calls EnsureEntraSigningKey
\* without Service.mu: its SELECT found no row ...
BeginRegistryKey(r) ==
    /\ signers = {}
    /\ Start(r, "reggen", NoUser, NoAud, NoForm, FALSE, NoCode)
    /\ UNCHANGED <<now, policies, codes, refresh, tokens, keyVars, proved, told>>

\* ... and its INSERT stores a key that this service does not have in memory.
RegistryKeyInsert(r, k) ==
    /\ At(r, "reggen")
    /\ k \notin signers
    /\ signers' = signers \cup {k}
    /\ foreign' = foreign \cup {k}
    /\ Finish(r)
    /\ UNCHANGED <<now, policies, codes, refresh, tokens, priv, mu, proved, told, begun>>

\* mintAccessToken, from the clock to PutAccessToken.
mintAccessToken(r) ==
    /\ At(r, "mint")
    /\ tokens' = tokens \cup {[who |-> req[r].who, aud |-> req[r].aud, made |-> now,
                               key |-> req[r].key]}
    /\ IF req[r].offline THEN Goto(r, "offline") ELSE Finish(r)
    /\ UNCHANGED <<now, policies, codes, refresh, keyVars, proved, told, begun>>

PutRefreshToken(r) ==
    /\ At(r, "offline")
    /\ refresh' = refresh \cup {[who |-> req[r].who, aud |-> req[r].aud, made |-> now]}
    /\ Finish(r)
    /\ UNCHANGED <<now, policies, codes, tokens, keyVars, proved, told, begun>>

-----------------------------------------------------------------------------

\* Requests, the lock and the key in memory are gone; the tables are kept.
Crash ==
    /\ req' = [r \in Req |-> Idle]
    /\ priv' = NoKey
    /\ mu' = NoReq
    /\ UNCHANGED <<now, policies, codes, refresh, tokens, signers, foreign, proved, told, begun>>

Tick ==
    /\ now < MaxTime
    /\ now' = now + 1
    /\ UNCHANGED <<policies, codes, refresh, tokens, keyVars, req, begun, proved, told>>

\* SeedDirectory brings users and an application; nothing has been issued.
Init ==
    /\ now = 0
    /\ policies = [i \in PolicyId |-> NoPolicy]
    /\ codes = [c \in Code |-> NoCode]
    /\ refresh = {} /\ tokens = {} /\ signers = {} /\ foreign = {}
    /\ priv = NoKey /\ mu = NoReq /\ begun = 0
    /\ req = [r \in Req |-> Idle]
    /\ proved = {} /\ told = {}

Grant(r) ==
    \/ \E f \in Form :
          \/ \E u \in User : BeginPassword(r, u, f)
          \/ \E a \in App : BeginClient(r, a, f)
          \/ \E x \in refresh : BeginRefresh(r, x, f)
          \/ \E c \in Code : BeginDevice(r, c, f)
    \/ \E u \in User, c \in Code : BeginApprove(r, u, c)
    \/ BeginKey(r) \/ BeginRegistryKey(r)

Step(r) ==
    \/ ApproveDeviceCode(r) \/ CheckAccess(r)
    \/ ensureKey(r) \/ EnsureKeyRead(r) \/ \E k \in Key : EnsureKeyInsert(r, k) \/ RegistryKeyInsert(r, k)
    \/ mintAccessToken(r) \/ PutRefreshToken(r)

Next ==
    \/ \E r \in Req : Grant(r) \/ Step(r)
    \/ \E i \in PolicyId, p \in CondInput \cup {NoPolicy} : UpsertCAPolicy(i, p)
    \/ \E c \in Code : PutDeviceCode(c)
    \/ Crash
    \/ Tick

Spec == Init /\ [][Next]_vars

-----------------------------------------------------------------------------
(* Properties.                                                             *)

\* Every variable has its type.
TypeOK ==
    /\ now \in Time
    /\ policies \in [PolicyId -> Cond \cup {NoPolicy}]
    /\ codes \in [Code -> DeviceCode \cup {NoCode}]
    /\ refresh \subseteq Issued /\ tokens \subseteq Access
    /\ signers \subseteq Key /\ foreign \subseteq signers /\ priv \in Key \cup {NoKey} /\ mu \in Req \cup {NoReq}
    /\ req \in [Req -> Request \cup {Idle}] /\ begun \in 0 .. MaxBegun
    /\ proved \subseteq Principal \X Audience /\ told \subseteq Code \X User

\* Every access token and refresh token goes back, through any number of
\* refreshes, to a password, a client proof or an approved code of its principal
\* for its audience (tokenRefresh, tokenDeviceCode, writeToken).
TokenHasProof == \A x \in tokens \cup refresh : <<x.who, x.aud>> \in proved

\* However approvals of one code race, one user is told that it is approved and
\* the code is that user's from then on (ApproveDeviceCode).
OneApprover == \A x \in told : codes[x[1]] # NoCode /\ codes[x[1]].who = x[2]

\* An approval counts: the code can be exchanged at the instant the user is told,
\* although one test compares seconds and the other the exact time.
ApprovalCounts == [][\A x \in told' \ told : LookupDeviceCode(x[1])]_vars

\* Conditional Access runs at token mint: a request that an enabled policy
\* blocked from its first to its last step gets no token, unless the policies
\* could not be read (writeToken, conditionalAccessBlocked).
BlockedGetsNothing ==
    \A r \in Req :
       req[r] # Idle /\ req[r].pc \in {"mint", "offline"} => req[r].open \/ req[r].unread

\* Whatever policies are written, a request without client_id is blocked where
\* one with a client id of its choice would be ("omitted client_id must not
\* evade application-scoped policies").
OmittedNeverEvades ==
    \A c \in Client, ua \in Agent :
       conditionalAccessBlocked(policies, c, ua) => conditionalAccessBlocked(policies, NoClient, ua)

\* What was signed was signed with a key that is in the store, and so is the key
\* in memory; through races for the first key and through restarts, the service
\* makes one key at most.  A second one in the store is the registry's, which
\* makes its own without the lock (ensureKey, EnsureEntraSigningKey).
OneSigner ==
    /\ \A x \in tokens : x.key \in signers
    /\ \A j, k \in signers \ foreign : j = k
    /\ priv # NoKey => priv \in signers

\* The expiry that is kept is cut off to a second, and the two ways to accept a
\* token compare with it differently; together they accept none a second or more
\* after its life and, while there is one key, refuse none in it.  With two keys a
\* token may be refused in the last second (LookupAccessToken, VerifyRS256JWT).
LifeToTheSecond ==
    \A x \in tokens :
       /\ AuthenticateToken(x) => now < x.made + AccessTTL + TicksPerSecond
       /\ ~ AuthenticateToken(x) => now > (x.made + AccessTTL) - TicksPerSecond
       /\ ~ AuthenticateToken(x) /\ signers = {x.key} => now > x.made + AccessTTL

=============================================================================
