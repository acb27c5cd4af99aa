------------------------- MODULE EntraTokensProofs -------------------------
(***************************************************************************)
(* The properties of EntraTokens for any number of principals, requests,   *)
(* codes and policies, any lives and any clock.                            *)
(***************************************************************************)
EXTENDS EntraTokens, TLAPS

\* What a request knows is founded: it acts for a principal that proved itself
\* for its audience, and an approval for a user and a code that was made.
ProofOK(q, ps, cs) ==
    /\ q.pc # "approve" /\ q.who # NoUser => <<q.who, q.aud>> \in ps
    /\ q.pc = "approve" => q.who \in User /\ q.code \in Code /\ cs[q.code] # NoCode
    /\ q.pc \in {"ca", "mint", "offline"} => q.who # NoUser
    /\ q.offline \/ q.pc = "offline" => q.who \in User

RequestsFounded == \A r \in Req : req[r] # Idle => ProofOK(req[r], proved, codes)

\* A refresh token is a user's, and the user of an approved code spoke for every audience.
UsersSpoke ==
    /\ \A x \in refresh : x.who \in User
    /\ \A c \in Code : codes[c] # NoCode /\ codes[c].who # NoUser => {codes[c].who} \X Audience \subseteq proved

\* A request that makes the service's key holds the lock, and any key there is is
\* the registry's; a request that signs has a key of the store.
KeyInv ==
    \A r \in Req : req[r] # Idle =>
       /\ req[r].pc = "keygen" => mu = r /\ signers \subseteq foreign /\ priv = NoKey
       /\ req[r].pc = "mint" => req[r].key \in signers

\* The history of the policies is right: a request that is not blocked now was
\* not blocked at an instant, and neither was one past Conditional Access, unless
\* the policies could not be read for it.
OpenInv ==
    \A r \in Req : req[r] # Idle =>
       /\ ~ conditionalAccessBlocked(policies, req[r].client, req[r].agent) => req[r].open
       /\ req[r].pc \in {"mint", "offline"} => req[r].open \/ req[r].unread
       /\ req[r].pc \in {"key", "keygen"} /\ req[r].who # NoUser => req[r].open \/ req[r].unread

\* The inductive invariant.
ETInv ==
    /\ TypeOK
    /\ TokenHasProof /\ UsersSpoke /\ OneApprover /\ RequestsFounded
    /\ OneSigner /\ KeyInv
    /\ OpenInv

-----------------------------------------------------------------------------

\* The steps a request can be at.
PC == {"approve", "ca", "key", "keygen", "reggen", "mint", "offline"}

\* A request that moves on stays a request.
LEMMA MoveType ==
    ASSUME NEW q \in Request, NEW p \in PC PROVE [q EXCEPT !.pc = p] \in Request
BY DEF Request, PC

\* A request whose policies could not be read goes on to the key.
Unread(r) == req' = [req EXCEPT ![r] = [@ EXCEPT !.pc = "key", !.unread = TRUE]]

LEMMA OpenType ==
    ASSUME NEW q \in Request, NEW b \in BOOLEAN PROVE [q EXCEPT !.open = b] \in Request
BY DEF Request

LEMMA ReqType ==
    ASSUME TypeOK, NEW r \in Req, NEW q \in Request \cup {Idle}
    PROVE  [req EXCEPT ![r] = q] \in [Req -> Request \cup {Idle}]
BY DEF TypeOK

LEMMA BlockedBoolean ==
    ASSUME NEW ps, NEW c, NEW ua PROVE conditionalAccessBlocked(ps, c, ua) \in BOOLEAN
BY DEF conditionalAccessBlocked

LEMMA StartType ==
    ASSUME TypeOK, NEW r \in Req, NEW p \in PC, NEW w \in Principal \cup {NoUser}, NEW a \in Audience,
           NEW f \in [aud : Audience, client : Client \cup {NoClient}, agent : Agent],
           NEW o \in BOOLEAN, NEW c \in Code \cup {NoCode}, Start(r, p, w, a, f, o, c)
    PROVE  req' \in [Req -> Request \cup {Idle}] /\ begun' \in 0 .. MaxBegun
<1> DEFINE q == [pc |-> p, who |-> w, aud |-> a, client |-> f.client, agent |-> f.agent,
                  offline |-> o, code |-> c, key |-> NoKey, unread |-> FALSE,
                  open |-> ~ conditionalAccessBlocked(policies, f.client, f.agent)]
<1>1. q \in Request
  BY BlockedBoolean DEF Request, PC
<1>2. req' = [req EXCEPT ![r] = q]
  BY DEF Start
<1>3. begun' \in 0 .. MaxBegun
  BY TimeAssumption DEF Start, TypeOK
<1> QED
  BY <1>1, <1>2, <1>3, ReqType

\* Nothing has been issued.
LEMMA InitInv == Init => ETInv
<1> SUFFICES ASSUME Init PROVE ETInv
  OBVIOUS
<1>1. TypeOK
  BY TimeAssumption DEF Init, TypeOK, Time
<1>2. TokenHasProof /\ UsersSpoke /\ OneApprover /\ OneSigner
  BY DEF Init, TokenHasProof, UsersSpoke, OneApprover, OneSigner
<1>3. RequestsFounded /\ KeyInv /\ OpenInv
  BY DEF Init, RequestsFounded, KeyInv, OpenInv
<1> QED
  BY <1>1, <1>2, <1>3 DEF ETInv


\* What a step of a request leaves: a request of its type, or none.
LEMMA StepType ==
    ASSUME TypeOK, NEW r \in Req, req[r] # Idle, NEW p \in PC, NEW k \in Key \cup {NoKey},
           Finish(r) \/ Goto(r, p) \/ Use(r, k) \/ Unread(r)
    PROVE  req' \in [Req -> Request \cup {Idle}]
<1>1. req[r] \in Request
  BY DEF TypeOK
<1>2. CASE Finish(r)
  BY <1>2, ReqType DEF Finish
<1>3. CASE Goto(r, p)
  BY <1>1, <1>3, MoveType, ReqType DEF Goto
<1>4. CASE Use(r, k)
  <2> DEFINE q == [req[r] EXCEPT !.pc = "mint", !.key = k]
  <2>1. q \in Request
    BY <1>1 DEF Request
  <2>2. req' = [req EXCEPT ![r] = Idle] \/ req' = [req EXCEPT ![r] = q]
    BY <1>4 DEF Use
  <2> QED
    BY <2>1, <2>2, ReqType
<1>5. CASE Unread(r)
  <2> DEFINE q == [req[r] EXCEPT !.pc = "key", !.unread = TRUE]
  <2>1. q \in Request
    BY <1>1 DEF Request
  <2> QED
    BY <1>5, <2>1, ReqType DEF Unread
<1> QED
  BY <1>2, <1>3, <1>4, <1>5

LEMMA TypeStep == ETInv /\ [Next]_vars => TypeOK'
<1> SUFFICES ASSUME ETInv, [Next]_vars PROVE TypeOK'
  OBVIOUS
<1> USE AbsentAssumption
<1>t. TypeOK /\ RequestsFounded /\ KeyInv
  BY DEF ETInv
<1>f. NoForm \in [aud : Audience, client : Client \cup {NoClient}, agent : Agent] /\ NoAud \in Audience
  BY InputAssumption DEF NoForm
<1>1. ASSUME NEW r \in Req, NEW f \in Form, NEW u \in User, BeginPassword(r, u, f) PROVE TypeOK'
  <2>1. f \in [aud : Audience, client : Client \cup {NoClient}, agent : Agent]
    BY InputAssumption
  <2>2. req' \in [Req -> Request \cup {Idle}] /\ begun' \in 0 .. MaxBegun
    BY <1>t, <1>1, <2>1, StartType DEF BeginPassword, Principal, PC
  <2> QED
    BY <1>t, <1>1, <2>1, <2>2 DEF TypeOK, BeginPassword, keyVars, Principal
<1>2. ASSUME NEW r \in Req, NEW f \in Form, NEW a \in App, BeginClient(r, a, f) PROVE TypeOK'
  <2>1. f \in [aud : Audience, client : Client \cup {NoClient}, agent : Agent]
    BY InputAssumption
  <2>2. req' \in [Req -> Request \cup {Idle}] /\ begun' \in 0 .. MaxBegun
    BY <1>t, <1>2, <2>1, StartType DEF BeginClient, Principal, PC
  <2> QED
    BY <1>t, <1>2, <2>1, <2>2 DEF TypeOK, BeginClient, keyVars, Principal
<1>3. ASSUME NEW r \in Req, NEW f \in Form, NEW x \in refresh, BeginRefresh(r, x, f) PROVE TypeOK'
  <2>1. f \in [aud : Audience, client : Client \cup {NoClient}, agent : Agent]
    BY InputAssumption
  <2>2. x.who \in Principal /\ x.aud \in Audience
    BY <1>t DEF TypeOK, Issued
  <2>3. req' \in [Req -> Request \cup {Idle}] /\ begun' \in 0 .. MaxBegun
    BY <1>t, <1>3, <2>1, <2>2, StartType DEF BeginRefresh, PC
  <2> QED
    BY <1>t, <1>3, <2>3 DEF TypeOK, BeginRefresh, keyVars
<1>4. ASSUME NEW r \in Req, NEW f \in Form, NEW c \in Code, BeginDevice(r, c, f) PROVE TypeOK'
  <2>1. f \in [aud : Audience, client : Client \cup {NoClient}, agent : Agent]
    BY InputAssumption
  <2>2. codes[c].who \in Principal
    BY <1>t, <1>4 DEF TypeOK, DeviceCode, BeginDevice, LookupDeviceCode, Principal
  <2>3. req' \in [Req -> Request \cup {Idle}] /\ begun' \in 0 .. MaxBegun
    BY <1>t, <1>4, <2>1, <2>2, StartType DEF BeginDevice, PC
  <2> QED
    BY <1>t, <1>4, <2>3 DEF TypeOK, BeginDevice, keyVars
<1>5. ASSUME NEW r \in Req, NEW u \in User, NEW c \in Code, BeginApprove(r, u, c) PROVE TypeOK'
  <2>1. req' \in [Req -> Request \cup {Idle}] /\ begun' \in 0 .. MaxBegun
    BY <1>t, <1>f, <1>5, StartType DEF BeginApprove, PC, Principal
  <2> QED
    BY <1>t, <1>5, <2>1 DEF TypeOK, BeginApprove, keyVars
<1>6. ASSUME NEW r \in Req, BeginKey(r) PROVE TypeOK'
  <2>1. req' \in [Req -> Request \cup {Idle}] /\ begun' \in 0 .. MaxBegun
    BY <1>t, <1>f, <1>6, StartType DEF BeginKey, PC
  <2> QED
    BY <1>t, <1>6, <2>1 DEF TypeOK, BeginKey, keyVars
<1>7. ASSUME NEW r \in Req, BeginRegistryKey(r) PROVE TypeOK'
  <2>1. req' \in [Req -> Request \cup {Idle}] /\ begun' \in 0 .. MaxBegun
    BY <1>t, <1>f, <1>7, StartType DEF BeginRegistryKey, PC
  <2> QED
    BY <1>t, <1>7, <2>1 DEF TypeOK, BeginRegistryKey, keyVars
<1>8. ASSUME NEW r \in Req, ApproveDeviceCode(r) PROVE TypeOK'
  <2> DEFINE c == req[r].code
  <2>1. c \in Code /\ req[r].who \in User /\ codes[c] \in DeviceCode
    BY <1>t, <1>8 DEF TypeOK, RequestsFounded, ProofOK, ApproveDeviceCode, At
  <2>2. req' = [req EXCEPT ![r] = Idle]
    BY <1>8 DEF ApproveDeviceCode, Finish
  <2>3. Bind(r, c) \/ UNCHANGED <<codes, told, proved>>
    BY <1>8 DEF ApproveDeviceCode
  <2>4. [codes[c] EXCEPT !.who = req[r].who] \in DeviceCode
    BY <2>1 DEF DeviceCode
  <2>5. codes' \in [Code -> DeviceCode \cup {NoCode}]
    BY <1>t, <2>1, <2>3, <2>4 DEF TypeOK, Bind
  <2>6. told' \subseteq Code \X User /\ proved' \subseteq Principal \X Audience
    BY <1>t, <2>1, <2>3 DEF TypeOK, Bind, Principal
  <2>7. req' \in [Req -> Request \cup {Idle}]
    BY <1>t, <2>2, ReqType
  <2> QED
    BY <1>t, <1>8, <2>5, <2>6, <2>7 DEF TypeOK, ApproveDeviceCode, keyVars
<1>9. ASSUME NEW r \in Req, CheckAccess(r) PROVE TypeOK'
  <2>1. req[r] # Idle /\ (Finish(r) \/ Goto(r, "key") \/ Unread(r))
    BY <1>9 DEF CheckAccess, At, Unread
  <2>3. req' \in [Req -> Request \cup {Idle}]
    BY <1>t, <2>1, StepType DEF PC
  <2> QED
    BY <1>t, <1>9, <2>3 DEF TypeOK, CheckAccess, keyVars
<1>10. ASSUME NEW r \in Req, ensureKey(r) PROVE TypeOK'
  <2>1. PICK k \in Key : priv' = k /\ Use(r, k)
    BY <1>10 DEF ensureKey
  <2>2. req' \in [Req -> Request \cup {Idle}]
    BY <1>t, <1>10, <2>1, StepType DEF ensureKey, At, PC
  <2> QED
    BY <1>t, <1>10, <2>1, <2>2 DEF TypeOK, ensureKey
<1>11. ASSUME NEW r \in Req, EnsureKeyRead(r) PROVE TypeOK'
  <2>1. req' = [req EXCEPT ![r] = [req[r] EXCEPT !.pc = "keygen"]]
    BY <1>11 DEF EnsureKeyRead, Goto
  <2>2. req[r] \in Request
    BY <1>t, <1>11 DEF EnsureKeyRead, At, TypeOK
  <2>3. req' \in [Req -> Request \cup {Idle}]
    BY <1>t, <2>1, <2>2, ReqType, MoveType DEF PC
  <2> QED
    BY <1>t, <1>11, <2>3 DEF TypeOK, EnsureKeyRead
<1>12. ASSUME NEW r \in Req, NEW k \in Key, EnsureKeyInsert(r, k) PROVE TypeOK'
  <2>1. req' \in [Req -> Request \cup {Idle}]
    BY <1>t, <1>12, StepType DEF EnsureKeyInsert, At, PC
  <2> QED
    BY <1>t, <1>12, <2>1 DEF TypeOK, EnsureKeyInsert
<1>13. ASSUME NEW r \in Req, mintAccessToken(r) PROVE TypeOK'
  <2>1. req[r] \in Request /\ req[r].key \in Key /\ req[r].who \in Principal
    BY <1>t, <1>13 DEF TypeOK, RequestsFounded, ProofOK, KeyInv, mintAccessToken, At, Request
  <2>2. [who |-> req[r].who, aud |-> req[r].aud, made |-> now, key |-> req[r].key] \in Access
    BY <1>t, <2>1 DEF TypeOK, Access, Request
  <2>3. req[r] # Idle /\ (Finish(r) \/ Goto(r, "offline"))
    BY <1>13 DEF mintAccessToken, At
  <2>4. req' \in [Req -> Request \cup {Idle}]
    BY <1>t, <2>3, StepType DEF PC
  <2> QED
    BY <1>t, <1>13, <2>2, <2>4 DEF TypeOK, mintAccessToken, keyVars
<1>14. ASSUME NEW r \in Req, PutRefreshToken(r) PROVE TypeOK'
  <2>1. req[r] \in Request /\ req[r].who \in Principal
    BY <1>t, <1>14 DEF TypeOK, RequestsFounded, ProofOK, PutRefreshToken, At, Request
  <2>2. [who |-> req[r].who, aud |-> req[r].aud, made |-> now] \in Issued
    BY <1>t, <2>1 DEF TypeOK, Issued, Request
  <2>3. req' \in [Req -> Request \cup {Idle}]
    BY <1>t, <1>14, ReqType DEF PutRefreshToken, Finish
  <2> QED
    BY <1>t, <1>14, <2>2, <2>3 DEF TypeOK, PutRefreshToken, keyVars
<1>15. ASSUME NEW i \in PolicyId, NEW p \in CondInput \cup {NoPolicy}, UpsertCAPolicy(i, p) PROVE TypeOK'
  <2>1. ASSUME NEW r \in Req PROVE req'[r] \in Request \cup {Idle}
    <3>1. CASE req[r] = Idle
      BY <1>15, <3>1 DEF UpsertCAPolicy
    <3>2. CASE req[r] # Idle
      <4> DEFINE b == req[r].open \/ ~ conditionalAccessBlocked(policies', req[r].client, req[r].agent)
      <4>1. req[r] \in Request /\ b \in BOOLEAN
        BY <1>t, <3>2 DEF TypeOK
      <4>2. req'[r] = [req[r] EXCEPT !.open = b]
        BY <1>15, <3>2, <4>1 DEF UpsertCAPolicy
      <4> QED
        BY <4>1, <4>2, OpenType
    <3> QED
      BY <3>1, <3>2
  <2>2. req' \in [Req -> Request \cup {Idle}]
    BY <1>15, <2>1 DEF UpsertCAPolicy
  <2>3. policies' \in [PolicyId -> Cond \cup {NoPolicy}]
    BY <1>t, <1>15, InputAssumption DEF UpsertCAPolicy, TypeOK
  <2> QED
    BY <1>t, <1>15, <2>2, <2>3 DEF TypeOK, UpsertCAPolicy, keyVars
<1>16. ASSUME NEW c \in Code, PutDeviceCode(c) PROVE TypeOK'
  BY <1>t, <1>16 DEF TypeOK, PutDeviceCode, DeviceCode, keyVars
<1>17. CASE Crash
  BY <1>t, <1>17 DEF TypeOK, Crash
<1>18. CASE Tick
  BY <1>t, <1>18, TimeAssumption DEF TypeOK, Tick, keyVars, Time
<1>19. CASE UNCHANGED vars
  BY <1>t, <1>19 DEF TypeOK, vars
<1>20. ASSUME NEW r \in Req, NEW k \in Key, RegistryKeyInsert(r, k) PROVE TypeOK'
  <2>1. req' \in [Req -> Request \cup {Idle}]
    BY <1>t, <1>20, ReqType DEF RegistryKeyInsert, Finish
  <2> QED
    BY <1>t, <1>20, <2>1 DEF TypeOK, RegistryKeyInsert
<1> QED
  BY <1>1, <1>2, <1>3, <1>4, <1>5, <1>6, <1>7, <1>8, <1>9, <1>10, <1>11, <1>12, <1>13, <1>14, <1>15,
     <1>16, <1>17, <1>18, <1>19, <1>20 DEF Next, Grant, Step

-----------------------------------------------------------------------------

\* What any step keeps: who proved what, which codes were made and to whom they
\* belong.
Grow ==
    /\ proved \subseteq proved'
    /\ \A c \in Code : codes[c] # NoCode =>
          codes'[c] # NoCode /\ (codes[c].who # NoUser => codes'[c].who = codes[c].who)

LEMMA Grows == ETInv /\ [Next]_vars => Grow
<1> SUFFICES ASSUME ETInv, [Next]_vars PROVE Grow
  OBVIOUS
<1>t. TypeOK /\ RequestsFounded
  BY DEF ETInv
<1>1. CASE UNCHANGED <<codes, proved>>
  BY <1>1 DEF Grow
<1>2. CASE UNCHANGED codes /\ proved \subseteq proved'
  BY <1>2 DEF Grow
<1>4. ASSUME NEW r \in Req, ApproveDeviceCode(r) PROVE Grow
  <2> DEFINE c == req[r].code
  <2>1. c \in Code /\ req[r].who \in User /\ codes[c] \in DeviceCode
    BY <1>t, <1>4, AbsentAssumption DEF TypeOK, RequestsFounded, ProofOK, ApproveDeviceCode, At
  <2>2. CASE UNCHANGED <<codes, told, proved>>
    BY <1>4, <2>2 DEF Grow, ApproveDeviceCode
  <2>3. CASE Bind(r, c) /\ codes[c].who = NoUser
    <3>1. codes' = [codes EXCEPT ![c] = [codes[c] EXCEPT !.who = req[r].who]]
      BY <2>3 DEF Bind
    <3>2. [codes[c] EXCEPT !.who = req[r].who] \in DeviceCode
      BY <2>1 DEF DeviceCode
    <3>3. \A d \in Code : codes'[d] = IF d = c THEN [codes[c] EXCEPT !.who = req[r].who] ELSE codes[d]
      BY <1>t, <3>1 DEF TypeOK
    <3>4. proved \subseteq proved'
      BY <1>4, <2>3 DEF ApproveDeviceCode, Bind
    <3> QED
      BY <2>3, <3>2, <3>3, <3>4, AbsentAssumption DEF Grow
  <2> QED
    BY <1>4, <2>2, <2>3 DEF ApproveDeviceCode
<1>5. ASSUME NEW c \in Code, PutDeviceCode(c) PROVE Grow
  BY <1>t, <1>5 DEF Grow, PutDeviceCode, TypeOK
<1>6. ASSUME NEW r \in Req, Grant(r) PROVE Grow
  BY <1>1, <1>2, <1>6 DEF Grant, BeginPassword, BeginClient, BeginRefresh, BeginDevice, BeginApprove, BeginKey,
     BeginRegistryKey
<1>7. ASSUME NEW r \in Req, Step(r) PROVE Grow
  BY <1>1, <1>4, <1>7 DEF Step, CheckAccess, ensureKey, EnsureKeyRead, EnsureKeyInsert, RegistryKeyInsert,
     mintAccessToken, PutRefreshToken
<1> QED
  BY <1>1, <1>5, <1>6, <1>7 DEF Next, UpsertCAPolicy, Crash, Tick, vars

\* When one request moves, the others stay founded.
LEMMA OneMoves ==
    ASSUME Grow, TypeOK, RequestsFounded, NEW r \in Req,
           \A s \in Req : s # r => req'[s] = req[s],
           req'[r] # Idle => ProofOK(req'[r], proved', codes')
    PROVE  RequestsFounded'
<1> SUFFICES ASSUME NEW s \in Req, req'[s] # Idle PROVE ProofOK(req'[s], proved', codes')
  BY DEF RequestsFounded
<1>1. CASE s = r
  BY <1>1
<1>2. CASE s # r
  <2>1. req'[s] = req[s] /\ ProofOK(req[s], proved, codes)
    BY <1>2 DEF RequestsFounded
  <2> QED
    BY <2>1 DEF ProofOK, Grow
<1> QED
  BY <1>1, <1>2

\* A request that was just started, in its fields.
LEMMA Started ==
    ASSUME TypeOK, NEW r \in Req, NEW p, NEW w, NEW a, NEW f, NEW o, NEW c, Start(r, p, w, a, f, o, c)
    PROVE  /\ \A s \in Req : s # r => req'[s] = req[s]
           /\ req'[r].pc = p /\ req'[r].who = w /\ req'[r].aud = a /\ req'[r].offline = o
           /\ req'[r].code = c /\ req'[r].client = f.client /\ req'[r].agent = f.agent
           /\ req'[r].open = ~ conditionalAccessBlocked(policies, f.client, f.agent)
BY DEF TypeOK, Start

\* A request that moved on differs in its pc and its key only, and in what was
\* not read.
LEMMA Moved ==
    ASSUME TypeOK, NEW r \in Req, req[r] # Idle, NEW p, NEW k,
           Finish(r) \/ Goto(r, p) \/ (Use(r, k) /\ p = "mint") \/ (Unread(r) /\ p = "key")
    PROVE  /\ \A s \in Req : s # r => req'[s] = req[s]
           /\ req'[r] # Idle => /\ req'[r].pc = p /\ req'[r].who = req[r].who /\ req'[r].aud = req[r].aud
                                /\ req'[r].offline = req[r].offline /\ req'[r].open = req[r].open
                                /\ req'[r].client = req[r].client /\ req'[r].agent = req[r].agent
                                /\ req'[r].code = req[r].code
                                /\ req[r].unread => req'[r].unread
                                /\ Unread(r) => req'[r].unread
<1>1. req[r] \in Request
  BY DEF TypeOK
<1>u. Unread(r) => req'[r].unread
  BY <1>1 DEF Unread, TypeOK, Request
<1>2. CASE Finish(r)
  BY <1>2, <1>u DEF Finish, TypeOK
<1>3. CASE Goto(r, p)
  BY <1>1, <1>3, <1>u DEF Goto, TypeOK, Request
<1>4. CASE Use(r, k) /\ p = "mint"
  BY <1>1, <1>4, <1>u DEF Use, TypeOK, Request
<1>5. CASE Unread(r) /\ p = "key"
  BY <1>1, <1>5, <1>u DEF Unread, TypeOK, Request
<1> QED
  BY <1>2, <1>3, <1>4, <1>5

LEMMA UsedKey ==
    ASSUME TypeOK, NEW r \in Req, req[r] # Idle, NEW k, Use(r, k), req'[r] # Idle
    PROVE  req'[r].key = k /\ req[r].who # NoUser
<1>1. req[r] \in Request
  BY DEF TypeOK
<1> QED
  BY <1>1 DEF Use, TypeOK, Request

\* A request that starts founded leaves all requests founded.
LEMMA BeginFounded ==
    ASSUME TypeOK, Grow, RequestsFounded, NEW r \in Req, NEW p, NEW w, NEW a, NEW f, NEW o, NEW c,
           Start(r, p, w, a, f, o, c),
           p # "approve" /\ w # NoUser => <<w, a>> \in proved',
           p = "approve" => w \in User /\ c \in Code /\ codes'[c] # NoCode,
           p \in {"ca", "mint", "offline"} => w # NoUser,
           o \/ p = "offline" => w \in User
    PROVE  RequestsFounded'
<1>1. /\ \A s \in Req : s # r => req'[s] = req[s]
      /\ req'[r].pc = p /\ req'[r].who = w /\ req'[r].aud = a /\ req'[r].offline = o
      /\ req'[r].code = c
  BY Started
<1>2. ProofOK(req'[r], proved', codes')
  BY <1>1 DEF ProofOK
<1> QED
  BY <1>1, <1>2, OneMoves

\* RequestsFounded is kept: one case per action that moves a request.
LEMMA FoundedStep == ETInv /\ [Next]_vars => RequestsFounded'
<1> SUFFICES ASSUME ETInv, [Next]_vars PROVE RequestsFounded'
  OBVIOUS
<1> USE AbsentAssumption, InputAssumption
<1>t. TypeOK /\ RequestsFounded /\ UsersSpoke /\ TokenHasProof
  BY DEF ETInv
<1>g. Grow
  BY Grows
<1>0. CASE UNCHANGED req
  BY <1>0, <1>t, <1>g DEF RequestsFounded, ProofOK, Grow
<1>1. ASSUME NEW r \in Req, NEW f \in Form, NEW u \in User, BeginPassword(r, u, f) PROVE RequestsFounded'
  <2>1. Start(r, "ca", u, f.aud, f, TRUE, NoCode) /\ <<u, f.aud>> \in proved'
    BY <1>1 DEF BeginPassword
  <2> QED
    BY <2>1, <1>t, <1>g, BeginFounded DEF Principal
<1>2. ASSUME NEW r \in Req, NEW f \in Form, NEW a \in App, BeginClient(r, a, f) PROVE RequestsFounded'
  <2>1. Start(r, "ca", a, f.aud, f, FALSE, NoCode) /\ <<a, f.aud>> \in proved'
    BY <1>2 DEF BeginClient
  <2> QED
    BY <2>1, <1>t, <1>g, BeginFounded DEF Principal
<1>3. ASSUME NEW r \in Req, NEW f \in Form, NEW x \in refresh, BeginRefresh(r, x, f) PROVE RequestsFounded'
  <2>1. Start(r, "ca", x.who, x.aud, f, TRUE, NoCode)
    BY <1>3 DEF BeginRefresh
  <2>2. <<x.who, x.aud>> \in proved' /\ x.who \in User
    BY <1>t, <1>g DEF Grow, TokenHasProof, UsersSpoke
  <2> QED
    BY <2>1, <2>2, <1>t, <1>g, BeginFounded DEF Principal
<1>4. ASSUME NEW r \in Req, NEW f \in Form, NEW c \in Code, BeginDevice(r, c, f) PROVE RequestsFounded'
  <2> DEFINE w == codes[c].who
  <2>1. Start(r, "ca", w, f.aud, f, TRUE, NoCode)
    BY <1>4 DEF BeginDevice
  <2>2. w \in User /\ f.aud \in Audience
    BY <1>t, <1>4 DEF TypeOK, DeviceCode, BeginDevice, LookupDeviceCode
  <2>3. <<w, f.aud>> \in proved'
    BY <1>t, <1>g, <1>4, <2>2 DEF Grow, UsersSpoke, BeginDevice, LookupDeviceCode
  <2> QED
    BY <2>1, <2>2, <2>3, <1>t, <1>g, BeginFounded DEF Principal
<1>5. ASSUME NEW r \in Req, NEW u \in User, NEW c \in Code, BeginApprove(r, u, c) PROVE RequestsFounded'
  <2>1. Start(r, "approve", u, NoAud, NoForm, FALSE, c) /\ codes'[c] # NoCode
    BY <1>5 DEF BeginApprove
  <2> QED
    BY <2>1, <1>t, <1>g, BeginFounded DEF Principal
<1>6. ASSUME NEW r \in Req, BeginKey(r) PROVE RequestsFounded'
  <2>1. Start(r, "key", NoUser, NoAud, NoForm, FALSE, NoCode)
    BY <1>6 DEF BeginKey
  <2> QED
    BY <2>1, <1>t, <1>g, BeginFounded DEF Principal
<1>7. ASSUME NEW r \in Req, BeginRegistryKey(r) PROVE RequestsFounded'
  <2>1. Start(r, "reggen", NoUser, NoAud, NoForm, FALSE, NoCode)
    BY <1>7 DEF BeginRegistryKey
  <2> QED
    BY <2>1, <1>t, <1>g, BeginFounded DEF Principal
<1>8. ASSUME NEW r \in Req, ApproveDeviceCode(r) PROVE RequestsFounded'
  <2>1. req'[r] = Idle /\ \A s \in Req : s # r => req'[s] = req[s]
    BY <1>8, <1>t DEF ApproveDeviceCode, Finish, TypeOK
  <2> QED
    BY <2>1, <1>t, <1>g, OneMoves
<1>9. ASSUME NEW r \in Req, NEW p \in {"key", "keygen", "mint"}, NEW k,
             req[r] # Idle, req[r].pc \in {"ca", "key", "keygen"}, p = "mint" => Use(r, k),
             Finish(r) \/ Goto(r, p) \/ (Use(r, k) /\ p = "mint") \/ (Unread(r) /\ p = "key")
      PROVE  RequestsFounded'
  <2>1. ProofOK(req[r], proved, codes)
    BY <1>t, <1>9 DEF RequestsFounded
  <2>2. req'[r] # Idle => ProofOK(req'[r], proved', codes')
    BY <2>1, <1>9, <1>t, <1>g, Moved, UsedKey DEF ProofOK, Grow
  <2> QED
    BY <2>2, <1>9, <1>t, <1>g, Moved, OneMoves
<1>10. ASSUME NEW r \in Req, CheckAccess(r) PROVE RequestsFounded'
  BY <1>9, <1>10 DEF CheckAccess, At, Unread
<1>11. ASSUME NEW r \in Req, ensureKey(r) PROVE RequestsFounded'
  BY <1>9, <1>11 DEF ensureKey, At
<1>12. ASSUME NEW r \in Req, EnsureKeyRead(r) PROVE RequestsFounded'
  BY <1>9, <1>12 DEF EnsureKeyRead, At
<1>13. ASSUME NEW r \in Req, NEW k \in Key, EnsureKeyInsert(r, k) PROVE RequestsFounded'
  BY <1>9, <1>13 DEF EnsureKeyInsert, At
<1>14. ASSUME NEW r \in Req, mintAccessToken(r) PROVE RequestsFounded'
  <2>1. req[r] # Idle /\ req[r].pc = "mint" /\ ((Goto(r, "offline") /\ req[r].offline) \/ Finish(r))
    BY <1>14 DEF mintAccessToken, At
  <2>2. ProofOK(req[r], proved, codes)
    BY <1>t, <2>1 DEF RequestsFounded
  <2>3. CASE Finish(r)
    <3>1. req'[r] = Idle /\ \A s \in Req : s # r => req'[s] = req[s]
      BY <2>3, <1>t DEF Finish, TypeOK
    <3> QED
      BY <3>1, <1>t, <1>g, OneMoves
  <2>4. CASE Goto(r, "offline") /\ req[r].offline
    <3>1. req'[r] # Idle => ProofOK(req'[r], proved', codes')
      BY <2>1, <2>2, <2>4, <1>t, <1>g, Moved DEF ProofOK, Grow
    <3> QED
      BY <2>1, <2>4, <3>1, <1>t, <1>g, Moved, OneMoves
  <2> QED
    BY <2>1, <2>3, <2>4
<1>15. ASSUME NEW r \in Req, PutRefreshToken(r) PROVE RequestsFounded'
  <2>1. req'[r] = Idle /\ \A s \in Req : s # r => req'[s] = req[s]
    BY <1>15, <1>t DEF PutRefreshToken, Finish, TypeOK
  <2> QED
    BY <2>1, <1>t, <1>g, OneMoves
<1>20. ASSUME NEW r \in Req, NEW k \in Key, RegistryKeyInsert(r, k) PROVE RequestsFounded'
  <2>1. req'[r] = Idle /\ \A s \in Req : s # r => req'[s] = req[s]
    BY <1>20, <1>t DEF RegistryKeyInsert, Finish, TypeOK
  <2> QED
    BY <2>1, <1>t, <1>g, OneMoves
<1>16. ASSUME NEW i \in PolicyId, NEW p \in CondInput \cup {NoPolicy}, UpsertCAPolicy(i, p)
       PROVE  RequestsFounded'
  <2> SUFFICES ASSUME NEW s \in Req, req'[s] # Idle PROVE ProofOK(req'[s], proved', codes')
    BY DEF RequestsFounded
  <2>1. req[s] \in Request /\ req[s] # Idle
    BY <1>16, <1>t DEF UpsertCAPolicy, TypeOK
  <2>2. /\ req'[s].pc = req[s].pc /\ req'[s].who = req[s].who /\ req'[s].aud = req[s].aud
        /\ req'[s].offline = req[s].offline /\ req'[s].code = req[s].code
    BY <1>16, <2>1 DEF UpsertCAPolicy, Request
  <2>3. ProofOK(req[s], proved, codes)
    BY <1>t, <2>1 DEF RequestsFounded
  <2> QED
    BY <1>g, <2>2, <2>3 DEF ProofOK, Grow
<1>17. CASE Crash
  BY <1>17 DEF Crash, RequestsFounded
<1>18. ASSUME NEW r \in Req, Grant(r) PROVE RequestsFounded'
  BY <1>1, <1>2, <1>3, <1>4, <1>5, <1>6, <1>7, <1>18 DEF Grant
<1>19. ASSUME NEW r \in Req, Step(r) PROVE RequestsFounded'
  BY <1>8, <1>10, <1>11, <1>12, <1>13, <1>14, <1>15, <1>19, <1>20 DEF Step
<1> QED
  BY <1>0, <1>16, <1>17, <1>18, <1>19 DEF Next, PutDeviceCode, Tick, vars

\* The tables: only minting adds tokens, and what founds them only grows.
LEMMA TablesStep ==
    ETInv /\ [Next]_vars => (TokenHasProof /\ UsersSpoke /\ OneApprover)'
<1> SUFFICES ASSUME ETInv, [Next]_vars
             PROVE  (TokenHasProof /\ UsersSpoke /\ OneApprover)'
  OBVIOUS
<1> USE AbsentAssumption
<1>t. TypeOK /\ RequestsFounded /\ TokenHasProof /\ UsersSpoke /\ OneApprover
  BY DEF ETInv
<1>g. Grow
  BY Grows
<1>1. ASSUME UNCHANGED <<tokens, refresh>> PROVE TokenHasProof'
  BY <1>1, <1>t, <1>g DEF TokenHasProof, Grow
<1>2. ASSUME UNCHANGED <<codes, refresh>> PROVE UsersSpoke'
  <2>1. \A c \in Code : codes[c] # NoCode /\ codes[c].who # NoUser
                        => {codes[c].who} \X Audience \subseteq proved'
    BY <1>t, <1>g DEF UsersSpoke, Grow
  <2> QED
    BY <1>2, <1>t, <2>1 DEF UsersSpoke
<1>3. ASSUME UNCHANGED told PROVE OneApprover'
  <2>1. \A x \in told : x[1] \in Code /\ x[2] \in User
    BY <1>t DEF TypeOK
  <2>2. \A x \in told : x[2] # NoUser
    BY <2>1 DEF Principal
  <2> QED
    BY <1>3, <1>t, <1>g, <2>1, <2>2 DEF OneApprover, Grow
<1>4. ASSUME NEW r \in Req, ApproveDeviceCode(r)
      PROVE  (TokenHasProof /\ UsersSpoke /\ OneApprover)'
  <2> DEFINE c == req[r].code
             w == req[r].who
  <2>1. c \in Code /\ w \in User /\ codes[c] \in DeviceCode
    BY <1>t, <1>4 DEF TypeOK, RequestsFounded, ProofOK, ApproveDeviceCode, At
  <2>2. UNCHANGED <<tokens, refresh>>
    BY <1>4 DEF ApproveDeviceCode
  <2>3. CASE UNCHANGED <<codes, told, proved>>
    BY <1>1, <1>2, <1>3, <2>2, <2>3
  <2>4. CASE Bind(r, c) /\ codes[c].who = NoUser
    <3>1. [codes[c] EXCEPT !.who = w] \in DeviceCode /\ [codes[c] EXCEPT !.who = w].who = w
      BY <2>1 DEF DeviceCode
    <3>2. codes' = [codes EXCEPT ![c] = [codes[c] EXCEPT !.who = w]]
      BY <2>4 DEF Bind
    <3>3. /\ codes'[c] # NoCode /\ codes'[c].who = w
          /\ \A d \in Code : d # c => codes'[d] = codes[d]
      BY <1>t, <2>1, <3>1, <3>2 DEF TypeOK
    <3>4. proved' = proved \cup ({w} \X Audience) /\ told' = told \cup {<<c, w>>}
      BY <2>4 DEF Bind
    <3>5. UsersSpoke'
      <4>1. \A x \in refresh' : x.who \in User
        BY <1>t, <2>2 DEF UsersSpoke
      <4>2. ASSUME NEW d \in Code, codes'[d] # NoCode, codes'[d].who # NoUser
            PROVE  {codes'[d].who} \X Audience \subseteq proved'
        <5>1. CASE d = c
          BY <5>1, <3>3, <3>4
        <5>2. CASE d # c
          BY <5>2, <4>2, <1>t, <3>3, <3>4 DEF UsersSpoke
        <5> QED
          BY <5>1, <5>2
      <4> QED
        BY <4>1, <4>2 DEF UsersSpoke
    <3>6. OneApprover'
      <4>1. ASSUME NEW x \in told PROVE codes'[x[1]] # NoCode /\ codes'[x[1]].who = x[2]
        <5>1. x[1] \in Code /\ x[2] \in User /\ codes[x[1]] # NoCode /\ codes[x[1]].who = x[2]
          BY <1>t DEF TypeOK, OneApprover
        <5>2. x[2] # NoUser
          BY <5>1 DEF Principal
        <5> QED
          BY <5>1, <5>2, <1>g DEF Grow
      <4>2. ASSUME NEW x \in told' PROVE codes'[x[1]] # NoCode /\ codes'[x[1]].who = x[2]
        <5>1. CASE x \in told
          BY <4>1, <5>1
        <5>2. CASE x = <<c, w>>
          BY <5>2, <3>3
        <5> QED
          BY <5>1, <5>2, <3>4
      <4> QED
        BY <4>2 DEF OneApprover
    <3> QED
      BY <1>1, <2>2, <3>5, <3>6
  <2> QED
    BY <1>4, <2>3, <2>4 DEF ApproveDeviceCode
<1>5. ASSUME NEW r \in Req, mintAccessToken(r)
      PROVE  (TokenHasProof /\ UsersSpoke /\ OneApprover)'
  <2> DEFINE y == [who |-> req[r].who, aud |-> req[r].aud, made |-> now, key |-> req[r].key]
  <2>1. /\ tokens' = tokens \cup {y} /\ UNCHANGED <<codes, refresh, told, proved>>
        /\ req[r] # Idle /\ req[r].pc = "mint"
    BY <1>5 DEF mintAccessToken, At
  <2>2. ProofOK(req[r], proved, codes)
    BY <1>t, <2>1 DEF RequestsFounded
  <2>3. <<y.who, y.aud>> \in proved
    BY <2>1, <2>2 DEF ProofOK
  <2>4. TokenHasProof'
    BY <1>t, <2>1, <2>3 DEF TokenHasProof
  <2> QED
    BY <1>2, <1>3, <2>1, <2>4
<1>6. ASSUME NEW r \in Req, PutRefreshToken(r)
      PROVE  (TokenHasProof /\ UsersSpoke /\ OneApprover)'
  <2> DEFINE y == [who |-> req[r].who, aud |-> req[r].aud, made |-> now]
  <2>1. /\ refresh' = refresh \cup {y} /\ UNCHANGED <<codes, tokens, told, proved>>
        /\ req[r] # Idle /\ req[r].pc = "offline"
    BY <1>6 DEF PutRefreshToken, At
  <2>2. ProofOK(req[r], proved, codes)
    BY <1>t, <2>1 DEF RequestsFounded
  <2>3. <<y.who, y.aud>> \in proved /\ y.who \in User
    BY <2>1, <2>2 DEF ProofOK
  <2>4. TokenHasProof'
    BY <1>t, <2>1, <2>3 DEF TokenHasProof
  <2>5. UsersSpoke'
    BY <1>t, <2>1, <2>3 DEF UsersSpoke
  <2> QED
    BY <1>3, <2>1, <2>4, <2>5
<1>7. ASSUME NEW c \in Code, PutDeviceCode(c)
      PROVE  (TokenHasProof /\ UsersSpoke /\ OneApprover)'
  <2>1. codes[c] = NoCode /\ UNCHANGED <<tokens, refresh, told, proved>>
    BY <1>7 DEF PutDeviceCode
  <2>2. codes'[c].who = NoUser /\ \A d \in Code : d # c => codes'[d] = codes[d]
    BY <1>7, <1>t DEF PutDeviceCode, TypeOK
  <2>3. UsersSpoke'
    BY <1>t, <2>1, <2>2 DEF UsersSpoke
  <2> QED
    BY <1>1, <1>3, <2>1, <2>3
<1>8. CASE UNCHANGED <<codes, refresh, tokens, told>>
  BY <1>1, <1>2, <1>3, <1>8
<1>9. ASSUME NEW r \in Req, Grant(r) PROVE UNCHANGED <<codes, refresh, tokens, told>>
  BY <1>9 DEF Grant, BeginPassword, BeginClient, BeginRefresh, BeginDevice, BeginApprove, BeginKey,
     BeginRegistryKey
<1>10. ASSUME NEW r \in Req, Step(r)
       PROVE  (TokenHasProof /\ UsersSpoke /\ OneApprover)'
  <2>1. CASE ApproveDeviceCode(r) \/ mintAccessToken(r) \/ PutRefreshToken(r)
    BY <1>4, <1>5, <1>6, <2>1
  <2>2. CASE ~ (ApproveDeviceCode(r) \/ mintAccessToken(r) \/ PutRefreshToken(r))
    BY <1>8, <1>10, <2>2 DEF Step, CheckAccess, ensureKey, EnsureKeyRead,
       EnsureKeyInsert, RegistryKeyInsert
  <2> QED
    BY <2>1, <2>2
<1> QED
  BY <1>7, <1>8, <1>9, <1>10 DEF Next, UpsertCAPolicy, Crash, Tick, vars

\* The key: a request that neither makes one nor starts to sign disturbs nothing.
LEMMA KeyStep == ETInv /\ [Next]_vars => (OneSigner /\ KeyInv)'
<1> SUFFICES ASSUME ETInv, [Next]_vars PROVE (OneSigner /\ KeyInv)'
  OBVIOUS
<1> USE AbsentAssumption
<1>t. TypeOK /\ OneSigner /\ KeyInv
  BY DEF ETInv
<1>1. ASSUME UNCHANGED keyVars, UNCHANGED tokens,
             \A s \in Req : req'[s] # Idle => /\ req'[s].pc = "keygen" => req[s] # Idle /\ req[s].pc = "keygen"
                                              /\ req'[s].pc = "mint" => /\ req[s] # Idle /\ req[s].pc = "mint"
                                                                        /\ req[s].key = req'[s].key
      PROVE  (OneSigner /\ KeyInv)'
  BY <1>1, <1>t DEF keyVars, OneSigner, KeyInv
<1>2. ASSUME NEW r \in Req, NEW p \in {"approve", "ca", "key", "reggen"}, NEW w, NEW a, NEW f, NEW o, NEW c,
             Start(r, p, w, a, f, o, c), UNCHANGED keyVars, UNCHANGED tokens
      PROVE  (OneSigner /\ KeyInv)'
  <2>1. req'[r].pc = p /\ \A s \in Req : s # r => req'[s] = req[s]
    BY <1>2, <1>t, Started
  <2> QED
    BY <1>1, <1>2, <2>1
<1>3. ASSUME NEW r \in Req, Grant(r) PROVE (OneSigner /\ KeyInv)'
  BY <1>2, <1>3 DEF Grant, BeginPassword, BeginClient, BeginRefresh, BeginDevice, BeginApprove, BeginKey,
     BeginRegistryKey
<1>4. ASSUME NEW r \in Req, NEW p \in {"ca", "key", "offline"}, req[r] # Idle,
             Finish(r) \/ Goto(r, p) \/ (Unread(r) /\ p = "key"),
             UNCHANGED keyVars, UNCHANGED tokens
      PROVE  (OneSigner /\ KeyInv)'
  <2>1. (req'[r] # Idle => req'[r].pc = p) /\ \A s \in Req : s # r => req'[s] = req[s]
    BY <1>4, <1>t, Moved
  <2> QED
    BY <1>1, <1>4, <2>1
<1>5. ASSUME NEW r \in Req, \/ ApproveDeviceCode(r) \/ CheckAccess(r)
                            \/ PutRefreshToken(r)
      PROVE  (OneSigner /\ KeyInv)'
  BY <1>4, <1>5 DEF ApproveDeviceCode, CheckAccess, PutRefreshToken, At, Unread
<1>6. ASSUME NEW r \in Req, ensureKey(r) PROVE (OneSigner /\ KeyInv)'
  <2>1. PICK k \in Key : (k = priv \/ (priv = NoKey /\ k \in signers)) /\ priv' = k /\ Use(r, k)
    BY <1>6 DEF ensureKey
  <2>2. k \in signers /\ req[r] # Idle /\ mu = NoReq /\ UNCHANGED <<signers, foreign, mu, tokens>>
    BY <1>6, <1>t, <2>1 DEF ensureKey, At, OneSigner
  <2>3. /\ \A s \in Req : s # r => req'[s] = req[s]
        /\ req'[r] # Idle => req'[r].pc = "mint" /\ req'[r].key = k
    BY <1>t, <2>1, <2>2, Moved, UsedKey
  <2>4. OneSigner'
    BY <1>t, <2>1, <2>2 DEF OneSigner
  <2>5. KeyInv'
    BY <1>t, <2>2, <2>3 DEF KeyInv
  <2> QED
    BY <2>4, <2>5
<1>7. ASSUME NEW r \in Req, EnsureKeyRead(r) PROVE (OneSigner /\ KeyInv)'
  <2>1. /\ req[r] # Idle /\ mu = NoReq /\ priv = NoKey /\ signers = {} /\ mu' = r /\ Goto(r, "keygen")
        /\ UNCHANGED <<signers, foreign, priv, tokens>>
    BY <1>7 DEF EnsureKeyRead, At
  <2>2. (req'[r] # Idle => req'[r].pc = "keygen") /\ \A s \in Req : s # r => req'[s] = req[s]
    BY <1>t, <2>1, Moved
  <2>3. OneSigner'
    BY <1>t, <2>1 DEF OneSigner
  <2>4. KeyInv'
    BY <1>t, <2>1, <2>2 DEF KeyInv
  <2> QED
    BY <2>3, <2>4
<1>8. ASSUME NEW r \in Req, NEW k \in Key, EnsureKeyInsert(r, k) PROVE (OneSigner /\ KeyInv)'
  <2>1. /\ req[r] # Idle /\ req[r].pc = "keygen" /\ Use(r, k) /\ mu' = NoReq /\ priv' = k
        /\ signers' = signers \cup {k} /\ UNCHANGED <<tokens, foreign>>
    BY <1>8 DEF EnsureKeyInsert, At
  <2>2. mu = r /\ signers \subseteq foreign
    BY <1>t, <2>1 DEF KeyInv
  <2>3. /\ \A s \in Req : s # r => req'[s] = req[s]
        /\ req'[r] # Idle => req'[r].pc = "mint" /\ req'[r].key = k
    BY <1>t, <2>1, Moved, UsedKey
  <2>4. OneSigner'
    BY <1>t, <2>1, <2>2 DEF OneSigner
  <2>5. KeyInv'
    BY <1>t, <2>1, <2>2, <2>3 DEF KeyInv
  <2> QED
    BY <2>4, <2>5
<1>9. ASSUME NEW r \in Req, mintAccessToken(r) PROVE (OneSigner /\ KeyInv)'
  <2>1. /\ req[r] # Idle /\ req[r].pc = "mint" /\ (Finish(r) \/ Goto(r, "offline"))
        /\ tokens' = tokens \cup {[who |-> req[r].who, aud |-> req[r].aud, made |-> now, key |-> req[r].key]}
        /\ UNCHANGED <<signers, foreign, priv, mu>>
    BY <1>9 DEF mintAccessToken, At, keyVars
  <2>2. (req'[r] # Idle => req'[r].pc = "offline") /\ \A s \in Req : s # r => req'[s] = req[s]
    BY <1>t, <2>1, Moved
  <2>3. req[r].key \in signers
    BY <1>t, <2>1 DEF KeyInv
  <2>4. OneSigner'
    BY <1>t, <2>1, <2>3 DEF OneSigner
  <2>5. KeyInv'
    BY <1>t, <2>1, <2>2 DEF KeyInv
  <2> QED
    BY <2>4, <2>5
<1>10. ASSUME NEW i \in PolicyId, NEW p \in CondInput \cup {NoPolicy}, UpsertCAPolicy(i, p)
       PROVE  (OneSigner /\ KeyInv)'
  <2>1. ASSUME NEW s \in Req, req'[s] # Idle
        PROVE  req[s] # Idle /\ req'[s].pc = req[s].pc /\ req'[s].key = req[s].key
    <3>1. req[s] \in Request /\ req[s] # Idle
      BY <1>10, <1>t, <2>1 DEF UpsertCAPolicy, TypeOK
    <3> QED
      BY <1>10, <3>1 DEF UpsertCAPolicy, Request
  <2> QED
    BY <1>1, <1>10, <2>1 DEF UpsertCAPolicy
<1>11. CASE Crash
  BY <1>t, <1>11 DEF Crash, OneSigner, KeyInv
<1>12. CASE UNCHANGED <<req, keyVars, tokens>>
  BY <1>1, <1>12
<1>14. ASSUME NEW r \in Req, NEW k \in Key, RegistryKeyInsert(r, k) PROVE (OneSigner /\ KeyInv)'
  <2>1. /\ req[r] # Idle /\ Finish(r) /\ UNCHANGED <<priv, mu, tokens>>
        /\ signers' = signers \cup {k} /\ foreign' = foreign \cup {k}
    BY <1>14 DEF RegistryKeyInsert, At
  <2>2. req'[r] = Idle /\ \A s \in Req : s # r => req'[s] = req[s]
    BY <1>t, <2>1 DEF Finish, TypeOK
  <2>3. signers' \ foreign' \subseteq signers \ foreign
    BY <2>1
  <2>4. OneSigner'
    BY <1>t, <2>1, <2>3 DEF OneSigner
  <2>5. KeyInv'
    BY <1>t, <2>1, <2>2 DEF KeyInv
  <2> QED
    BY <2>4, <2>5
<1>13. ASSUME NEW r \in Req, Step(r) PROVE (OneSigner /\ KeyInv)'
  BY <1>5, <1>6, <1>7, <1>8, <1>9, <1>13, <1>14 DEF Step
<1> QED
  BY <1>3, <1>10, <1>11, <1>12, <1>13 DEF Next, PutDeviceCode, Tick, vars, keyVars

\* The history of the policies.
LEMMA OpenStep == ETInv /\ [Next]_vars => OpenInv'
<1> SUFFICES ASSUME ETInv, [Next]_vars PROVE OpenInv'
  OBVIOUS
<1>t. TypeOK /\ OpenInv /\ RequestsFounded
  BY DEF ETInv
<1>1. ASSUME UNCHANGED policies, NEW r \in Req, \A s \in Req : s # r => req'[s] = req[s],
             req'[r] # Idle =>
                /\ ~ conditionalAccessBlocked(policies, req'[r].client, req'[r].agent) => req'[r].open
                /\ req'[r].pc \in {"mint", "offline"} => req'[r].open \/ req'[r].unread
                /\ req'[r].pc \in {"key", "keygen"} /\ req'[r].who # NoUser => req'[r].open \/ req'[r].unread
      PROVE  OpenInv'
  BY <1>1, <1>t DEF OpenInv
<1>2. ASSUME NEW r \in Req, NEW p \in {"approve", "ca", "key", "reggen"}, NEW w, NEW a, NEW f, NEW o, NEW c,
             Start(r, p, w, a, f, o, c), UNCHANGED policies, p = "key" => w = NoUser
      PROVE  OpenInv'
  <2>1. /\ req'[r].pc = p /\ req'[r].who = w /\ req'[r].client = f.client /\ req'[r].agent = f.agent
        /\ req'[r].open = ~ conditionalAccessBlocked(policies, f.client, f.agent)
        /\ \A s \in Req : s # r => req'[s] = req[s]
    BY <1>2, <1>t, Started
  <2> QED
    BY <1>1, <1>2, <2>1
<1>3. ASSUME NEW r \in Req, Grant(r) PROVE OpenInv'
  BY <1>2, <1>3 DEF Grant, BeginPassword, BeginClient, BeginRefresh, BeginDevice, BeginApprove, BeginKey,
     BeginRegistryKey
<1>4. ASSUME NEW r \in Req, req[r] # Idle, NEW p \in PC, NEW k, UNCHANGED policies,
             Finish(r) \/ Goto(r, p) \/ (Use(r, k) /\ p = "mint") \/ (Unread(r) /\ p = "key"),
             p \in {"key", "keygen", "mint", "offline"} /\ req[r].who # NoUser
                => req[r].open \/ req[r].unread \/ Unread(r) \/ Finish(r),
             p \in {"mint", "offline"} => req[r].who # NoUser \/ req'[r] = Idle
      PROVE  OpenInv'
  <2>1. /\ \A s \in Req : s # r => req'[s] = req[s]
        /\ req'[r] # Idle => /\ req'[r].pc = p /\ req'[r].who = req[r].who /\ req'[r].open = req[r].open
                             /\ req'[r].client = req[r].client /\ req'[r].agent = req[r].agent
                             /\ req[r].unread \/ Unread(r) => req'[r].unread
    BY <1>4, <1>t, Moved
  <2>2. Finish(r) => req'[r] = Idle
    BY <1>t DEF Finish, TypeOK
  <2> QED
    BY <1>1, <1>4, <1>t, <2>1, <2>2 DEF OpenInv
<1>5. ASSUME NEW r \in Req, ApproveDeviceCode(r) PROVE OpenInv'
  BY <1>4, <1>5 DEF ApproveDeviceCode, At, PC
<1>6. ASSUME NEW r \in Req, CheckAccess(r) PROVE OpenInv'
  <2>1. req[r] # Idle /\ UNCHANGED policies
    BY <1>6 DEF CheckAccess, At
  <2>2. CASE Finish(r)
    BY <1>4, <2>1, <2>2 DEF PC
  <2>3. CASE ~ conditionalAccessBlocked(policies, req[r].client, req[r].agent) /\ Goto(r, "key")
    <3>1. req[r].open
      BY <1>t, <2>1, <2>3 DEF OpenInv
    <3> QED
      BY <1>4, <2>1, <2>3, <3>1 DEF PC
  <2>4. CASE Unread(r)
    BY <1>4, <2>1, <2>4 DEF PC
  <2> QED
    BY <1>6, <2>2, <2>3, <2>4 DEF CheckAccess, Unread
<1>7. ASSUME NEW r \in Req, NEW k, At(r, "key") \/ At(r, "keygen"), Use(r, k), UNCHANGED policies PROVE OpenInv'
  <2>1. req[r] # Idle /\ (req[r].who # NoUser => req[r].open \/ req[r].unread)
    BY <1>7, <1>t DEF At, OpenInv
  <2>2. req[r].who # NoUser \/ req'[r] = Idle
    BY <1>7, <1>t DEF Use, TypeOK
  <2> QED
    BY <1>4, <1>7, <2>1, <2>2 DEF PC
<1>8. ASSUME NEW r \in Req, ensureKey(r) \/ \E k \in Key : EnsureKeyInsert(r, k) PROVE OpenInv'
  BY <1>7, <1>8 DEF ensureKey, EnsureKeyInsert
<1>9. ASSUME NEW r \in Req, EnsureKeyRead(r) PROVE OpenInv'
  <2>1. /\ req[r] # Idle /\ (req[r].who # NoUser => req[r].open \/ req[r].unread) /\ Goto(r, "keygen")
        /\ UNCHANGED policies
    BY <1>9, <1>t DEF EnsureKeyRead, At, OpenInv
  <2> QED
    BY <1>4, <2>1 DEF PC
<1>10. ASSUME NEW r \in Req, mintAccessToken(r) \/ PutRefreshToken(r) PROVE OpenInv'
  <2>1. /\ req[r] # Idle /\ req[r].pc \in {"mint", "offline"} /\ UNCHANGED policies
        /\ Finish(r) \/ Goto(r, "offline")
    BY <1>10 DEF mintAccessToken, PutRefreshToken, At
  <2>2. (req[r].open \/ req[r].unread) /\ req[r].who # NoUser
    BY <1>t, <2>1 DEF OpenInv, RequestsFounded, ProofOK
  <2> QED
    BY <1>4, <2>1, <2>2 DEF PC
<1>11. ASSUME NEW i \in PolicyId, NEW p \in CondInput \cup {NoPolicy}, UpsertCAPolicy(i, p) PROVE OpenInv'
  <2> SUFFICES ASSUME NEW s \in Req, req'[s] # Idle
               PROVE  /\ ~ conditionalAccessBlocked(policies', req'[s].client, req'[s].agent) => req'[s].open
                      /\ req'[s].pc \in {"mint", "offline"} => req'[s].open \/ req'[s].unread
                      /\ req'[s].pc \in {"key", "keygen"} /\ req'[s].who # NoUser
                            => req'[s].open \/ req'[s].unread
    BY DEF OpenInv
  <2> DEFINE b == conditionalAccessBlocked(policies', req[s].client, req[s].agent)
  <2>1. req[s] \in Request /\ req[s] # Idle
    BY <1>11, <1>t DEF UpsertCAPolicy, TypeOK
  <2>2. req'[s] = [req[s] EXCEPT !.open = req[s].open \/ ~ b]
    BY <1>11, <2>1 DEF UpsertCAPolicy
  <2>3. /\ req'[s].pc = req[s].pc /\ req'[s].who = req[s].who /\ req'[s].client = req[s].client
        /\ req'[s].agent = req[s].agent /\ req'[s].open = (req[s].open \/ ~ b)
        /\ req'[s].unread = req[s].unread
    BY <2>1, <2>2 DEF Request
  <2>4. ~ b => req'[s].open
    BY <2>3
  <2>5. req[s].open => req'[s].open
    BY <2>3
  <2> QED
    BY <1>t, <2>1, <2>3, <2>4, <2>5 DEF OpenInv
<1>12. CASE Crash
  BY <1>12 DEF Crash, OpenInv
<1>13. CASE UNCHANGED <<req, policies>>
  BY <1>13, <1>t DEF OpenInv
<1>15. ASSUME NEW r \in Req, NEW k \in Key, RegistryKeyInsert(r, k) PROVE OpenInv'
  <2>1. req[r] # Idle /\ Finish(r) /\ UNCHANGED policies
    BY <1>15 DEF RegistryKeyInsert, At
  <2> QED
    BY <1>4, <2>1 DEF PC
<1>14. ASSUME NEW r \in Req, Step(r) PROVE OpenInv'
  BY <1>5, <1>6, <1>8, <1>9, <1>10, <1>14, <1>15 DEF Step
<1> QED
  BY <1>3, <1>11, <1>12, <1>13, <1>14 DEF Next, PutDeviceCode, Tick, vars

-----------------------------------------------------------------------------

\* The invariant is inductive.
LEMMA Inductive == Spec => []ETInv
<1>1. ETInv /\ [Next]_vars => ETInv'
  <2> SUFFICES ASSUME ETInv, [Next]_vars PROVE ETInv'
    OBVIOUS
  <2> QED
    BY TypeStep, FoundedStep, TablesStep, KeyStep, OpenStep DEF ETInv
<1> QED
  BY InitInv, <1>1, PTL DEF Spec

\* Every variable keeps its type.
THEOREM TypeCorrect == Spec => []TypeOK
<1>1. ETInv => TypeOK
  BY DEF ETInv
<1> QED
  BY Inductive, <1>1, PTL

\* No token without a proof of its principal for its audience, whatever chain of
\* refreshes and device codes it came by (tokenRefresh, tokenDeviceCode, writeToken).
THEOREM Founded == Spec => []TokenHasProof
<1>1. ETInv => TokenHasProof
  BY DEF ETInv
<1> QED
  BY Inductive, <1>1, PTL

\* However many users race for a code, one is told that it is approved (ApproveDeviceCode).
THEOREM SoleApprover == Spec => []OneApprover
<1>1. ETInv => OneApprover
  BY DEF ETInv
<1> QED
  BY Inductive, <1>1, PTL

\* What was signed verifies by a key of the store, and the service makes one key
\* at most for ever, however its requests race with each other and with the
\* registry's (ensureKey, EnsureEntraSigningKey).
THEOREM SoleSigner == Spec => []OneSigner
<1>1. ETInv => OneSigner
  BY DEF ETInv
<1> QED
  BY Inductive, <1>1, PTL

\* A request that was blocked all its life mints nothing, as long as the policies
\* can be read (writeToken, conditionalAccessBlocked).
THEOREM Blocked == Spec => []BlockedGetsNothing
<1>1. ETInv => BlockedGetsNothing
  BY DEF ETInv, OpenInv, BlockedGetsNothing
<1> QED
  BY Inductive, <1>1, PTL

\* Leaving client_id out evades no policy, for any policies (caClientIncluded,
\* caClientExcluded).
THEOREM NoEvasion == Spec => []OmittedNeverEvades
<1>1. OmittedNeverEvades
  BY AbsentAssumption DEF OmittedNeverEvades, conditionalAccessBlocked, caClientExcluded, caClientIncluded
<1> QED
  BY <1>1, PTL

\* Seconds and ticks.
LEMMA Seconds ==
    ASSUME NEW t \in Nat
    PROVE  Second(t) \in Nat /\ TicksPerSecond * Second(t) \in {t, t - 1}
<1>1. t \div 2 \in Nat
  OBVIOUS
<1>2. 2 * (t \div 2) <= t /\ 2 * (t \div 2) >= t - 1
  OBVIOUS
<1> QED
  BY <1>1, <1>2 DEF Second, TicksPerSecond

\* A token is accepted all its life, short of its last second where the store has
\* two keys, and less than a second longer, for any life (LookupAccessToken,
\* VerifyRS256JWT).
THEOREM Lives == Spec => []LifeToTheSecond
<1>1. ASSUME ETInv, NEW x \in tokens
      PROVE  /\ AuthenticateToken(x) => now < x.made + AccessTTL + TicksPerSecond
             /\ ~ AuthenticateToken(x) => now > (x.made + AccessTTL) - TicksPerSecond
             /\ ~ AuthenticateToken(x) /\ signers = {x.key} => now > x.made + AccessTTL
  <2> DEFINE end == x.made + AccessTTL
             e == Second(end)
  <2>1. now \in Nat /\ end \in Nat /\ x.key \in signers
    BY <1>1, TimeAssumption DEF ETInv, TypeOK, Access, Time, OneSigner
  <2>2. e \in Nat /\ TicksPerSecond * e \in {end, end - 1}
    BY <2>1, Seconds
  <2>3. Second(now) \in Nat /\ TicksPerSecond * Second(now) \in {now, now - 1}
    BY <2>1, Seconds
  <2>4. /\ AuthenticateToken(x) => ~ (now > TicksPerSecond * e) \/ Second(now) <= e
        /\ ~ AuthenticateToken(x) => now > TicksPerSecond * e
    BY <2>1 DEF AuthenticateToken, LookupAccessToken, After, Expiry, VerifyRS256JWT
  <2>7. ASSUME signers = {x.key}, ~ AuthenticateToken(x) PROVE ~ (Second(now) <= e)
    <3>1. priv = NoKey \/ priv = x.key
      BY <1>1, <2>7 DEF ETInv, OneSigner
    <3> QED
      BY <2>1, <2>7, <3>1 DEF AuthenticateToken, Expiry, VerifyRS256JWT
  <2> HIDE DEF end, e
  <2>5. now < end + TicksPerSecond \/ ~ (~ (now > TicksPerSecond * e) \/ Second(now) <= e)
    BY <2>1, <2>2, <2>3 DEF TicksPerSecond
  <2>6. now > end \/ (~ (now > TicksPerSecond * e) \/ Second(now) <= e)
    BY <2>1, <2>2, <2>3 DEF TicksPerSecond
  <2>8. now > TicksPerSecond * e => now > end - TicksPerSecond
    BY <2>1, <2>2 DEF TicksPerSecond
  <2>9. AuthenticateToken(x) => now < end + TicksPerSecond
    BY <2>4, <2>5
  <2>10. ~ AuthenticateToken(x) => now > end - TicksPerSecond
    BY <2>4, <2>8
  <2>11. ~ AuthenticateToken(x) /\ signers = {x.key} => now > end
    <3>1. ASSUME ~ AuthenticateToken(x), signers = {x.key} PROVE now > end
      BY <3>1, <2>4, <2>6, <2>7
    <3> QED
      BY <3>1
  <2> QED
    BY <2>9, <2>10, <2>11 DEF end
<1>2. ETInv => LifeToTheSecond
  BY <1>1 DEF LifeToTheSecond
<1> QED
  BY Inductive, <1>2, PTL

\* Who is told that a code is approved can exchange it at that instant
\* (ApproveDeviceCode, LookupDeviceCode).
THEOREM Counts == Spec => ApprovalCounts
<1> DEFINE A == \A x \in told' \ told : LookupDeviceCode(x[1])
<1>1. ASSUME ETInv, NEW r \in Req, ApproveDeviceCode(r), told' # told
      PROVE  told' = told \cup {<<req[r].code, req[r].who>>} /\ LookupDeviceCode(req[r].code)
  <2> DEFINE c == req[r].code
             e == Expiry(codes[c].made, DeviceTTL)
  <2>1. Bind(r, c) /\ e > Second(now)
    BY <1>1 DEF ApproveDeviceCode
  <2>2. c \in Code /\ codes[c] # NoCode /\ codes[c] \in DeviceCode
    BY <1>1 DEF ETInv, TypeOK, RequestsFounded, ProofOK, ApproveDeviceCode, At
  <2>3. now \in Nat /\ codes[c].made + DeviceTTL \in Nat
    BY <1>1, <2>2, TimeAssumption DEF ETInv, TypeOK, DeviceCode, Time
  <2>4. Second(now) \in Nat /\ TicksPerSecond * Second(now) \in {now, now - 1} /\ e \in Nat
    BY <2>3, Seconds DEF Expiry
  <2> HIDE DEF e
  <2>5. ~ (now > TicksPerSecond * e)
    BY <2>1, <2>3, <2>4 DEF TicksPerSecond
  <2> QED
    BY <2>1, <2>2, <2>5 DEF Bind, LookupDeviceCode, After, e
<1>2. ASSUME ETInv, Next PROVE A
  <2>1. CASE told' = told
    BY <2>1
  <2>2. CASE told' # told
    <3>1. PICK r \in Req : ApproveDeviceCode(r)
      BY <1>2, <2>2 DEF Next, Grant, Step, BeginPassword, BeginClient, BeginRefresh, BeginDevice,
         BeginApprove, BeginKey, BeginRegistryKey, RegistryKeyInsert, CheckAccess, ensureKey, EnsureKeyRead,
         EnsureKeyInsert, mintAccessToken, PutRefreshToken, UpsertCAPolicy, PutDeviceCode, Crash, Tick
    <3>2. told' = told \cup {<<req[r].code, req[r].who>>} /\ LookupDeviceCode(req[r].code)
      BY <1>1, <1>2, <2>2, <3>1
    <3> QED
      BY <3>2
  <2> QED
    BY <2>1, <2>2
<1>3. ETInv /\ [Next]_vars => [A]_vars
  BY <1>2
<1> QED
  BY Inductive, <1>3, PTL DEF Spec, ApprovalCounts

=============================================================================
