--------------------------- MODULE KeyVaultProofs ---------------------------
(***************************************************************************)
(* OneHome, GateHonoured and RecoversLatest for any number of names,       *)
(* requests and versions.                                                  *)
(***************************************************************************)
EXTENDS KeyVault, TLAPS

\* Every version in a table or in a request's hand was made before nextVer: the
\* next INSERT of keyvault_secrets cannot meet a row of the same version.
Made ==
    /\ \A n \in Name : \A i \in 1 .. Len(live[n]) : live[n][i] < nextVer
    /\ \A n \in Name : \A x \in gone[n] : x.ver < nextVer
    /\ \A r \in Req : req[r] # Idle => req[r].ver < nextVer

\* A request that picked a version to restore, or read one to delete, has one.
InHand ==
    \A r \in Req : req[r] # Idle /\ req[r].pc \in {"remove", "restore", "cert"}
                   => req[r].ver \in Version

\* The history of the policy is right: a request whose name is not blocked now
\* had it open, and a request past the gate had it open.
OpenInv ==
    \A r \in Req : req[r] # Idle =>
       /\ ~ Blocked(req[r].name) => req[r].open
       /\ req[r].pc \in {"get", "pick", "restore", "answer"} => req[r].open

\* The inductive invariant.
KVInv == TypeOK /\ OneHome /\ Made /\ InHand /\ OpenInv

-----------------------------------------------------------------------------
\* Requests start as requests.
LEMMA StartType ==
    ASSUME NEW n \in Name, NEW b \in BOOLEAN, NEW v \in Version \cup {0},
           NEW p \in {"gate", "get", "pick", "restore", "answer", "remove", "cert"}
    PROVE  Start(p, n, b, v) \in Request
BY DEF Start, Request, Blocked

\* A request that moves on, or takes a version in hand, stays a request.
LEMMA MoveType ==
    ASSUME NEW q \in Request, NEW v \in Version \cup {0},
           NEW p \in {"gate", "get", "pick", "restore", "answer", "remove", "cert"}
    PROVE  /\ [q EXCEPT !.pc = p] \in Request
           /\ [q EXCEPT !.pc = p, !.ver = v] \in Request
           /\ [q EXCEPT !.open = TRUE] \in Request
BY DEF Request

LEMMA ReqType ==
    ASSUME TypeOK, NEW r \in Req, NEW q \in Request \cup {Idle}
    PROVE  [req EXCEPT ![r] = q] \in [Req -> Request \cup {Idle}]
BY DEF TypeOK

\* An empty store satisfies the invariant.
LEMMA InitInv == Init => KVInv
<1> SUFFICES ASSUME Init PROVE KVInv
  OBVIOUS
<1>1. live = [n \in Name |-> <<>>] /\ gone = [n \in Name |-> {}] /\ req = [r \in Req |-> Idle]
  BY DEF Init
<1>2. <<>> \in Seq(Version)
  OBVIOUS
<1>3. live \in [Name -> Seq(Version)] /\ gone \in [Name -> SUBSET GoneRow]
  BY <1>1, <1>2
<1>a. vault \in BOOLEAN
  BY DEF Init
<1>b. nextVer \in 1 .. (MaxVer + 1) /\ now \in 0 .. MaxTime
  BY BoundsAssumption DEF Init
<1>c. /\ cert \in [Name -> Cert \cup {NoCert}] /\ keys \subseteq Version
      /\ lastGone \in [Name -> Version \cup {0}] /\ req \in [Req -> Request \cup {Idle}]
  BY DEF Init
<1>d. TypeOK
  BY <1>3, <1>a, <1>b, <1>c DEF TypeOK
<1>4. OneHome /\ Made
  BY <1>1 DEF OneHome, Made
<1>5. InHand /\ OpenInv
  BY <1>1 DEF InHand, OpenInv
<1> QED
  BY <1>d, <1>4, <1>5 DEF KVInv

\* TypeOK is inductive together with InHand.
LEMMA TypeStep == KVInv /\ [Next]_vars => TypeOK'
<1> SUFFICES ASSUME KVInv, [Next]_vars PROVE TypeOK'
  OBVIOUS
<1> USE BoundsAssumption, AbsentAssumption
<1>t. TypeOK /\ InHand
  BY DEF KVInv
<1>1. CASE PutVault
  BY <1>t, <1>1 DEF TypeOK, PutVault
<1>2. ASSUME NEW n \in Name, PutSecret(n) PROVE TypeOK'
  BY <1>t, <1>2 DEF TypeOK, PutSecret, InsertSecret, Version
<1>3. ASSUME NEW n \in Name, PutLockedCertificate(n) PROVE TypeOK'
  BY <1>t, <1>3 DEF TypeOK, PutLockedCertificate, InsertCert, Cert, Request
<1>4. ASSUME NEW r \in Req, NEW n \in Name, PutCertificateKey(r, n) PROVE TypeOK'
  <2>1. nextVer \in Version
    BY <1>t, <1>4 DEF TypeOK, PutCertificateKey, InsertSecret, Version
  <2>2. Start("cert", n, FALSE, nextVer) \in Request
    BY <2>1, StartType
  <2>3. live' \in [Name -> Seq(Version)]
    BY <1>t, <1>4, <2>1 DEF TypeOK, PutCertificateKey, InsertSecret
  <2>4. req' \in [Req -> Request \cup {Idle}]
    BY <1>t, <1>4, <2>2 DEF TypeOK, PutCertificateKey
  <2>5. nextVer' \in 1 .. (MaxVer + 1) /\ keys' \subseteq Version
    BY <1>t, <1>4, <2>1 DEF TypeOK, PutCertificateKey, InsertSecret, Version
  <2> QED
    BY <1>t, <1>4, <2>3, <2>4, <2>5 DEF TypeOK, PutCertificateKey
<1>5. ASSUME NEW r \in Req, NEW n \in Name, DeleteRead(r, n) PROVE TypeOK'
  <2>1. Current(n) \in Version
    BY <1>t, <1>5 DEF TypeOK, DeleteRead, Current
  <2>2. Start("remove", n, FALSE, Current(n)) \in Request
    BY <2>1, StartType
  <2> QED
    BY <1>t, <1>5, <2>2 DEF TypeOK, DeleteRead
<1>6. ASSUME NEW r \in Req, NEW n \in Name, NEW b \in BOOLEAN, Begin(r, n, b) PROVE TypeOK'
  <2>1. Start("gate", n, b, 0) \in Request
    BY StartType
  <2> QED
    BY <1>t, <1>6, <2>1 DEF TypeOK, Begin
<1>7. ASSUME NEW r \in Req, PutCertificateRow(r) PROVE TypeOK'
  <2>1. req[r] \in Request /\ req[r].ver \in Version /\ req[r].name \in Name
    BY <1>t, <1>7 DEF TypeOK, InHand, PutCertificateRow, At, Request
  <2>2. cert' \in [Name -> Cert \cup {NoCert}]
    BY <1>t, <1>7, <2>1 DEF TypeOK, PutCertificateRow, InsertCert, Cert
  <2>3. req' \in [Req -> Request \cup {Idle}]
    BY <1>t, <1>7, MoveType DEF TypeOK, PutCertificateRow, InsertCert
  <2> QED
    BY <1>t, <1>7, <2>2, <2>3 DEF TypeOK, PutCertificateRow
<1>8. ASSUME NEW r \in Req, DeleteCommit(r) PROVE TypeOK'
  <2>1. req[r] \in Request /\ req[r].ver \in Version /\ req[r].name \in Name
    BY <1>t, <1>8 DEF TypeOK, InHand, DeleteCommit, At, Request
  <2>2. [ver |-> req[r].ver, at |-> now] \in GoneRow
    BY <1>t, <2>1 DEF TypeOK, GoneRow
  <2>3. gone' \in [Name -> SUBSET GoneRow]
    BY <1>t, <1>8, <2>1, <2>2 DEF TypeOK, DeleteCommit
  <2>4. live' \in [Name -> Seq(Version)]
    BY <1>t, <1>8, <2>1 DEF TypeOK, DeleteCommit
  <2> QED
    BY <1>t, <1>8, <2>1, <2>3, <2>4 DEF TypeOK, DeleteCommit, Finish
<1>9. ASSUME NEW r \in Req, Gate(r) PROVE TypeOK'
  <2>1. req' \in [Req -> Request \cup {Idle}]
    <3>1. req[r] \in Request
      BY <1>t, <1>9 DEF TypeOK, Gate, At
    <3> DEFINE q == [req[r] EXCEPT !.pc = IF req[r].recover THEN "pick" ELSE "get"]
    <3>2. q \in Request
      BY <3>1, MoveType
    <3>3. req' = [req EXCEPT ![r] = Idle] \/ req' = [req EXCEPT ![r] = q]
      BY <1>9 DEF Gate, Finish
    <3> QED
      BY <1>t, <3>2, <3>3, ReqType
  <2> QED
    BY <1>t, <1>9, <2>1 DEF TypeOK, Gate
<1>10. ASSUME NEW r \in Req, Pick(r) PROVE TypeOK'
  <2>1. req' \in [Req -> Request \cup {Idle}]
    <3>1. req[r] \in Request
      BY <1>t, <1>10 DEF TypeOK, Pick, At
    <3>2. CASE Finish(r)
      BY <1>t, <3>2, ReqType DEF Finish
    <3>3. ASSUME NEW x \in gone[req[r].name],
                 req' = [req EXCEPT ![r].pc = "restore", ![r].ver = x.ver]
          PROVE  req' \in [Req -> Request \cup {Idle}]
      <4>1. x.ver \in Version
        BY <1>t, <3>1, <3>3 DEF TypeOK, Request, GoneRow
      <4>2. req' = [req EXCEPT ![r] = [req[r] EXCEPT !.pc = "restore", !.ver = x.ver]]
        BY <1>t, <3>3 DEF TypeOK
      <4> QED
        BY <1>t, <3>1, <4>1, <4>2, MoveType, ReqType
    <3> QED
      BY <1>10, <3>2, <3>3 DEF Pick
  <2> QED
    BY <1>t, <1>10, <2>1 DEF TypeOK, Pick
<1>11. ASSUME NEW r \in Req, Restore(r) PROVE TypeOK'
  <2>1. req[r] \in Request /\ req[r].ver \in Version /\ req[r].name \in Name
    BY <1>t, <1>11 DEF TypeOK, InHand, Restore, At, Request
  <2>2. req' \in [Req -> Request \cup {Idle}]
    <3>1. req' = [req EXCEPT ![r] = Idle] \/ req' = [req EXCEPT ![r] = [req[r] EXCEPT !.pc = "answer"]]
      BY <1>11 DEF Restore, Finish
    <3>2. [req[r] EXCEPT !.pc = "answer"] \in Request
      BY <2>1, MoveType
    <3> QED
      BY <1>t, <3>1, <3>2, ReqType
  <2>3. Append(live[req[r].name], req[r].ver) \in Seq(Version)
    BY <1>t, <2>1 DEF TypeOK
  <2>4. live' \in [Name -> Seq(Version)]
    BY <1>t, <1>11, <2>1, <2>3 DEF TypeOK, Restore
  <2>5. gone' \in [Name -> SUBSET GoneRow]
    BY SMTT(30), <1>t, <1>11, <2>1 DEF TypeOK, Restore
  <2> QED
    BY <1>t, <1>11, <2>2, <2>4, <2>5 DEF TypeOK, Restore
<1>12. ASSUME NEW r \in Req, Answer(r) PROVE TypeOK'
  BY <1>t, <1>12 DEF TypeOK, Answer, Finish
<1>13. CASE Crash
  BY <1>t, <1>13 DEF TypeOK, Crash
<1>14. CASE Tick
  BY <1>t, <1>14 DEF TypeOK, Tick
<1>15. CASE UNCHANGED vars
  BY <1>t, <1>15 DEF TypeOK, vars
<1> QED
  BY <1>1, <1>2, <1>3, <1>4, <1>5, <1>6, <1>7, <1>8, <1>9, <1>10, <1>11, <1>12,
     <1>13, <1>14, <1>15 DEF Next

-----------------------------------------------------------------------------
\* What the steps do to the two tables of a name, and to the version a request
\* has in hand: nothing; the deletion of all versions
\* of a name, one of them kept as deleted; the restoring of a deleted one.
Same == live' = live /\ gone' = gone /\ nextVer' = nextVer

Removes(n, v) ==
    /\ \E t \in Nat : gone' = [gone EXCEPT ![n] = {x \in @ : x.ver # v} \cup {[ver |-> v, at |-> t]}]
    /\ live' = [live EXCEPT ![n] = <<>>]
    /\ nextVer' = nextVer

Restores(n, v) ==
    /\ v \notin LiveVersions(n)
    /\ live' = [live EXCEPT ![n] = Append(@, v)]
    /\ gone' = [gone EXCEPT ![n] = {x \in @ : x.ver # v}]
    /\ nextVer' = nextVer

\* The tables' half of the invariant.
Tables ==
    /\ OneHome
    /\ \A n \in Name : \A i \in 1 .. Len(live[n]) : live[n][i] < nextVer
    /\ \A n \in Name : \A x \in gone[n] : x.ver < nextVer

\* A row appended under a version that is nowhere else keeps versions in one home.
LEMMA AppendKept ==
    ASSUME TypeOK, Tables, NEW n \in Name, NEW w \in Nat, nextVer' \in Nat,
           w \notin LiveVersions(n), w < nextVer', nextVer <= nextVer',
           live' = [live EXCEPT ![n] = Append(@, w)],
           \A m \in Name : gone'[m] \subseteq gone[m],
           \A x \in gone'[n] : x.ver # w
    PROVE  Tables'
<1>t. /\ live \in [Name -> Seq(Version)] /\ gone \in [Name -> SUBSET GoneRow]
      /\ nextVer \in Nat /\ \A u \in Version : u \in Nat
  BY BoundsAssumption DEF TypeOK, Version
<1>1. \A m \in Name : m # n => live'[m] = live[m]
  BY <1>t
<1>2. live[n] \in Seq(Nat) /\ live'[n] = Append(live[n], w)
  <2>1. live[n] \in Seq(Version) /\ live'[n] = Append(live[n], w)
    BY <1>t
  <2> QED
    BY <1>t, <2>1
<1>3. /\ Len(live'[n]) = Len(live[n]) + 1 /\ Len(live[n]) \in Nat
      /\ live'[n][Len(live[n]) + 1] = w
      /\ \A i \in 1 .. Len(live[n]) : live'[n][i] = live[n][i]
  BY <1>2
<1>4. \A i \in 1 .. Len(live'[n]) : i \in 1 .. Len(live[n]) \/ i = Len(live[n]) + 1
  BY <1>3
<1>5. \A i \in 1 .. Len(live[n]) : live[n][i] # w
  BY DEF LiveVersions
<1>6. \A m \in Name : \A i, j \in 1 .. Len(live'[m]) : i # j => live'[m][i] # live'[m][j]
  <2> SUFFICES ASSUME NEW m \in Name, NEW i \in 1 .. Len(live'[m]),
                      NEW j \in 1 .. Len(live'[m]), i # j
               PROVE  live'[m][i] # live'[m][j]
    OBVIOUS
  <2>0. \A k, l \in 1 .. Len(live[m]) : k # l => live[m][k] # live[m][l]
    BY DEF Tables, OneHome
  <2>1. CASE m # n
    BY <1>1, <2>0, <2>1
  <2>2. CASE m = n
    BY <1>3, <1>4, <1>5, <2>0, <2>2
  <2> QED
    BY <2>1, <2>2
<1>7. \A m \in Name : \A x \in gone'[m] : x.ver \notin LiveVersions(m)'
  <2> SUFFICES ASSUME NEW m \in Name, NEW x \in gone'[m], NEW i \in 1 .. Len(live'[m])
               PROVE  live'[m][i] # x.ver
    BY DEF LiveVersions
  <2>0. \A k \in 1 .. Len(live[m]) : live[m][k] # x.ver
    BY DEF Tables, OneHome, LiveVersions
  <2>1. CASE m # n
    BY <1>1, <2>0, <2>1
  <2>2. CASE m = n
    BY <1>3, <1>4, <2>0, <2>2
  <2> QED
    BY <2>1, <2>2
<1>8. \A m \in Name : \A x, y \in gone'[m] : x.ver = y.ver => x = y
  BY DEF Tables, OneHome
<1>9. \A m \in Name : \A i \in 1 .. Len(live'[m]) : live'[m][i] < nextVer'
  <2> SUFFICES ASSUME NEW m \in Name, NEW i \in 1 .. Len(live'[m])
               PROVE  live'[m][i] < nextVer'
    OBVIOUS
  <2>0. \A k \in 1 .. Len(live[m]) : live[m][k] < nextVer /\ live[m][k] \in Nat
    BY <1>t DEF Tables
  <2>1. CASE m # n
    BY <1>t, <1>1, <2>0, <2>1
  <2>2. CASE m = n
    BY <1>t, <1>3, <1>4, <2>0, <2>2
  <2> QED
    BY <2>1, <2>2
<1>10. \A m \in Name : \A x \in gone'[m] : x.ver < nextVer'
  <2> SUFFICES ASSUME NEW m \in Name, NEW x \in gone'[m] PROVE x.ver < nextVer'
    OBVIOUS
  <2>1. x.ver < nextVer /\ x.ver \in Nat
    BY <1>t DEF Tables, GoneRow
  <2> QED
    BY <1>t, <2>1
<1> QED
  BY <1>6, <1>7, <1>8, <1>9, <1>10 DEF Tables, OneHome

\* Both changes keep a version in one home.
LEMMA TablesKept ==
    ASSUME TypeOK, Tables, NEW n \in Name, NEW v \in Version, v < nextVer,
           Removes(n, v) \/ Restores(n, v)
    PROVE  Tables'
<1>t. /\ live \in [Name -> Seq(Version)] /\ gone \in [Name -> SUBSET GoneRow]
      /\ nextVer \in Nat /\ \A w \in Version : w \in Nat
  BY BoundsAssumption DEF TypeOK, Version
<1>3. CASE Removes(n, v)
  BY <1>t, <1>3 DEF Removes, Tables, OneHome, LiveVersions, GoneRow
<1>4. CASE Restores(n, v)
  <2>1. /\ v \notin LiveVersions(n) /\ nextVer' = nextVer
        /\ live' = [live EXCEPT ![n] = Append(@, v)]
    BY <1>4 DEF Restores
  <2>2. /\ \A m \in Name : gone'[m] \subseteq gone[m]
        /\ \A x \in gone'[n] : x.ver # v
    BY <1>t, <1>4 DEF Restores
  <2>3. nextVer' \in Nat /\ v < nextVer' /\ nextVer <= nextVer' /\ v \in Nat
    BY <1>t, <2>1
  <2> QED
    BY ONLY TypeOK, Tables, n \in Name, <1>t, <2>1, <2>2, <2>3, AppendKept
<1> QED
  BY <1>3, <1>4

\* A version that is in the request's hand is a version already made.
LEMMA HandVersion ==
    ASSUME KVInv, NEW r \in Req, req[r] # Idle,
           req[r].pc \in {"remove", "restore", "cert"}
    PROVE  req[r].name \in Name /\ req[r].ver \in Version /\ req[r].ver < nextVer
BY DEF KVInv, TypeOK, InHand, Made, Request

\* The tables' half of the invariant is kept by every step.
LEMMA TablesStep == KVInv /\ [Next]_vars => Tables'
<1> SUFFICES ASSUME KVInv, [Next]_vars PROVE Tables'
  OBVIOUS
<1>t. TypeOK /\ Tables
  BY DEF KVInv, Made, Tables
<1>v. nextVer \in Nat /\ \A w \in Version : w \in Nat
  BY <1>t, BoundsAssumption DEF TypeOK, Version
<1>s. CASE Same
  BY <1>t, <1>s DEF Same, Tables, OneHome, LiveVersions
<1>i. ASSUME NEW n \in Name, InsertSecret(n), gone' = gone PROVE Tables'
  <2>1. nextVer \notin LiveVersions(n) /\ \A x \in gone[n] : x.ver # nextVer
    BY <1>t, <1>v DEF TypeOK, Tables, LiveVersions, GoneRow
  <2>2. /\ live' = [live EXCEPT ![n] = Append(@, nextVer)]
        /\ nextVer' \in Nat /\ nextVer < nextVer' /\ nextVer <= nextVer'
    BY <1>i, <1>v DEF InsertSecret
  <2>3. (\A m \in Name : gone'[m] \subseteq gone[m]) /\ (\A x \in gone'[n] : x.ver # nextVer)
    BY <1>i, <2>1
  <2> QED
    BY ONLY n \in Name, <1>t, <1>v, <2>1, <2>2, <2>3, AppendKept
<1>1. ASSUME NEW n \in Name, PutSecret(n) PROVE Tables'
  BY <1>1, <1>i DEF PutSecret
<1>2. ASSUME NEW n \in Name, PutLockedCertificate(n) PROVE Tables'
  BY <1>2, <1>s DEF PutLockedCertificate, Same
<1>3. ASSUME NEW r \in Req, NEW n \in Name, PutCertificateKey(r, n) PROVE Tables'
  BY <1>3, <1>i DEF PutCertificateKey
<1>4. ASSUME NEW r \in Req, DeleteCommit(r) PROVE Tables'
  <2> DEFINE n == req[r].name
             v == req[r].ver
  <2>1. n \in Name /\ v \in Version /\ v < nextVer
    BY <1>4, HandVersion DEF DeleteCommit, At
  <2>2. now \in Nat
    BY <1>t, BoundsAssumption DEF TypeOK
  <2>3. Removes(n, v)
    BY <1>4, <2>2 DEF DeleteCommit, Removes
  <2> HIDE DEF n, v
  <2> QED
    BY <1>t, <2>1, <2>3, TablesKept
<1>5. ASSUME NEW r \in Req, Restore(r) PROVE Tables'
  <2> DEFINE n == req[r].name
             v == req[r].ver
  <2>1. n \in Name /\ v \in Version /\ v < nextVer
    BY <1>5, HandVersion DEF Restore, At
  <2>2. Same \/ Restores(n, v)
    BY <1>5 DEF Restore, Restores, Same
  <2> HIDE DEF n, v
  <2> QED
    BY <1>t, <1>s, <2>1, <2>2, TablesKept
<1>6. ASSUME NEW r \in Req, Gate(r) \/ Pick(r) \/ Answer(r) \/ PutCertificateRow(r) PROVE Tables'
  BY <1>6, <1>s DEF Gate, Pick, Answer, PutCertificateRow, Same
<1>7. ASSUME NEW r \in Req, NEW n \in Name, DeleteRead(r, n) \/ \E b \in BOOLEAN : Begin(r, n, b)
      PROVE  Tables'
  BY <1>7, <1>s DEF DeleteRead, Begin, Same
<1>8. CASE PutVault \/ Crash \/ Tick \/ UNCHANGED vars
  BY <1>8, <1>s DEF PutVault, Crash, Tick, vars, Same
<1> QED
  BY <1>1, <1>2, <1>3, <1>4, <1>5, <1>6, <1>7, <1>8 DEF Next

-----------------------------------------------------------------------------
\* The half of the invariant about one request.
ReqOK(r) ==
    req[r] # Idle =>
       /\ req[r].ver < nextVer
       /\ req[r].pc \in {"remove", "restore", "cert"} => req[r].ver \in Version
       /\ ~ Blocked(req[r].name) => req[r].open
       /\ req[r].pc \in {"get", "pick", "restore", "answer"} => req[r].open

\* The requests' half is ReqOK of every request.
LEMMA ReqHalf ==
    /\ KVInv => \A p \in Req : ReqOK(p)
    /\ TypeOK /\ Tables /\ (\A p \in Req : ReqOK(p)) => KVInv
BY DEF KVInv, ReqOK, Made, InHand, OpenInv, Tables

\* A request that a step leaves alone keeps its half, unless certificates change.
LEMMA OthersKept ==
    ASSUME KVInv, NEW p \in Req, req'[p] = req[p] \/ req'[p] = Idle, cert' = cert,
           nextVer' \in Nat, nextVer <= nextVer'
    PROVE  ReqOK(p)'
<1>1. ReqOK(p)
  BY ReqHalf
<1>2. nextVer \in Nat /\ (req[p] # Idle => req[p].ver \in Nat)
  BY BoundsAssumption DEF KVInv, TypeOK, Request, Version
<1> QED
  BY <1>1, <1>2 DEF ReqOK, Blocked

\* A new certificate keeps it: an exportable one opens the requests on its name.
LEMMA CertKept ==
    ASSUME KVInv, NEW p \in Req, NEW n \in Name, NEW rs \in SUBSET Req,
           NEW e \in BOOLEAN, NEW k \in Version \cup {0},
           InsertCert(n, [exportable |-> e, key |-> k], rs), nextVer' = nextVer
    PROVE  ReqOK(p)'
<1> DEFINE c == [exportable |-> e, key |-> k]
<1>1. ReqOK(p) /\ TypeOK
  BY ReqHalf DEF KVInv
<1>2. c \in Cert /\ c # NoCert /\ c.exportable = e
  BY AbsentAssumption DEF Cert
<1>3. req'[p] = IF p \in rs THEN Idle
                ELSE IF req[p] # Idle /\ req[p].name = n /\ e
                     THEN [req[p] EXCEPT !.open = TRUE] ELSE req[p]
  BY DEF InsertCert
<1>4. SUFFICES ASSUME req'[p] # Idle PROVE ReqOK(p)'
  BY DEF ReqOK
<1>5. req[p] # Idle /\ req[p] \in Request
  BY <1>1, <1>3, <1>4 DEF TypeOK
<1>6. \A m \in Name : cert'[m] = IF m = n THEN c ELSE cert[m]
  BY <1>1 DEF InsertCert, TypeOK
<1>7. CASE req[p].name = n /\ e
  <2>1. /\ req'[p].open = TRUE /\ req'[p].ver = req[p].ver /\ req'[p].pc = req[p].pc
    BY <1>3, <1>4, <1>5, <1>7 DEF Request
  <2> QED
    BY <1>1, <1>5, <2>1 DEF ReqOK
<1>8. CASE ~(req[p].name = n /\ e)
  <2>1. req'[p] = req[p]
    BY <1>3, <1>4, <1>5, <1>8
  <2>2. ~ Blocked(req[p].name)' => ~ Blocked(req[p].name)
    <3>1. req[p].name \in Name
      BY <1>5 DEF Request
    <3> QED
      BY <1>2, <1>6, <1>8, <2>1, <3>1 DEF Blocked
  <2> QED
    BY <1>1, <1>5, <2>1, <2>2 DEF ReqOK, Blocked
<1> QED
  BY <1>7, <1>8

\* A request that starts has the policy of that instant.
LEMMA StartKept ==
    ASSUME KVInv, NEW r \in Req, NEW n \in Name, NEW b \in BOOLEAN, NEW v \in Nat,
           NEW p \in {"gate", "remove", "cert"}, p \in {"remove", "cert"} => v \in Version,
           req' = [req EXCEPT ![r] = Start(p, n, b, v)], cert' = cert,
           nextVer' \in Nat, nextVer <= nextVer', v < nextVer'
    PROVE  \A q \in Req : ReqOK(q)'
<1>1. req \in [Req -> Request \cup {Idle}]
  BY DEF KVInv, TypeOK
<1>2. ReqOK(r)'
  <2>1. req'[r] = Start(p, n, b, v)
    BY <1>1
  <2>2. /\ req'[r].pc = p /\ req'[r].name = n /\ req'[r].ver = v /\ req'[r].open = ~ Blocked(n)
    BY <2>1 DEF Start
  <2> QED
    BY <2>2 DEF ReqOK, Blocked
<1>3. \A q \in Req : q # r => ReqOK(q)'
  BY <1>1, OthersKept
<1> QED
  BY <1>2, <1>3

\* The requests' half of the invariant is kept by every step.
LEMMA RequestsStep == KVInv /\ [Next]_vars => \A p \in Req : ReqOK(p)'
<1> SUFFICES ASSUME KVInv, [Next]_vars PROVE \A p \in Req : ReqOK(p)'
  OBVIOUS
<1>t. TypeOK /\ \A p \in Req : ReqOK(p)
  BY ReqHalf DEF KVInv
<1>v. /\ nextVer \in Nat /\ \A w \in Version : w \in Nat
      /\ req \in [Req -> Request \cup {Idle}]
  BY <1>t, BoundsAssumption DEF TypeOK, Version
<1>i. ASSUME NEW n \in Name, InsertSecret(n)
      PROVE  nextVer' \in Nat /\ nextVer <= nextVer' /\ nextVer < nextVer' /\ nextVer \in Version
  BY <1>t, <1>i, <1>v DEF InsertSecret, TypeOK, Version
\* A step that moves one request on, if it starts nothing and inserts nothing.
<1>m. ASSUME NEW r \in Req, cert' = cert, nextVer' = nextVer,
             \A p \in Req : p # r => req'[p] = req[p], ReqOK(r)'
      PROVE  \A p \in Req : ReqOK(p)'
  BY <1>v, <1>m, OthersKept
<1>1. ASSUME NEW n \in Name, PutSecret(n) PROVE \A p \in Req : ReqOK(p)'
  BY <1>1, <1>i, OthersKept DEF PutSecret
<1>2. ASSUME NEW n \in Name, PutLockedCertificate(n) PROVE \A p \in Req : ReqOK(p)'
  BY <1>2, CertKept DEF PutLockedCertificate
<1>3. ASSUME NEW r \in Req, NEW n \in Name, PutCertificateKey(r, n) PROVE \A p \in Req : ReqOK(p)'
  <2>1. InsertSecret(n) /\ cert' = cert /\ req' = [req EXCEPT ![r] = Start("cert", n, FALSE, nextVer)]
    BY <1>3 DEF PutCertificateKey
  <2> QED
    BY <1>v, <1>i, <2>1, StartKept
<1>4. ASSUME NEW r \in Req, PutCertificateRow(r) PROVE \A p \in Req : ReqOK(p)'
  <2>1. req[r].name \in Name /\ req[r].ver \in Version
    BY <1>4, HandVersion DEF PutCertificateRow, At
  <2>2. nextVer' = nextVer /\ InsertCert(req[r].name, [exportable |-> TRUE, key |-> req[r].ver], {r})
    BY <1>4 DEF PutCertificateRow
  <2> QED
    BY <2>1, <2>2, CertKept
<1>5. ASSUME NEW r \in Req, NEW n \in Name, DeleteRead(r, n) PROVE \A p \in Req : ReqOK(p)'
  <2>1. live[n] \in Seq(Version) /\ live[n] # <<>>
    BY <1>t, <1>5 DEF TypeOK, DeleteRead
  <2>2. Len(live[n]) \in 1 .. Len(live[n])
    BY <2>1
  <2>3. Current(n) \in Version /\ Current(n) < nextVer
    BY <2>1, <2>2 DEF KVInv, Made, Current
  <2>4. /\ req' = [req EXCEPT ![r] = Start("remove", n, FALSE, Current(n))]
        /\ cert' = cert /\ nextVer' = nextVer
    BY <1>5 DEF DeleteRead
  <2>5. /\ nextVer' \in Nat /\ nextVer <= nextVer' /\ Current(n) < nextVer'
        /\ Current(n) \in Nat
    BY <1>v, <2>3, <2>4
  <2> QED
    BY ONLY KVInv, r \in Req, n \in Name, <2>3, <2>4, <2>5, StartKept
<1>6. ASSUME NEW r \in Req, NEW n \in Name, NEW b \in BOOLEAN, Begin(r, n, b)
      PROVE  \A p \in Req : ReqOK(p)'
  <2>1. /\ req' = [req EXCEPT ![r] = Start("gate", n, b, 0)] /\ cert' = cert /\ nextVer' = nextVer
    BY <1>6 DEF Begin
  <2>2. 0 < nextVer /\ 0 \in Nat
    BY <1>t, BoundsAssumption DEF TypeOK
  <2>3. nextVer' \in Nat /\ nextVer <= nextVer' /\ 0 < nextVer'
    BY <1>v, <2>1, <2>2
  <2> QED
    BY ONLY KVInv, r \in Req, n \in Name, b \in BOOLEAN, <2>1, <2>2, <2>3, StartKept
<1>7. ASSUME NEW r \in Req, DeleteCommit(r) \/ Answer(r) PROVE \A p \in Req : ReqOK(p)'
  BY <1>7, <1>v, OthersKept DEF DeleteCommit, Answer, Finish
<1>8. ASSUME NEW r \in Req, Gate(r) PROVE \A p \in Req : ReqOK(p)'
  <2>0. cert' = cert /\ nextVer' = nextVer /\ req[r] # Idle /\ req[r] \in Request
    BY <1>8, <1>v DEF Gate, At
  <2>1. \A p \in Req : p # r => req'[p] = req[p]
    BY <1>8, <1>v DEF Gate, Finish
  <2>2. CASE Blocked(req[r].name)
    BY <1>8, <1>v, <1>m, <2>0, <2>1, <2>2 DEF Gate, Finish, ReqOK
  <2>3. CASE ~ Blocked(req[r].name)
    <3> DEFINE p == IF req[r].recover THEN "pick" ELSE "get"
    <3>1. req'[r] = [req[r] EXCEPT !.pc = p]
      BY <1>8, <1>v, <2>3 DEF Gate
    <3>2. req'[r].ver = req[r].ver /\ req'[r].pc \in {"pick", "get"} /\ req'[r].open = req[r].open
      BY <2>0, <3>1 DEF Request
    <3>3. ReqOK(r)'
      BY <1>t, <2>0, <2>3, <3>2 DEF ReqOK
    <3> QED
      BY <1>m, <2>0, <2>1, <3>3
  <2> QED
    BY <2>2, <2>3
<1>9. ASSUME NEW r \in Req, Pick(r) PROVE \A p \in Req : ReqOK(p)'
  <2>0. /\ cert' = cert /\ nextVer' = nextVer /\ req[r] # Idle /\ req[r] \in Request
        /\ req[r].pc = "pick" /\ req[r].name \in Name
    BY <1>9, <1>v DEF Pick, At, Request
  <2>1. \A p \in Req : p # r => req'[p] = req[p]
    BY <1>9, <1>v DEF Pick, Finish
  <2>2. CASE Finish(r)
    BY <1>v, <1>m, <2>0, <2>1, <2>2 DEF Finish, ReqOK
  <2>3. ASSUME NEW x \in gone[req[r].name],
               req' = [req EXCEPT ![r].pc = "restore", ![r].ver = x.ver]
        PROVE  \A p \in Req : ReqOK(p)'
    <3>1. x.ver \in Version /\ x.ver < nextVer
      BY <1>t, <2>0, <2>3 DEF TypeOK, GoneRow, KVInv, Made
    <3>2. req'[r] = [req[r] EXCEPT !.pc = "restore", !.ver = x.ver]
      BY <1>v, <2>3
    <3>3. req'[r].ver = x.ver /\ req'[r].pc = "restore" /\ req'[r].open = req[r].open
      BY <2>0, <3>2 DEF Request
    <3>4. ReqOK(r)'
      BY <1>t, <2>0, <3>1, <3>3 DEF ReqOK
    <3> QED
      BY <1>m, <2>0, <2>1, <3>4
  <2> QED
    BY <1>9, <2>2, <2>3 DEF Pick
<1>10. ASSUME NEW r \in Req, Restore(r) PROVE \A p \in Req : ReqOK(p)'
  <2>0. /\ cert' = cert /\ nextVer' = nextVer /\ req[r] # Idle /\ req[r] \in Request
        /\ req[r].pc = "restore"
    BY <1>10, <1>v DEF Restore, At
  <2>1. \A p \in Req : p # r => req'[p] = req[p]
    BY <1>10, <1>v DEF Restore, Finish
  <2>2. CASE Finish(r)
    BY <1>v, <1>m, <2>0, <2>1, <2>2 DEF Finish, ReqOK
  <2>3. CASE req' = [req EXCEPT ![r].pc = "answer"]
    <3>1. req'[r] = [req[r] EXCEPT !.pc = "answer"]
      BY <1>v, <2>3
    <3>2. req'[r].ver = req[r].ver /\ req'[r].pc = "answer" /\ req'[r].open = req[r].open
      BY <2>0, <3>1 DEF Request
    <3>3. ReqOK(r)'
      BY <1>t, <2>0, <3>2 DEF ReqOK
    <3> QED
      BY <1>m, <2>0, <2>1, <3>3
  <2> QED
    BY <1>10, <2>2, <2>3 DEF Restore
<1>11. CASE PutVault \/ Tick \/ UNCHANGED vars
  BY <1>11, <1>v, OthersKept DEF PutVault, Tick, vars
<1>12. CASE Crash
  BY <1>12, <1>v, OthersKept DEF Crash
<1> QED
  BY <1>1, <1>2, <1>3, <1>4, <1>5, <1>6, <1>7, <1>8, <1>9, <1>10, <1>11, <1>12 DEF Next

-----------------------------------------------------------------------------
\* KVInv is an invariant of every vault.
LEMMA Inductive == Spec => []KVInv
<1>1. KVInv /\ [Next]_vars => KVInv'
  <2> SUFFICES ASSUME KVInv, [Next]_vars PROVE KVInv'
    OBVIOUS
  <2>1. TypeOK' /\ Tables' /\ (\A p \in Req : ReqOK(p))'
    BY TypeStep, TablesStep, RequestsStep
  <2>2. (TypeOK /\ Tables /\ (\A p \in Req : ReqOK(p)))' => KVInv'
    BY ReqHalf DEF KVInv, ReqOK, Made, InHand, OpenInv, Tables
  <2> QED
    BY <2>1, <2>2
<1> QED
  BY <1>1, InitInv, PTL DEF Spec

\* The tables and the requests keep their types: a recovered or deleted row
\* always is a version that was made (RecoverSecret, SoftDeleteSecret).
THEOREM VaultTyped == Spec => []TypeOK
<1>1. KVInv => TypeOK
  BY DEF KVInv
<1> QED
  BY <1>1, Inductive, PTL

\* However DELETEs, recovers and PUTs of any number of requests overlap, and
\* wherever a crash falls, no version is in keyvault_secrets and in
\* keyvault_deleted_secrets, or twice in either.
THEOREM OneHomeAlways == Spec => []OneHome
<1>1. KVInv => OneHome
  BY DEF KVInv
<1> QED
  BY <1>1, Inductive, PTL

\* No secret leaves through GET or recover while the newest certificate of its
\* name is not exportable for the whole of the request (certificateSecretBlocked
\* is looked at before the value is read).
THEOREM GateAlways == Spec => GateHonoured
<1>1. KVInv /\ [Next]_vars => [\A r \in Req : Answer(r) => req[r].open]_vars
  BY DEF KVInv, OpenInv, Answer, At
<1> QED
  BY <1>1, Inductive, PTL DEF Spec, GateHonoured

-----------------------------------------------------------------------------
\* No row was deleted in the future, and the row of the version deleted last has
\* the greatest deleted_at.
Dated ==
    \A n \in Name : \A x \in gone[n] :
       /\ x.at <= now
       /\ x.ver = lastGone[n] => \A y \in gone[n] : y.at <= x.at

\* Only a delete and a restore change the deleted rows of a name.
LEMMA DatedStep == KVInv /\ Dated /\ [Next]_vars => Dated'
<1> SUFFICES ASSUME KVInv, Dated, [Next]_vars PROVE Dated'
  OBVIOUS
<1>t. /\ gone \in [Name -> SUBSET GoneRow] /\ lastGone \in [Name -> Version \cup {0}]
      /\ now \in Nat /\ \A n \in Name : \A x \in gone[n] : x.at \in Nat /\ x.ver \in Version
  BY BoundsAssumption DEF KVInv, TypeOK, GoneRow
<1>s. ASSUME gone' = gone, lastGone' = lastGone, now' \in Nat, now <= now' PROVE Dated'
  <2> SUFFICES ASSUME NEW n \in Name, NEW x \in gone[n]
               PROVE  /\ x.at <= now'
                      /\ x.ver = lastGone[n] => \A y \in gone[n] : y.at <= x.at
    BY <1>s DEF Dated
  <2>1. x.at <= now /\ x.at \in Nat
    BY <1>t DEF Dated
  <2> QED
    BY <1>t, <1>s, <2>1 DEF Dated
<1>1. ASSUME NEW r \in Req, DeleteCommit(r) PROVE Dated'
  <2> DEFINE n == req[r].name
             v == req[r].ver
             z == [ver |-> v, at |-> now]
  <2>1. n \in Name /\ v \in Version
    BY <1>1, HandVersion DEF DeleteCommit, At
  <2>2. /\ gone'[n] = {x \in gone[n] : x.ver # v} \cup {z} /\ lastGone'[n] = v /\ now' = now
        /\ \A m \in Name \ {n} : gone'[m] = gone[m] /\ lastGone'[m] = lastGone[m]
    BY <1>t, <1>1, <2>1 DEF DeleteCommit
  <2>3. \A x \in gone'[n] : x.at \in Nat /\ x.at <= now /\ (x.ver = v => x = z)
    BY <1>t, <2>1, <2>2 DEF Dated
  <2>4. \A x \in gone'[n] : x.ver = v => x.at = now
    BY <2>3
  <2> HIDE DEF n, v, z
  <2>5. \A x \in gone'[n] : /\ x.at <= now'
                            /\ x.ver = lastGone'[n] => \A y \in gone'[n] : y.at <= x.at
    BY <2>2, <2>3, <2>4
  <2> QED
    BY <2>2, <2>5 DEF Dated
<1>2. ASSUME NEW r \in Req, Restore(r) PROVE Dated'
  <2>1. req[r].name \in Name /\ now' = now /\ lastGone' = lastGone
    BY <1>2, HandVersion DEF Restore, At
  <2>2. \A m \in Name : gone'[m] \subseteq gone[m]
    BY <1>t, <1>2, <2>1 DEF Restore
  <2> QED
    BY <1>t, <2>1, <2>2 DEF Dated
<1>3. ASSUME NEW n \in Name, PutSecret(n) \/ PutLockedCertificate(n) PROVE Dated'
  BY <1>t, <1>3, <1>s DEF PutSecret, PutLockedCertificate
<1>4. ASSUME NEW r \in Req, NEW n \in Name,
             PutCertificateKey(r, n) \/ DeleteRead(r, n) \/ \E b \in BOOLEAN : Begin(r, n, b)
      PROVE  Dated'
  <2>1. gone' = gone /\ lastGone' = lastGone /\ now' = now
    BY <1>4 DEF PutCertificateKey, DeleteRead, Begin
  <2> QED
    BY <1>t, <1>s, <2>1
<1>5. ASSUME NEW r \in Req, PutCertificateRow(r) \/ Gate(r) \/ Pick(r) \/ Answer(r) PROVE Dated'
  BY <1>t, <1>5, <1>s DEF PutCertificateRow, Gate, Pick, Answer
<1>6. CASE PutVault \/ Crash \/ UNCHANGED vars
  BY <1>t, <1>6, <1>s DEF PutVault, Crash, vars
<1>7. CASE Tick
  BY <1>t, <1>7, <1>s DEF Tick
<1> QED
  BY <1>1, <1>2, <1>3, <1>4, <1>5, <1>6, <1>7 DEF Next

\* RecoverSecret, which orders by deleted_at alone, picks the version that was
\* deleted last whenever no other row has its timestamp.
THEOREM RecoversLatestAlways == Spec => RecoversLatest
<1>1. Init => Dated
  BY DEF Init, Dated
<1>2. ASSUME KVInv, Dated, NEW r \in Req, NEW x \in gone[req[r].name], At(r, "pick"), Pick(r),
             x.ver = lastGone[req[r].name], \A y \in gone[req[r].name] : y.at = x.at => y = x
      PROVE  req'[r] # Idle /\ req'[r].ver = x.ver
  <2>1. req[r] \in Request /\ req[r].name \in Name /\ req \in [Req -> Request \cup {Idle}]
    BY <1>2 DEF KVInv, TypeOK, At, Request
  <2>2. \A y \in gone[req[r].name] : y.at \in Nat /\ y.ver \in Version
    BY <1>2, <2>1, BoundsAssumption DEF KVInv, TypeOK, GoneRow
  <2>3. PICK z \in gone[req[r].name] :
             /\ \A y \in gone[req[r].name] : y.at <= z.at
             /\ req' = [req EXCEPT ![r].pc = "restore", ![r].ver = z.ver]
    BY <1>2 DEF Pick
  <2>4. z = x
    BY <1>2, <2>1, <2>2, <2>3 DEF Dated
  <2>5. req'[r] = [req[r] EXCEPT !.pc = "restore", !.ver = x.ver]
    BY <2>1, <2>3, <2>4
  <2>6. req'[r] \in Request
    <3>1. x.ver \in Version
      BY <1>2, <2>2
    <3>2. [req[r] EXCEPT !.pc = "restore", !.ver = x.ver] \in Request
      BY <2>1, <3>1 DEF Request
    <3> QED
      BY <2>5, <3>2
  <2>7. req'[r].ver = x.ver
    BY <2>1, <2>5 DEF Request
  <2> QED
    BY <2>6, <2>7, AbsentAssumption
<1>3. KVInv /\ Dated /\ [Next]_vars =>
        [\A r \in Req, x \in UNION {gone[n] : n \in Name} :
            /\ At(r, "pick") /\ Pick(r)
            /\ x \in gone[req[r].name] /\ x.ver = lastGone[req[r].name]
            /\ \A y \in gone[req[r].name] : y.at = x.at => y = x
            => req'[r] # Idle /\ req'[r].ver = x.ver]_vars
  BY <1>2
<1> QED
  BY <1>1, <1>3, Inductive, DatedStep, PTL DEF Spec, RecoversLatest

=============================================================================
