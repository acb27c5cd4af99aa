------------------------------ MODULE KeyVault ------------------------------
(***************************************************************************)
(* The secrets and certificates of one vault                               *)
(* (internal/services/keyvault, internal/store/data.go, identity_extra.go, *)
(* keyvault.go).  Every statement filters on the vault, so vaults do not   *)
(* meet.                                                                   *)
(*                                                                         *)
(* DELETE and recover read with one statement and write with a later       *)
(* transaction; a certificate PUT writes its private key as a secret and   *)
(* then its own row; GET and recover look at the certificate policy first. *)
(* Requests interleave between these steps, and a crash may fall there.    *)
(***************************************************************************)
EXTENDS Naturals, Sequences

CONSTANTS
    Name,       \* names, shared by secrets and certificates
    Req,        \* concurrent requests
    NoCert, Idle,
    MaxVer,     \* bound: secret versions ever made
    MaxTime     \* bound: the clock, in seconds, as deleted_at stores it

ASSUME BoundsAssumption == MaxVer \in Nat /\ MaxTime \in Nat

VARIABLES
    vault,      \* the vault's row exists
    live,       \* table keyvault_secrets: the versions of a name in rowid order
    gone,       \* table keyvault_deleted_secrets, per name
    cert,       \* newest row of keyvault_certificates per name
    nextVer,    \* version of the next secret; a version stands for its value too
    now,        \* wall clock
    req,        \* what each request in progress knows and does next
    keys,       \* history: versions that are private keys of certificates
    lastGone    \* history: the version of a name that was deleted last; 0: none

vars == <<vault, live, gone, cert, nextVer, now, req, keys, lastGone>>

\* A version is made once (uuid) and stored with its value; the rows of a name
\* are ordered by rowid, which grows with every insert.
Version == 1 .. MaxVer
GoneRow == [ver : Version, at : 0 .. MaxTime]
Cert    == [exportable : BOOLEAN, key : Version \cup {0}]

LiveVersions(n) == {live[n][i] : i \in 1 .. Len(live[n])}

\* GetSecret: ORDER BY rowid DESC LIMIT 1.
Current(n) == live[n][Len(live[n])]

\* certificateSecretBlocked: the newest certificate of the name is not exportable.
Blocked(n) == cert[n] # NoCert /\ ~ cert[n].exportable

\* A request: what it does next, on which name, the version it has in hand, and
\* (history) whether the policy let the secret out at an instant of its life.
Request == [pc : {"gate", "get", "pick", "restore", "answer", "remove", "cert"},
            name : Name, recover : BOOLEAN, ver : Version \cup {0}, open : BOOLEAN]

\* The values that stand for "none" are not requests or certificates.
ASSUME AbsentAssumption == Idle \notin Request /\ NoCert \notin Cert

Start(pc, n, recover, v) ==
    [pc |-> pc, name |-> n, recover |-> recover, ver |-> v, open |-> ~ Blocked(n)]

At(r, pc) == req[r] # Idle /\ req[r].pc = pc

Finish(r) == req' = [req EXCEPT ![r] = Idle]

-----------------------------------------------------------------------------
(* One-statement handlers.                                                 *)

PutVault ==
    /\ vault' = TRUE
    /\ UNCHANGED <<live, gone, cert, nextVer, now, req, keys, lastGone>>

InsertSecret(n) ==
    /\ nextVer <= MaxVer
    /\ live' = [live EXCEPT ![n] = Append(@, nextVer)]
    /\ nextVer' = nextVer + 1

PutSecret(n) ==
    /\ vault
    /\ InsertSecret(n)
    /\ UNCHANGED <<vault, gone, cert, now, req, keys, lastGone>>

-----------------------------------------------------------------------------
(* PUT certificate.  Root may write one even when the vault does not exist. *)

\* The certificate row: it becomes the newest of its name.  Requests on the
\* name notice, for the history of their policy.
InsertCert(n, c, rs) ==
    /\ cert' = [cert EXCEPT ![n] = c]
    /\ req' = [r \in Req |->
                 IF r \in rs THEN Idle
                 ELSE IF req[r] # Idle /\ req[r].name = n /\ c.exportable
                      THEN [req[r] EXCEPT !.open = TRUE]
                      ELSE req[r]]

PutLockedCertificate(n) ==
    /\ InsertCert(n, [exportable |-> FALSE, key |-> 0], {})
    /\ UNCHANGED <<vault, live, gone, nextVer, now, keys, lastGone>>

\* An exportable certificate: first its private key, as a secret of the name ...
PutCertificateKey(r, n) ==
    /\ req[r] = Idle
    /\ InsertSecret(n)
    /\ keys' = keys \cup {nextVer}
    /\ req' = [req EXCEPT ![r] = Start("cert", n, FALSE, nextVer)]
    /\ UNCHANGED <<vault, gone, cert, now, lastGone>>

\* ... then its row.
PutCertificateRow(r) ==
    /\ At(r, "cert")
    /\ InsertCert(req[r].name, [exportable |-> TRUE, key |-> req[r].ver], {r})
    /\ UNCHANGED <<vault, live, gone, nextVer, now, keys, lastGone>>

-----------------------------------------------------------------------------
(* DELETE secret.                                                          *)

\* SoftDeleteSecret reads the newest version ...
DeleteRead(r, n) ==
    /\ req[r] = Idle
    /\ live[n] # <<>>
    /\ req' = [req EXCEPT ![r] = Start("remove", n, FALSE, Current(n))]
    /\ UNCHANGED <<vault, live, gone, cert, nextVer, now, keys, lastGone>>

\* Mutant of DeleteCommit: the newest row is kept when it is another one.
DeleteCommitKeepsNewer(r) ==
    LET n == req[r].name  v == req[r].ver IN
    /\ At(r, "remove")
    /\ gone' = [gone EXCEPT ![n] = {x \in @ : x.ver # v} \cup {[ver |-> v, at |-> now]}]
    /\ live' = [live EXCEPT ![n] = IF @ # <<>> /\ Current(n) # v THEN @ ELSE <<>>]
    /\ Finish(r)
    /\ lastGone' = [lastGone EXCEPT ![n] = v]
    /\ UNCHANGED <<vault, cert, nextVer, now, keys>>

\* ... and in one transaction stores it as deleted and deletes every version.
DeleteCommit(r) ==
    LET n == req[r].name  v == req[r].ver IN
    /\ At(r, "remove")
    /\ gone' = [gone EXCEPT ![n] = {x \in @ : x.ver # v} \cup {[ver |-> v, at |-> now]}]
    /\ live' = [live EXCEPT ![n] = <<>>]
    /\ Finish(r)
    /\ lastGone' = [lastGone EXCEPT ![n] = v]
    /\ UNCHANGED <<vault, cert, nextVer, now, keys>>

-----------------------------------------------------------------------------
(* GET secret and recover.                                                 *)

Begin(r, n, recover) ==
    /\ req[r] = Idle
    /\ req' = [req EXCEPT ![r] = Start("gate", n, recover, 0)]
    /\ UNCHANGED <<vault, live, gone, cert, nextVer, now, keys, lastGone>>

\* Mutant of Gate: recover does not look at the certificate.
GateGetOnly(r) ==
    /\ At(r, "gate")
    /\ IF Blocked(req[r].name) /\ ~ req[r].recover THEN Finish(r)
       ELSE req' = [req EXCEPT ![r].pc = IF req[r].recover THEN "pick" ELSE "get"]
    /\ UNCHANGED <<vault, live, gone, cert, nextVer, now, keys, lastGone>>

\* A blocked request is refused.
Gate(r) ==
    /\ At(r, "gate")
    /\ IF Blocked(req[r].name) THEN Finish(r)
       ELSE req' = [req EXCEPT ![r].pc = IF req[r].recover THEN "pick" ELSE "get"]
    /\ UNCHANGED <<vault, live, gone, cert, nextVer, now, keys, lastGone>>

\* Mutant of Pick: ORDER BY deleted_at ASC.
PickOldest(r) ==
    LET n == req[r].name IN
    /\ At(r, "pick")
    /\ \/ \E x \in gone[n] :
             /\ \A y \in gone[n] : x.at <= y.at
             /\ req' = [req EXCEPT ![r].pc = "restore", ![r].ver = x.ver]
       \/ gone[n] = {} /\ Finish(r)
    /\ UNCHANGED <<vault, live, gone, cert, nextVer, now, keys, lastGone>>

\* RecoverSecret picks a row with the greatest deleted_at; with nothing to
\* recover the request ends.
Pick(r) ==
    LET n == req[r].name IN
    /\ At(r, "pick")
    /\ \/ \E x \in gone[n] :
             /\ \A y \in gone[n] : y.at <= x.at
             /\ req' = [req EXCEPT ![r].pc = "restore", ![r].ver = x.ver]
       \/ gone[n] = {} /\ Finish(r)
    /\ UNCHANGED <<vault, live, gone, cert, nextVer, now, keys, lastGone>>

\* One transaction puts the row back and deletes the deleted one; a version that
\* is live again is a primary key conflict and ends the request with an error.
Restore(r) ==
    LET n == req[r].name  v == req[r].ver IN
    /\ At(r, "restore")
    /\ IF v \in LiveVersions(n)
       THEN Finish(r) /\ UNCHANGED <<live, gone>>
       ELSE /\ live' = [live EXCEPT ![n] = Append(@, v)]
            /\ gone' = [gone EXCEPT ![n] = {x \in @ : x.ver # v}]
            /\ req' = [req EXCEPT ![r].pc = "answer"]
    /\ UNCHANGED <<vault, cert, nextVer, now, keys, lastGone>>

\* The value is read and goes out; recover names the version it restored, and
\* takes the value from a read of its own.
Answer(r) ==
    /\ At(r, "get") \/ At(r, "answer")
    /\ Finish(r)
    /\ UNCHANGED <<vault, live, gone, cert, nextVer, now, keys, lastGone>>

-----------------------------------------------------------------------------
Crash ==
    /\ \E r \in Req : req[r] # Idle
    /\ req' = [r \in Req |-> Idle]
    /\ UNCHANGED <<vault, live, gone, cert, nextVer, now, keys, lastGone>>

Tick ==
    /\ now < MaxTime
    /\ now' = now + 1
    /\ UNCHANGED <<vault, live, gone, cert, nextVer, req, keys, lastGone>>

Init ==
    /\ vault = FALSE
    /\ live = [n \in Name |-> <<>>]
    /\ gone = [n \in Name |-> {}]
    /\ cert = [n \in Name |-> NoCert]
    /\ nextVer = 1 /\ now = 0
    /\ req = [r \in Req |-> Idle]
    /\ keys = {} /\ lastGone = [n \in Name |-> 0]

Next ==
    \/ PutVault
    \/ \E n \in Name : PutSecret(n) \/ PutLockedCertificate(n)
    \/ \E r \in Req :
          \/ \E n \in Name : \/ PutCertificateKey(r, n) \/ DeleteRead(r, n)
                             \/ \E recover \in BOOLEAN : Begin(r, n, recover)
          \/ PutCertificateRow(r) \/ DeleteCommit(r)
          \/ Gate(r) \/ Pick(r) \/ Restore(r) \/ Answer(r)
    \/ Crash
    \/ Tick

Spec == Init /\ [][Next]_vars

-----------------------------------------------------------------------------
(* Properties.                                                             *)

\* Every variable has its type.
TypeOK ==
    /\ vault \in BOOLEAN
    /\ live \in [Name -> Seq(Version)]
    /\ gone \in [Name -> SUBSET GoneRow]
    /\ cert \in [Name -> Cert \cup {NoCert}]
    /\ nextVer \in 1 .. (MaxVer + 1)
    /\ now \in 0 .. MaxTime
    /\ req \in [Req -> Request \cup {Idle}]
    /\ keys \subseteq Version
    /\ lastGone \in [Name -> Version \cup {0}]

\* A version has one home: it has one row in keyvault_secrets, or one in
\* keyvault_deleted_secrets, or none, whatever deletes and recovers of the name
\* overlap (SoftDeleteSecret and RecoverSecret write what they read earlier).
OneHome ==
    \A n \in Name :
       /\ \A i, j \in 1 .. Len(live[n]) : i # j => live[n][i] # live[n][j]
       /\ \A x \in gone[n] : x.ver \notin LiveVersions(n)
       /\ \A x, y \in gone[n] : x.ver = y.ver => x = y

\* A value goes out through GET or recover only when the newest certificate of
\* the name let it out at an instant of the request (certificateSecretBlocked).
GateHonoured ==
    [][\A r \in Req : Answer(r) => req[r].open]_vars

\* "SoftDeleteSecret moves the latest secret version into deleted storage": the
\* version a GET would have returned just before the delete can be recovered.
LatestIsMoved ==
    [][\A r \in Req : DeleteCommit(r) /\ live[req[r].name] # <<>>
          => \E x \in gone'[req[r].name] : x.ver = Current(req[r].name)]_vars

\* "RecoverSecret restores the latest deleted secret version": of the versions
\* deleted one after the other the last one comes back, unless another one has
\* the same deleted_at, which is in whole seconds and the only order there is.
RecoversLatest ==
    [][\A r \in Req, x \in UNION {gone[n] : n \in Name} :
          /\ At(r, "pick") /\ Pick(r)
          /\ x \in gone[req[r].name] /\ x.ver = lastGone[req[r].name]
          /\ \A y \in gone[req[r].name] : y.at = x.at => y = x
          => req'[r] # Idle /\ req'[r].ver = x.ver]_vars

=============================================================================
