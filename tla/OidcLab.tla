------------------------------- MODULE OidcLab -------------------------------
(***************************************************************************)
(* The lab OIDC issuer's signing key                                       *)
(* (internal/services/entra/oidclab.go,                                    *)
(* internal/store/identity_extra.go:EnsureOIDCLabSigningKey).              *)
(*                                                                         *)
(* The key is looked up and made without a mutex, in two statements, by    *)
(* every request that signs or verifies an assertion.                      *)
(***************************************************************************)
EXTENDS Naturals

CONSTANTS OReq, MaxLabKey   \* requests; bound on the keys generated

VARIABLES
    labKey,    \* entra_signing_keys, row oidc-lab; 0: none
    oreq,      \* what each request does: idle, or holds a new key to insert
    made,      \* keys generated so far
    assertions \* history: the keys of the assertions given out

ovars == <<labKey, oreq, made, assertions>>

OIdle == 0

\* EnsureOIDCLabSigningKey, the SELECT: with a stored key the assertion of
\* handleLabOIDCToken is signed; without one a key is generated.
ReadLabKey(r) ==
    /\ oreq[r] = OIdle
    /\ \/ labKey # 0 /\ assertions' = assertions \cup {labKey} /\ UNCHANGED <<oreq, made>>
       \/ /\ labKey = 0 /\ made < MaxLabKey
          /\ made' = made + 1 /\ oreq' = [oreq EXCEPT ![r] = made + 1]
          /\ UNCHANGED assertions
    /\ UNCHANGED labKey

\* Mutant of InsertLabKey: the last writer's key stays.
InsertLabKeyReplace(r) ==
    /\ oreq[r] # OIdle
    /\ labKey' = oreq[r] /\ assertions' = assertions \cup {oreq[r]}
    /\ oreq' = [oreq EXCEPT ![r] = OIdle] /\ UNCHANGED made

\* The INSERT under the fixed kid: when another request stored a key meanwhile
\* it fails, and nothing is signed.
InsertLabKey(r) ==
    /\ oreq[r] # OIdle
    /\ IF labKey = 0 THEN labKey' = oreq[r] /\ assertions' = assertions \cup {oreq[r]}
                     ELSE UNCHANGED <<labKey, assertions>>
    /\ oreq' = [oreq EXCEPT ![r] = OIdle] /\ UNCHANGED made

OCrash ==
    /\ oreq' = [r \in OReq |-> OIdle] /\ oreq' # oreq
    /\ UNCHANGED <<labKey, made, assertions>>

OInit == labKey = 0 /\ oreq = [r \in OReq |-> OIdle] /\ made = 0 /\ assertions = {}
ONext == (\E r \in OReq : ReadLabKey(r) \/ InsertLabKey(r)) \/ OCrash
OSpec == OInit /\ [][ONext]_ovars

\* Every assertion that the issuer ever gave out verifies with the key it
\* publishes, also when the first requests of a new lab come together or the
\* process stops between the SELECT and the INSERT.
MintedVerifies == assertions \subseteq {labKey}

=============================================================================
