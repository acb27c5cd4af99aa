----------------------------- MODULE Identities -----------------------------
(***************************************************************************)
(* Managed identities and the instance metadata token route                *)
(* (internal/services/managedidentity/handler.go,                          *)
(* internal/store/identity_extra.go).                                      *)
(*                                                                         *)
(* User-assigned and system-assigned identities are rows of two tables of  *)
(* the same shape, each with a principal id and a client id; PUT reads the *)
(* row and then upserts.  Ids are numbers: the lab draws two new ones for  *)
(* an identity, and a PUT of a user-assigned one may bring any two.  A     *)
(* token is asked for by client id, by principal id, or by none.           *)
(***************************************************************************)
EXTENDS Naturals, FiniteSets

CONSTANTS
    Ident,      \* identities of each table: a group and a name
    Client,     \* concurrent requests
    Pinned,     \* pairs of ids a PUT of a user-assigned identity may bring
    NoPair, Quiet,
    MaxId       \* bound: ids drawn, 1 .. MaxId

VARIABLES
    ident,      \* managed_identities ("user") and system_assigned_identities
                \* ("system"): the ids of a row; NoPair: no row
    client,     \* requests between their statements; overlapped (history): what
                \* the request has read was written meanwhile
    made,       \* ids drawn
    pins,       \* history: ids that a PUT brought
    reply       \* history: what the last step answered

ivars == <<ident, client, made, pins, reply>>

Table == {"user", "system"}

Pair == [principal : Nat \ {0}, client : Nat \ {0}]

Ids(pair) == {pair.principal, pair.client}

IdOf(pair, by) == IF by = "client" THEN pair.client ELSE pair.principal

ClientRequest ==
    [at : {"put", "system", "first"}, t : Table, i : Ident \cup {0}, by : {"principal", "client"},
     asked : Nat, pair : Pair \cup {NoPair}, failed : BOOLEAN, overlapped : BOOLEAN]

ASSUME IdentitiesAssumption ==
    /\ IsFiniteSet(Ident) /\ MaxId \in Nat /\ Pinned \subseteq Pair
    /\ NoPair \notin Pair /\ Quiet \notin ClientRequest

NoReply == [to |-> "none", by |-> "client", asked |-> 0, pair |-> NoPair, stored |-> NoPair, ok |-> FALSE]

Rows(t) == {i \in Ident : ident[t][i] # NoPair}

\* c's statement writes row i of table t: the others that have read it are
\* overlapped, and c, which ends, is not under way any more.
Writes(c, t, i) ==
    client' = [d \in Client |->
        IF d = c THEN Quiet
        ELSE IF client[d] = Quiet \/ (client[d].at = "put" /\ <<client[d].t, client[d].i>> # <<t, i>>)
             THEN client[d]
             ELSE [client[d] EXCEPT !.overlapped = TRUE]]

-----------------------------------------------------------------------------
Drawn == [principal |-> made + 1, client |-> made + 2]

\* What putIdentity and putSystem hold after their read: the ids of the row, else
\* those of the body (pinnedIdentityIDs), else new ones.
Hold(c, t, i, pair, failed) ==
    /\ client' = [client EXCEPT ![c] =
          [at |-> "put", t |-> t, i |-> i, by |-> "client", asked |-> 0, pair |-> pair,
           failed |-> failed, overlapped |-> FALSE]]
    /\ reply' = NoReply
    /\ UNCHANGED ident

HoldDrawn(c, t, i, failed) ==
    /\ made + 2 <= MaxId /\ made' = made + 2
    /\ Hold(c, t, i, Drawn, failed)
    /\ UNCHANGED pins

\* The row exists, or the body brings ids, or neither.
GetBeforePut(c, t, i) ==
    /\ client[c] = Quiet
    /\ \/ ident[t][i] # NoPair /\ Hold(c, t, i, ident[t][i], FALSE) /\ UNCHANGED <<made, pins>>
       \/ ident[t][i] = NoPair /\ HoldDrawn(c, t, i, FALSE)
       \/ /\ ident[t][i] = NoPair /\ t = "user"
          /\ \E pin \in Pinned : Hold(c, t, i, pin, FALSE) /\ pins' = pins \cup Ids(pin)
          /\ UNCHANGED made

\* GetSystemAssignedIdentity fails, and putSystem goes on as if there were no row.
GetFailsBeforePut(c, i) == client[c] = Quiet /\ HoldDrawn(c, "system", i, TRUE)

\* The answer names the ids the handler holds, not the ones stored.
Replied(c) ==
    reply' = [NoReply EXCEPT !.to = "put", !.pair = client[c].pair,
                             !.stored = ident'[client[c].t][client[c].i],
                             !.ok = ~ client[c].overlapped /\ ~ client[c].failed]

PutReads(c, t) == client[c] # Quiet /\ client[c].at = "put" /\ client[c].t = t

\* UpsertManagedIdentity: ON CONFLICT overwrites the ids.
UpsertManagedIdentity(c) ==
    /\ PutReads(c, "user")
    /\ ident' = [ident EXCEPT !["user"][client[c].i] = client[c].pair]
    /\ Writes(c, "user", client[c].i) /\ Replied(c)
    /\ UNCHANGED <<made, pins>>

\* Mutant of UpsertSystemAssignedIdentity: the statement of the other table.
UpsertSystemOverwrites(c) ==
    /\ PutReads(c, "system")
    /\ ident' = [ident EXCEPT !["system"][client[c].i] = client[c].pair]
    /\ Writes(c, "system", client[c].i) /\ Replied(c)
    /\ UNCHANGED <<made, pins>>

\* UpsertSystemAssignedIdentity: ON CONFLICT keeps them.
UpsertSystemAssignedIdentity(c) ==
    /\ PutReads(c, "system")
    /\ ident' = [ident EXCEPT !["system"][client[c].i] = IF @ = NoPair THEN client[c].pair ELSE @]
    /\ Writes(c, "system", client[c].i) /\ Replied(c)
    /\ UNCHANGED <<made, pins>>

\* deleteIdentity, deleteSystem
DeleteIdentity(c, t, i) ==
    /\ client[c] = Quiet /\ ident[t][i] # NoPair
    /\ ident' = [ident EXCEPT ![t][i] = NoPair]
    /\ Writes(c, t, i) /\ reply' = NoReply
    /\ UNCHANGED <<made, pins>>

-----------------------------------------------------------------------------
\* MintAccessToken for the principal of the row found; what it issues is
\* EntraTokens.  The answer names the row's client id too.
Mint(by, asked, pair, ok) ==
    reply' = [NoReply EXCEPT !.to = "token", !.by = by, !.asked = asked, !.pair = pair, !.ok = ok]

\* SELECT ... WHERE client_id = ? or principal_id = ? LIMIT 1: ids need not be unique.
Found(t, by, id) == {i \in Rows(t) : IdOf(ident[t][i], by) = id}

\* imdsToken by client_id or object_id: the user-assigned table first ...
FindManagedIdentity(c, by, id) ==
    /\ client[c] = Quiet
    /\ \/ \E i \in Found("user", by, id) : Mint(by, id, ident["user"][i], TRUE) /\ UNCHANGED client
       \/ /\ Found("user", by, id) = {}
          /\ client' = [client EXCEPT ![c] =
                [at |-> "system", t |-> "system", i |-> 0, by |-> by, asked |-> id, pair |-> NoPair,
                 failed |-> FALSE, overlapped |-> FALSE]]
          /\ reply' = NoReply
    /\ UNCHANGED <<ident, made, pins>>

\* ... then the system-assigned one; none is 400.
FindSystemAssigned(c) ==
    LET q == client[c] IN
    /\ q # Quiet /\ q.at = "system"
    /\ \/ \E i \in Found("system", q.by, q.asked) : Mint(q.by, q.asked, ident["system"][i], ~ q.overlapped)
       \/ Found("system", q.by, q.asked) = {} /\ reply' = NoReply
    /\ client' = [client EXCEPT ![c] = Quiet]
    /\ UNCHANGED <<ident, made, pins>>

\* CountSystemAssignedIdentities, n == 1
Single == Cardinality(Rows("system")) = 1

\* imdsToken without an id: exactly one system-assigned identity must exist ...
CountSystemAssigned(c) ==
    /\ client[c] = Quiet /\ Single
    /\ client' = [client EXCEPT ![c] =
          [at |-> "first", t |-> "system", i |-> 0, by |-> "client", asked |-> 0, pair |-> NoPair,
           failed |-> FALSE, overlapped |-> FALSE]]
    /\ reply' = NoReply
    /\ UNCHANGED <<ident, made, pins>>

\* ... and the first one is taken.
FirstSystemAssigned(c) ==
    /\ client[c] # Quiet /\ client[c].at = "first"
    /\ \/ \E i \in Rows("system") : Mint("client", 0, ident["system"][i], ~ client[c].overlapped)
       \/ Rows("system") = {} /\ reply' = NoReply
    /\ client' = [client EXCEPT ![c] = Quiet]
    /\ UNCHANGED <<ident, made, pins>>

\* The process stops; the tables stay.
ICrash ==
    /\ \E c \in Client : client[c] # Quiet
    /\ client' = [c \in Client |-> Quiet]
    /\ reply' = NoReply
    /\ UNCHANGED <<ident, made, pins>>

IInit ==
    /\ ident = [t \in Table |-> [i \in Ident |-> NoPair]]
    /\ client = [c \in Client |-> Quiet]
    /\ made = 0 /\ pins = {} /\ reply = NoReply

INext ==
    \/ \E c \in Client, t \in Table, i \in Ident : DeleteIdentity(c, t, i) \/ GetBeforePut(c, t, i)
    \/ \E c \in Client, i \in Ident : GetFailsBeforePut(c, i)
    \/ \E c \in Client, by \in {"principal", "client"}, id \in 1 .. made \cup pins :
          FindManagedIdentity(c, by, id)
    \/ \E c \in Client :
          \/ UpsertManagedIdentity(c) \/ UpsertSystemAssignedIdentity(c)
          \/ FindSystemAssigned(c) \/ CountSystemAssigned(c) \/ FirstSystemAssigned(c)
    \/ ICrash

ISpec == IInit /\ [][INext]_ivars

-----------------------------------------------------------------------------
(* Properties.                                                             *)

\* The ids of an identity, which role assignments name, do not change while it
\* exists: those of a system-assigned one never, whatever PUTs overlap or fail to
\* read; those of a user-assigned one only by a PUT that read before another
\* request wrote it (putIdentity reads, then overwrites).
IdsStay ==
    [][\A t \in Table, i \in Ident :
          ident[t][i] # NoPair /\ ident'[t][i] \notin {NoPair, ident[t][i]} =>
             /\ t = "user"
             /\ \E c \in Client : client[c] # Quiet /\ client'[c] = Quiet /\ client[c].overlapped]_ivars

\* An id that no PUT brought belongs to one identity for ever: no other row of
\* either table has it as its principal or its client, so a token minted for it is
\* nobody else's (putIdentity, putSystem).
IdsAreOwn ==
    \A t, u \in Table, i, j \in Ident :
       ident[t][i] # NoPair /\ ident[u][j] # NoPair /\ <<t, i>> # <<u, j>> =>
          Ids(ident[t][i]) \cap Ids(ident[u][j]) \subseteq pins

\* A PUT that nothing overlapped and whose read did not fail answers the ids that
\* are stored.  While no row is written meanwhile, a token asked for by an id is
\* for the user-assigned identity that has it, else for the system-assigned one,
\* and one asked for without an id is for the only system-assigned identity.
ReplyIsRight ==
    reply.ok =>
       /\ reply.to = "put" => reply.pair = reply.stored
       /\ reply.to = "token" /\ reply.asked # 0 =>
             LET t == IF Found("user", reply.by, reply.asked) # {} THEN "user" ELSE "system"
             IN  \E i \in Found(t, reply.by, reply.asked) : reply.pair = ident[t][i]
       /\ reply.to = "token" /\ reply.asked = 0 => {ident["system"][i] : i \in Rows("system")} = {reply.pair}

\* An identity keeps its ids and shares none it was given by the lab, and a PUT or
\* a token names the ids of the identity it is about, except where another request
\* wrote between its statements or its read failed.
IdentitiesSafe == IdsStay /\ [](IdsAreOwn /\ ReplyIsRight)

=============================================================================
