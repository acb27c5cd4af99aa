----------------------------- MODULE ServiceBus -----------------------------
(***************************************************************************)
(* The Service Bus emulator: queue messages in the store                   *)
(* (internal/store/servicebus.go, data.go), the HTTP message routes        *)
(* (internal/services/servicebus/handler.go) and the AMQP 1.0 lite server  *)
(* (internal/amqp/server.go).                                              *)
(*                                                                         *)
(* The store has a single SQL connection (store.go, SetMaxOpenConns(1)),   *)
(* so a statement or a transaction is one atomic step; everything else     *)
(* interleaves.  An AMQP connection is a goroutine that handles one frame  *)
(* at a time; its session lives in memory and dies with the connection.    *)
(***************************************************************************)
EXTENDS Integers

CONSTANTS
    Conn,       \* AMQP connections
    Handle,     \* link handles of a session
    Ns,         \* Service Bus namespace names
    Queue,      \* queue names
    Session,    \* session ids a message can carry; NoSession is the empty one
    Key,        \* SAS keys of namespaces
    Req,        \* concurrent ARM PUT requests on namespaces
    OpenInput,  \* contents of the Open frames clients send
    LabNs,      \* namespaces whose clients use the server's connection string
    Listener,   \* first label of the listen address ("127" of 127.0.0.1:5672)
    NoNs, NoSession, NoKey, NoToken, NoLink, NoRow, NoHandle, Idle,
    MaxId,      \* bound: messages ever enqueued
    MaxCredit,  \* bound: credit of one Flow
    MaxTime,    \* bound: the clock
    TokenTTL    \* life of a SAS token minted from a connection string

ASSUME Bounds ==
    MaxId \in Nat /\ MaxCredit \in Nat /\ MaxTime \in Nat /\ TokenTTL \in Nat

ASSUME Absent ==
    /\ NoNs \notin Ns \cup {Listener} /\ Listener \notin Ns
    /\ NoSession \notin Session /\ NoKey \notin Key /\ NoHandle \notin Handle

VARIABLES
    rows,       \* table servicebus_messages
    nextId,     \* its AUTOINCREMENT counter
    key,        \* sealed SAS key of each namespace; NoKey: no such namespace
    puts,       \* PUT namespace requests that have chosen a key, not yet written
    now,        \* wall clock
    pc,         \* what the goroutine of a connection is doing
    host,       \* session.namespace
    sas,        \* session.sasToken
    links,      \* session.links
    cur,        \* the link whose Flow is being served by deliver
    hand,       \* row dequeued for a Transfer that is not yet written
    acking,     \* id enqueued whose Disposition is not yet written; 0: none
    delivered,  \* history: rows written to a client
    lost,       \* history: rows removed from the table that no client got
    acked,      \* history: ids whose sender was told they are enqueued
    issued      \* history: keys each namespace has had

storeVars == <<rows, nextId>>
keyVars   == <<key, puts, issued>>
sessVars  == <<host, sas, links>>
history   == <<delivered, lost, acked>>
vars == <<rows, nextId, key, puts, now, pc, host, sas, links, cur, hand,
          acking, delivered, lost, acked, issued>>

Time  == 0 .. MaxTime
Token == [signer : Key, exp : 0 .. (MaxTime + TokenTTL)]

\* What a connection string says, and what an Open frame carries: the first
\* label of the hostname, a connection string, the SharedAccessSignature and the
\* sas-token properties.
ConnectionString == [endpoint : Ns \cup {Listener, NoNs}, key : Key \cup {NoKey},
                     sig : Token \cup {NoToken}]
OpenFrame == [host : Ns \cup {Listener, NoNs}, cs : ConnectionString,
              tok : Token \cup {NoToken}, lite : Token \cup {NoToken}]

ASSUME OpenInputs == OpenInput \subseteq OpenFrame /\ LabNs \subseteq Ns

\* A row of servicebus_messages; the body is the message's identity, its id.
Row == [id : 1 .. MaxId, ns : Ns, queue : Queue,
        session : Session \cup {NoSession}, dead : BOOLEAN]

\* A link of a session.  serverSends is ~role of the code's struct: the peer
\* receives.  signer, quota and sent are history: the key whose signature let
\* the link attach, the credit of its last Flow, the transfers written since.
Link == [ns : Ns, queue : Queue, serverSends : BOOLEAN, credit : 0 .. MaxCredit,
         signer : Key, quota : 0 .. MaxCredit, sent : Nat]

\* A PUT namespace that has chosen a key.
NsPut == [ns : Ns, key : Key]

\* The values that stand for "none" are not rows, tokens, links or requests.
ASSUME AbsentRecords ==
    NoRow \notin Row /\ NoToken \notin Token /\ NoLink \notin Link /\ Idle \notin NsPut

-----------------------------------------------------------------------------
(* SAS tokens.                                                             *)

\* A token is the key that signed it and its expiry; sr is not compared
\* because attach passes an empty resource URI.
VerifyServiceBusSAS(want, tok, t) == t < tok.exp /\ tok.signer = want

SignServiceBusSAS(k, exp) == [signer |-> k, exp |-> exp]

-----------------------------------------------------------------------------
(* The store.                                                              *)

\* ORDER BY id ASC LIMIT 1 over a set of candidate rows.
Oldest(r, S) == r \in S /\ \A o \in S : r.id <= o.id

SBRows(n, q) == {r \in rows : r.ns = n /\ r.queue = q}

\* The filter of DequeueSBWithMeta: no session id means any session.
MetaRows(n, q, s, d) ==
    {r \in SBRows(n, q) : r.dead = d /\ (s # NoSession => r.session = s)}

\* Mutant of EnqueueSBWithMeta: without AUTOINCREMENT the id of a deleted last
\* row is used again.
EnqueueReusesId(n, q, s, d) ==
    /\ nextId <= MaxId
    /\ \E i \in 1 .. MaxId :
          /\ \A r \in rows : r.id < i
          /\ i = 1 \/ \E r \in rows : r.id = i - 1
          /\ rows' = rows \cup {[id |-> i, ns |-> n, queue |-> q,
                                 session |-> s, dead |-> d]}
    /\ nextId' = nextId + 1

\* The INSERT shared by EnqueueSB (no session, not dead-lettered) and
\* EnqueueSBWithMeta.
EnqueueSBWithMeta(n, q, s, d) ==
    /\ nextId <= MaxId
    /\ rows' = rows \cup {[id |-> nextId, ns |-> n, queue |-> q,
                           session |-> s, dead |-> d]}
    /\ nextId' = nextId + 1

EnqueueSB(n, q) == EnqueueSBWithMeta(n, q, NoSession, FALSE)

DequeueSB(n, q, r) ==
    /\ Oldest(r, SBRows(n, q))
    /\ rows' = rows \ {r}
    /\ UNCHANGED nextId

\* Mutant of DequeueSBWithMeta: DELETE by namespace and queue, not by id.
PurgeSB(n, q, s, d, r) ==
    /\ Oldest(r, MetaRows(n, q, s, d))
    /\ rows' = rows \ SBRows(n, q)
    /\ UNCHANGED nextId

DequeueSBWithMeta(n, q, s, d, r) ==
    /\ Oldest(r, MetaRows(n, q, s, d))
    /\ rows' = rows \ {r}
    /\ UNCHANGED nextId

-----------------------------------------------------------------------------
(* PUT namespace: the key is read or generated by one statement and        *)
(* upserted by a later one.                                                *)

\* A generated key: 64 random bytes, so different from every other key.
Fresh(k) == /\ \A n \in Ns : k \notin issued[n]
            /\ \A p \in Req : puts[p] # Idle => puts[p].key # k

PutNamespaceRead(p, n) ==
    /\ puts[p] = Idle
    /\ \E k \in Key :
          /\ IF key[n] # NoKey THEN k = key[n] ELSE Fresh(k)
          /\ puts' = [puts EXCEPT ![p] = [ns |-> n, key |-> k]]
    /\ UNCHANGED <<storeVars, key, issued, now, pc, sessVars, cur, hand, acking, history>>

PutNamespaceWrite(p) ==
    /\ puts[p] # Idle
    /\ key' = [key EXCEPT ![puts[p].ns] = puts[p].key]
    /\ issued' = [issued EXCEPT ![puts[p].ns] = @ \cup {puts[p].key}]
    /\ puts' = [puts EXCEPT ![p] = Idle]
    /\ UNCHANGED <<storeVars, now, pc, sessVars, cur, hand, acking, history>>

-----------------------------------------------------------------------------
(* The HTTP message routes.  The statement commits before the response is  *)
(* written, and the response may be lost on the way.                       *)

PostMessage(n, q, s, d, told) ==
    /\ key[n] # NoKey
    /\ EnqueueSBWithMeta(n, q, s, d)
    /\ acked' = IF told THEN acked \cup {nextId} ELSE acked
    /\ UNCHANGED <<keyVars, now, pc, sessVars, cur, hand, acking, delivered, lost>>

GetMessage(n, q, s, d, received) ==
    /\ key[n] # NoKey
    /\ \E r \in rows :
          /\ DequeueSBWithMeta(n, q, s, d, r)
          /\ delivered' = IF received THEN delivered \cup {r} ELSE delivered
          /\ lost' = IF received THEN lost ELSE lost \cup {r}
    /\ UNCHANGED <<keyVars, now, pc, sessVars, cur, hand, acking, acked>>

-----------------------------------------------------------------------------
(* AMQP connections.                                                       *)

EmptyLinks == [h \in Handle |-> NoLink]

\* Accept and the protocol header exchange: an empty session.
Accept(c) ==
    /\ pc[c] = "down"
    /\ pc' = [pc EXCEPT ![c] = "frame"]
    /\ UNCHANGED <<storeVars, keyVars, now, sessVars, cur, hand, acking, history>>

\* The end of a connection, whatever its goroutine was doing: the client hung
\* up, a read or write failed or passed its deadline, or a frame was refused.
\* The session is dropped; a row in hand was already deleted from the table.
TearDown(S) ==
    /\ pc'     = [c \in Conn |-> IF c \in S THEN "down" ELSE pc[c]]
    /\ host'   = [c \in Conn |-> IF c \in S THEN NoNs ELSE host[c]]
    /\ sas'    = [c \in Conn |-> IF c \in S THEN NoToken ELSE sas[c]]
    /\ links'  = [c \in Conn |-> IF c \in S THEN EmptyLinks ELSE links[c]]
    /\ cur'    = [c \in Conn |-> IF c \in S THEN NoHandle ELSE cur[c]]
    /\ hand'   = [c \in Conn |-> IF c \in S THEN NoRow ELSE hand[c]]
    /\ acking' = [c \in Conn |-> IF c \in S THEN 0 ELSE acking[c]]
    /\ lost'   = lost \cup {r \in Row : \E c \in S : hand[c] = r}

Disconnect(c) ==
    /\ pc[c] # "down"
    /\ TearDown({c})
    /\ UNCHANGED <<storeVars, keyVars, now, delivered, acked>>

\* The server process dies and restarts: sessions and requests are gone, the
\* committed rows stay.
Crash ==
    /\ \/ \E c \in Conn : pc[c] # "down"
       \/ \E p \in Req : puts[p] # Idle
    /\ TearDown(Conn)
    /\ puts' = [p \in Req |-> Idle]
    /\ UNCHANGED <<storeVars, key, issued, now, delivered, acked>>

\* Session token after applyConnectionString: an explicit signature replaces
\* it; key material mints one only when the session has none.
ConnectionStringToken(c, n, cs) ==
    LET tok == IF cs.sig # NoToken THEN cs.sig ELSE sas[c]
    IN  IF tok = NoToken /\ cs.key # NoKey /\ n # NoNs
        THEN SignServiceBusSAS(cs.key, now + TokenTTL)
        ELSE tok

\* Open: h is the first label of the hostname, cs the connection string, tok
\* the SharedAccessSignature property and lite the sas-token one.
Open(c, h, cs, tok, lite) ==
    LET n    == IF cs.endpoint # NoNs THEN cs.endpoint ELSE h
        sas1 == ConnectionStringToken(c, n, cs)
        sas2 == IF tok # NoToken THEN tok ELSE sas1
    IN  /\ pc[c] = "frame"
        /\ host' = [host EXCEPT ![c] = n]
        /\ sas' = [sas EXCEPT ![c] = IF sas2 = NoToken THEN lite ELSE sas2]
        /\ UNCHANGED <<storeVars, keyVars, now, pc, links, cur, hand, acking, history>>

\* The string GET .../connectionString hands out: its endpoint is the listen
\* address, so the namespace read from it is the address' first label.
LabConnectionString(n) == [endpoint |-> Listener, key |-> key[n], sig |-> NoToken]

\* A client fetches the string and opens with it, at the address it names.
OpenLab(c, n) ==
    /\ key[n] # NoKey
    /\ Open(c, Listener, LabConnectionString(n), NoToken, NoToken)

\* The namespace of an attach: the prefix of the address, else the session's.
AttachNs(c, prefix) == IF prefix # NoNs THEN prefix ELSE host[c]

\* Mutant of AttachAllowed: the token is checked against the session's
\* namespace, not the one attached to.
AttachAllowedBySession(c, n) ==
    /\ n \in Ns /\ key[n] # NoKey
    /\ sas[c] # NoToken
    /\ host[c] \in Ns /\ VerifyServiceBusSAS(key[host[c]], sas[c], now)

AttachAllowed(c, n) ==
    /\ n \in Ns
    /\ key[n] # NoKey
    /\ sas[c] # NoToken
    /\ VerifyServiceBusSAS(key[n], sas[c], now)

\* A handle in use is replaced.
Attach(c, h, prefix, q, peerReceives) ==
    LET n == AttachNs(c, prefix) IN
    /\ pc[c] = "frame"
    /\ AttachAllowed(c, n)
    /\ links' = [links EXCEPT ![c][h] =
                   [ns |-> n, queue |-> q, serverSends |-> peerReceives, credit |-> 0,
                    signer |-> sas[c].signer, quota |-> 0, sent |-> 0]]
    /\ UNCHANGED <<storeVars, keyVars, now, pc, host, sas, cur, hand, acking, history>>

\* A refused attach returns an error, which closes the connection.
AttachRefused(c, prefix) ==
    /\ pc[c] = "frame"
    /\ ~ AttachAllowed(c, AttachNs(c, prefix))
    /\ TearDown({c})
    /\ UNCHANGED <<storeVars, keyVars, now, delivered, acked>>

\* Flow replaces the credit and, on a link the peer receives from, starts
\* deliver.  A Flow, Transfer or Detach on an unknown handle changes nothing.
Flow(c, h, credit) ==
    LET l == links[c][h] IN
    /\ pc[c] = "frame"
    /\ l # NoLink
    /\ links' = [links EXCEPT ![c][h] = [l EXCEPT !.credit = credit, !.quota = credit, !.sent = 0]]
    /\ IF l.serverSends /\ credit > 0
       THEN /\ pc' = [pc EXCEPT ![c] = "deliver"]
            /\ cur' = [cur EXCEPT ![c] = h]
       ELSE UNCHANGED <<pc, cur>>
    /\ UNCHANGED <<storeVars, keyVars, now, host, sas, hand, acking, history>>

\* One round of deliver's loop: DequeueSB commits ...
DeliverTake(c) ==
    LET l == links[c][cur[c]] IN
    /\ pc[c] = "deliver"
    /\ l.credit > 0
    /\ \E r \in rows : /\ DequeueSB(l.ns, l.queue, r)
                       /\ hand' = [hand EXCEPT ![c] = r]
    /\ pc' = [pc EXCEPT ![c] = "write"]
    /\ UNCHANGED <<keyVars, now, sessVars, cur, acking, history>>

\* Mutant of WriteTransfer: the loop runs until the queue is empty.
WriteTransferKeepsCredit(c) ==
    LET h == cur[c]  l == links[c][h] IN
    /\ pc[c] = "write"
    /\ delivered' = delivered \cup {hand[c]}
    /\ hand' = [hand EXCEPT ![c] = NoRow]
    /\ links' = [links EXCEPT ![c][h] = [l EXCEPT !.sent = l.sent + 1]]
    /\ pc' = [pc EXCEPT ![c] = "deliver"]
    /\ UNCHANGED <<storeVars, keyVars, now, host, sas, cur, acking, lost, acked>>

\* ... then the Transfer is written, and only then the credit is used.
WriteTransfer(c) ==
    LET h == cur[c]  l == links[c][h] IN
    /\ pc[c] = "write"
    /\ delivered' = delivered \cup {hand[c]}
    /\ hand' = [hand EXCEPT ![c] = NoRow]
    /\ links' = [links EXCEPT ![c][h] = [l EXCEPT !.credit = l.credit - 1, !.sent = l.sent + 1]]
    /\ pc' = [pc EXCEPT ![c] = "deliver"]
    /\ UNCHANGED <<storeVars, keyVars, now, host, sas, cur, acking, lost, acked>>

\* The loop ends: no credit left, or nothing to dequeue.
DeliverDone(c) ==
    LET l == links[c][cur[c]] IN
    /\ pc[c] = "deliver"
    /\ l.credit = 0 \/ SBRows(l.ns, l.queue) = {}
    /\ pc' = [pc EXCEPT ![c] = "frame"]
    /\ cur' = [cur EXCEPT ![c] = NoHandle]
    /\ UNCHANGED <<storeVars, keyVars, now, sessVars, hand, acking, history>>

\* Transfer enqueues on a link of either role, then writes the disposition.
Transfer(c, h) ==
    LET l == links[c][h] IN
    /\ pc[c] = "frame"
    /\ l # NoLink
    /\ EnqueueSB(l.ns, l.queue)
    /\ acking' = [acking EXCEPT ![c] = nextId]
    /\ pc' = [pc EXCEPT ![c] = "ack"]
    /\ UNCHANGED <<keyVars, now, sessVars, cur, hand, history>>

WriteDisposition(c) ==
    /\ pc[c] = "ack"
    /\ acked' = acked \cup {acking[c]}
    /\ acking' = [acking EXCEPT ![c] = 0]
    /\ pc' = [pc EXCEPT ![c] = "frame"]
    /\ UNCHANGED <<storeVars, keyVars, now, sessVars, cur, hand, delivered, lost>>

Detach(c, h) ==
    /\ pc[c] = "frame"
    /\ links[c][h] # NoLink
    /\ links' = [links EXCEPT ![c][h] = NoLink]
    /\ UNCHANGED <<storeVars, keyVars, now, pc, host, sas, cur, hand, acking, history>>

Tick ==
    /\ now < MaxTime
    /\ now' = now + 1
    /\ UNCHANGED <<storeVars, keyVars, pc, sessVars, cur, hand, acking, history>>

-----------------------------------------------------------------------------
(* The specification.                                                      *)

Init ==
    /\ rows = {} /\ nextId = 1
    /\ key = [n \in Ns |-> NoKey]
    /\ puts = [p \in Req |-> Idle]
    /\ issued = [n \in Ns |-> {}]
    /\ now = 0
    /\ pc = [c \in Conn |-> "down"]
    /\ host = [c \in Conn |-> NoNs]
    /\ sas = [c \in Conn |-> NoToken]
    /\ links = [c \in Conn |-> EmptyLinks]
    /\ cur = [c \in Conn |-> NoHandle]
    /\ hand = [c \in Conn |-> NoRow]
    /\ acking = [c \in Conn |-> 0]
    /\ delivered = {} /\ lost = {} /\ acked = {}

OpenAny(c) ==
    \/ \E o \in OpenInput : Open(c, o.host, o.cs, o.tok, o.lite)
    \/ \E n \in LabNs : OpenLab(c, n)

AttachAny(c) ==
    \E prefix \in Ns \cup {NoNs} :
       \/ \E h \in Handle, q \in Queue, peerReceives \in BOOLEAN :
             Attach(c, h, prefix, q, peerReceives)
       \/ AttachRefused(c, prefix)

Http ==
    \E n \in Ns, q \in Queue, s \in Session \cup {NoSession}, d, ok \in BOOLEAN :
       PostMessage(n, q, s, d, ok) \/ GetMessage(n, q, s, d, ok)

PutNamespace == \E p \in Req : (\E n \in Ns : PutNamespaceRead(p, n)) \/ PutNamespaceWrite(p)

\* deliver, in the connection's goroutine.
Deliver(c) == DeliverTake(c) \/ WriteTransfer(c) \/ DeliverDone(c)

Frame(c) ==
    \/ OpenAny(c)
    \/ AttachAny(c)
    \/ \E h \in Handle : \/ \E credit \in 0 .. MaxCredit : Flow(c, h, credit)
                         \/ Transfer(c, h)
                         \/ Detach(c, h)

Next ==
    \/ PutNamespace
    \/ Http
    \/ \E c \in Conn : Accept(c) \/ Frame(c) \/ Deliver(c) \/ WriteDisposition(c) \/ Disconnect(c)
    \/ Crash
    \/ Tick

Spec == Init /\ [][Next]_vars

-----------------------------------------------------------------------------
(* Properties.                                                             *)

\* Every variable has its type.
TypeOK ==
    /\ rows \subseteq Row /\ nextId \in 1 .. (MaxId + 1)
    /\ key \in [Ns -> Key \cup {NoKey}]
    /\ puts \in [Req -> NsPut \cup {Idle}]
    /\ issued \in [Ns -> SUBSET Key]
    /\ now \in Time
    /\ pc \in [Conn -> {"down", "frame", "deliver", "write", "ack"}]
    /\ host \in [Conn -> Ns \cup {Listener, NoNs}]
    /\ sas \in [Conn -> Token \cup {NoToken}]
    /\ links \in [Conn -> [Handle -> Link \cup {NoLink}]]
    /\ cur \in [Conn -> Handle \cup {NoHandle}]
    /\ hand \in [Conn -> Row \cup {NoRow}]
    /\ acking \in [Conn -> 0 .. MaxId]
    /\ delivered \subseteq Row /\ lost \subseteq Row /\ acked \subseteq 1 .. MaxId

Held == {r \in Row : \E c \in Conn : hand[c] = r}

\* A message is in one place: waiting in the table, in the hand of one
\* connection, given to one client, or lost.  So no interleaving of the two
\* front ends, and no crash, delivers a message twice (DequeueSB, DequeueSBWithMeta).
AtMostOnce ==
    /\ rows \cap (Held \cup delivered \cup lost) = {}
    /\ Held \cap (delivered \cup lost) = {}
    /\ delivered \cap lost = {}
    /\ \A c, d \in Conn : c # d /\ hand[c] # NoRow => hand[c] # hand[d]

\* A sender that got its Disposition or its 201 can rely on the message: it is
\* in the table or a receive removed it (EnqueueSB commits before the answer).
AckedIsKept ==
    \A i \in acked : \E r \in rows \cup Held \cup delivered \cup lost : r.id = i

Lane(r) == <<r.ns, r.queue, r.session, r.dead>>

\* Messages of one queue, session and dead-letter flag leave in the order they
\* came, whichever front end and connection takes them (ORDER BY id ASC).
NoOvertaking ==
    \A t \in Held \cup delivered \cup lost, r \in rows : Lane(t) = Lane(r) => t.id < r.id

\* deliver takes no message out of the queue that the last Flow of the link did
\* not ask for, the one in its hand included: a message is taken before the credit
\* is used, and one taken too many would be gone for every other receiver.  So the
\* loop also ends while senders keep refilling the queue.
CreditRespected ==
    \A c \in Conn, h \in Handle :
       links[c][h] # NoLink =>
          links[c][h].sent + (IF pc[c] = "write" /\ cur[c] = h THEN 1 ELSE 0) <= links[c][h].quota

\* A link moves messages of a namespace only after a SAS token signed with a
\* key of that same namespace was presented, although the session's namespace,
\* its token and the namespace of the address come from different frames.
NamespaceIsolation ==
    /\ \A c \in Conn, h \in Handle :
          links[c][h] # NoLink => links[c][h].signer \in issued[links[c][h].ns]
    /\ \A m, n \in Ns : m # n => issued[m] \cap issued[n] = {}

-----------------------------------------------------------------------------
(* The abstract mailbox.                                                   *)

MQ == INSTANCE MessageQueue WITH
         Message <- Row, queued <- rows, held <- Held

\* The two front ends and the store implement an at-most-once mailbox with
\* ordered lanes, whatever connections and the process do.
ImplementsMessageQueue == MQ!Spec

=============================================================================
