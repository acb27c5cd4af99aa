----------------------------- MODULE EventGrid -----------------------------
(***************************************************************************)
(* One Event Grid topic and its webhooks (internal/services/eventgrid,     *)
(* internal/store/eventgrid.go).                                           *)
(*                                                                         *)
(* The other side of a webhook is outside: it may answer, refuse, redirect *)
(* the post, be unreachable, or take an event and say nothing until the    *)
(* client gives up after five seconds.  A publish posts to one             *)
(* subscription after the other and writes its record last.                *)
(***************************************************************************)
EXTENDS Naturals, Sequences, FiniteSets

CONSTANTS
    Topic,        \* topic names
    GSub,         \* names of event subscriptions
    Url, NoUrl,   \* webhook urls; NoUrl: the body named none
    LabLocal,     \* urls on loopback with a port
    Allowlist,    \* urls in NOCTAXRIS_AZ_HTTP_ALLOWLIST
    Egress,       \* NOCTAXRIS_AZ_HTTP_EGRESS
    NoRow, GReq, GIdle,
    MaxPublish    \* bound: publications

VARIABLES
    private,      \* urls whose host now resolves to a private or metadata address
    topics,       \* eventgrid_topics
    esubs,        \* eventgrid_subscriptions: the destination, by topic and name
    log,          \* eventgrid_events
    greq,         \* requests between two steps
    echoed,       \* history: urls that answered a handshake with its code
    posts         \* history: posts of each publication: url and outcome

gvars == <<private, topics, esubs, log, greq, echoed, posts>>

\* A post ends with an answer, whatever its status, with a redirect that the
\* client refuses to follow, after the event was taken without an answer, or
\* before the event arrived.
Outcome == {"answer", "redirect", "silent", "unreachable"}
Post    == [url : Url, out : Outcome, private : BOOLEAN]

\* A "sub" request handshakes and then stores; a "pub" request posts and then
\* records.  dial: the subscription whose url passed Allowed in this turn of the
\* loop.  steady (history): urls that egress has allowed ever since the listing.
Destinations == [GSub -> Url \cup {NoUrl, NoRow}]
SubRequest ==
    [kind : {"sub"}, topic : Topic, name : GSub, url : Url \cup {NoUrl}, checked : BOOLEAN]
PubRequest ==
    [kind : {"pub"}, topic : Topic, pub : 1 .. MaxPublish, listed : BOOLEAN,
     todo : SUBSET GSub, dial : GSub \cup {NoRow}, dest : Destinations, delivered : BOOLEAN,
     steady : SUBSET Url]
GRequest == SubRequest \cup PubRequest

ASSUME GridAssumption ==
    /\ MaxPublish \in Nat /\ IsFiniteSet(GSub) /\ LabLocal \subseteq Url
    /\ NoUrl \notin Url /\ NoRow \notin Url \cup GSub /\ GIdle \notin GRequest

\* egressEnabled and exactAllowlisted: off unless asked for, url by url.
Enabled(u) == Egress /\ u \in Allowlist

\* isPrivateOrMetadataHost: what the host resolves to now.  A host that resolves
\* to nothing is not private; its dial fails.
IsPrivate(u) == u \in private

\* httpegress.Allowed: loopback with a port, or a listed url of a public host.
Allowed(u) == u \in LabLocal \/ (Enabled(u) /\ ~IsPrivate(u))

\* Mutant of PinnedDialContext: the dial resolves the name and connects.
PinnedDialContextNone(u) == Outcome

\* PinnedDialContext: the address is looked up again and must not be private.
PinnedDialContext(u) == IF IsPrivate(u) /\ u \notin LabLocal THEN {"unreachable"} ELSE Outcome

Publishing(r) == greq[r] # GIdle /\ greq[r].kind = "pub"

\* DNS: a name comes to resolve to another address.
Rebind(u) ==
    /\ private' = IF u \in private THEN private \ {u} ELSE private \cup {u}
    /\ greq' = [r \in GReq |-> IF Publishing(r) THEN [greq[r] EXCEPT !.steady = @ \ {u}]
                               ELSE greq[r]]
    /\ UNCHANGED <<topics, esubs, log, echoed, posts>>

-----------------------------------------------------------------------------
(* Management.                                                             *)

PutTopicRow(t) ==
    /\ topics' = topics \cup {t}
    /\ UNCHANGED <<private, esubs, log, greq, echoed, posts>>

\* putSub up to the handshake.  Nothing asks whether the topic exists.
PutSub(r, t, n, u) ==
    /\ greq[r] = GIdle
    /\ greq' = [greq EXCEPT ![r] = [kind |-> "sub", topic |-> t, name |-> n, url |-> u,
                                    checked |-> u = NoUrl]]
    /\ UNCHANGED <<private, topics, esubs, log, echoed, posts>>

\* handshakeWebhook: egress, dial, status and echoed code must all be right.
Handshake(r, ok) ==
    /\ greq[r] # GIdle /\ greq[r].kind = "sub" /\ ~greq[r].checked
    /\ LET u == greq[r].url  good == Allowed(u) /\ ok IN
       /\ echoed' = IF good THEN echoed \cup {u} ELSE echoed
       /\ greq' = IF good THEN [greq EXCEPT ![r].checked = TRUE] ELSE [greq EXCEPT ![r] = GIdle]
    /\ UNCHANGED <<private, topics, esubs, log, posts>>

\* UpsertEventGridSubscription.
StoreSub(r) ==
    /\ greq[r] # GIdle /\ greq[r].kind = "sub" /\ greq[r].checked
    /\ esubs' = [esubs EXCEPT ![greq[r].topic][greq[r].name] = greq[r].url]
    /\ greq' = [greq EXCEPT ![r] = GIdle]
    /\ UNCHANGED <<private, topics, log, echoed, posts>>

-----------------------------------------------------------------------------
(* Publishing.                                                             *)

\* publish: a topic that does not exist is 404.
Publish(r, t) ==
    /\ greq[r] = GIdle /\ Len(posts) < MaxPublish
    /\ t \in topics
    /\ posts' = Append(posts, <<>>)
    /\ greq' = [greq EXCEPT ![r] =
                  [kind |-> "pub", topic |-> t, pub |-> Len(posts) + 1, listed |-> FALSE,
                   todo |-> {}, dial |-> NoRow, dest |-> [n \in GSub |-> NoRow], delivered |-> FALSE,
                   steady |-> {}]]
    /\ UNCHANGED <<private, topics, esubs, log, echoed>>

\* ListEventGridSubscriptions; the loop passes over those without destination.
ListEventSubscriptions(r) ==
    /\ Publishing(r) /\ ~greq[r].listed
    /\ LET d == esubs[greq[r].topic] IN
       greq' = [greq EXCEPT ![r].listed = TRUE, ![r].dest = d,
                            ![r].todo = {n \in GSub : d[n] \in Url},
                            ![r].steady = {u \in Url : Allowed(u)}]
    /\ UNCHANGED <<private, topics, esubs, log, echoed, posts>>

\* The listing fails: 500.
ListFails(r) ==
    /\ Publishing(r) /\ ~greq[r].listed
    /\ greq' = [greq EXCEPT ![r] = GIdle]
    /\ UNCHANGED <<private, topics, esubs, log, echoed, posts>>

\* A turn of the loop: a destination that egress does not allow is passed over.
CheckEgress(r, n) ==
    /\ Publishing(r) /\ greq[r].listed /\ greq[r].dial = NoRow /\ n \in greq[r].todo
    /\ greq' = IF Allowed(greq[r].dest[n]) THEN [greq EXCEPT ![r].dial = n]
               ELSE [greq EXCEPT ![r].todo = @ \ {n}]
    /\ UNCHANGED <<private, topics, esubs, log, echoed, posts>>

Dialing(r) == Publishing(r) /\ greq[r].dial # NoRow
PostOf(r, out) ==
    LET u == greq[r].dest[greq[r].dial] IN [url |-> u, out |-> out, private |-> u \in private]

\* ... then the post ends: any answer counts as delivered, an error is passed over.
PostEnds(r, out) ==
    /\ Dialing(r) /\ out \in PinnedDialContext(greq[r].dest[greq[r].dial])
    /\ greq' = [greq EXCEPT ![r].todo = @ \ {greq[r].dial}, ![r].dial = NoRow,
                            ![r].delivered = @ \/ out = "answer"]
    /\ posts' = [posts EXCEPT ![greq[r].pub] = Append(@, PostOf(r, out))]
    /\ UNCHANGED <<private, topics, esubs, log, echoed>>

\* The other side, or the network, ends it.
PostEvent(r, out) == out # "silent" /\ PostEnds(r, out)

\* Mutant of PostTimeout: a client that waits as long as it takes.
PostTimeoutNever(r, out) == FALSE /\ PostEnds(r, out)

\* The client's Timeout ends it, connected or not.
PostTimeout(r, out) == out \in {"silent", "unreachable"} /\ PostEnds(r, out)

\* InsertEventGridEvent and the answer; an error of the insert is dropped.
RecordEvent(r, ok) ==
    /\ Publishing(r) /\ greq[r].listed /\ greq[r].todo = {}
    /\ log' = IF ok THEN Append(log, [pub |-> greq[r].pub, topic |-> greq[r].topic,
                                      delivered |-> greq[r].delivered]) ELSE log
    /\ greq' = [greq EXCEPT ![r] = GIdle]
    /\ UNCHANGED <<private, topics, esubs, echoed, posts>>

GCrash ==
    /\ \E r \in GReq : greq[r] # GIdle
    /\ greq' = [r \in GReq |-> GIdle]
    /\ UNCHANGED <<private, topics, esubs, log, echoed, posts>>

-----------------------------------------------------------------------------
GInit ==
    /\ private = {} /\ topics = {} /\ log = <<>> /\ echoed = {} /\ posts = <<>>
    /\ esubs = [t \in Topic |-> [n \in GSub |-> NoRow]]
    /\ greq = [r \in GReq |-> GIdle]

GNext ==
    \/ \E t \in Topic : PutTopicRow(t)
    \/ \E r \in GReq :
          \/ \E t \in Topic, n \in GSub, u \in Url \cup {NoUrl} : PutSub(r, t, n, u)
          \/ \E ok \in BOOLEAN : Handshake(r, ok) \/ RecordEvent(r, ok)
          \/ StoreSub(r)
          \/ \E t \in Topic : Publish(r, t)
          \/ ListEventSubscriptions(r) \/ ListFails(r)
          \/ \E n \in GSub : CheckEgress(r, n)
          \/ \E out \in Outcome : PostEvent(r, out) \/ PostTimeout(r, out)
    \/ \E u \in Url \ LabLocal : Rebind(u)
    \/ GCrash

GSpec == GInit /\ [][GNext]_gvars

\* What the process does by itself: the handler's statements and the client's timer.
\* A webhook owes nothing.
GProgress(r) ==
    \/ ListEventSubscriptions(r)
    \/ \E n \in GSub : CheckEgress(r, n)
    \/ \E out \in Outcome : PostTimeout(r, out)
    \/ \E ok \in BOOLEAN : RecordEvent(r, ok)

-----------------------------------------------------------------------------
(* Properties.                                                             *)

\* Every variable has its type.
GTypeOK ==
    /\ private \subseteq Url /\ topics \subseteq Topic /\ echoed \subseteq Url
    /\ esubs \in [Topic -> [GSub -> Url \cup {NoUrl, NoRow}]]
    /\ greq \in [GReq -> GRequest \cup {GIdle}]
    /\ posts \in Seq(Seq(Post)) /\ Len(posts) <= MaxPublish
    /\ log \in Seq([pub : 1 .. MaxPublish, topic : Topic, delivered : BOOLEAN])

\* No event goes to a url that has not first echoed a validation code.
PostedWasValidated ==
    \A i \in 1 .. Len(posts) : \A j \in 1 .. Len(posts[i]) : posts[i][j].url \in echoed

\* A record says delivered exactly when some webhook answered that publication:
\* one that took the event and was slow or redirected it is not counted, one that
\* refused it is.
RecordIsTrue ==
    \A i \in 1 .. Len(log) :
       log[i].delivered <=> \E j \in 1 .. Len(posts[log[i].pub]) :
                               posts[log[i].pub][j].out = "answer"

\* A name that passed Allowed and then came to resolve to a private address is
\* not reached: nothing but a loopback url of the lab takes an event there.
PrivateIsNotReached ==
    \A i \in 1 .. Len(posts) : \A j \in 1 .. Len(posts[i]) :
       posts[i][j].private /\ posts[i][j].url \notin LabLocal => posts[i][j].out = "unreachable"

\* When a publication is answered, a url that egress allowed from the listing on
\* was posted to once for each subscription that the listing gave it, however the
\* posts before it ended.
EveryoneIsPosted ==
    [][\A r \in GReq :
          /\ Publishing(r) /\ \E ok \in BOOLEAN : RecordEvent(r, ok)
          => \A u \in greq[r].steady :
                Cardinality({j \in 1 .. Len(posts[greq[r].pub]) : posts[greq[r].pub][j].url = u})
                   = Cardinality({n \in GSub : greq[r].dest[n] = u})]_gvars

\* A publication is answered though webhooks never answer, unless the process
\* stops: the client's Timeout ends every post.
PublishEnds == \A r \in GReq : Publishing(r) ~> ~Publishing(r)

\* An event is posted to urls that were validated, never to a private address that
\* a name has come to resolve to, and the record says whether one answered.
GridInv == GTypeOK /\ PostedWasValidated /\ PrivateIsNotReached /\ RecordIsTrue

\* What docs/services/eventgrid.md:14 says: "Delivery only when
\* NOCTAXRIS_AZ_HTTP_EGRESS=1 and destination is allowlisted".  httpegress.Allowed
\* lets a loopback url with a port through before it asks for either.
OnlyAllowlisted ==
    \A i \in 1 .. Len(posts) : \A j \in 1 .. Len(posts[i]) :
       posts[i][j].out = "answer" => Egress /\ posts[i][j].url \in Allowlist

\* A publication is answered, and by then everyone has been posted to, whatever the
\* webhooks did.
PublishCompletes == PublishEnds /\ EveryoneIsPosted

=============================================================================
