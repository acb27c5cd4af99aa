-------------------------- MODULE ServiceBusTopics --------------------------
(***************************************************************************)
(* One Service Bus topic (internal/services/servicebus/topics.go,          *)
(* EnqueueSBTopic and its neighbours in internal/store/servicebus.go).     *)
(*                                                                         *)
(* A send lists the subscriptions and then inserts one copy at a time,     *)
(* each in a commit of its own; it may fail or be cut off between two.     *)
(***************************************************************************)
EXTENDS Naturals, Sequences, FiniteSets

CONSTANTS
    Subscription,  \* names 1, 2 ... in the order of the listing
    TReq, TIdle,
    MaxSend        \* bound: sends

VARIABLES
    topic,         \* servicebus_topics: the topic was created
    subs,          \* servicebus_subscriptions
    waiting,       \* servicebus_topic_messages, by subscription
    treq,          \* sends between two statements
    sends,         \* history: for each send what came of it
    received       \* history: what each subscription handed out, in order

pvars == <<topic, subs, waiting, treq, sends, received>>

\* end: how the send ended; before: subscriptions when it came; after: sends
\* already answered when it came; to: the one subscription named, or 0.
Send == [end : {"open", "answered", "failed"}, before : SUBSET Subscription,
         after : SUBSET (1 .. MaxSend), to : Subscription \cup {0}]

TRequest == [send : 1 .. MaxSend, listed : BOOLEAN, todo : SUBSET Subscription]

ASSUME TopicAssumption ==
    Subscription \subseteq Nat /\ MaxSend \in Nat /\ TIdle \notin TRequest

-----------------------------------------------------------------------------
PutTopic ==
    /\ topic' = TRUE
    /\ UNCHANGED <<subs, waiting, treq, sends, received>>

\* Nothing asks whether the topic was created.
PutSubscription(s) ==
    /\ subs' = subs \cup {s}
    /\ UNCHANGED <<topic, waiting, treq, sends, received>>

Answered == {i \in 1 .. Len(sends) : sends[i].end = "answered"}

\* postTopicMessage, to every subscription (to = 0) or to one, which need not
\* exist.
PostTopicMessage(r, to) ==
    /\ treq[r] = TIdle /\ Len(sends) < MaxSend
    /\ sends' = Append(sends, [end |-> "open", before |-> subs, after |-> Answered, to |-> to])
    /\ treq' = [treq EXCEPT ![r] = [send |-> Len(sends) + 1, listed |-> to # 0,
                                    todo |-> {to} \ {0}]]
    /\ UNCHANGED <<topic, subs, waiting, received>>

\* ListServiceBusSubscriptions.
ListSubscriptions(r) ==
    /\ treq[r] # TIdle /\ ~treq[r].listed
    /\ treq' = [treq EXCEPT ![r].listed = TRUE, ![r].todo = subs]
    /\ UNCHANGED <<topic, subs, waiting, sends, received>>

\* EnqueueSBTopic: one INSERT of its loop.
EnqueueSBTopic(r) ==
    LET s == CHOOSE x \in treq[r].todo : \A y \in treq[r].todo : x <= y IN
    /\ treq[r] # TIdle /\ treq[r].listed /\ treq[r].todo # {}
    /\ waiting' = [waiting EXCEPT ![s] = Append(@, treq[r].send)]
    /\ treq' = [treq EXCEPT ![r].todo = @ \ {s}]
    /\ UNCHANGED <<topic, subs, sends, received>>

\* Mutant of AnswerSend: the 201 does not wait for the loop.
AnswerSendEarly(r) ==
    /\ treq[r] # TIdle /\ treq[r].listed
    /\ sends' = [sends EXCEPT ![treq[r].send].end = "answered"]
    /\ treq' = [treq EXCEPT ![r] = TIdle]
    /\ UNCHANGED <<topic, subs, waiting, received>>

\* The loop is through: 201.
AnswerSend(r) ==
    /\ treq[r] # TIdle /\ treq[r].listed /\ treq[r].todo = {}
    /\ sends' = [sends EXCEPT ![treq[r].send].end = "answered"]
    /\ treq' = [treq EXCEPT ![r] = TIdle]
    /\ UNCHANGED <<topic, subs, waiting, received>>

\* A statement fails: 500, and the copies already made stay.
FailSend(r) ==
    /\ treq[r] # TIdle /\ (~treq[r].listed \/ treq[r].todo # {})
    /\ sends' = [sends EXCEPT ![treq[r].send].end = "failed"]
    /\ treq' = [treq EXCEPT ![r] = TIdle]
    /\ UNCHANGED <<topic, subs, waiting, received>>

\* DequeueSBTopic, one transaction: the oldest copy is deleted and returned.
DequeueSBTopic(s) ==
    /\ waiting[s] # <<>>
    /\ received' = [received EXCEPT ![s] = Append(@, Head(waiting[s]))]
    /\ waiting' = [waiting EXCEPT ![s] = Tail(@)]
    /\ UNCHANGED <<topic, subs, treq, sends>>

PCrash ==
    /\ \E r \in TReq : treq[r] # TIdle
    /\ sends' = [i \in 1 .. Len(sends) |->
                   IF sends[i].end = "open" THEN [sends[i] EXCEPT !.end = "failed"] ELSE sends[i]]
    /\ treq' = [r \in TReq |-> TIdle]
    /\ UNCHANGED <<topic, subs, waiting, received>>

-----------------------------------------------------------------------------
PInit ==
    /\ topic = FALSE /\ subs = {} /\ sends = <<>>
    /\ waiting = [s \in Subscription |-> <<>>]
    /\ received = [s \in Subscription |-> <<>>]
    /\ treq = [r \in TReq |-> TIdle]

PNext ==
    \/ PutTopic
    \/ \E s \in Subscription : PutSubscription(s) \/ DequeueSBTopic(s)
    \/ \E r \in TReq :
          \/ \E to \in Subscription \cup {0} : PostTopicMessage(r, to)
          \/ ListSubscriptions(r) \/ EnqueueSBTopic(r) \/ AnswerSend(r) \/ FailSend(r)
    \/ PCrash

PSpec == PInit /\ [][PNext]_pvars

-----------------------------------------------------------------------------
(* Properties.                                                             *)

\* Every variable has its type.
PTypeOK ==
    /\ topic \in BOOLEAN /\ subs \subseteq Subscription
    /\ sends \in Seq(Send) /\ Len(sends) <= MaxSend
    /\ treq \in [TReq -> TRequest \cup {TIdle}]
    /\ waiting \in [Subscription -> Seq(1 .. MaxSend)]
    /\ received \in [Subscription -> Seq(1 .. MaxSend)]

\* All copies that a subscription was ever given, in order.
Given(s) == received[s] \o waiting[s]
Copies(s, i) == Cardinality({n \in 1 .. Len(Given(s)) : Given(s)[n] = i})

\* A send leaves at most one copy in a subscription, and an answered send left
\* one in every subscription that existed when it came; only a send that failed
\* or was cut off may have reached some and not others.
FanOutIsWhole ==
    \A i \in 1 .. Len(sends), s \in Subscription :
       /\ Copies(s, i) <= 1
       /\ sends[i].end = "answered" /\ (IF sends[i].to = 0 THEN s \in sends[i].before
                                                           ELSE s = sends[i].to)
          => Copies(s, i) = 1

\* In every subscription a send that came after another was answered comes after
\* it, also when yet other sends interleave their copies with both.
TopicInOrder ==
    \A s \in Subscription : \A m, n \in 1 .. Len(Given(s)) :
       Given(s)[m] \in sends[Given(s)[n]].after => m < n

\* An answered send is once in every subscription that it found, behind all that
\* was answered before it came.
TopicsInv == PTypeOK /\ FanOutIsWhole /\ TopicInOrder

=============================================================================
