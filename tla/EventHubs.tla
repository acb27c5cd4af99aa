----------------------------- MODULE EventHubs -----------------------------
(***************************************************************************)
(* One hub of the Event Hubs namespaces that share a name                  *)
(* (internal/services/eventhubs, internal/store/eventhubs.go).             *)
(*                                                                         *)
(* The data plane names a namespace without its resource group.  A request *)
(* lists the namespaces of that name, asks for each in turn whether the    *)
(* caller may act on its group, and uses the answer in a later statement.  *)
(***************************************************************************)
EXTENDS Naturals, Sequences, FiniteSets

CONSTANTS
    HGroup,      \* resource groups 1, 2 ... in the order of the listing
    Partition,   \* partition ids; "0" is the default
    Caller, HubRoot,
    HubRole,     \* assignments that may be made: <<caller, action, group>>
    HReq, HIdle,
    MaxEvent     \* bound: events

VARIABLES
    hns,         \* eventhubs_namespaces: groups that hold one of the name
    hubs,        \* eventhubs_hubs and eventhubs_consumer_groups hold a row
    hroles,      \* role assignments in force
    live,        \* eventhubs_messages, by id
    captured,    \* eventhubs_captured, by id
    hreq,        \* requests between two statements
    taken        \* history: events handed to a receiver, in order

hvars == <<hns, hubs, hroles, live, captured, hreq, taken>>

Event == [id : 1 .. MaxEvent, ns : HGroup, part : Partition]

\* todo: listed namespaces not asked about yet; keys: those allowed so far; held
\* (history): groups the caller could act on at an instant of the request.
HRequest == [op : {"send", "receive", "capture"}, of : Caller,
             todo : SUBSET HGroup, keys : SUBSET HGroup, held : SUBSET HGroup]

ASSUME HubAssumption ==
    /\ HGroup \subseteq Nat /\ "0" \in Partition /\ MaxEvent \in Nat
    /\ HIdle \notin HRequest

\* The data action of each operation.
HubAction(op) == IF op = "send" THEN "send" ELSE "receive"

Evaluate(rs, p, action, g) == p = HubRoot \/ <<p, action, g>> \in rs
HeldBy(rs, p, op) == {g \in HGroup : Evaluate(rs, p, HubAction(op), g)}

\* AllowsEventHubs: root with any token, others by its audience; an opaque token has
\* none.
AllowsEventHubs(p, aud) == p = HubRoot \/ aud \in {"arm", "eventhubs", "none"}

-----------------------------------------------------------------------------
(* Management.                                                             *)

PutNamespace(g) ==
    /\ hns' = hns \cup {g}
    /\ UNCHANGED <<hubs, hroles, live, captured, hreq, taken>>

\* GetEventHubsNamespace then CreateEventHub or CreateEventHubConsumerGroup; no
\* route deletes a namespace, so nothing comes between the two.  No handler reads
\* these rows, so the model keeps only that there are some.
PutHub(g) ==
    /\ g \in hns
    /\ hubs' = TRUE
    /\ UNCHANGED <<hns, hroles, live, captured, hreq, taken>>

PutConsumerGroup(g) ==
    /\ g \in hns
    /\ hubs' = TRUE
    /\ UNCHANGED <<hns, hroles, live, captured, hreq, taken>>

ChangeHubRole(a) ==
    LET rs == IF a \in hroles THEN hroles \ {a} ELSE hroles \cup {a} IN
    /\ hroles' = rs
    /\ hreq' = [r \in HReq |->
                  IF hreq[r] = HIdle THEN HIdle
                  ELSE [hreq[r] EXCEPT !.held = @ \cup HeldBy(rs, hreq[r].of, hreq[r].op)]]
    /\ UNCHANGED <<hns, hubs, live, captured, taken>>

-----------------------------------------------------------------------------
(* Finding the namespace.                                                  *)

\* ListEventHubsNamespacesByName; none is 404 (403 for a capture).
ListNamespaces(r, p, op, aud) ==
    /\ hreq[r] = HIdle
    /\ AllowsEventHubs(p, aud)
    /\ hns # {}
    /\ hreq' = [hreq EXCEPT ![r] = [op |-> op, of |-> p, todo |-> hns, keys |-> {},
                                    held |-> HeldBy(hroles, p, op)]]
    /\ UNCHANGED <<hns, hubs, hroles, live, captured, taken>>

\* Mutant of EvaluateRow: one allowed group allows the namespaces of all.
EvaluateRowAll(r) ==
    LET g == CHOOSE x \in hreq[r].todo : \A y \in hreq[r].todo : x <= y IN
    /\ hreq[r] # HIdle /\ hreq[r].todo # {}
    /\ hreq' = [hreq EXCEPT ![r].todo = @ \ {g},
                  ![r].keys = IF Evaluate(hroles, hreq[r].of, HubAction(hreq[r].op), g)
                              THEN hns ELSE @]
    /\ UNCHANGED <<hns, hubs, hroles, live, captured, taken>>

\* One turn of the loop over the rows.  For root the code takes every row, which
\* is what asking Evaluate for each comes to.
EvaluateRow(r) ==
    LET g == CHOOSE x \in hreq[r].todo : \A y \in hreq[r].todo : x <= y IN
    /\ hreq[r] # HIdle /\ hreq[r].todo # {}
    /\ hreq' = [hreq EXCEPT ![r].todo = @ \ {g},
                  ![r].keys = IF Evaluate(hroles, hreq[r].of, HubAction(hreq[r].op), g)
                              THEN @ \cup {g} ELSE @]
    /\ UNCHANGED <<hns, hubs, hroles, live, captured, taken>>

Asked(r, op)  == hreq[r] # HIdle /\ hreq[r].todo = {} /\ hreq[r].op = op
HFinish(r)    == hreq' = [hreq EXCEPT ![r] = HIdle]
TheKey(r)     == CHOOSE g \in hreq[r].keys : TRUE

\* requireMessageDataPlane: no allowed namespace is 403, several are 404.
\* requireCaptureRead: no allowed namespace is 403.
Refuse(r) ==
    /\ \E op \in {"send", "receive", "capture"} :
          /\ Asked(r, op)
          /\ IF op \in {"send", "receive"} THEN Cardinality(hreq[r].keys) # 1
                                           ELSE hreq[r].keys = {}
    /\ HFinish(r)
    /\ UNCHANGED <<hns, hubs, hroles, live, captured, taken>>

-----------------------------------------------------------------------------
(* Events.                                                                 *)

\* EnqueueEventHub, one transaction: the event and its copy.  An AUTOINCREMENT id
\* is given to each; copies are never deleted, so theirs are 1, 2 ...
EnqueueEventHub(ns, part) ==
    LET e == [id |-> Len(captured) + 1, ns |-> ns, part |-> IF part = "" THEN "0" ELSE part] IN
    /\ live' = Append(live, e)
    /\ captured' = Append(captured, e)

PostMsg(r, part) ==
    /\ Asked(r, "send") /\ Cardinality(hreq[r].keys) = 1
    /\ Len(captured) < MaxEvent
    /\ EnqueueEventHub(TheKey(r), part)
    /\ HFinish(r)
    /\ UNCHANGED <<hns, hubs, hroles, taken>>

Candidates(ns, part) ==
    {i \in 1 .. Len(live) : live[i].ns = ns /\ part \in {"", live[i].part}}

\* Mutant of DequeueEventHub: the newest event.
DequeueEventHubNewest(ns, part) ==
    LET i == CHOOSE x \in Candidates(ns, part) : \A y \in Candidates(ns, part) : y <= x IN
    /\ taken' = Append(taken, live[i])
    /\ live' = [j \in 1 .. (Len(live) - 1) |-> live[IF j < i THEN j ELSE j + 1]]

\* DequeueEventHub, one transaction: the oldest event of the partition, or of
\* any partition when none is named, is deleted and returned.
DequeueEventHub(ns, part) ==
    LET i == CHOOSE x \in Candidates(ns, part) : \A y \in Candidates(ns, part) : x <= y IN
    /\ taken' = Append(taken, live[i])
    /\ live' = [j \in 1 .. (Len(live) - 1) |-> live[IF j < i THEN j ELSE j + 1]]

\* Nothing to receive is 204.
GetMsg(r, part) ==
    /\ Asked(r, "receive") /\ Cardinality(hreq[r].keys) = 1
    /\ IF Candidates(TheKey(r), part) = {} THEN UNCHANGED <<live, taken>>
                                           ELSE DequeueEventHub(TheKey(r), part)
    /\ HFinish(r)
    /\ UNCHANGED <<hns, hubs, hroles, captured>>

Elements(q) == {q[i] : i \in 1 .. Len(q)}

\* ListEventHubCapturedForNamespaces and GetEventHubCapturedForNamespaces; the
\* rows' order, that of their ids, is left out.
ListCaptured(keys)    == {e \in Elements(captured) : e.ns \in keys}
GetCaptured(keys, id) == {e \in ListCaptured(keys) : e.id = id}

CapturedEvents(r) ==
    /\ Asked(r, "capture") /\ hreq[r].keys # {}
    /\ HFinish(r)
    /\ UNCHANGED <<hns, hubs, hroles, live, captured, taken>>

GetCapturedEvent(r, id) ==
    /\ Asked(r, "capture") /\ hreq[r].keys # {}
    /\ HFinish(r)
    /\ UNCHANGED <<hns, hubs, hroles, live, captured, taken>>

HCrash ==
    /\ \E r \in HReq : hreq[r] # HIdle
    /\ hreq' = [r \in HReq |-> HIdle]
    /\ UNCHANGED <<hns, hubs, hroles, live, captured, taken>>

-----------------------------------------------------------------------------
HInit ==
    /\ hns = {} /\ hubs = FALSE /\ hroles = {}
    /\ live = <<>> /\ captured = <<>> /\ taken = <<>>
    /\ hreq = [r \in HReq |-> HIdle]

HNext ==
    \/ \E g \in HGroup : PutNamespace(g) \/ PutHub(g) \/ PutConsumerGroup(g)
    \/ \E a \in HubRole : ChangeHubRole(a)
    \/ \E r \in HReq :
          \/ \E p \in Caller, op \in {"send", "receive", "capture"},
                aud \in {"none", "eventhubs", "graph"} : ListNamespaces(r, p, op, aud)
          \/ EvaluateRow(r) \/ Refuse(r) \/ CapturedEvents(r)
          \/ \E part \in Partition \cup {""} : PostMsg(r, part) \/ GetMsg(r, part)
          \/ \E id \in 1 .. MaxEvent : GetCapturedEvent(r, id)
    \/ HCrash

HSpec == HInit /\ [][HNext]_hvars

-----------------------------------------------------------------------------
(* Properties.                                                             *)

\* Every variable has its type.
HTypeOK ==
    /\ hns \subseteq HGroup /\ hroles \subseteq HubRole
    /\ hubs \in BOOLEAN /\ (hubs => hns # {})
    /\ \A q \in {live, captured, taken} : q \in Seq(Event) /\ Len(q) <= MaxEvent
    /\ hreq \in [HReq -> HRequest \cup {HIdle}]

\* Every event is captured once and is either waiting or was handed to one
\* receiver, whatever requests overlap and wherever the process stopped; a
\* receiver never loses the copy ("does not dequeue live messages").
CaptureIsWhole ==
    /\ Elements(captured) = Elements(live) \cup Elements(taken)
    /\ Len(captured) = Len(live) + Len(taken)

\* Whoever receives from a partition, with or without naming it, the partition's
\* events are handed out in the order in which they were sent.
PartitionInOrder ==
    LET sent == taken \o live IN
    \A i, j \in 1 .. Len(sent) :
       /\ i < j /\ i <= Len(taken)
       /\ sent[i].ns = sent[j].ns /\ sent[i].part = sent[j].part
       => sent[i].id < sent[j].id

\* A request sends to, receives from and is shown the captures of only those
\* namespaces on whose group its caller held the data action at an instant of
\* the request: a right on one group is none on a namespace of the same name in
\* another ("receive on one resource group does not list events from a
\* same-named namespace in another RG", docs/services/eventhubs.md).
EventsStayInGroup ==
    [][\A r \in HReq :
          hreq[r] # HIdle /\ hreq'[r] = HIdle =>
          LET q == hreq[r]
              shown == IF q.op = "capture" /\ q.todo = {}
                       THEN ListCaptured(q.keys)
                            \cup UNION {GetCaptured(q.keys, id) : id \in 1 .. MaxEvent}
                       ELSE {}
          IN  \A e \in (Elements(captured') \ Elements(captured))
                        \cup (Elements(taken') \ Elements(taken)) \cup shown :
                 e.ns \in q.held]_hvars

\* An event is captured once, handed out at most once, and in partition order.
HubsInv == HTypeOK /\ CaptureIsWhole /\ PartitionInOrder

=============================================================================
