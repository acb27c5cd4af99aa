-------------------------- MODULE ServiceBusProofs --------------------------
(***************************************************************************)
(* Proofs about ServiceBus, for every value of its constants.              *)
(***************************************************************************)
EXTENDS ServiceBus, TLAPS

\* Type correctness: Init and every action keep each variable of ServiceBus in
\* its type.  A deliver step uses the fact that its link exists, so the proof
\* carries LinkInv with it.
LinkInv ==
    \A c \in Conn :
       /\ pc[c] \in {"deliver", "write"} => cur[c] \in Handle /\ links[c][cur[c]] # NoLink
       /\ pc[c] = "write" => hand[c] # NoRow /\ links[c][cur[c]].credit > 0
       /\ pc[c] # "write" => hand[c] = NoRow
       /\ pc[c] = "ack" => acking[c] \in 1 .. (nextId - 1)

CoreInv == TypeOK /\ LinkInv

USE Bounds, Absent, AbsentRecords, OpenInputs

LEMMA InitCore == Init => CoreInv
  BY DEF Init, CoreInv, TypeOK, LinkInv, EmptyLinks, Time

LEMMA TearDownCore ==
  ASSUME CoreInv, NEW S \in SUBSET Conn, TearDown(S)
  PROVE  /\ pc' \in [Conn -> {"down", "frame", "deliver", "write", "ack"}]
         /\ host' \in [Conn -> Ns \cup {Listener, NoNs}]
         /\ sas' \in [Conn -> Token \cup {NoToken}]
         /\ links' \in [Conn -> [Handle -> Link \cup {NoLink}]]
         /\ cur' \in [Conn -> Handle \cup {NoHandle}]
         /\ hand' \in [Conn -> Row \cup {NoRow}]
         /\ acking' \in [Conn -> 0 .. MaxId]
         /\ lost' \subseteq Row
         /\ nextId' = nextId => LinkInv'
  <1>1. EmptyLinks \in [Handle -> Link \cup {NoLink}]
    BY DEF EmptyLinks
  <1>2. nextId' = nextId => LinkInv'
    BY DEF CoreInv, TypeOK, LinkInv, TearDown
  <1> QED BY <1>1, <1>2 DEF CoreInv, TypeOK, TearDown

LEMMA PutCore ==
  ASSUME CoreInv, PutNamespace
  PROVE  CoreInv'
  <1>1. ASSUME NEW p \in Req, NEW n \in Ns, PutNamespaceRead(p, n) PROVE CoreInv'
    BY <1>1 DEF CoreInv, TypeOK, LinkInv, PutNamespaceRead, NsPut,
                storeVars, sessVars, history
  <1>2. ASSUME NEW p \in Req, PutNamespaceWrite(p) PROVE CoreInv'
    BY <1>2 DEF CoreInv, TypeOK, LinkInv, PutNamespaceWrite, NsPut,
                storeVars, sessVars, history
  <1> QED BY <1>1, <1>2 DEF PutNamespace

LEMMA HttpCore ==
  ASSUME CoreInv, Http
  PROVE  CoreInv'
  <1>1. ASSUME NEW n \in Ns, NEW q \in Queue, NEW s \in Session \cup {NoSession},
               NEW d \in BOOLEAN, NEW ok \in BOOLEAN, PostMessage(n, q, s, d, ok)
        PROVE  CoreInv'
    <2>1. [id |-> nextId, ns |-> n, queue |-> q, session |-> s, dead |-> d] \in Row
          /\ nextId' = nextId + 1 /\ nextId \in 1 .. MaxId
      BY <1>1 DEF PostMessage, EnqueueSBWithMeta, CoreInv, TypeOK, Row
    <2>2. acked' \subseteq 1 .. MaxId
      BY <1>1, <2>1 DEF PostMessage, CoreInv, TypeOK
    <2>3. rows' \subseteq Row /\ nextId' \in 1 .. (MaxId + 1)
      BY <1>1, <2>1 DEF PostMessage, EnqueueSBWithMeta, CoreInv, TypeOK
    <2>4. TypeOK'
      BY <1>1, <2>2, <2>3 DEF PostMessage, CoreInv, TypeOK, keyVars, sessVars
    <2>5. LinkInv'
      BY <1>1, <2>1 DEF PostMessage, CoreInv, TypeOK, LinkInv, sessVars
    <2> QED BY <2>4, <2>5 DEF CoreInv
  <1>2. ASSUME NEW n \in Ns, NEW q \in Queue, NEW s \in Session \cup {NoSession},
               NEW d \in BOOLEAN, NEW ok \in BOOLEAN, GetMessage(n, q, s, d, ok)
        PROVE  CoreInv'
    BY <1>2 DEF CoreInv, TypeOK, LinkInv, GetMessage, DequeueSBWithMeta, keyVars, sessVars
  <1> QED BY <1>1, <1>2 DEF Http

LEMMA OpenCore ==
  ASSUME CoreInv, NEW c \in Conn, NEW h \in Ns \cup {Listener, NoNs},
         NEW cs \in ConnectionString, NEW tok \in Token \cup {NoToken},
         NEW lite \in Token \cup {NoToken}, Open(c, h, cs, tok, lite)
  PROVE  CoreInv'
  <1> DEFINE n == IF cs.endpoint # NoNs THEN cs.endpoint ELSE h
  <1>1. n \in Ns \cup {Listener, NoNs}
    BY DEF ConnectionString
  <1>2. ConnectionStringToken(c, n, cs) \in Token \cup {NoToken}
    <2>1. ASSUME cs.key # NoKey PROVE SignServiceBusSAS(cs.key, now + TokenTTL) \in Token
      BY <2>1 DEF SignServiceBusSAS, Token, ConnectionString, CoreInv, TypeOK, Time
    <2> QED BY <2>1 DEF ConnectionStringToken, ConnectionString, CoreInv, TypeOK
  <1>3. sas' \in [Conn -> Token \cup {NoToken}] /\ host' \in [Conn -> Ns \cup {Listener, NoNs}]
    BY <1>1, <1>2 DEF Open, CoreInv, TypeOK
  <1> QED
    BY <1>3 DEF Open, CoreInv, TypeOK, LinkInv, storeVars, keyVars, history

LEMMA AttachCore ==
  ASSUME CoreInv, NEW c \in Conn, AttachAny(c)
  PROVE  CoreInv'
  <1>1. ASSUME NEW prefix \in Ns \cup {NoNs}, NEW h \in Handle, NEW q \in Queue,
               NEW peerReceives \in BOOLEAN, Attach(c, h, prefix, q, peerReceives)
        PROVE  CoreInv'
    <2> DEFINE n == AttachNs(c, prefix)
    <2> DEFINE l == [ns |-> n, queue |-> q, serverSends |-> peerReceives, credit |-> 0,
                     signer |-> sas[c].signer, quota |-> 0, sent |-> 0]
    <2>1. l \in Link
      BY <1>1 DEF Attach, AttachAllowed, CoreInv, TypeOK, Token, Link
    <2>2. links' = [links EXCEPT ![c][h] = l] /\ pc[c] = "frame"
      BY <1>1 DEF Attach
    <2>3. links' \in [Conn -> [Handle -> Link \cup {NoLink}]]
      BY <2>1, <2>2 DEF CoreInv, TypeOK
    <2>4. TypeOK'
      BY <1>1, <2>3 DEF Attach, CoreInv, TypeOK, storeVars, keyVars, history
    <2>5. LinkInv'
      BY <1>1, <2>2 DEF Attach, CoreInv, TypeOK, LinkInv, storeVars
    <2> QED BY <2>4, <2>5 DEF CoreInv
  <1>2. ASSUME NEW prefix \in Ns \cup {NoNs}, AttachRefused(c, prefix) PROVE CoreInv'
    BY <1>2, TearDownCore DEF AttachRefused, CoreInv, TypeOK, storeVars, keyVars
  <1> QED BY <1>1, <1>2 DEF AttachAny

LEMMA FlowCore ==
  ASSUME CoreInv, NEW c \in Conn, NEW h \in Handle, NEW credit \in 0 .. MaxCredit,
         Flow(c, h, credit)
  PROVE  CoreInv'
  <1> DEFINE l == [links[c][h] EXCEPT !.credit = credit, !.quota = credit, !.sent = 0]
  <1>1. links[c][h] \in Link
    BY DEF Flow, CoreInv, TypeOK
  <1>2. l \in Link
    BY <1>1 DEF Link
  <1>3. links' = [links EXCEPT ![c][h] = l] /\ pc[c] = "frame"
    BY DEF Flow
  <1>4. links' \in [Conn -> [Handle -> Link \cup {NoLink}]]
    BY <1>2, <1>3 DEF CoreInv, TypeOK
  <1>5. pc' \in [Conn -> {"down", "frame", "deliver", "write", "ack"}]
        /\ cur' \in [Conn -> Handle \cup {NoHandle}]
    <2>1. \/ pc' = [pc EXCEPT ![c] = "deliver"] /\ cur' = [cur EXCEPT ![c] = h]
          \/ pc' = pc /\ cur' = cur
      BY Zenon DEF Flow
    <2>2. pc \in [Conn -> {"down", "frame", "deliver", "write", "ack"}]
          /\ cur \in [Conn -> Handle \cup {NoHandle}]
      BY DEF CoreInv, TypeOK
    <2> QED BY <2>1, <2>2
  <1>6. TypeOK'
    BY <1>4, <1>5 DEF Flow, CoreInv, TypeOK, storeVars, keyVars, history
  <1>7. LinkInv'
    BY <1>2, <1>3 DEF Flow, CoreInv, TypeOK, LinkInv, storeVars
  <1> QED BY <1>6, <1>7 DEF CoreInv

LEMMA TransferCore ==
  ASSUME CoreInv, NEW c \in Conn, NEW h \in Handle, Transfer(c, h)
  PROVE  CoreInv'
  <1>1. links[c][h] \in Link
    BY DEF Transfer, CoreInv, TypeOK
  <1>2. [id |-> nextId, ns |-> links[c][h].ns, queue |-> links[c][h].queue,
         session |-> NoSession, dead |-> FALSE] \in Row /\ nextId \in 1 .. MaxId
    BY <1>1 DEF Transfer, EnqueueSB, EnqueueSBWithMeta, CoreInv, TypeOK, Row, Link
  <1>3. rows' \subseteq Row /\ nextId' = nextId + 1
    BY <1>2 DEF Transfer, EnqueueSB, EnqueueSBWithMeta, CoreInv, TypeOK
  <1>4. TypeOK'
    BY <1>2, <1>3 DEF Transfer, CoreInv, TypeOK, keyVars, sessVars, history
  <1>5. LinkInv'
    BY <1>2, <1>3 DEF Transfer, CoreInv, TypeOK, LinkInv, sessVars
  <1> QED BY <1>4, <1>5 DEF CoreInv

LEMMA DeliverCore ==
  ASSUME CoreInv, NEW c \in Conn, Deliver(c)
  PROVE  CoreInv'
  <1>1. CASE DeliverTake(c)
    BY <1>1 DEF DeliverTake, DequeueSB, CoreInv, TypeOK, LinkInv, keyVars, sessVars, history
  <1>2. CASE WriteTransfer(c)
    <2> DEFINE h == cur[c]
    <2> DEFINE l == [links[c][h] EXCEPT !.credit = links[c][h].credit - 1,
                                        !.sent = links[c][h].sent + 1]
    <2>1. h \in Handle /\ links[c][h] \in Link /\ links[c][h].credit > 0 /\ hand[c] \in Row
      BY <1>2 DEF WriteTransfer, CoreInv, TypeOK, LinkInv
    <2>2. l \in Link
      <3>1. links[c][h].credit - 1 \in 0 .. MaxCredit /\ links[c][h].sent + 1 \in Nat
        BY <2>1 DEF Link
      <3> QED BY <2>1, <3>1 DEF Link
    <2>3. links' = [links EXCEPT ![c][h] = l]
      BY <1>2 DEF WriteTransfer
    <2>4. links' \in [Conn -> [Handle -> Link \cup {NoLink}]]
      BY <2>1, <2>2, <2>3 DEF CoreInv, TypeOK
    <2>5. TypeOK'
      BY <1>2, <2>1, <2>4 DEF WriteTransfer, CoreInv, TypeOK, storeVars, keyVars
    <2>6. LinkInv'
      BY <1>2, <2>1, <2>2, <2>3 DEF WriteTransfer, CoreInv, TypeOK, LinkInv, storeVars
    <2> QED BY <2>5, <2>6 DEF CoreInv
  <1>3. CASE DeliverDone(c)
    BY <1>3 DEF DeliverDone, CoreInv, TypeOK, LinkInv, storeVars, keyVars, sessVars, history
  <1> QED BY <1>1, <1>2, <1>3 DEF Deliver

LEMMA StepCore == CoreInv /\ [Next]_vars => CoreInv'
  <1> SUFFICES ASSUME CoreInv, [Next]_vars PROVE CoreInv'
    OBVIOUS
  <1>1. CASE PutNamespace
    BY <1>1, PutCore
  <1>2. CASE Http
    BY <1>2, HttpCore
  <1>3. ASSUME NEW c \in Conn, Accept(c) PROVE CoreInv'
    BY <1>3 DEF Accept, CoreInv, TypeOK, LinkInv, storeVars, keyVars, sessVars, history
  <1>4. ASSUME NEW c \in Conn, Frame(c) PROVE CoreInv'
    <2>1. CASE OpenAny(c)
      <3>1. ASSUME NEW o \in OpenInput, Open(c, o.host, o.cs, o.tok, o.lite) PROVE CoreInv'
        <4>1. o \in OpenFrame
          OBVIOUS
        <4> QED BY <3>1, <4>1, OpenCore DEF OpenFrame
      <3>2. ASSUME NEW n \in Ns, OpenLab(c, n) PROVE CoreInv'
        <4>1. LabConnectionString(n) \in ConnectionString
          BY DEF LabConnectionString, ConnectionString, CoreInv, TypeOK
        <4> QED BY <3>2, <4>1, OpenCore DEF OpenLab
      <3> QED BY <2>1, <3>1, <3>2 DEF OpenAny
    <2>2. CASE AttachAny(c)
      BY <2>2, AttachCore
    <2>3. ASSUME NEW h \in Handle, Detach(c, h) PROVE CoreInv'
      BY <2>3 DEF Detach, CoreInv, TypeOK, LinkInv, storeVars, keyVars, history
    <2> QED BY <1>4, <2>1, <2>2, <2>3, FlowCore, TransferCore DEF Frame
  <1>5. ASSUME NEW c \in Conn, Deliver(c) PROVE CoreInv'
    BY <1>5, DeliverCore
  <1>6. ASSUME NEW c \in Conn, WriteDisposition(c) PROVE CoreInv'
    <2>1. acking[c] \in 1 .. MaxId
      BY <1>6 DEF WriteDisposition, CoreInv, TypeOK, LinkInv
    <2>2. TypeOK'
      <3>1. acking' \in [Conn -> 0 .. MaxId] /\ acked' \subseteq 1 .. MaxId
        <4>1. acking \in [Conn -> 0 .. MaxId] /\ acked \subseteq 1 .. MaxId
          BY DEF CoreInv, TypeOK
        <4>2. acking' = [acking EXCEPT ![c] = 0] /\ acked' = acked \cup {acking[c]}
          BY <1>6 DEF WriteDisposition
        <4>3. 0 \in 0 .. MaxId
          BY DEF Bounds
        <4> QED BY <2>1, <4>1, <4>2, <4>3
      <3>2. pc' \in [Conn -> {"down", "frame", "deliver", "write", "ack"}]
        BY <1>6 DEF WriteDisposition, CoreInv, TypeOK
      <3> QED
        BY <1>6, <3>1, <3>2 DEF WriteDisposition, CoreInv, TypeOK, storeVars, keyVars, sessVars
    <2>3. LinkInv'
      <3>1. UNCHANGED <<nextId, links, cur, hand>> /\ pc[c] = "ack"
            /\ pc' = [pc EXCEPT ![c] = "frame"] /\ acking' = [acking EXCEPT ![c] = 0]
        BY <1>6 DEF WriteDisposition, storeVars, sessVars
      <3> QED BY <3>1 DEF CoreInv, TypeOK, LinkInv
    <2> QED BY <2>2, <2>3 DEF CoreInv
  <1>7. ASSUME NEW c \in Conn, Disconnect(c) PROVE CoreInv'
    BY <1>7, TearDownCore DEF Disconnect, CoreInv, TypeOK, storeVars, keyVars
  <1>8. CASE Crash
    BY <1>8, TearDownCore DEF Crash, CoreInv, TypeOK, storeVars
  <1>9. CASE Tick
    BY <1>9 DEF Tick, CoreInv, TypeOK, LinkInv, Time, storeVars, keyVars, sessVars, history
  <1>10. CASE UNCHANGED vars
    BY <1>10 DEF vars, CoreInv, TypeOK, LinkInv
  <1> QED BY <1>1, <1>2, <1>3, <1>4, <1>5, <1>6, <1>7, <1>8, <1>9, <1>10 DEF Next

\* Type correctness of the Service Bus model in every reachable state.
THEOREM TypeCorrect == Spec => []TypeOK
  <1>1. Spec => []CoreInv
    BY InitCore, StepCore, PTL DEF Spec
  <1>2. CoreInv => TypeOK
    BY DEF CoreInv
  <1> QED BY <1>1, <1>2, PTL

-----------------------------------------------------------------------------
(* The ways a step moves messages.  Every action is one of them, and both   *)
(* the invariant and the refinement need nothing else about the actions.    *)

Everywhere == rows \cup Held \cup delivered \cup lost

OldestInLane(r) == r \in rows /\ \A o \in rows : Lane(o) = Lane(r) => r.id <= o.id

Quiet ==
    /\ UNCHANGED <<rows, nextId, hand, delivered, lost>>
    /\ acked' \subseteq acked \cup (1 .. (nextId - 1))

Insert ==
    /\ \E r \in Row : r.id = nextId /\ rows' = rows \cup {r}
    /\ nextId' = nextId + 1
    /\ acked' \subseteq acked \cup {nextId}
    /\ UNCHANGED <<hand, delivered, lost>>

TakeInHand ==
    /\ \E c \in Conn, r \in rows :
          /\ OldestInLane(r)
          /\ hand[c] = NoRow
          /\ rows' = rows \ {r}
          /\ hand' = [hand EXCEPT ![c] = r]
    /\ UNCHANGED <<nextId, delivered, lost, acked>>

HandOver ==
    /\ \E c \in Conn :
          /\ hand[c] \in Row
          /\ delivered' = delivered \cup {hand[c]}
          /\ hand' = [hand EXCEPT ![c] = NoRow]
    /\ UNCHANGED <<rows, nextId, lost, acked>>

Answer ==
    /\ \E r \in rows :
          /\ OldestInLane(r)
          /\ rows' = rows \ {r}
          /\ \/ delivered' = delivered \cup {r} /\ lost' = lost
             \/ lost' = lost \cup {r} /\ delivered' = delivered
    /\ UNCHANGED <<nextId, hand, acked>>

Drop ==
    /\ \E S \in SUBSET Conn :
          /\ hand' = [c \in Conn |-> IF c \in S THEN NoRow ELSE hand[c]]
          /\ lost' = lost \cup {r \in Row : \E c \in S : hand[c] = r}
    /\ UNCHANGED <<rows, nextId, delivered, acked>>

Move == Quiet \/ Insert \/ TakeInHand \/ HandOver \/ Answer \/ Drop

\* The candidates of both dequeues contain the whole lane of the row they take.
LEMMA DequeueTakesOldest ==
  ASSUME CoreInv, NEW n \in Ns, NEW q \in Queue, NEW r \in rows
  PROVE  /\ DequeueSB(n, q, r) => OldestInLane(r)
         /\ \A s \in Session \cup {NoSession}, d \in BOOLEAN :
               DequeueSBWithMeta(n, q, s, d, r) => OldestInLane(r)
  BY DEF DequeueSB, DequeueSBWithMeta, Oldest, OldestInLane, SBRows, MetaRows, Lane

LEMMA StepMoves ==
  ASSUME CoreInv, [Next]_vars
  PROVE  Move
  <1>1. CASE PutNamespace
    BY <1>1 DEF PutNamespace, PutNamespaceRead, PutNamespaceWrite, Move, Quiet,
                storeVars, history
  <1>2. CASE Http
    <2>1. ASSUME NEW n \in Ns, NEW q \in Queue, NEW s \in Session \cup {NoSession},
                 NEW d \in BOOLEAN, NEW ok \in BOOLEAN, PostMessage(n, q, s, d, ok)
          PROVE  Insert
      <3> DEFINE r == [id |-> nextId, ns |-> n, queue |-> q, session |-> s, dead |-> d]
      <3>1. r \in Row /\ r.id = nextId
        BY <2>1 DEF PostMessage, EnqueueSBWithMeta, CoreInv, TypeOK, Row
      <3>2. acked' \subseteq acked \cup {nextId}
        BY <2>1 DEF PostMessage
      <3> QED BY <2>1, <3>1, <3>2 DEF PostMessage, EnqueueSBWithMeta, Insert
    <2>2. ASSUME NEW n \in Ns, NEW q \in Queue, NEW s \in Session \cup {NoSession},
                 NEW d \in BOOLEAN, NEW ok \in BOOLEAN, GetMessage(n, q, s, d, ok)
          PROVE  Answer
      <3>1. PICK r \in rows :
               /\ DequeueSBWithMeta(n, q, s, d, r)
               /\ delivered' = IF ok THEN delivered \cup {r} ELSE delivered
               /\ lost' = IF ok THEN lost ELSE lost \cup {r}
        BY <2>2 DEF GetMessage
      <3>2. OldestInLane(r)
        BY <3>1, DequeueTakesOldest
      <3>3. \/ delivered' = delivered \cup {r} /\ lost' = lost
            \/ lost' = lost \cup {r} /\ delivered' = delivered
        BY <3>1
      <3> QED BY <2>2, <3>1, <3>2, <3>3 DEF GetMessage, DequeueSBWithMeta, Answer
    <2> QED BY <1>2, <2>1, <2>2 DEF Http, Move
  <1>3. ASSUME NEW c \in Conn, Accept(c) PROVE Quiet
    BY <1>3 DEF Accept, Quiet, storeVars, history
  <1>4. ASSUME NEW c \in Conn, Frame(c) PROVE Move
    <2>1. CASE OpenAny(c)
      BY <2>1 DEF OpenAny, OpenLab, Open, Move, Quiet, storeVars, history
    <2>2. CASE AttachAny(c)
      <3>1. ASSUME NEW prefix \in Ns \cup {NoNs}, AttachRefused(c, prefix) PROVE Drop
        BY <3>1 DEF AttachRefused, TearDown, Drop, storeVars
      <3>2. ASSUME NEW prefix \in Ns \cup {NoNs}, NEW h \in Handle, NEW q \in Queue,
                   NEW b \in BOOLEAN, Attach(c, h, prefix, q, b)
            PROVE  Quiet
        BY <3>2 DEF Attach, Quiet, storeVars, history
      <3> QED BY <2>2, <3>1, <3>2 DEF AttachAny, Move
    <2>3. ASSUME NEW h \in Handle, NEW credit \in 0 .. MaxCredit, Flow(c, h, credit) PROVE Quiet
      BY <2>3 DEF Flow, Quiet, storeVars, history
    <2>4. ASSUME NEW h \in Handle, Transfer(c, h) PROVE Insert
      <3>1. links[c][h] \in Link
        BY <2>4 DEF Transfer, CoreInv, TypeOK
      <3> DEFINE r == [id |-> nextId, ns |-> links[c][h].ns, queue |-> links[c][h].queue,
                       session |-> NoSession, dead |-> FALSE]
      <3>2. r \in Row /\ r.id = nextId
        BY <2>4, <3>1 DEF Transfer, EnqueueSB, EnqueueSBWithMeta, CoreInv, TypeOK, Row, Link
      <3> QED BY <2>4, <3>2 DEF Transfer, EnqueueSB, EnqueueSBWithMeta, Insert, history
    <2>5. ASSUME NEW h \in Handle, Detach(c, h) PROVE Quiet
      BY <2>5 DEF Detach, Quiet, storeVars, history
    <2> QED BY <1>4, <2>1, <2>2, <2>3, <2>4, <2>5 DEF Frame, Move
  <1>5. ASSUME NEW c \in Conn, Deliver(c) PROVE Move
    <2>1. CASE DeliverTake(c)
      <3> DEFINE l == links[c][cur[c]]
      <3>1. l \in Link /\ hand[c] = NoRow
        BY <2>1 DEF DeliverTake, CoreInv, TypeOK, LinkInv
      <3>2. l.ns \in Ns /\ l.queue \in Queue
        BY <3>1 DEF Link
      <3>3. PICK r \in rows : DequeueSB(l.ns, l.queue, r) /\ hand' = [hand EXCEPT ![c] = r]
        BY <2>1 DEF DeliverTake
      <3>4. OldestInLane(r)
        BY <3>2, <3>3, DequeueTakesOldest
      <3>5. TakeInHand
        BY <2>1, <3>1, <3>3, <3>4 DEF DeliverTake, DequeueSB, TakeInHand, history
      <3> QED BY <3>5 DEF Move
    <2>2. CASE WriteTransfer(c)
      BY <2>2 DEF WriteTransfer, CoreInv, TypeOK, LinkInv, Move, HandOver, storeVars
    <2>3. CASE DeliverDone(c)
      BY <2>3 DEF DeliverDone, Move, Quiet, storeVars, history
    <2> QED BY <1>5, <2>1, <2>2, <2>3 DEF Deliver
  <1>6. ASSUME NEW c \in Conn, WriteDisposition(c) PROVE Quiet
    <2>1. acking[c] \in 1 .. (nextId - 1)
      BY <1>6 DEF WriteDisposition, CoreInv, LinkInv
    <2> QED BY <1>6, <2>1 DEF WriteDisposition, Quiet, storeVars
  <1>7. ASSUME NEW c \in Conn, Disconnect(c) PROVE Drop
    BY <1>7 DEF Disconnect, TearDown, Drop, storeVars
  <1>8. CASE Crash
    BY <1>8 DEF Crash, TearDown, Move, Drop, storeVars
  <1>9. CASE Tick
    BY <1>9 DEF Tick, Move, Quiet, storeVars, history
  <1>10. CASE UNCHANGED vars
    BY <1>10 DEF vars, Move, Quiet
  <1> QED
    BY <1>1, <1>2, <1>3, <1>4, <1>5, <1>6, <1>7, <1>8, <1>9, <1>10 DEF Next, Move

-----------------------------------------------------------------------------
(* Messages.  AtMostOnce and NoOvertaking are not inductive alone: a new row *)
(* must be younger than everything seen, and two rows never share an id.     *)

Numbered == \A r \in Everywhere : r.id < nextId

OneRowPerId == \A r, t \in rows : r.id = t.id => r = t

Accounted == \A i \in 1 .. (nextId - 1) : \E r \in Everywhere : r.id = i

MsgInv ==
    /\ AtMostOnce /\ NoOvertaking
    /\ Numbered /\ OneRowPerId /\ Accounted
    /\ acked \subseteq 1 .. (nextId - 1)

LEMMA InitMsg == Init => MsgInv
  <1> SUFFICES ASSUME Init PROVE MsgInv
    OBVIOUS
  <1>1. Held = {}
    BY DEF Init, Held
  <1> QED
    BY <1>1 DEF Init, MsgInv, AtMostOnce, NoOvertaking, Numbered, OneRowPerId, Accounted, Everywhere

\* What Held becomes in the movements that change hand.
LEMMA HeldMoves ==
  ASSUME CoreInv, AtMostOnce
  PROVE  /\ hand' = hand => Held' = Held
         /\ \A c \in Conn, r \in Row :
               hand[c] = NoRow /\ hand' = [hand EXCEPT ![c] = r] => Held' = Held \cup {r}
         /\ \A c \in Conn :
               hand[c] \in Row /\ hand' = [hand EXCEPT ![c] = NoRow] => Held' = Held \ {hand[c]}
         /\ \A S \in SUBSET Conn :
               hand' = [c \in Conn |-> IF c \in S THEN NoRow ELSE hand[c]]
               => Held' = Held \ {r \in Row : \E c \in S : hand[c] = r}
  <1>1. hand \in [Conn -> Row \cup {NoRow}]
    BY DEF CoreInv, TypeOK
  <1>2. \A c, d \in Conn : c # d /\ hand[c] # NoRow => hand[c] # hand[d]
    BY DEF AtMostOnce
  <1>3. hand' = hand => Held' = Held
    BY DEF Held
  <1>4. ASSUME NEW c \in Conn, NEW r \in Row, hand[c] = NoRow, hand' = [hand EXCEPT ![c] = r]
        PROVE  Held' = Held \cup {r}
    BY <1>1, <1>4 DEF Held
  <1>5. ASSUME NEW c \in Conn, hand[c] \in Row, hand' = [hand EXCEPT ![c] = NoRow]
        PROVE  Held' = Held \ {hand[c]}
    BY <1>1, <1>2, <1>5 DEF Held
  <1>6. ASSUME NEW S \in SUBSET Conn, hand' = [c \in Conn |-> IF c \in S THEN NoRow ELSE hand[c]]
        PROVE  Held' = Held \ {r \in Row : \E c \in S : hand[c] = r}
    BY <1>1, <1>2, <1>6 DEF Held
  <1> QED BY <1>3, <1>4, <1>5, <1>6

LEMMA MoveMsg ==
  ASSUME CoreInv, MsgInv, Move
  PROVE  MsgInv'
  <1>0. /\ rows \subseteq Row /\ nextId \in Nat /\ delivered \subseteq Row /\ lost \subseteq Row
        /\ Held \subseteq Row /\ \A r \in Row : r.id \in Nat
        /\ hand \in [Conn -> Row \cup {NoRow}]
    BY DEF CoreInv, TypeOK, Held, Row
  <1>1. AtMostOnce
    BY DEF MsgInv
  <1>2. CASE Quiet
    <2>1. Held' = Held
      BY <1>1, <1>2, HeldMoves DEF Quiet
    <2> QED
      BY <1>0, <1>2, <2>1 DEF Quiet, MsgInv, AtMostOnce, NoOvertaking, Numbered, OneRowPerId,
                              Accounted, Everywhere
  <1>3. CASE Insert
    <2>1. Held' = Held
      BY <1>1, <1>3, HeldMoves DEF Insert
    <2>2. PICK r \in Row : r.id = nextId /\ rows' = rows \cup {r}
      BY <1>3 DEF Insert
    <2>3. nextId' = nextId + 1 /\ delivered' = delivered /\ lost' = lost /\ hand' = hand
          /\ acked' \subseteq acked \cup {nextId}
      BY <1>3 DEF Insert
    <2>4. r \notin Everywhere /\ \A t \in Everywhere : t.id < r.id
      BY <1>0, <2>2 DEF MsgInv, Numbered, Everywhere
    <2>5. Everywhere' = Everywhere \cup {r}
      BY <2>1, <2>2, <2>3 DEF Everywhere
    <2>6. AtMostOnce'
      BY <2>1, <2>2, <2>3, <2>4 DEF MsgInv, AtMostOnce, Everywhere
    <2>7. NoOvertaking'
      BY <2>1, <2>2, <2>3, <2>4 DEF MsgInv, NoOvertaking, Everywhere
    <2>8. Numbered' /\ OneRowPerId'
      BY <1>0, <2>2, <2>3, <2>4, <2>5 DEF MsgInv, Numbered, OneRowPerId, Everywhere
    <2>9. Accounted'
      <3>1. \A i \in 1 .. nextId : i = nextId \/ i \in 1 .. (nextId - 1)
        BY <1>0
      <3> QED BY <1>0, <2>2, <2>3, <2>5, <3>1 DEF MsgInv, Accounted
    <2>10. acked' \subseteq 1 .. (nextId' - 1)
      <3>1. nextId >= 1
        BY DEF CoreInv, TypeOK
      <3> QED BY <1>0, <2>3, <3>1 DEF MsgInv
    <2> QED BY <2>6, <2>7, <2>8, <2>9, <2>10 DEF MsgInv
  <1>4. CASE TakeInHand
    <2>1. PICK c \in Conn, r \in rows :
             /\ OldestInLane(r) /\ hand[c] = NoRow
             /\ rows' = rows \ {r} /\ hand' = [hand EXCEPT ![c] = r]
      BY <1>4 DEF TakeInHand
    <2>2. nextId' = nextId /\ delivered' = delivered /\ lost' = lost /\ acked' = acked
      BY <1>4 DEF TakeInHand
    <2>3. Held' = Held \cup {r} /\ r \in Row /\ r \notin Held
      BY <1>0, <1>1, <2>1, HeldMoves DEF AtMostOnce
    <2>4. Everywhere' = Everywhere
      BY <2>1, <2>2, <2>3 DEF Everywhere
    <2>5. AtMostOnce'
      <3>1. \A e, d \in Conn : e # d /\ hand'[e] # NoRow => hand'[e] # hand'[d]
        BY <1>0, <1>1, <2>1, <2>3 DEF AtMostOnce, Held
      <3> QED BY <1>1, <2>1, <2>2, <2>3, <3>1 DEF AtMostOnce
    <2>6. NoOvertaking'
      <3>1. \A t \in rows' : Lane(t) = Lane(r) => r.id < t.id
        BY <1>0, <2>1 DEF OldestInLane, MsgInv, OneRowPerId
      <3> QED BY <2>1, <2>2, <2>3, <3>1 DEF MsgInv, NoOvertaking
    <2> QED
      BY <2>1, <2>2, <2>4, <2>5, <2>6 DEF MsgInv, Numbered, OneRowPerId, Accounted
  <1>5. CASE HandOver
    <2>1. PICK c \in Conn : /\ hand[c] \in Row
                            /\ delivered' = delivered \cup {hand[c]}
                            /\ hand' = [hand EXCEPT ![c] = NoRow]
      BY <1>5 DEF HandOver
    <2>2. rows' = rows /\ nextId' = nextId /\ lost' = lost /\ acked' = acked
      BY <1>5 DEF HandOver
    <2>3. Held' = Held \ {hand[c]} /\ hand[c] \in Held
      BY <1>1, <2>1, HeldMoves DEF Held
    <2>4. Everywhere' = Everywhere
      BY <2>1, <2>2, <2>3 DEF Everywhere
    <2>5. AtMostOnce'
      <3>1. \A e, d \in Conn : e # d /\ hand'[e] # NoRow => hand'[e] # hand'[d]
        BY <1>0, <1>1, <2>1 DEF AtMostOnce
      <3> QED BY <1>1, <2>1, <2>2, <2>3, <3>1 DEF AtMostOnce
    <2>6. NoOvertaking'
      BY <2>1, <2>2, <2>3 DEF MsgInv, NoOvertaking
    <2> QED
      BY <2>2, <2>4, <2>5, <2>6 DEF MsgInv, Numbered, OneRowPerId, Accounted
  <1>6. CASE Answer
    <2>1. PICK r \in rows : /\ OldestInLane(r) /\ rows' = rows \ {r}
                            /\ \/ delivered' = delivered \cup {r} /\ lost' = lost
                               \/ lost' = lost \cup {r} /\ delivered' = delivered
      BY <1>6 DEF Answer
    <2>2. nextId' = nextId /\ hand' = hand /\ acked' = acked
      BY <1>6 DEF Answer
    <2>3. Held' = Held
      BY <1>1, <2>2, HeldMoves
    <2>4. Everywhere' = Everywhere
      BY <2>1, <2>3 DEF Everywhere
    <2>5. AtMostOnce'
      BY <1>1, <2>1, <2>2, <2>3 DEF AtMostOnce
    <2>6. NoOvertaking'
      <3>1. \A t \in rows' : Lane(t) = Lane(r) => r.id < t.id
        BY <1>0, <2>1 DEF OldestInLane, MsgInv, OneRowPerId
      <3> QED BY <2>1, <2>3, <3>1 DEF MsgInv, NoOvertaking
    <2> QED
      BY <2>1, <2>2, <2>4, <2>5, <2>6 DEF MsgInv, Numbered, OneRowPerId, Accounted
  <1>7. CASE Drop
    <2>1. PICK S \in SUBSET Conn :
             /\ hand' = [c \in Conn |-> IF c \in S THEN NoRow ELSE hand[c]]
             /\ lost' = lost \cup {r \in Row : \E c \in S : hand[c] = r}
      BY <1>7 DEF Drop
    <2>2. rows' = rows /\ nextId' = nextId /\ delivered' = delivered /\ acked' = acked
      BY <1>7 DEF Drop
    <2> DEFINE D == {r \in Row : \E c \in S : hand[c] = r}
    <2>3. Held' = Held \ D /\ lost' = lost \cup D /\ D \subseteq Held
      BY <1>1, <2>1, HeldMoves DEF Held
    <2> HIDE DEF D
    <2>4. Everywhere' = Everywhere
      BY <2>2, <2>3 DEF Everywhere
    <2>5. AtMostOnce'
      <3>1. \A e, d \in Conn : e # d /\ hand'[e] # NoRow => hand'[e] # hand'[d]
        BY <1>0, <1>1, <2>1 DEF AtMostOnce
      <3> QED BY <1>1, <2>2, <2>3, <3>1 DEF AtMostOnce
    <2>6. NoOvertaking'
      BY <2>2, <2>3 DEF MsgInv, NoOvertaking
    <2> QED
      BY <2>2, <2>4, <2>5, <2>6 DEF MsgInv, Numbered, OneRowPerId, Accounted
  <1> QED BY <1>2, <1>3, <1>4, <1>5, <1>6, <1>7 DEF Move

LEMMA InvariantsHold == Spec => [](CoreInv /\ MsgInv)
  <1>1. Init => CoreInv /\ MsgInv
    BY InitCore, InitMsg
  <1>2. CoreInv /\ MsgInv /\ [Next]_vars => (CoreInv /\ MsgInv)'
    BY StepCore, StepMoves, MoveMsg
  <1> QED BY <1>1, <1>2, PTL DEF Spec

\* No message reaches two receivers, or one receiver twice, under any
\* interleaving of AMQP connections, HTTP requests, disconnects and crashes.
THEOREM DeliveredAtMostOnce == Spec => []AtMostOnce
  <1>1. MsgInv => AtMostOnce
    BY DEF MsgInv
  <1> QED BY <1>1, InvariantsHold, PTL

\* Messages of one lane leave the queue in the order they entered it.
THEOREM LaneOrder == Spec => []NoOvertaking
  <1>1. MsgInv => NoOvertaking
    BY DEF MsgInv
  <1> QED BY <1>1, InvariantsHold, PTL

\* A message whose sender was answered is in the table or was received from it.
THEOREM AckedKept == Spec => []AckedIsKept
  <1>1. MsgInv => AckedIsKept
    BY DEF MsgInv, Accounted, AckedIsKept, Everywhere
  <1> QED BY <1>1, InvariantsHold, PTL

-----------------------------------------------------------------------------
(* The refinement of the mailbox.                                          *)

LEMMA MoveRefines ==
  ASSUME CoreInv, MsgInv, Move
  PROVE  [MQ!Next]_(MQ!mqVars)
  <1>0. /\ rows \subseteq Row /\ Held \subseteq Row /\ AtMostOnce
        /\ MQ!Seen = Everywhere
    BY DEF CoreInv, TypeOK, Held, MsgInv, MQ!Seen, Everywhere
  <1>1. CASE Quiet
    <2>1. Held' = Held
      BY <1>0, <1>1, HeldMoves DEF Quiet
    <2> QED BY <1>1, <2>1 DEF Quiet, MQ!mqVars
  <1>2. CASE Insert
    <2>1. Held' = Held
      BY <1>0, <1>2, HeldMoves DEF Insert
    <2>2. PICK r \in Row : r.id = nextId /\ rows' = rows \cup {r}
      BY <1>2 DEF Insert
    <2>3. \A o \in MQ!Seen : o.id < r.id
      BY <1>0, <2>2 DEF MsgInv, Numbered
    <2>4. MQ!Put(r)
      BY <1>2, <2>1, <2>2, <2>3 DEF Insert, MQ!Put
    <2> QED BY <2>4 DEF MQ!Next
  <1>3. CASE TakeInHand
    <2>1. PICK c \in Conn, r \in rows :
             /\ OldestInLane(r) /\ hand[c] = NoRow
             /\ rows' = rows \ {r} /\ hand' = [hand EXCEPT ![c] = r]
      BY <1>3 DEF TakeInHand
    <2>2. Held' = Held \cup {r} /\ r \in Row
      BY <1>0, <2>1, HeldMoves
    <2>3. MQ!Take(r)
      BY <1>3, <2>1, <2>2 DEF TakeInHand, OldestInLane, MQ!Take, MQ!Takeable
    <2> QED BY <2>2, <2>3 DEF MQ!Next
  <1>4. CASE HandOver
    <2>1. PICK c \in Conn : /\ hand[c] \in Row
                            /\ delivered' = delivered \cup {hand[c]}
                            /\ hand' = [hand EXCEPT ![c] = NoRow]
      BY <1>4 DEF HandOver
    <2>2. Held' = Held \ {hand[c]} /\ hand[c] \in Held
      BY <1>0, <2>1, HeldMoves DEF Held
    <2>3. MQ!Arrive(hand[c])
      BY <1>4, <2>1, <2>2 DEF HandOver, MQ!Arrive
    <2> QED BY <2>1, <2>3 DEF MQ!Next
  <1>5. CASE Answer
    <2>1. PICK r \in rows : /\ OldestInLane(r) /\ rows' = rows \ {r}
                            /\ \/ delivered' = delivered \cup {r} /\ lost' = lost
                               \/ lost' = lost \cup {r} /\ delivered' = delivered
      BY <1>5 DEF Answer
    <2>2. Held' = Held
      BY <1>0, <1>5, HeldMoves DEF Answer
    <2>3. MQ!Receive(r)
      BY <2>1, <2>2 DEF OldestInLane, MQ!Receive, MQ!Takeable
    <2> QED BY <1>0, <2>3 DEF MQ!Next
  <1>6. CASE Drop
    <2>1. PICK S \in SUBSET Conn :
             /\ hand' = [c \in Conn |-> IF c \in S THEN NoRow ELSE hand[c]]
             /\ lost' = lost \cup {r \in Row : \E c \in S : hand[c] = r}
      BY <1>6 DEF Drop
    <2> DEFINE D == {r \in Row : \E c \in S : hand[c] = r}
    <2>2. Held' = Held \ D /\ lost' = lost \cup D /\ D \in SUBSET Held
      BY <1>0, <2>1, HeldMoves DEF Held
    <2> HIDE DEF D
    <2>3. MQ!Lose(D)
      BY <1>6, <2>2 DEF Drop, MQ!Lose
    <2> QED BY <2>2, <2>3 DEF MQ!Next
  <1> QED BY <1>1, <1>2, <1>3, <1>4, <1>5, <1>6 DEF Move

\* The AMQP server, the HTTP routes and the store together implement the
\* at-most-once mailbox of MessageQueue: each of their steps is a step of the
\* mailbox or leaves it alone.
THEOREM RefinesMessageQueue == Spec => ImplementsMessageQueue
  <1>1. Init => MQ!Init
    BY DEF Init, MQ!Init, Held
  <1>2. CoreInv /\ MsgInv /\ [Next]_vars => [MQ!Next]_(MQ!mqVars)
    BY StepMoves, MoveRefines
  <1> QED
    BY <1>1, <1>2, InvariantsHold, PTL DEF Spec, ImplementsMessageQueue, MQ!Spec

-----------------------------------------------------------------------------
(* Links: what a step can do to the links of a connection.                 *)

\* A link is dropped or kept, was just attached under a token its namespace
\* accepts, or had its credit set by a Flow or used by a Transfer.
LinkStep(c, h) ==
    \/ links'[c][h] = NoLink
    \/ links'[c][h] = links[c][h]
    \/ /\ links'[c][h] \in Link
       /\ links'[c][h].credit = 0 /\ links'[c][h].sent = 0 /\ links'[c][h].quota = 0
       /\ key[links'[c][h].ns] # NoKey /\ links'[c][h].signer = key[links'[c][h].ns]
    \/ /\ links[c][h] \in Link
       /\ \/ \E n \in Nat : links'[c][h] =
                [links[c][h] EXCEPT !.credit = n, !.quota = n, !.sent = 0]
          \/ links'[c][h] = [links[c][h] EXCEPT !.credit = links[c][h].credit - 1,
                                                !.sent = links[c][h].sent + 1]

LEMMA StepLinks ==
  ASSUME CoreInv, [Next]_vars, NEW c \in Conn, NEW h \in Handle
  PROVE  LinkStep(c, h)
  <1>0. links \in [Conn -> [Handle -> Link \cup {NoLink}]]
    BY DEF CoreInv, TypeOK
  <1>1. CASE links' = links
    BY <1>1 DEF LinkStep
  <1>2. ASSUME NEW S \in SUBSET Conn, TearDown(S) PROVE LinkStep(c, h)
    BY <1>0, <1>2 DEF TearDown, EmptyLinks, LinkStep
  <1>3. ASSUME NEW d \in Conn, NEW g \in Handle, NEW prefix \in Ns \cup {NoNs},
               NEW q \in Queue, NEW b \in BOOLEAN, Attach(d, g, prefix, q, b)
        PROVE  LinkStep(c, h)
    <2> DEFINE n == AttachNs(d, prefix)
    <2> DEFINE l == [ns |-> n, queue |-> q, serverSends |-> b, credit |-> 0,
                     signer |-> sas[d].signer, quota |-> 0, sent |-> 0]
    <2>1. /\ links' = [links EXCEPT ![d][g] = l]
          /\ n \in Ns /\ key[n] # NoKey /\ sas[d] \in Token /\ sas[d].signer = key[n]
      BY <1>3 DEF Attach, AttachAllowed, VerifyServiceBusSAS, CoreInv, TypeOK
    <2>2. l \in Link
      BY <2>1 DEF Token, Link
    <2>3. CASE c = d /\ h = g
      <3>1. links'[c][h] = l
        BY <1>0, <2>1, <2>3
      <3>2. l.credit = 0 /\ l.sent = 0 /\ l.quota = 0 /\ l.ns = n /\ l.signer = sas[d].signer
        OBVIOUS
      <3> HIDE DEF l, n
      <3> QED BY <2>1, <2>2, <3>1, <3>2 DEF LinkStep
    <2>4. CASE ~ (c = d /\ h = g)
      <3>1. links'[c][h] = links[c][h]
        BY <1>0, <2>1, <2>4
      <3> QED BY <3>1 DEF LinkStep
    <2> QED BY <2>3, <2>4
  <1>4. ASSUME NEW d \in Conn, NEW g \in Handle, NEW n \in 0 .. MaxCredit, Flow(d, g, n)
        PROVE  LinkStep(c, h)
    <2>1. links[d][g] \in Link /\ n \in Nat
          /\ links' = [links EXCEPT ![d][g] = [links[d][g] EXCEPT !.credit = n, !.quota = n, !.sent = 0]]
      BY <1>0, <1>4 DEF Flow
    <2> QED BY <1>0, <2>1 DEF LinkStep
  <1>5. ASSUME NEW d \in Conn, WriteTransfer(d) PROVE LinkStep(c, h)
    <2> DEFINE g == cur[d]
    <2>1. g \in Handle /\ links[d][g] \in Link
      BY <1>0, <1>5 DEF WriteTransfer, CoreInv, TypeOK, LinkInv
    <2>2. links' = [links EXCEPT ![d][g] = [links[d][g] EXCEPT !.credit = links[d][g].credit - 1,
                                                               !.sent = links[d][g].sent + 1]]
      BY <1>5 DEF WriteTransfer
    <2> QED BY <1>0, <2>1, <2>2 DEF LinkStep
  <1>6. ASSUME NEW d \in Conn, NEW g \in Handle, Detach(d, g) PROVE LinkStep(c, h)
    BY <1>0, <1>6 DEF Detach, LinkStep
  <1>7. CASE PutNamespace \/ Http \/ Tick \/ UNCHANGED vars
    BY <1>1, <1>7 DEF PutNamespace, PutNamespaceRead, PutNamespaceWrite, Http, PostMessage,
                      GetMessage, Tick, vars, sessVars
  <1>8. ASSUME NEW d \in Conn, Frame(d) PROVE LinkStep(c, h)
    <2>1. CASE OpenAny(d)
      BY <1>1, <2>1 DEF OpenAny, OpenLab, Open
    <2>2. ASSUME NEW g \in Handle, Transfer(d, g) PROVE LinkStep(c, h)
      BY <1>1, <2>2 DEF Transfer, sessVars
    <2>3. CASE AttachAny(d)
      BY <1>2, <1>3, <2>3 DEF AttachAny, AttachRefused
    <2> QED BY <1>4, <1>6, <1>8, <2>1, <2>2, <2>3 DEF Frame
  <1>9. ASSUME NEW d \in Conn, Accept(d) \/ Deliver(d) \/ WriteDisposition(d) \/ Disconnect(d)
        PROVE  LinkStep(c, h)
    BY <1>1, <1>2, <1>5, <1>9 DEF Accept, Deliver, DeliverTake, DeliverDone, WriteDisposition,
                                  Disconnect, sessVars
  <1>10. CASE Crash
    BY <1>2, <1>10 DEF Crash
  <1> QED BY <1>7, <1>8, <1>9, <1>10 DEF Next

\* What is left of the credit and what was sent add up to the grant.
CreditSum ==
    \A c \in Conn, h \in Handle :
       links[c][h] # NoLink => links[c][h].credit + links[c][h].sent = links[c][h].quota

\* deliver takes no message that the last Flow did not ask for, however many
\* senders and receivers share the queue.
THEOREM CreditSafe == Spec => []CreditRespected
  <1>1. Init => CreditSum
    BY DEF Init, CreditSum, EmptyLinks
  <1>2. CoreInv /\ CreditSum /\ [Next]_vars => CreditSum'
    <2> SUFFICES ASSUME CoreInv, CreditSum, [Next]_vars, NEW c \in Conn, NEW h \in Handle,
                        links'[c][h] # NoLink
                 PROVE  links'[c][h].credit + links'[c][h].sent = links'[c][h].quota
      BY DEF CreditSum
    <2>1. LinkStep(c, h)
      BY StepLinks
    <2>2. ASSUME links[c][h] \in Link
          PROVE  /\ links[c][h].credit \in Int /\ links[c][h].sent \in Int
                 /\ links[c][h].credit + links[c][h].sent = links[c][h].quota
      BY <2>2 DEF CreditSum, Link
    <2>3. CASE links'[c][h] = links[c][h]
      BY <2>3 DEF CreditSum
    <2>4. CASE links'[c][h].credit = 0 /\ links'[c][h].sent = 0 /\ links'[c][h].quota = 0
      BY <2>4
    <2>5. ASSUME links[c][h] \in Link, NEW n \in Nat,
                 links'[c][h] = [links[c][h] EXCEPT !.credit = n, !.quota = n, !.sent = 0]
          PROVE  links'[c][h].credit + links'[c][h].sent = links'[c][h].quota
      BY <2>5 DEF Link
    <2>6. ASSUME links[c][h] \in Link,
                 links'[c][h] = [links[c][h] EXCEPT !.credit = links[c][h].credit - 1,
                                                    !.sent = links[c][h].sent + 1]
          PROVE  links'[c][h].credit + links'[c][h].sent = links'[c][h].quota
      <3>1. /\ links'[c][h].credit = links[c][h].credit - 1
            /\ links'[c][h].sent = links[c][h].sent + 1
            /\ links'[c][h].quota = links[c][h].quota
        BY <2>6 DEF Link
      <3> QED BY <2>2, <2>6, <3>1
    <2> QED BY <2>1, <2>3, <2>4, <2>5, <2>6 DEF LinkStep
  <1>3. Spec => []CoreInv
    BY InitCore, StepCore, PTL DEF Spec
  <1>4. CoreInv /\ CreditSum => CreditRespected
    <2> SUFFICES ASSUME CoreInv, CreditSum, NEW c \in Conn, NEW h \in Handle, links[c][h] # NoLink
                 PROVE  links[c][h].sent + (IF pc[c] = "write" /\ cur[c] = h THEN 1 ELSE 0)
                           <= links[c][h].quota
      BY DEF CreditRespected
    <2>1. /\ links[c][h].credit \in Nat /\ links[c][h].sent \in Nat
          /\ links[c][h].credit + links[c][h].sent = links[c][h].quota
      BY DEF CoreInv, TypeOK, Link, CreditSum
    <2>2. pc[c] = "write" /\ cur[c] = h => links[c][h].credit > 0
      BY DEF CoreInv, LinkInv
    <2> QED BY <2>1, <2>2
  <1> QED BY <1>1, <1>2, <1>3, <1>4, PTL DEF Spec

\* The keys that belong to a namespace: those it had, and those a PUT under way
\* will give it.
KeysOf(n) == issued[n] \cup {k \in Key : \E p \in Req : puts[p] = [ns |-> n, key |-> k]}

KeyInv ==
    /\ NamespaceIsolation
    /\ \A n \in Ns : key[n] # NoKey => key[n] \in issued[n]
    /\ \A m, n \in Ns : m # n => KeysOf(m) \cap KeysOf(n) = {}

LEMMA StepKeys ==
  ASSUME CoreInv, KeyInv, [Next]_vars
  PROVE  /\ \A n \in Ns : key'[n] # NoKey => key'[n] \in issued'[n]
         /\ \A n \in Ns : issued[n] \subseteq issued'[n]
         /\ \A m, n \in Ns : m # n => KeysOf(m)' \cap KeysOf(n)' = {}
  <1>0. /\ key \in [Ns -> Key \cup {NoKey}] /\ puts \in [Req -> NsPut \cup {Idle}]
        /\ issued \in [Ns -> SUBSET Key]
    BY DEF CoreInv, TypeOK
  <1>1. CASE UNCHANGED <<key, puts, issued>>
    <2>1. \A n \in Ns : KeysOf(n)' = KeysOf(n)
      BY <1>1 DEF KeysOf
    <2> QED BY <1>1, <2>1 DEF KeyInv
  <1>2. ASSUME NEW p \in Req, NEW n \in Ns, PutNamespaceRead(p, n)
        PROVE  /\ UNCHANGED <<key, issued>>
               /\ \A m1, m2 \in Ns : m1 # m2 => KeysOf(m1)' \cap KeysOf(m2)' = {}
    <2>1. PICK k \in Key : /\ IF key[n] # NoKey THEN k = key[n] ELSE Fresh(k)
                           /\ puts' = [puts EXCEPT ![p] = [ns |-> n, key |-> k]]
      BY <1>2 DEF PutNamespaceRead
    <2>2. UNCHANGED <<key, issued>>
      BY <1>2 DEF PutNamespaceRead
    <2>3. \A m \in Ns : m # n => k \notin KeysOf(m)
      <3>1. CASE key[n] # NoKey
        <4>1. k \in KeysOf(n)
          BY <2>1, <3>1 DEF KeyInv, KeysOf
        <4> QED BY <4>1 DEF KeyInv
      <3>2. CASE key[n] = NoKey
        BY <1>0, <2>1, <3>2 DEF Fresh, KeysOf, NsPut
      <3> QED BY <3>1, <3>2
    <2>4. \A m \in Ns : KeysOf(m)' \subseteq KeysOf(m) \cup (IF m = n THEN {k} ELSE {})
      BY <1>0, <2>1, <2>2 DEF KeysOf
    <2> QED BY <2>2, <2>3, <2>4 DEF KeyInv
  <1>3. ASSUME NEW p \in Req, PutNamespaceWrite(p)
        PROVE  /\ \A n \in Ns : key'[n] # NoKey => key'[n] \in issued'[n]
               /\ \A n \in Ns : issued[n] \subseteq issued'[n] /\ KeysOf(n)' \subseteq KeysOf(n)
    <2>1. PICK n \in Ns, k \in Key : puts[p] = [ns |-> n, key |-> k]
      BY <1>0, <1>3 DEF PutNamespaceWrite, NsPut
    <2>2. /\ key' = [key EXCEPT ![n] = k] /\ issued' = [issued EXCEPT ![n] = issued[n] \cup {k}]
          /\ puts' = [puts EXCEPT ![p] = Idle]
      BY <1>0, <1>3, <2>1 DEF PutNamespaceWrite
    <2>3. Idle \notin NsPut
      BY AbsentRecords
    <2>4. \A m \in Ns, j \in Key : [ns |-> m, key |-> j] \in NsPut
      BY DEF NsPut
    <2> QED BY <1>0, <2>1, <2>2, <2>3, <2>4 DEF KeyInv, KeysOf
  <1>4. CASE PutNamespace
    BY <1>2, <1>3, <1>4 DEF PutNamespace, KeyInv
  <1>5. CASE Crash
    <2>1. UNCHANGED <<key, issued>> /\ puts' = [p \in Req |-> Idle]
      BY <1>5 DEF Crash
    <2>2. \A n \in Ns : KeysOf(n)' \subseteq KeysOf(n)
      <3>1. \A m \in Ns, j \in Key : [ns |-> m, key |-> j] # Idle
        BY AbsentRecords DEF NsPut
      <3> QED BY <2>1, <3>1 DEF KeysOf
    <2> QED BY <2>1, <2>2 DEF KeyInv
  <1>6. CASE Http \/ Tick \/ UNCHANGED vars
    BY <1>1, <1>6 DEF Http, PostMessage, GetMessage, Tick, vars, keyVars
  <1>7. ASSUME NEW c \in Conn,
               Accept(c) \/ Frame(c) \/ Deliver(c) \/ WriteDisposition(c) \/ Disconnect(c)
        PROVE  UNCHANGED <<key, puts, issued>>
    BY <1>7 DEF Accept, Frame, OpenAny, OpenLab, Open, AttachAny, Attach, AttachRefused, Flow,
                Transfer, Detach, Deliver, DeliverTake, WriteTransfer, DeliverDone,
                WriteDisposition, Disconnect, keyVars
  <1> QED BY <1>1, <1>4, <1>5, <1>6, <1>7 DEF Next

\* No link moves messages of a namespace whose keys did not sign the token it
\* was attached under, and no two namespaces ever share a key.
THEOREM Isolation == Spec => []NamespaceIsolation
  <1>1. Init => KeyInv
    <2> SUFFICES ASSUME Init PROVE KeyInv
      OBVIOUS
    <2>1. \A n \in Ns : KeysOf(n) = {}
      <3>1. \A m \in Ns, j \in Key : [ns |-> m, key |-> j] # Idle
        BY AbsentRecords DEF NsPut
      <3> QED BY <3>1 DEF Init, KeysOf
    <2> QED BY <2>1 DEF Init, KeyInv, NamespaceIsolation, EmptyLinks
  <1>2. CoreInv /\ KeyInv /\ [Next]_vars => KeyInv'
    <2> SUFFICES ASSUME CoreInv, KeyInv, [Next]_vars PROVE KeyInv'
      OBVIOUS
    <2>1. ASSUME NEW c \in Conn, NEW h \in Handle, links'[c][h] # NoLink
          PROVE  links'[c][h].signer \in issued'[links'[c][h].ns]
      <3>1. LinkStep(c, h)
        BY StepLinks
      <3>2. ASSUME links[c][h] \in Link
            PROVE  links[c][h].signer \in issued[links[c][h].ns] /\ links[c][h].ns \in Ns
        BY <3>2 DEF KeyInv, NamespaceIsolation, Link
      <3>3. links[c][h] \in Link \cup {NoLink}
        BY DEF CoreInv, TypeOK
      <3>4. CASE links'[c][h] = links[c][h]
        BY <2>1, <3>2, <3>3, <3>4, StepKeys
      <3>5. CASE /\ links'[c][h] \in Link
                 /\ key[links'[c][h].ns] # NoKey /\ links'[c][h].signer = key[links'[c][h].ns]
        BY <3>5, StepKeys DEF KeyInv, Link
      <3>6. CASE /\ links[c][h] \in Link
                 /\ links'[c][h].ns = links[c][h].ns /\ links'[c][h].signer = links[c][h].signer
        BY <3>2, <3>6, StepKeys
      <3> QED BY <2>1, <3>1, <3>4, <3>5, <3>6 DEF LinkStep, Link
    <2>2. \A m, n \in Ns : m # n => issued'[m] \cap issued'[n] = {}
      BY StepKeys DEF KeysOf
    <2> QED BY <2>1, <2>2, StepKeys DEF KeyInv, NamespaceIsolation
  <1>3. Spec => []CoreInv
    BY InitCore, StepCore, PTL DEF Spec
  <1>4. KeyInv => NamespaceIsolation
    BY DEF KeyInv
  <1> QED BY <1>1, <1>2, <1>3, <1>4, PTL DEF Spec

=============================================================================
