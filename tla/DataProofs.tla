----------------------------- MODULE DataProofs -----------------------------
(***************************************************************************)
(* Storage, Tables, Cosmos and the listings for any number of groups,      *)
(* containers, blobs, messages, entities, items, rows and requests.        *)
(***************************************************************************)
EXTENDS Storage, Tables, Cosmos, ResourceGraph, FiniteSetTheorems,
        WellFoundedInduction, TLAPS

-----------------------------------------------------------------------------
(* Storage accounts, blobs and queues.                                     *)

\* While no two first PUTs overlapped, every PUT under way holds the key of the
\* name, and two of them hold the same.
KeyInHand ==
    ~ raced => \A q \in Req : Doing(q, "putAccount") =>
                  /\ \A h \in Rows : account[h] = req[q].key
                  /\ \A p \in Req : Doing(p, "putAccount") => req[p].key = req[q].key

\* No container was deleted in the future.
WipedBefore == \A c \in Container : wiped[c] <= nextWrite

\* The queue's rows have the ids that were sent and not received for good, each
\* once, and visible_after is the lease cut to whole seconds.
QueueInv ==
    /\ \A i, j \in 1 .. Len(msgs) : msgs[i].id = msgs[j].id => i = j
    /\ \A i \in 1 .. Len(msgs) : /\ msgs[i].id < nextMsg /\ msgs[i].id \notin consumed
                                 /\ msgs[i].visible = Seconds(lease[msgs[i].id])
    /\ \A m \in 1 .. (nextMsg - 1) : m \in consumed \/ \E i \in 1 .. Len(msgs) : msgs[i].id = m
    /\ \A m \in consumed : m < nextMsg
    /\ \A m \in 1 .. MaxMsg : m >= nextMsg => lease[m] = 0

\* A request that was let through with read letters reads, or receives.
ReaderInv == \A r \in Req : req[r] # Idle /\ req[r].reader => req[r].op \in {"read", "getMessage"}

\* The inductive invariant.
SInv == STypeOK /\ OneKeyPerName /\ KeyInHand /\ WipedStaysWiped /\ WipedBefore /\ QueueInv /\ ReaderInv

\* Which request an operation belongs to.
LEMMA RequestOf ==
    ASSUME NEW q \in AccountRequest \cup DataRequest
    PROVE  /\ q.op = "putAccount" => q \in AccountRequest /\ q.at \in Rg /\ q.key \in 1 .. MaxKey
           /\ q.op # "putAccount" => /\ q \in DataRequest /\ q.at \in Container \X Blob
                                     /\ q.at[1] \in Container /\ q.at[2] \in Blob
BY DEF AccountRequest, DataRequest, Routes

LEMMA SInitInv == SInit => SInv
<1> SUFFICES ASSUME SInit PROVE SInv
  OBVIOUS
<1> USE StorageAssumption DEF SInit
<1>1. STypeOK
  <2>1. account \in [Rg -> 0 .. MaxKey] /\ nextKey \in 1 .. (MaxKey + 1) /\ now \in 0 .. MaxTime
    OBVIOUS
  <2>2. blobs \in [Container -> [Blob -> 0 .. MaxWrite]] /\ wiped \in [Container -> 0 .. (MaxWrite + 1)]
    OBVIOUS
  <2>3. nextWrite \in 1 .. (MaxWrite + 1) /\ nextMsg \in 1 .. (MaxMsg + 1)
    OBVIOUS
  <2>4. msgs \in Seq(Message) /\ lease \in [1 .. MaxMsg -> Nat]
    OBVIOUS
  <2> QED
    BY <2>1, <2>2, <2>3, <2>4 DEF STypeOK
<1>2. OneKeyPerName /\ KeyInHand /\ ReaderInv
  BY DEF OneKeyPerName, KeyInHand, ReaderInv, Rows, Doing
<1>3. WipedStaysWiped /\ WipedBefore
  BY DEF WipedStaysWiped, WipedBefore
<1>4. QueueInv
  BY DEF QueueInv
<1> QED
  BY <1>1, <1>2, <1>3, <1>4 DEF SInv

\* A non-empty set of numbers has a least one.
LEMMA LeastOf ==
    ASSUME NEW S, S \subseteq Nat, S # {}
    PROVE  \E m \in S : \A k \in S : m <= k
<1>1. PICK m \in S : \A k \in S : ~ (<<k, m>> \in OpToRel(<, Nat))
  BY NatLessThanWellFounded, WFMin, Zenon
<1>2. \A k \in S : ~ (k < m)
  BY <1>1, Zenon DEF OpToRel
<1> QED
  BY <1>2

\* SELECT ... LIMIT 1 finds a row of the queue when one is visible, and it is
\* visible.
LEMMA OldestVisible ==
    ASSUME STypeOK, ~ NothingVisible
    PROVE  Oldest \in 1 .. Len(msgs) /\ Visible(msgs[Oldest])
<1> DEFINE S == {i \in 1 .. Len(msgs) : Visible(msgs[i])}
<1>1. Len(msgs) \in Nat
  BY DEF STypeOK
<1>2. S \subseteq Nat /\ S # {}
  BY <1>1 DEF NothingVisible
<1>3. PICK m \in S : \A k \in S : m <= k
  BY <1>2, LeastOf
<1>4. \A j \in 1 .. (m - 1) : ~ Visible(msgs[j])
  BY <1>1, <1>3
<1>5. \E i \in 1 .. Len(msgs) : Visible(msgs[i]) /\ \A j \in 1 .. (i - 1) : ~ Visible(msgs[j])
  BY <1>3, <1>4
<1> QED
  BY <1>5 DEF Oldest


\* Every variable keeps its type.
LEMMA STypeStep == STypeOK /\ [SNext]_svars => STypeOK'
<1> SUFFICES ASSUME STypeOK, [SNext]_svars PROVE STypeOK'
  OBVIOUS
<1> USE StorageAssumption
<1>a. /\ \A r \in Req : req[r] # Idle => req[r] \in AccountRequest \cup DataRequest
      /\ req \in [Req -> AccountRequest \cup DataRequest \cup {Idle}]
  BY DEF STypeOK
<1>b. ASSUME NEW r \in Req, NEW q \in AccountRequest \cup DataRequest \cup {Idle}
      PROVE  [req EXCEPT ![r] = q] \in [Req -> AccountRequest \cup DataRequest \cup {Idle}]
  BY <1>a
<1>1. ASSUME NEW r \in Req, NEW g \in Rg, PutAccountRead(r, g) PROVE STypeOK'
  <2>1. \A k \in 1 .. MaxKey : PutAccountOf(g, k) \in AccountRequest
    BY DEF PutAccountOf, AccountRequest
  <2>2. \A h \in Rows : account[h] \in 1 .. MaxKey
    BY DEF STypeOK, Rows
  <2>3. CASE \E h \in Rows : req' = [req EXCEPT ![r] = PutAccountOf(g, account[h])] /\ UNCHANGED <<nextKey, raced>>
    <3>1. req' \in [Req -> AccountRequest \cup DataRequest \cup {Idle}]
      BY <1>b, <2>1, <2>2, <2>3
    <3> QED
      BY <1>1, <2>3, <3>1 DEF STypeOK, PutAccountRead
  <2>4. CASE /\ Rows = {} /\ nextKey <= MaxKey
             /\ req' = [req EXCEPT ![r] = PutAccountOf(g, nextKey)]
             /\ nextKey' = nextKey + 1
             /\ raced' = (raced \/ \E q \in Req : Doing(q, "putAccount"))
    <3>1. nextKey \in 1 .. MaxKey /\ nextKey' \in 1 .. (MaxKey + 1)
      BY <2>4 DEF STypeOK
    <3>2. req' \in [Req -> AccountRequest \cup DataRequest \cup {Idle}]
      BY <1>b, <2>1, <2>4, <3>1
    <3>3. raced' \in BOOLEAN
      BY <2>4
    <3> QED
      BY <1>1, <3>1, <3>2, <3>3 DEF STypeOK, PutAccountRead
  <2> QED
    BY <1>1, <2>3, <2>4 DEF PutAccountRead
<1>2. ASSUME NEW r \in Req, PutAccountWrite(r) PROVE STypeOK'
  <2>1. req[r].at \in Rg /\ req[r].key \in 1 .. MaxKey
    BY <1>2, <1>a, RequestOf DEF PutAccountWrite, Doing
  <2>2. account' \in [Rg -> 0 .. MaxKey]
    BY <1>2, <2>1 DEF PutAccountWrite, STypeOK
  <2>3. req' \in [Req -> AccountRequest \cup DataRequest \cup {Idle}]
    BY <1>2, <1>b DEF PutAccountWrite, Finish
  <2> QED
    BY <1>2, <2>2, <2>3 DEF PutAccountWrite, STypeOK
<1>3. ASSUME NEW r \in Req, NEW op \in DOMAIN Routes, NEW at \in Container \X Blob, Authorize(r, op, at)
      PROVE  STypeOK'
  <2>1. PICK sp : req' = [req EXCEPT ![r] =
                    [op |-> IF op \in Reading THEN "read" ELSE op, at |-> at, key |-> 0,
                     reader |-> sp \subseteq {"r", "l", "p"}]]
    BY <1>3 DEF Authorize
  <2>2. [op |-> IF op \in Reading THEN "read" ELSE op, at |-> at, key |-> 0,
         reader |-> sp \subseteq {"r", "l", "p"}] \in DataRequest
    BY DEF DataRequest
  <2>3. req' \in [Req -> AccountRequest \cup DataRequest \cup {Idle}]
    BY <1>b, <2>1, <2>2
  <2> QED
    BY <1>3, <2>3 DEF Authorize, STypeOK
<1>4. ASSUME NEW r \in Req, PutContainer(r) \/ DeleteContainer(r) \/ PutBlob(r) \/ DeleteBlob(r) \/ ReadData(r)
      PROVE  STypeOK'
  <2>1. req' \in [Req -> AccountRequest \cup DataRequest \cup {Idle}]
    BY <1>4, <1>b DEF PutContainer, DeleteContainer, PutBlob, DeleteBlob, ReadData, Finish
  <2>2. CASE ReadData(r)
    BY <2>1, <2>2 DEF ReadData, STypeOK
  <2>3. CASE ~ ReadData(r)
    <3>1. req[r].at[1] \in Container /\ req[r].at[2] \in Blob
      BY <1>4, <2>3, <1>a, RequestOf DEF PutContainer, DeleteContainer, PutBlob, DeleteBlob, Doing
    <3>2. CASE PutContainer(r)
      BY <2>1, <3>1, <3>2 DEF PutContainer, STypeOK
    <3>3. CASE DeleteContainer(r)
      <4>1. blobs' \in [Container -> [Blob -> 0 .. MaxWrite]]
        BY <3>1, <3>3 DEF DeleteContainer, STypeOK
      <4>2. wiped' \in [Container -> 0 .. (MaxWrite + 1)]
        BY <3>1, <3>3 DEF DeleteContainer, STypeOK
      <4> QED
        BY <2>1, <3>1, <3>3, <4>1, <4>2 DEF DeleteContainer, STypeOK
    <3>4. CASE PutBlob(r)
      <4>1. nextWrite \in 0 .. MaxWrite /\ nextWrite' \in 1 .. (MaxWrite + 1)
        BY <3>4 DEF PutBlob, STypeOK
      <4>2. blobs' \in [Container -> [Blob -> 0 .. MaxWrite]]
        BY <3>1, <3>4, <4>1 DEF PutBlob, STypeOK
      <4> QED
        BY <2>1, <3>4, <4>1, <4>2 DEF PutBlob, STypeOK
    <3>5. CASE DeleteBlob(r)
      <4>0. /\ blobs' = [blobs EXCEPT ![req[r].at[1]][req[r].at[2]] = 0]
            /\ blobs \in [Container -> [Blob -> 0 .. MaxWrite]] /\ MaxWrite \in Nat
        BY <3>5, StorageAssumption DEF DeleteBlob, STypeOK
      <4>1. blobs' \in [Container -> [Blob -> 0 .. MaxWrite]]
        BY <3>1, <4>0
      <4> QED
        BY <2>1, <3>5, <4>1 DEF DeleteBlob, STypeOK
    <3> QED
      BY <1>4, <2>3, <3>2, <3>3, <3>4, <3>5
  <2> QED
    BY <2>2, <2>3
<1>5. ASSUME NEW r \in Req, PostMessage(r) PROVE STypeOK'
  <2>1. nextMsg \in 1 .. MaxMsg /\ nextMsg' \in 1 .. (MaxMsg + 1)
    BY <1>5 DEF PostMessage, STypeOK
  <2>2. msgs' \in Seq(Message)
    BY <1>5, <2>1 DEF PostMessage, STypeOK, Message
  <2>3. req' \in [Req -> AccountRequest \cup DataRequest \cup {Idle}]
    BY <1>5, <1>b DEF PostMessage, Finish
  <2> QED
    BY <1>5, <2>1, <2>2, <2>3 DEF PostMessage, STypeOK
<1>6. ASSUME NEW r \in Req, NEW timeout \in Timeout, GetMessage(r, timeout) PROVE STypeOK'
  <2>1. req' \in [Req -> AccountRequest \cup DataRequest \cup {Idle}]
    BY <1>6, <1>b DEF GetMessage, Finish
  <2>2. CASE NothingVisible
    BY <1>6, <2>1, <2>2 DEF GetMessage, STypeOK
  <2>3. CASE ~ NothingVisible
    <3> DEFINE o == Oldest
               n == Len(msgs)
    <3>1. /\ o \in 1 .. n /\ n \in Nat /\ msgs \in Seq(Message) /\ timeout \in Nat /\ now \in Nat
          /\ \A i \in 1 .. n : msgs[i] \in Message
      BY <2>3, OldestVisible DEF STypeOK
    <3>2. msgs[o].id \in 1 .. MaxMsg
      BY <3>1 DEF Message
    <3>3. CASE timeout > 0
      <4>0. /\ msgs' = [msgs EXCEPT ![o].visible = Seconds(now + 2 * timeout)]
            /\ lease' = [lease EXCEPT ![msgs[o].id] = now + 2 * timeout]
            /\ UNCHANGED consumed
        BY <1>6, <2>3, <3>1, <3>3 DEF GetMessage
      <4> HIDE DEF o, n
      <4>1. Seconds(now + 2 * timeout) \in Nat /\ now + 2 * timeout \in Nat
        BY <3>1 DEF Seconds
      <4>2. [msgs[o] EXCEPT !.visible = Seconds(now + 2 * timeout)] \in Message
        BY <3>1, <4>1 DEF Message
      <4>3. msgs' \in Seq(Message)
        <5> DEFINE z == [msgs[o] EXCEPT !.visible = Seconds(now + 2 * timeout)]
        <5>1. msgs' = [msgs EXCEPT ![o] = z]
          BY <4>0
        <5>2. z \in Message
          BY <4>2
        <5> HIDE DEF z
        <5> QED
          BY <3>1, <5>1, <5>2 DEF n
      <4>4. lease' \in [1 .. MaxMsg -> Nat]
        BY <3>2, <4>0, <4>1 DEF STypeOK
      <4> QED
        BY <1>6, <2>1, <4>0, <4>3, <4>4 DEF GetMessage, STypeOK
    <3>4. CASE timeout = 0
      <4>0. /\ msgs' = [i \in 1 .. (n - 1) |-> IF i < o THEN msgs[i] ELSE msgs[i + 1]]
            /\ consumed' = consumed \cup {msgs[o].id}
            /\ UNCHANGED lease
        BY <1>6, <2>3, <3>1, <3>4 DEF GetMessage
      <4> HIDE DEF o, n
      <4>1. \A i \in 1 .. (n - 1) : (IF i < o THEN msgs[i] ELSE msgs[i + 1]) \in Message
        BY <3>1
      <4>2. n - 1 \in Nat
        BY <3>1
      <4>3. msgs' \in Seq(Message)
        BY <4>0, <4>1, <4>2
      <4> QED
        BY <1>6, <2>1, <3>2, <4>0, <4>3 DEF GetMessage, STypeOK
    <3> QED
      BY <3>1, <3>3, <3>4
  <2> QED
    BY <2>2, <2>3
<1>7. CASE Crash
  BY <1>7 DEF Crash, STypeOK
<1>8. CASE Tick
  BY <1>8 DEF Tick, STypeOK
<1>9. CASE UNCHANGED svars
  BY <1>9 DEF svars, STypeOK
<1> QED
  BY <1>1, <1>2, <1>3, <1>4, <1>5, <1>6, <1>7, <1>8, <1>9 DEF SNext


\* A request that ends, or one that does not write an account, leaves the keys
\* that are in hand as they are.
LEMMA KeysKept ==
    ASSUME OneKeyPerName, KeyInHand, account' = account, raced' = raced,
           \A q \in Req : Doing(q, "putAccount")' => Doing(q, "putAccount") /\ req'[q] = req[q]
    PROVE  OneKeyPerName' /\ KeyInHand'
BY DEF OneKeyPerName, KeyInHand, Rows

\* UpsertStorageAccount gives a group the key of the name.
LEMMA KeysStep ==
    STypeOK /\ OneKeyPerName /\ KeyInHand /\ [SNext]_svars => OneKeyPerName' /\ KeyInHand'
<1> SUFFICES ASSUME STypeOK, OneKeyPerName, KeyInHand, [SNext]_svars
             PROVE  OneKeyPerName' /\ KeyInHand'
  OBVIOUS
<1>a. /\ \A r \in Req : req[r] # Idle => req[r] \in AccountRequest \cup DataRequest
      /\ req \in [Req -> AccountRequest \cup DataRequest \cup {Idle}]
      /\ account \in [Rg -> 0 .. MaxKey]
  BY DEF STypeOK
<1>e. ASSUME NEW r \in Req, Finish(r), account' = account, raced' = raced
      PROVE  OneKeyPerName' /\ KeyInHand'
  <2>1. \A q \in Req : Doing(q, "putAccount")' => Doing(q, "putAccount") /\ req'[q] = req[q]
    BY <1>a, <1>e DEF Finish, Doing
  <2> QED
    BY <1>e, <2>1, KeysKept
<1>1. ASSUME NEW r \in Req, NEW g \in Rg, PutAccountRead(r, g) PROVE OneKeyPerName' /\ KeyInHand'
  <2>1. account' = account /\ Rows' = Rows /\ req[r] = Idle
    BY <1>1 DEF PutAccountRead, Rows
  <2>2. ASSUME NEW h \in Rows, req' = [req EXCEPT ![r] = PutAccountOf(g, account[h])], raced' = raced
        PROVE  OneKeyPerName' /\ KeyInHand'
    <3>1. /\ req'[r].key = account[h] /\ \A q \in Req \ {r} : req'[q] = req[q]
      BY <1>a, <2>2 DEF PutAccountOf
    <3>2. \A q \in Req \ {r} : Doing(q, "putAccount")' => Doing(q, "putAccount")
      BY <3>1 DEF Doing
    <3> QED
      BY <2>1, <2>2, <3>1, <3>2 DEF OneKeyPerName, KeyInHand
  <2>3. ASSUME Rows = {}, req' = [req EXCEPT ![r] = PutAccountOf(g, nextKey)],
               raced' = (raced \/ \E q \in Req : Doing(q, "putAccount"))
        PROVE  OneKeyPerName' /\ KeyInHand'
    <3>1. \A q \in Req \ {r} : req'[q] = req[q]
      BY <1>a, <2>3
    <3>2. ~ raced' => \A q \in Req : Doing(q, "putAccount")' => q = r
      BY <2>3, <3>1 DEF Doing
    <3> QED
      BY <2>1, <2>3, <3>2 DEF OneKeyPerName, KeyInHand
  <2> QED
    BY <1>1, <2>2, <2>3 DEF PutAccountRead
<1>2. ASSUME NEW r \in Req, PutAccountWrite(r) PROVE OneKeyPerName' /\ KeyInHand'
  <2>1. Doing(r, "putAccount") /\ req[r].at \in Rg /\ raced' = raced
    BY <1>2, <1>a, RequestOf DEF PutAccountWrite, Doing
  <2>2. \A g \in Rg : account'[g] = IF g = req[r].at THEN req[r].key ELSE account[g]
    BY <1>2, <1>a, <2>1 DEF PutAccountWrite
  <2>3. \A g \in Rows' : g \in Rg /\ (account'[g] = req[r].key \/ (g \in Rows /\ account'[g] = account[g]))
    BY <2>2 DEF Rows
  <2>4. \A q \in Req : Doing(q, "putAccount")' => Doing(q, "putAccount") /\ req'[q] = req[q]
    BY <1>a, <1>2 DEF PutAccountWrite, Finish, Doing
  <2>5. ~ raced => \A g \in Rows' : account'[g] = req[r].key
    BY <2>1, <2>3 DEF KeyInHand
  <2>6. OneKeyPerName'
    BY <2>1, <2>5 DEF OneKeyPerName
  <2>7. KeyInHand'
    BY <2>1, <2>4, <2>5 DEF KeyInHand
  <2> QED
    BY <2>6, <2>7
<1>3. ASSUME NEW r \in Req, NEW op \in DOMAIN Routes, NEW at \in Container \X Blob, Authorize(r, op, at)
      PROVE  OneKeyPerName' /\ KeyInHand'
  <2>1. PICK sp : req' = [req EXCEPT ![r] =
                    [op |-> IF op \in Reading THEN "read" ELSE op, at |-> at, key |-> 0,
                     reader |-> sp \subseteq {"r", "l", "p"}]]
    BY <1>3 DEF Authorize
  <2>2. req'[r].op # "putAccount" /\ \A q \in Req \ {r} : req'[q] = req[q]
    BY <1>a, <2>1 DEF Routes
  <2>3. \A q \in Req : Doing(q, "putAccount")' => Doing(q, "putAccount") /\ req'[q] = req[q]
    BY <2>2 DEF Doing
  <2> QED
    BY <1>3, <2>3, KeysKept DEF Authorize
<1>4. ASSUME NEW r \in Req, PutContainer(r) \/ DeleteContainer(r) \/ PutBlob(r) \/ DeleteBlob(r)
                              \/ ReadData(r) \/ PostMessage(r) \/ \E timeout \in Timeout : GetMessage(r, timeout)
      PROVE  OneKeyPerName' /\ KeyInHand'
  <2>1. Finish(r) /\ account' = account /\ raced' = raced
    BY <1>4 DEF PutContainer, DeleteContainer, PutBlob, DeleteBlob, ReadData, PostMessage, GetMessage
  <2> QED
    BY <1>e, <2>1
<1>5. CASE Crash
  <2>1. \A q \in Req : ~ Doing(q, "putAccount")'
    BY <1>5 DEF Crash, Doing
  <2> QED
    BY <1>5, <2>1, KeysKept DEF Crash
<1>6. CASE Tick \/ UNCHANGED svars
  <2>1. req' = req /\ account' = account /\ raced' = raced
    BY <1>6 DEF Tick, svars
  <2>2. \A q \in Req : Doing(q, "putAccount")' => Doing(q, "putAccount")
    BY <2>1 DEF Doing
  <2> QED
    BY <2>1, <2>2, KeysKept
<1> QED
  BY <1>1, <1>2, <1>3, <1>4, <1>5, <1>6 DEF SNext

\* DeleteContainer and the blob writes.
LEMMA WipedStep ==
    STypeOK /\ WipedStaysWiped /\ WipedBefore /\ [SNext]_svars => WipedStaysWiped' /\ WipedBefore'
<1> SUFFICES ASSUME STypeOK, WipedStaysWiped, WipedBefore, [SNext]_svars
             PROVE  WipedStaysWiped' /\ WipedBefore'
  OBVIOUS
<1> USE StorageAssumption
<1>a. /\ \A r \in Req : req[r] # Idle => req[r] \in AccountRequest \cup DataRequest
      /\ blobs \in [Container -> [Blob -> Nat]] /\ wiped \in [Container -> Nat] /\ nextWrite \in Nat
  BY DEF STypeOK
<1>1. ASSUME NEW r \in Req, DeleteContainer(r) PROVE WipedStaysWiped' /\ WipedBefore'
  <2>1. req[r].at[1] \in Container
    BY <1>1, <1>a, RequestOf DEF DeleteContainer, Doing
  <2>2. \A c \in Container, b \in Blob :
           blobs'[c][b] = IF c = req[r].at[1] THEN 0 ELSE blobs[c][b]
    BY <1>1, <1>a, <2>1 DEF DeleteContainer
  <2>3. \A c \in Container : wiped'[c] = IF c = req[r].at[1] THEN nextWrite ELSE wiped[c]
    BY <1>1, <1>a, <2>1 DEF DeleteContainer
  <2> QED
    BY <1>1, <1>a, <2>2, <2>3 DEF DeleteContainer, WipedStaysWiped, WipedBefore
<1>2. ASSUME NEW r \in Req, PutBlob(r) PROVE WipedStaysWiped' /\ WipedBefore'
  <2>1. req[r].at[1] \in Container /\ req[r].at[2] \in Blob
    BY <1>2, <1>a, RequestOf DEF PutBlob, Doing
  <2>2. /\ nextWrite' = nextWrite + 1 /\ wiped' = wiped
        /\ \A c \in Container, b \in Blob :
              blobs'[c][b] = IF c = req[r].at[1] /\ b = req[r].at[2] THEN nextWrite ELSE blobs[c][b]
    BY <1>2, <1>a, <2>1 DEF PutBlob
  <2>3. \A c \in Container : wiped[c] <= nextWrite /\ wiped[c] \in Nat
    BY <1>a DEF WipedBefore
  <2> QED
    BY <1>a, <2>2, <2>3 DEF WipedStaysWiped, WipedBefore
<1>3. ASSUME NEW r \in Req, DeleteBlob(r) PROVE WipedStaysWiped' /\ WipedBefore'
  <2>1. req[r].at[1] \in Container /\ req[r].at[2] \in Blob
    BY <1>3, <1>a, RequestOf DEF DeleteBlob, Doing
  <2>2. \A c \in Container, b \in Blob : blobs'[c][b] = 0 \/ blobs'[c][b] = blobs[c][b]
    BY <1>3, <1>a, <2>1 DEF DeleteBlob
  <2> QED
    BY <1>3, <2>2 DEF DeleteBlob, WipedStaysWiped, WipedBefore
<1>4. CASE UNCHANGED <<blobs, wiped, nextWrite>>
  BY <1>4 DEF WipedStaysWiped, WipedBefore
<1>5. ASSUME NEW r \in Req,
             PutAccountWrite(r) \/ PutContainer(r) \/ ReadData(r) \/ PostMessage(r)
               \/ (\E g \in Rg : PutAccountRead(r, g)) \/ (\E timeout \in Timeout : GetMessage(r, timeout))
               \/ \E op \in DOMAIN Routes, at \in Container \X Blob : Authorize(r, op, at)
      PROVE  UNCHANGED <<blobs, wiped, nextWrite>>
  BY <1>5 DEF PutAccountWrite, PutContainer, ReadData, PostMessage, PutAccountRead, GetMessage, Authorize
<1>6. CASE Crash \/ Tick \/ UNCHANGED svars
  BY <1>4, <1>6 DEF Crash, Tick, svars
<1> QED
  BY <1>1, <1>2, <1>3, <1>4, <1>5, <1>6 DEF SNext


\* What a request for the next message does to the queue.
Receives(o, timeout) ==
    \/ /\ timeout > 0
       /\ Len(msgs') = Len(msgs)
       /\ \A i \in 1 .. Len(msgs) :
             /\ msgs'[i].id = msgs[i].id
             /\ msgs'[i].visible = IF i = o THEN Seconds(now + 2 * timeout) ELSE msgs[i].visible
       /\ lease' = [lease EXCEPT ![msgs[o].id] = now + 2 * timeout]
       /\ consumed' = consumed
    \/ /\ timeout = 0
       /\ Len(msgs') = Len(msgs) - 1
       /\ \A i \in 1 .. (Len(msgs) - 1) : msgs'[i] = IF i < o THEN msgs[i] ELSE msgs[i + 1]
       /\ consumed' = consumed \cup {msgs[o].id}
       /\ lease' = lease

\* Dequeue changes nothing, or receives the oldest visible message.
LEMMA ReceivesOldest ==
    ASSUME STypeOK, NEW r \in Req, NEW timeout \in Timeout, GetMessage(r, timeout)
    PROVE  \/ UNCHANGED <<msgs, lease, consumed>>
           \/ Oldest \in 1 .. Len(msgs) /\ Visible(msgs[Oldest]) /\ Receives(Oldest, timeout)
<1>1. CASE NothingVisible
  BY <1>1 DEF GetMessage
<1>2. CASE ~ NothingVisible
  <2> DEFINE o == Oldest
             n == Len(msgs)
  <2>1. /\ o \in 1 .. n /\ n \in Nat /\ Visible(msgs[o]) /\ timeout \in Nat /\ msgs \in Seq(Message)
        /\ \A i \in 1 .. n : msgs[i] \in Message
    BY <1>2, OldestVisible, StorageAssumption DEF STypeOK
  <2>2. CASE timeout > 0
    <3>0. /\ msgs' = [msgs EXCEPT ![o].visible = Seconds(now + 2 * timeout)]
          /\ lease' = [lease EXCEPT ![msgs[o].id] = now + 2 * timeout]
          /\ consumed' = consumed
      BY <1>2, <2>1, <2>2 DEF GetMessage
    <3> DEFINE v == Seconds(now + 2 * timeout)
               z == [msgs[o] EXCEPT !.visible = v]
    <3>1. z.id = msgs[o].id /\ z.visible = v
      BY <2>1 DEF Message
    <3> HIDE DEF o, v
    <3>2. msgs' = [msgs EXCEPT ![o] = z]
      BY <3>0 DEF v
    <3> HIDE DEF z
    <3>3. Len(msgs') = n /\ \A i \in 1 .. n : msgs'[i] = IF i = o THEN z ELSE msgs[i]
      BY <2>1, <3>2
    <3>4. \A i \in 1 .. n : /\ msgs'[i].id = msgs[i].id
                            /\ msgs'[i].visible = IF i = o THEN v ELSE msgs[i].visible
      BY <3>1, <3>3
    <3>5. Receives(o, timeout)
      BY <2>2, <3>0, <3>3, <3>4 DEF Receives, v
    <3> QED
      BY <2>1, <3>5 DEF o
  <2>3. CASE timeout = 0
    <3>0. /\ msgs' = [i \in 1 .. (n - 1) |-> IF i < o THEN msgs[i] ELSE msgs[i + 1]]
          /\ consumed' = consumed \cup {msgs[o].id}
          /\ lease' = lease
      BY <1>2, <2>1, <2>3 DEF GetMessage
    <3> HIDE DEF o
    <3>1. n - 1 \in Nat
      BY <2>1
    <3>2. Len(msgs') = n - 1
      BY <3>0, <3>1
    <3>3. Receives(o, timeout)
      BY <2>3, <3>0, <3>2 DEF Receives
    <3> QED
      BY <2>1, <3>3 DEF o
  <2> QED
    BY <2>1, <2>2, <2>3
<1> QED
  BY <1>1, <1>2

\* Only sending and receiving change the queue.
LEMMA QueueStep == STypeOK /\ QueueInv /\ [SNext]_svars => QueueInv'
<1> SUFFICES ASSUME STypeOK, QueueInv, [SNext]_svars PROVE QueueInv'
  OBVIOUS
<1> USE StorageAssumption
<1>a. /\ msgs \in Seq(Message) /\ Len(msgs) \in Nat /\ nextMsg \in Nat /\ nextMsg >= 1
      /\ lease \in [1 .. MaxMsg -> Nat] /\ consumed \subseteq 1 .. MaxMsg /\ now \in Nat
      /\ \A i \in 1 .. Len(msgs) : msgs[i].id \in 1 .. MaxMsg
  <2>1. msgs \in Seq(Message) /\ Len(msgs) \in Nat
    BY DEF STypeOK
  <2>2. nextMsg \in Nat /\ nextMsg >= 1 /\ now \in Nat
    BY DEF STypeOK
  <2>3. \A i \in 1 .. Len(msgs) : msgs[i] \in Message
    BY <2>1
  <2> QED
    BY <2>1, <2>2, <2>3 DEF STypeOK, Message
<1>1. ASSUME NEW r \in Req, PostMessage(r) PROVE QueueInv'
  <2> DEFINE n == Len(msgs)
             z == [id |-> nextMsg, visible |-> 0]
  <2>1. /\ msgs' = Append(msgs, z) /\ nextMsg' = nextMsg + 1 /\ lease' = lease /\ consumed' = consumed
        /\ nextMsg \in 1 .. MaxMsg
    BY <1>1, <1>a DEF PostMessage
  <2>2. Len(msgs') = n + 1 /\ msgs'[n + 1] = z /\ \A i \in 1 .. n : msgs'[i] = msgs[i]
    BY <1>a, <2>1
  <2>3. \A i \in 1 .. (n + 1) : i \in 1 .. n \/ i = n + 1
    BY <1>a
  <2>4. z.visible = Seconds(lease[nextMsg]) /\ z.id = nextMsg /\ nextMsg \notin consumed
    BY <1>a, <2>1 DEF QueueInv, Seconds
  <2> HIDE DEF n, z
  <2>5. \A i \in 1 .. n : /\ msgs[i].id < nextMsg /\ msgs[i].id \notin consumed
                          /\ msgs[i].visible = Seconds(lease[msgs[i].id])
    BY DEF QueueInv, n
  <2>6. \A i, j \in 1 .. n : msgs[i].id = msgs[j].id => i = j
    BY DEF QueueInv, n
  <2>7. \A i, j \in 1 .. (n + 1) : msgs'[i].id = msgs'[j].id => i = j
    BY <1>a, <2>2, <2>3, <2>4, <2>5, <2>6
  <2>8. \A i \in 1 .. (n + 1) : /\ msgs'[i].id < nextMsg + 1 /\ msgs'[i].id \notin consumed
                                /\ msgs'[i].visible = Seconds(lease[msgs'[i].id])
    <3> SUFFICES ASSUME NEW i \in 1 .. (n + 1)
                 PROVE  /\ msgs'[i].id < nextMsg + 1 /\ msgs'[i].id \notin consumed
                        /\ msgs'[i].visible = Seconds(lease[msgs'[i].id])
      OBVIOUS
    <3>1. CASE i = n + 1
      BY <1>a, <2>2, <2>4, <3>1
    <3>2. CASE i \in 1 .. n
      <4>1. msgs'[i] = msgs[i] /\ msgs[i].id \in Nat /\ msgs[i].id < nextMsg + 1
        BY <1>a, <2>2, <2>5, <3>2 DEF n
      <4> QED
        BY <2>5, <3>2, <4>1
    <3> QED
      BY <2>3, <3>1, <3>2
  <2>9. \A m \in 1 .. nextMsg : m \in consumed \/ \E i \in 1 .. (n + 1) : msgs'[i].id = m
    <3> SUFFICES ASSUME NEW m \in 1 .. nextMsg, m \notin consumed
                 PROVE  \E i \in 1 .. (n + 1) : msgs'[i].id = m
      OBVIOUS
    <3>1. CASE m = nextMsg
      BY <1>a, <2>2, <2>4, <3>1 DEF n
    <3>2. CASE m # nextMsg
      <4>1. PICK i \in 1 .. n : msgs[i].id = m
        BY <1>a, <3>2 DEF QueueInv, n
      <4> QED
        BY <1>a, <2>2, <4>1 DEF n
    <3> QED
      BY <3>1, <3>2
  <2>10. /\ \A m \in consumed : m < nextMsg + 1
         /\ \A m \in 1 .. MaxMsg : m >= nextMsg + 1 => lease[m] = 0
    BY <1>a DEF QueueInv
  <2>11. nextMsg + 1 - 1 = nextMsg
    BY <1>a
  <2> QED
    BY <2>1, <2>2, <2>7, <2>8, <2>9, <2>10, <2>11 DEF QueueInv, Seconds
<1>2. ASSUME NEW r \in Req, NEW timeout \in Timeout, GetMessage(r, timeout) PROVE QueueInv'
  <2> DEFINE o == Oldest
             n == Len(msgs)
  <2>0. nextMsg' = nextMsg
    BY <1>2 DEF GetMessage
  <2>1. CASE UNCHANGED <<msgs, lease, consumed>>
    BY <2>0, <2>1 DEF QueueInv, Seconds
  <2>2. CASE o \in 1 .. n /\ Receives(o, timeout)
    <3> HIDE DEF o
    <3>1. CASE timeout > 0
      <4>1. /\ Len(msgs') = n
            /\ \A i \in 1 .. n :
                  /\ msgs'[i].id = msgs[i].id
                  /\ msgs'[i].visible = IF i = o THEN Seconds(now + 2 * timeout) ELSE msgs[i].visible
            /\ lease' = [lease EXCEPT ![msgs[o].id] = now + 2 * timeout]
            /\ consumed' = consumed
        BY <2>2, <3>1 DEF Receives
      <4>2. \A i \in 1 .. n : msgs'[i].visible = Seconds(lease'[msgs'[i].id])
        BY <1>a, <2>2, <4>1 DEF QueueInv
      <4>3. \A m \in 1 .. MaxMsg : m >= nextMsg => lease'[m] = 0
        BY <1>a, <2>2, <4>1 DEF QueueInv
      <4> QED
        BY <2>0, <4>1, <4>2, <4>3 DEF QueueInv, Seconds
    <3>2. CASE timeout = 0
      <4>1. /\ Len(msgs') = n - 1
            /\ \A i \in 1 .. (n - 1) : msgs'[i] = IF i < o THEN msgs[i] ELSE msgs[i + 1]
            /\ consumed' = consumed \cup {msgs[o].id}
            /\ lease' = lease
        BY <2>2, <3>2 DEF Receives
      <4> DEFINE f(i) == IF i < o THEN i ELSE i + 1
      <4>2. \A i \in 1 .. (n - 1) : f(i) \in 1 .. n /\ f(i) # o /\ msgs'[i] = msgs[f(i)]
        BY <1>a, <2>2, <4>1
      <4>3. \A i, j \in 1 .. (n - 1) : f(i) = f(j) => i = j
        BY <1>a, <2>2
      <4>4. \A k \in 1 .. n : k # o => \E i \in 1 .. (n - 1) : f(i) = k
        <5> SUFFICES ASSUME NEW k \in 1 .. n, k # o PROVE \E i \in 1 .. (n - 1) : f(i) = k
          OBVIOUS
        <5>1. CASE k < o
          <6>1. k \in 1 .. (n - 1) /\ f(k) = k
            BY <1>a, <2>2, <5>1
          <6> QED
            BY <6>1
        <5>2. CASE k > o
          <6>1. k - 1 \in 1 .. (n - 1) /\ ~ (k - 1 < o) /\ (k - 1) + 1 = k
            BY <1>a, <2>2, <5>2
          <6> QED
            BY <6>1
        <5> QED
          BY <1>a, <2>2, <5>1, <5>2
      <4> HIDE DEF f
      <4>5. \A i, j \in 1 .. (n - 1) : msgs'[i].id = msgs'[j].id => i = j
        BY <4>2, <4>3 DEF QueueInv
      <4>6. \A i \in 1 .. (n - 1) : /\ msgs'[i].id < nextMsg /\ msgs'[i].id \notin consumed'
                                    /\ msgs'[i].visible = Seconds(lease[msgs'[i].id])
        BY <2>2, <4>1, <4>2 DEF QueueInv
      <4>7. \A m \in 1 .. (nextMsg - 1) : m \in consumed' \/ \E i \in 1 .. (n - 1) : msgs'[i].id = m
        <5> SUFFICES ASSUME NEW m \in 1 .. (nextMsg - 1), m \notin consumed'
                     PROVE  \E i \in 1 .. (n - 1) : msgs'[i].id = m
          OBVIOUS
        <5>1. PICK k \in 1 .. n : msgs[k].id = m
          BY <4>1 DEF QueueInv
        <5>2. k # o
          BY <4>1, <5>1
        <5>3. PICK i \in 1 .. (n - 1) : f(i) = k
          BY <4>4, <5>2
        <5> QED
          BY <4>2, <5>1, <5>3
      <4>8. \A m \in consumed' : m < nextMsg
        BY <2>2, <4>1 DEF QueueInv
      <4> QED
        BY <2>0, <4>1, <4>5, <4>6, <4>7, <4>8 DEF QueueInv, Seconds
    <3> QED
      BY <2>2, <3>1, <3>2 DEF Receives
  <2> QED
    BY <1>2, <2>1, <2>2, ReceivesOldest
<1>3. CASE UNCHANGED <<msgs, lease, consumed, nextMsg>>
  BY <1>3 DEF QueueInv, Seconds
<1>4. ASSUME NEW r \in Req,
             PutAccountWrite(r) \/ PutContainer(r) \/ DeleteContainer(r) \/ PutBlob(r) \/ DeleteBlob(r)
               \/ ReadData(r) \/ (\E g \in Rg : PutAccountRead(r, g))
               \/ \E op \in DOMAIN Routes, at \in Container \X Blob : Authorize(r, op, at)
      PROVE  UNCHANGED <<msgs, lease, consumed, nextMsg>>
  BY <1>4 DEF PutAccountWrite, PutContainer, DeleteContainer, PutBlob, DeleteBlob, ReadData, PutAccountRead,
              Authorize
<1>5. CASE Crash \/ Tick \/ UNCHANGED svars
  BY <1>3, <1>5 DEF Crash, Tick, svars
<1> QED
  BY <1>1, <1>2, <1>3, <1>4, <1>5 DEF SNext


\* SASPermits: letters for reading, listing and processing let no request through
\* that writes, adds or deletes.
LEMMA ReadLetters ==
    ASSUME STypeOK, NEW op \in DOMAIN Routes, NEW sp \in LettersFor(op), sp \subseteq {"r", "l", "p"}
    PROVE  op \in Reading \cup {"getMessage"}
<1>1. PICK g \in Rows : sp \in LetterTable[op][g][account[g]]
  BY DEF LettersFor
<1>2. g \in Rg /\ account[g] \in 1 .. MaxKey
  BY StorageAssumption DEF STypeOK, Rows
<1>3. PICK c \in Credential : sp = Signed(c) /\ \E t \in 0 .. 2 : Authorized(c, Routes[op], g, account[g], t)
  BY <1>1, <1>2 DEF LetterTable
<1>4. c.kind = "sas"
  <2>1. "w" \notin Signed(c)
    BY <1>3
  <2> QED
    BY <2>1 DEF Signed, Letters
<1>5. SASPermits(sp, Routes[op])
  BY <1>3, <1>4 DEF Signed, Authorized, VerifyStorageSAS
<1>6. \A x \in {"d", "w", "c", "a"} : x \notin sp
  OBVIOUS
<1> QED
  BY <1>5, <1>6 DEF SASPermits, Routes, Route, Reading

\* Authorize is where a request gets its letters.
LEMMA ReaderStep == STypeOK /\ ReaderInv /\ [SNext]_svars => ReaderInv'
<1> SUFFICES ASSUME STypeOK, ReaderInv, [SNext]_svars PROVE ReaderInv'
  OBVIOUS
<1>a. req \in [Req -> AccountRequest \cup DataRequest \cup {Idle}]
  BY DEF STypeOK
<1>b. ASSUME \A q \in Req : req'[q] = req[q] \/ req'[q] = Idle PROVE ReaderInv'
  BY <1>b DEF ReaderInv
<1>1. ASSUME NEW r \in Req, NEW op \in DOMAIN Routes, NEW at \in Container \X Blob, Authorize(r, op, at)
      PROVE  ReaderInv'
  <2>1. PICK sp \in LettersFor(op) : req' = [req EXCEPT ![r] =
                    [op |-> IF op \in Reading THEN "read" ELSE op, at |-> at, key |-> 0,
                     reader |-> sp \subseteq {"r", "l", "p"}]]
    BY <1>1 DEF Authorize
  <2>2. sp \subseteq {"r", "l", "p"} => op \in Reading \cup {"getMessage"}
    BY ReadLetters
  <2>3. /\ req'[r].op = IF op \in Reading THEN "read" ELSE op
        /\ req'[r].reader = (sp \subseteq {"r", "l", "p"})
        /\ \A q \in Req \ {r} : req'[q] = req[q]
    BY <1>a, <2>1
  <2> QED
    BY <2>2, <2>3 DEF ReaderInv
<1>2. ASSUME NEW r \in Req, NEW g \in Rg, PutAccountRead(r, g) PROVE ReaderInv'
  <2>1. PICK k : req' = [req EXCEPT ![r] = PutAccountOf(g, k)]
    BY <1>2 DEF PutAccountRead
  <2>2. req'[r].reader = FALSE /\ \A q \in Req \ {r} : req'[q] = req[q]
    BY <1>a, <2>1 DEF PutAccountOf
  <2> QED
    BY <2>2 DEF ReaderInv
<1>3. ASSUME NEW r \in Req, Finish(r) PROVE ReaderInv'
  BY <1>a, <1>b, <1>3 DEF Finish
<1>4. ASSUME NEW r \in Req,
             PutAccountWrite(r) \/ PutContainer(r) \/ DeleteContainer(r) \/ PutBlob(r) \/ DeleteBlob(r)
               \/ ReadData(r) \/ PostMessage(r) \/ \E timeout \in Timeout : GetMessage(r, timeout)
      PROVE  ReaderInv'
  BY <1>3, <1>4 DEF PutAccountWrite, PutContainer, DeleteContainer, PutBlob, DeleteBlob, ReadData,
                    PostMessage, GetMessage
<1>5. CASE Crash \/ Tick \/ UNCHANGED svars
  BY <1>b, <1>5 DEF Crash, Tick, svars
<1> QED
  BY <1>1, <1>2, <1>4, <1>5 DEF SNext

LEMMA SInvAlways == SSpec => []SInv
<1>1. SInv /\ [SNext]_svars => SInv'
  BY STypeStep, KeysStep, WipedStep, QueueStep, ReaderStep DEF SInv
<1> QED
  BY <1>1, SInitInv, PTL DEF SSpec

\* The rows of the queue are counted by their ids.
LEMMA QueueCounts ==
    ASSUME STypeOK, QueueInv
    PROVE  NothingLost
<1>1. ASSUME NEW m \in 1 .. (nextMsg - 1)
      PROVE  Cardinality({i \in 1 .. Len(msgs) : msgs[i].id = m}) = IF m \in consumed THEN 0 ELSE 1
  <2>1. CASE m \in consumed
    <3>1. {i \in 1 .. Len(msgs) : msgs[i].id = m} = {}
      BY <2>1 DEF QueueInv
    <3> QED
      BY <2>1, <3>1, FS_EmptySet
  <2>2. CASE m \notin consumed
    <3>1. PICK i \in 1 .. Len(msgs) : msgs[i].id = m
      BY <1>1, <2>2 DEF QueueInv
    <3>2. {j \in 1 .. Len(msgs) : msgs[j].id = m} = {i}
      BY <3>1 DEF QueueInv
    <3> QED
      BY <2>2, <3>2, FS_Singleton
  <2> QED
    BY <2>1, <2>2
<1>2. ASSUME NEW i \in 1 .. Len(msgs), now >= lease[msgs[i].id] PROVE Visible(msgs[i])
  <2>1. msgs[i] \in Message
    BY DEF STypeOK
  <2>2. now \in Nat /\ lease[msgs[i].id] \in Nat
    BY <2>1, StorageAssumption DEF STypeOK, Message
  <2>3. lease[msgs[i].id] \div 2 <= now \div 2
    BY <1>2, <2>2
  <2> QED
    BY <2>3 DEF QueueInv, Visible, Seconds
<1> QED
  BY <1>1, <1>2 DEF NothingLost

\* However PUTs of accounts, blob and queue requests, crashes and the clock
\* interleave: the groups of a name share its key unless two first PUTs
\* overlapped, DeleteContainer leaves nothing that comes back, and Dequeue neither
\* loses a message, nor keeps one it gave away for good, nor hides one too long.
THEOREM StorageAlways == SSpec => []StorageInv
<1>1. SInv => StorageInv
  BY QueueCounts DEF SInv, StorageInv
<1> QED
  BY <1>1, SInvAlways, PTL

\* A message that Dequeue gave out with a timeout is not given out again before
\* the last second of that timeout.
THEOREM LeaseAlways == SSpec => LeaseHonoured
<1> DEFINE Early == \A m \in 1 .. MaxMsg : lease'[m] # lease[m] \/ m \in consumed' \ consumed
                                          => now > lease[m] - 2 \/ lease[m] = 0
<1>1. ASSUME SInv, [SNext]_svars PROVE [Early]_svars
  <2>1. STypeOK /\ QueueInv
    BY <1>1 DEF SInv
  <2>2. ASSUME NEW r \in Req, NEW timeout \in Timeout, GetMessage(r, timeout) PROVE Early
    <3>1. CASE UNCHANGED <<lease, consumed>>
      BY <3>1
    <3>2. CASE Oldest \in 1 .. Len(msgs) /\ Visible(msgs[Oldest]) /\ Receives(Oldest, timeout)
      <4> DEFINE m == msgs[Oldest].id
      <4>1. msgs[Oldest] \in Message
        BY <2>1, <3>2 DEF STypeOK
      <4>2. m \in 1 .. MaxMsg /\ now \in Nat /\ lease[m] \in Nat /\ lease \in [1 .. MaxMsg -> Nat]
        BY SMTT(30), <2>1, <4>1, StorageAssumption DEF STypeOK, Message
      <4>3. Seconds(lease[m]) = 0 \/ Seconds(lease[m]) <= Seconds(now)
        BY <2>1, <3>2 DEF QueueInv, Visible
      <4>4. now > lease[m] - 2 \/ lease[m] = 0
        BY <4>2, <4>3 DEF Seconds
      <4>5. \A k \in 1 .. MaxMsg : lease'[k] # lease[k] \/ k \in consumed' \ consumed => k = m
        BY <3>2, <4>2 DEF Receives
      <4> QED
        BY <4>4, <4>5
    <3> QED
      BY <2>1, <2>2, <3>1, <3>2, ReceivesOldest
  <2>3. ASSUME NEW r \in Req,
               PutAccountWrite(r) \/ PutContainer(r) \/ DeleteContainer(r) \/ PutBlob(r) \/ DeleteBlob(r)
                 \/ ReadData(r) \/ PostMessage(r) \/ (\E g \in Rg : PutAccountRead(r, g))
                 \/ \E op \in DOMAIN Routes, at \in Container \X Blob : Authorize(r, op, at)
        PROVE  UNCHANGED <<lease, consumed>>
    BY <2>3 DEF PutAccountWrite, PutContainer, DeleteContainer, PutBlob, DeleteBlob, ReadData, PostMessage,
                PutAccountRead, Authorize
  <2>4. CASE Crash \/ Tick
    BY <2>4 DEF Crash, Tick
  <2> QED
    BY <1>1, <2>2, <2>3, <2>4 DEF SNext
<1> QED
  BY <1>1, SInvAlways, PTL DEF SSpec, LeaseHonoured

\* Whatever the letters, keys and roles in use, a request with a SAS for reading
\* ends without a change of accounts, containers and blobs, and without a message
\* added (SASPermits and the order of the checks in authorizeDataPlane).
THEOREM ReadersAlways == SSpec => ReadersOnlyReceive
<1> DEFINE Spares == \A r \in Req : req[r] # Idle /\ req[r].reader /\ req'[r] = Idle
                                    => UNCHANGED <<account, containers, blobs, nextMsg>>
<1>1. ASSUME SInv, [SNext]_svars PROVE [Spares]_svars
  <2>1. STypeOK /\ ReaderInv /\ req \in [Req -> AccountRequest \cup DataRequest \cup {Idle}]
    BY <1>1 DEF SInv, STypeOK
  <2>2. ASSUME NEW r \in Req, Finish(r), req[r].op \notin {"read", "getMessage"}, req[r] # Idle PROVE Spares
    BY <2>1, <2>2 DEF Finish, ReaderInv
  <2>3. ASSUME NEW r \in Req,
               PutAccountWrite(r) \/ PutContainer(r) \/ DeleteContainer(r) \/ PutBlob(r) \/ DeleteBlob(r)
                 \/ PostMessage(r)
        PROVE  Spares
    BY <2>2, <2>3 DEF PutAccountWrite, PutContainer, DeleteContainer, PutBlob, DeleteBlob, PostMessage, Doing
  <2>4. ASSUME NEW r \in Req,
               ReadData(r) \/ (\E timeout \in Timeout : GetMessage(r, timeout))
                 \/ (\E g \in Rg : PutAccountRead(r, g))
                 \/ \E op \in DOMAIN Routes, at \in Container \X Blob : Authorize(r, op, at)
        PROVE  UNCHANGED <<account, containers, blobs, nextMsg>>
    BY <2>4 DEF ReadData, GetMessage, PutAccountRead, Authorize
  <2>5. CASE Crash \/ Tick
    BY <2>5 DEF Crash, Tick
  <2> QED
    BY <1>1, <2>3, <2>4, <2>5 DEF SNext
<1> QED
  BY <1>1, SInvAlways, PTL DEF SSpec, ReadersOnlyReceive

-----------------------------------------------------------------------------
(* Lists: what a filter and a limit leave (Listing).                       *)

\* Induction over the numbers for a set, from the least number that is not in it.
LEMMA SetInduction ==
    ASSUME NEW T, 0 \in T, \A n \in Nat : n \in T => n + 1 \in T
    PROVE  \A n \in Nat : n \in T
<1> DEFINE U == {n \in Nat : n \notin T}
<1>1. SUFFICES ASSUME U # {} PROVE FALSE
  OBVIOUS
<1>2. U \subseteq Nat
  OBVIOUS
<1>3. PICK n \in U : \A m \in U : n <= m
  <2> HIDE DEF U
  <2> QED BY <1>1, <1>2, LeastOf
<1>4. n \in Nat /\ n # 0 /\ n - 1 \in Nat /\ n = (n - 1) + 1
  BY <1>3
<1>5. n - 1 \in U
  BY <1>3, <1>4
<1> QED
  BY <1>3, <1>4, <1>5

\* The same over sequences.
LEMMA SeqInduction ==
    ASSUME NEW E, NEW T, <<>> \in T,
           \A s \in Seq(E), e \in E : s \in T => Append(s, e) \in T
    PROVE  \A s \in Seq(E) : s \in T
<1> DEFINE N == {n \in Nat : \A s \in Seq(E) : Len(s) = n => s \in T}
<1>1. 0 \in N
  <2>1. \A s \in Seq(E) : Len(s) = 0 => s = <<>>
    OBVIOUS
  <2> QED BY <2>1
<1>2. ASSUME NEW n \in Nat, n \in N
      PROVE  n + 1 \in N
  <2> SUFFICES ASSUME NEW s \in Seq(E), Len(s) = n + 1
               PROVE  s \in T
    OBVIOUS
  <2> DEFINE t == SubSeq(s, 1, n)
  <2>1. t \in Seq(E) /\ Len(t) = n /\ s[n + 1] \in E
    OBVIOUS
  <2>2. s = Append(t, s[n + 1])
    OBVIOUS
  <2>3. t \in T
    BY <1>2, <2>1
  <2> HIDE DEF t
  <2> QED
    BY <2>1, <2>2, <2>3
<1>3. \A n \in Nat : n \in N
  <2> HIDE DEF N
  <2> QED BY <1>1, <1>2, SetInduction
<1> QED
  BY <1>3

-----------------------------------------------------------------------------
\* The loop of Keep, as an equation for the lists after each entry.
Loop(s, S, out) ==
    out = [i \in 0 .. Len(s) |-> IF i = 0 THEN <<>>
                                 ELSE IF s[i] \in S THEN Append(out[i - 1], s[i])
                                 ELSE out[i - 1]]

\* The loop runs for every list.
LEMMA LoopRuns ==
    ASSUME NEW E, NEW S
    PROVE  \A s \in Seq(E) : \E out : Loop(s, S, out)
<1> DEFINE T == {s \in Seq(E) : \E out : Loop(s, S, out)}
<1>1. <<>> \in T
  <2>1. Loop(<<>>, S, [i \in 0 .. 0 |-> <<>>])
    BY DEF Loop
  <2> QED BY <2>1
<1>2. ASSUME NEW s \in Seq(E), NEW e \in E, s \in T
      PROVE  Append(s, e) \in T
  <2> DEFINE t == Append(s, e)
             n == Len(s)
  <2>1. PICK o : Loop(s, S, o)
    BY <1>2
  <2> DEFINE q == [i \in 0 .. (n + 1) |-> IF i <= n THEN o[i]
                                          ELSE IF e \in S THEN Append(o[n], e) ELSE o[n]]
  <2>2. n \in Nat /\ t \in Seq(E) /\ Len(t) = n + 1 /\ t[n + 1] = e /\ \A i \in 1 .. n : t[i] = s[i]
    OBVIOUS
  <2>3. \A i \in 0 .. n : o[i] = IF i = 0 THEN <<>>
                                 ELSE IF s[i] \in S THEN Append(o[i - 1], s[i])
                                 ELSE o[i - 1]
    BY <2>1, <2>2 DEF Loop
  <2>4. ASSUME NEW i \in 0 .. (n + 1)
        PROVE  q[i] = IF i = 0 THEN <<>>
                      ELSE IF t[i] \in S THEN Append(q[i - 1], t[i])
                      ELSE q[i - 1]
    <3> HIDE DEF t, n
    <3>1. CASE i = 0
      BY <3>1, <2>2, <2>3
    <3>2. CASE i \in 1 .. n
      <4>1. q[i] = o[i] /\ q[i - 1] = o[i - 1] /\ t[i] = s[i]
        BY <3>2, <2>2
      <4> QED BY <4>1, <3>2, <2>2, <2>3
    <3>3. CASE i = n + 1
      <4>1. q[i - 1] = o[n] /\ t[i] = e /\ i # 0
        BY <3>3, <2>2
      <4> QED BY <4>1, <3>3, <2>2
    <3> QED BY <3>1, <3>2, <3>3, <2>2
  <2>5. Loop(t, S, q)
    <3>1. q = [i \in 0 .. (n + 1) |-> q[i]]
      OBVIOUS
    <3> HIDE DEF q, t, n
    <3> QED BY <2>2, <2>4, <3>1 DEF Loop
  <2> HIDE DEF t, q
  <2> QED BY <2>2, <2>5 DEF t
<1>3. \A s \in Seq(E) : s \in T
  <2> HIDE DEF T
  <2> QED BY <1>1, <1>2, SeqInduction
<1> QED
  BY <1>3

\* One entry more at the end changes nothing before it.
LEMMA LoopsAgree ==
    ASSUME NEW E, NEW S, NEW s \in Seq(E), NEW e \in E, NEW o, NEW q,
           Loop(s, S, o), Loop(Append(s, e), S, q)
    PROVE  \A i \in 0 .. Len(s) : o[i] = q[i]
<1> DEFINE t == Append(s, e)
           T == {i \in Nat : i <= Len(s) => o[i] = q[i]}
<1>1. /\ \A i \in 0 .. Len(s) : o[i] = IF i = 0 THEN <<>>
                                       ELSE IF s[i] \in S THEN Append(o[i - 1], s[i])
                                       ELSE o[i - 1]
      /\ \A i \in 0 .. Len(t) : q[i] = IF i = 0 THEN <<>>
                                       ELSE IF t[i] \in S THEN Append(q[i - 1], t[i])
                                       ELSE q[i - 1]
  BY DEF Loop
<1>2. Len(s) \in Nat /\ Len(t) = Len(s) + 1 /\ \A i \in 1 .. Len(s) : s[i] = t[i]
  OBVIOUS
<1> HIDE DEF t
<1>3. 0 \in T
  BY <1>1, <1>2
<1>4. ASSUME NEW i \in Nat, i \in T
      PROVE  i + 1 \in T
  <2> SUFFICES ASSUME i + 1 <= Len(s)
               PROVE  o[i + 1] = q[i + 1]
    OBVIOUS
  <2>1. o[i] = q[i] /\ s[i + 1] = t[i + 1]
    BY <1>2, <1>4
  <2>2. (i + 1) - 1 = i /\ i + 1 # 0 /\ i + 1 \in 0 .. Len(s) /\ i + 1 \in 0 .. Len(t)
    BY <1>2
  <2> QED BY <2>1, <2>2, <1>1
<1>5. \A i \in Nat : i \in T
  <2> HIDE DEF T
  <2> QED BY <1>3, <1>4, SetInduction
<1> QED
  BY <1>2, <1>5

\* Keep is what its loop ends with.
LEMMA KeepIsLoop ==
    ASSUME NEW E, NEW S, NEW s \in Seq(E)
    PROVE  \E out : Loop(s, S, out) /\ Keep(s, S) = out[Len(s)]
<1>1. Keep(s, S) = (CHOOSE out : Loop(s, S, out))[Len(s)]
  BY DEF Keep, Loop
<1>2. \E out : Loop(s, S, out)
  BY LoopRuns
<1> QED
  BY <1>1, <1>2

LEMMA KeepEmpty == ASSUME NEW S PROVE Keep(<<>>, S) = <<>>
<1>1. <<>> \in Seq({}) /\ Len(<<>>) = 0
  OBVIOUS
<1>2. PICK out : Loop(<<>>, S, out) /\ Keep(<<>>, S) = out[Len(<<>>)]
  BY <1>1, KeepIsLoop
<1> QED
  BY <1>1, <1>2 DEF Loop

LEMMA KeepAppend ==
    ASSUME NEW E, NEW S, NEW s \in Seq(E), NEW e \in E
    PROVE  Keep(Append(s, e), S) = IF e \in S THEN Append(Keep(s, S), e) ELSE Keep(s, S)
<1> DEFINE t == Append(s, e)
           n == Len(s)
<1>1. n \in Nat /\ t \in Seq(E) /\ Len(t) = n + 1 /\ t[n + 1] = e /\ \A i \in 1 .. n : s[i] = t[i]
  OBVIOUS
<1> HIDE DEF t
<1>2. PICK o : Loop(s, S, o) /\ Keep(s, S) = o[n]
  BY KeepIsLoop
<1>3. PICK q : Loop(t, S, q) /\ Keep(t, S) = q[Len(t)]
  BY <1>1, KeepIsLoop
<1> HIDE DEF n
<1>4. o[n] = q[n]
  <2>1. Loop(s, S, o) /\ Loop(Append(s, e), S, q)
    BY <1>2, <1>3 DEF t
  <2>2. \A i \in 0 .. Len(s) : o[i] = q[i]
    BY <2>1, LoopsAgree
  <2> QED BY <2>2, <1>1 DEF n
<1>5. q[n + 1] = IF e \in S THEN Append(q[n], e) ELSE q[n]
  <2>1. n + 1 \in 0 .. Len(t) /\ (n + 1) - 1 = n /\ n + 1 # 0
    BY <1>1
  <2> QED BY <2>1, <1>1, <1>3 DEF Loop
<1> QED
  BY <1>1, <1>2, <1>3, <1>4, <1>5 DEF t

-----------------------------------------------------------------------------
\* out has the entries of s at the positions in I, in their order: at[k] is the
\* position of its k-th.
Picked(s, I, out, at) ==
    /\ at \in [1 .. Len(out) -> 1 .. Len(s)]
    /\ \A j, k \in 1 .. Len(out) : j < k => at[j] < at[k]
    /\ \A k \in 1 .. Len(out) : out[k] = s[at[k]]
    /\ {at[k] : k \in 1 .. Len(out)} = I

\* The positions of the entries that pass.
Passing(s, S) == {i \in 1 .. Len(s) : s[i] \in S}

\* Keep keeps the entries that pass, all of them, and in their order.
LEMMA KeepPicks ==
    ASSUME NEW E, NEW S
    PROVE  \A s \in Seq(E) : /\ Keep(s, S) \in Seq(E)
                             /\ \E at : Picked(s, Passing(s, S), Keep(s, S), at)
<1> DEFINE T == {s \in Seq(E) : /\ Keep(s, S) \in Seq(E)
                                /\ \E at : Picked(s, Passing(s, S), Keep(s, S), at)}
<1>1. <<>> \in T
  <2>1. <<>> \in Seq(E) /\ Len(<<>>) = 0 /\ 1 .. 0 = {}
    OBVIOUS
  <2>2. Picked(<<>>, Passing(<<>>, S), <<>>, [k \in 1 .. 0 |-> 0])
    BY <2>1 DEF Picked, Passing
  <2> QED BY <2>1, <2>2, KeepEmpty
<1>2. ASSUME NEW s \in Seq(E), NEW e \in E, s \in T
      PROVE  Append(s, e) \in T
  <2> DEFINE t == Append(s, e)
             n == Len(s)
             o == Keep(s, S)
             m == Len(o)
  <2>1. n \in Nat /\ t \in Seq(E) /\ Len(t) = n + 1 /\ t[n + 1] = e /\ \A i \in 1 .. n : t[i] = s[i]
    OBVIOUS
  <2>2. Keep(t, S) = IF e \in S THEN Append(o, e) ELSE o
    BY KeepAppend
  <2>3. o \in Seq(E)
    BY <1>2
  <2>4. PICK at : Picked(s, Passing(s, S), o, at)
    BY <1>2
  <2> HIDE DEF t, o
  <2>5. m \in Nat
    BY <2>3
  <2> HIDE DEF n, m
  <2>6. /\ at \in [1 .. m -> 1 .. n]
        /\ \A j, k \in 1 .. m : j < k => at[j] < at[k]
        /\ \A k \in 1 .. m : o[k] = s[at[k]]
        /\ {at[k] : k \in 1 .. m} = Passing(s, S)
    BY <2>4 DEF Picked, m, n
  <2>7. CASE e \notin S
    <3>1. Passing(t, S) = Passing(s, S)
      BY <2>1, <2>7 DEF Passing, n
    <3>2. Picked(t, Passing(t, S), o, at)
      <4>0. 1 .. n \subseteq 1 .. (n + 1)
        BY <2>1
      <4>1. at \in [1 .. m -> 1 .. (n + 1)] /\ \A k \in 1 .. m : at[k] \in 1 .. n
        BY <4>0, <2>6
      <4>2. \A k \in 1 .. m : o[k] = t[at[k]]
        BY <4>1, <2>1, <2>6
      <4> QED BY <3>1, <2>1, <2>6, <4>1, <4>2 DEF Picked, m
    <3> QED BY <2>1, <2>2, <2>3, <2>7, <3>2 DEF t
  <2>8. CASE e \in S
    <3> DEFINE u == Append(o, e)
               bt == [k \in 1 .. (m + 1) |-> IF k <= m THEN at[k] ELSE n + 1]
    <3>1. u \in Seq(E) /\ Len(u) = m + 1 /\ u[m + 1] = e /\ \A k \in 1 .. m : u[k] = o[k]
      BY <2>3, <2>5 DEF m
    <3>2. Passing(t, S) = Passing(s, S) \cup {n + 1}
      BY <2>1, <2>8 DEF Passing, n
    <3>3. bt \in [1 .. (m + 1) -> 1 .. (n + 1)] /\ bt[m + 1] = n + 1 /\ \A k \in 1 .. m : bt[k] = at[k]
      BY <2>1, <2>5, <2>6
    <3> HIDE DEF u, bt
    <3>4. ASSUME NEW j \in 1 .. (m + 1), NEW k \in 1 .. (m + 1), j < k
          PROVE  bt[j] < bt[k]
      <4>1. j \in 1 .. m /\ at[j] \in 1 .. n /\ bt[j] = at[j]
        BY <2>5, <2>6, <3>3, <3>4
      <4>2. CASE k = m + 1
        BY <4>1, <4>2, <2>1, <3>3
      <4>3. CASE k \in 1 .. m
        BY <4>1, <4>3, <2>6, <3>3, <3>4
      <4> QED BY <4>2, <4>3, <2>5
    <3>5. ASSUME NEW k \in 1 .. (m + 1)
          PROVE  u[k] = t[bt[k]]
      <4>1. CASE k = m + 1
        BY <4>1, <2>1, <3>1, <3>3
      <4>2. CASE k \in 1 .. m
        <5>1. at[k] \in 1 .. n
          BY <4>2, <2>6
        <5>2. u[k] = o[k] /\ bt[k] = at[k] /\ o[k] = s[at[k]]
          BY <4>2, <2>6, <3>1, <3>3
        <5> QED BY <5>1, <5>2, <2>1
      <4> QED BY <4>1, <4>2, <2>5
    <3>6. {bt[k] : k \in 1 .. (m + 1)} = Passing(s, S) \cup {n + 1}
      <4>1. 1 .. (m + 1) = (1 .. m) \cup {m + 1}
        BY <2>5
      <4> QED BY <4>1, <2>6, <3>3
    <3>7. Picked(t, Passing(t, S), u, bt)
      BY <2>1, <3>1, <3>2, <3>3, <3>4, <3>5, <3>6 DEF Picked
    <3> QED BY <2>1, <2>2, <2>8, <3>1, <3>7 DEF t, u
  <2> QED BY <2>7, <2>8
<1>3. \A s \in Seq(E) : s \in T
  <2> HIDE DEF T
  <2> QED BY <1>1, <1>2, SeqInduction
<1> QED
  BY <1>3

Both(S, R) == S \cap R

\* Two filters are one with both conditions.
LEMMA KeepTwice ==
    ASSUME NEW E, NEW S, NEW R
    PROVE  \A s \in Seq(E) : Keep(Keep(s, S), R) = Keep(s, Both(S, R))
<1> DEFINE T == {s \in Seq(E) : Keep(Keep(s, S), R) = Keep(s, Both(S, R))}
<1>1. <<>> \in T
  BY KeepEmpty
<1>2. ASSUME NEW s \in Seq(E), NEW e \in E, s \in T
      PROVE  Append(s, e) \in T
  <2>1. Keep(s, S) \in Seq(E)
    BY KeepPicks
  <2>2. Keep(Append(s, e), S) = IF e \in S THEN Append(Keep(s, S), e) ELSE Keep(s, S)
    BY KeepAppend
  <2>3. Keep(Append(s, e), Both(S, R)) = IF e \in Both(S, R) THEN Append(Keep(s, Both(S, R)), e)
                                       ELSE Keep(s, Both(S, R))
    BY KeepAppend
  <2>4. Keep(Append(Keep(s, S), e), R) = IF e \in R THEN Append(Keep(Keep(s, S), R), e)
                                         ELSE Keep(Keep(s, S), R)
    BY <2>1, KeepAppend
  <2>5. Append(s, e) \in Seq(E)
    OBVIOUS
  <2>6. e \in Both(S, R) <=> e \in S /\ e \in R
    BY DEF Both
  <2>7. Keep(Keep(s, S), R) = Keep(s, Both(S, R))
    BY <1>2
  <2>8. Keep(Keep(Append(s, e), S), R) = Keep(Append(s, e), Both(S, R))
    <3>1. CASE e \in S /\ e \in R
      BY <3>1, <2>2, <2>3, <2>4, <2>6, <2>7, Zenon
    <3>2. CASE e \in S /\ e \notin R
      BY <3>2, <2>2, <2>3, <2>4, <2>6, <2>7, Zenon
    <3>3. CASE e \notin S
      BY <3>3, <2>2, <2>3, <2>6, <2>7
    <3> QED BY <3>1, <3>2, <3>3
  <2> QED
    BY <2>5, <2>8
<1>3. \A s \in Seq(E) : s \in T
  <2> HIDE DEF T
  <2> QED BY <1>1, <1>2, SeqInduction
<1> QED
  BY <1>3

LEMMA KeepBoth ==
    ASSUME NEW E, NEW s \in Seq(E), NEW S, NEW R
    PROVE  Keep(Keep(s, S), R) = Keep(s, Both(S, R))
BY KeepTwice

\* A filter that everything passes keeps everything.
LEMMA KeepAll ==
    ASSUME NEW S
    PROVE  \A s \in Seq(S) : Keep(s, S) = s
<1> DEFINE T == {s \in Seq(S) : Keep(s, S) = s}
<1>1. <<>> \in T
  BY KeepEmpty
<1>2. ASSUME NEW s \in Seq(S), NEW e \in S, s \in T
      PROVE  Append(s, e) \in T
  <2>1. Keep(Append(s, e), S) = Append(Keep(s, S), e)
    BY KeepAppend
  <2> QED
    BY <1>2, <2>1
<1>3. \A s \in Seq(S) : s \in T
  <2> HIDE DEF T
  <2> QED BY <1>1, <1>2, SeqInduction
<1> QED
  BY <1>3

\* Only entries that pass are kept.
LEMMA KeptPass ==
    ASSUME NEW E, NEW S, NEW s \in Seq(E)
    PROVE  Keep(s, S) \in Seq(S)
<1>1. PICK at : Picked(s, Passing(s, S), Keep(s, S), at)
  BY KeepPicks
<1>2. Keep(s, S) \in Seq(E)
  BY KeepPicks
<1>3. ASSUME NEW k \in 1 .. Len(Keep(s, S))
      PROVE  Keep(s, S)[k] \in S
  <2>1. at[k] \in Passing(s, S) /\ Keep(s, S)[k] = s[at[k]]
    BY <1>1 DEF Picked
  <2> QED BY <2>1 DEF Passing
<1> HIDE DEF Keep
<1> QED
  BY <1>2, <1>3

LEMMA CutType ==
    ASSUME NEW E, NEW s \in Seq(E), NEW n \in Nat
    PROVE  Cut(s, n) \in Seq(E)
BY DEF Cut

\* Rising numbers are counted by their index.
LEMMA CountRising ==
    ASSUME NEW m \in Nat, NEW f, \A k \in 1 .. m : f[k] \in Nat,
           \A j, k \in 1 .. m : j < k => f[j] < f[k]
    PROVE  Cardinality({f[k] : k \in 1 .. m}) = m
<1> DEFINE S == {f[k] : k \in 1 .. m}
           g == [k \in 1 .. m |-> f[k]]
<1>1. \A j, k \in 1 .. m : f[j] = f[k] => j = k
  <2> TAKE j, k \in 1 .. m
  <2>1. j < k \/ k < j \/ j = k
    OBVIOUS
  <2> QED BY <2>1
<1>2. g \in Injection(1 .. m, S)
  BY <1>1 DEF Injection, IsInjective
<1>3. g \in Surjection(1 .. m, S)
  BY DEF Surjection
<1>4. ExistsBijection(1 .. m, S)
  BY <1>2, <1>3 DEF ExistsBijection, Bijection
<1> HIDE DEF S
<1>5. Cardinality(S) = m
  BY <1>4, FS_CountingElements
<1> QED
  BY <1>5 DEF S

\* How many positions of I come before x, and how many up to x.
Before(I, x) == Cardinality({j \in I : j < x})
UpTo(I, x)   == Cardinality({j \in I : j <= x})

\* The k-th picked position has k - 1 before it.
LEMMA PickedRank ==
    ASSUME NEW E, NEW s \in Seq(E), NEW out \in Seq(E), NEW I, NEW at, Picked(s, I, out, at)
    PROVE  /\ Len(out) = Cardinality(I)
           /\ \A k \in 1 .. Len(out) : Before(I, at[k]) = k - 1 /\ UpTo(I, at[k]) = k
<1> DEFINE m == Len(out)
<1>1. m \in Nat /\ Len(s) \in Nat
  OBVIOUS
<1> HIDE DEF m
<1>2. /\ \A k \in 1 .. m : at[k] \in 1 .. Len(s)
      /\ \A j, k \in 1 .. m : j < k => at[j] < at[k]
      /\ I = {at[k] : k \in 1 .. m}
  BY DEF Picked, m
<1>3. \A k \in 1 .. m : at[k] \in Nat
  BY <1>1, <1>2
<1>4. Cardinality(I) = m
  BY <1>1, <1>2, <1>3, CountRising
<1>5. ASSUME NEW k \in 1 .. m
      PROVE  Before(I, at[k]) = k - 1 /\ UpTo(I, at[k]) = k
  <2>1. k \in Nat /\ k - 1 \in Nat /\ 1 .. (k - 1) \subseteq 1 .. m /\ 1 .. k \subseteq 1 .. m
    BY <1>1
  <2>2. \A i \in 1 .. m : (at[i] < at[k] <=> i < k) /\ (at[i] <= at[k] <=> i <= k)
    <3> TAKE i \in 1 .. m
    <3>1. i < k \/ i = k \/ k < i
      OBVIOUS
    <3> QED BY <1>2, <1>3, <3>1
  <2>3. {j \in I : j < at[k]} = {at[i] : i \in 1 .. (k - 1)}
    BY <1>1, <1>2, <2>1, <2>2
  <2>4. {j \in I : j <= at[k]} = {at[i] : i \in 1 .. k}
    BY <1>1, <1>2, <2>1, <2>2
  <2>5. Cardinality({at[i] : i \in 1 .. (k - 1)}) = k - 1
    BY <1>2, <1>3, <2>1, CountRising
  <2>6. Cardinality({at[i] : i \in 1 .. k}) = k
    BY <1>2, <1>3, <2>1, CountRising
  <2> QED
    BY <2>3, <2>4, <2>5, <2>6 DEF Before, UpTo
<1> QED
  BY <1>4, <1>5 DEF m

\* The first n of the positions in I; 0 is all.
FirstOf(I, n) == {i \in I : n = 0 \/ Before(I, i) < n}

\* Cut leaves the first.
LEMMA CutPicks ==
    ASSUME NEW E, NEW s \in Seq(E), NEW out \in Seq(E), NEW I, NEW n \in Nat,
           \E at : Picked(s, I, out, at)
    PROVE  /\ Cut(out, n) \in Seq(E)
           /\ \E at : Picked(s, FirstOf(I, n), Cut(out, n), at)
<1>1. PICK at : Picked(s, I, out, at)
  OBVIOUS
<1> DEFINE m == Len(out)
<1>2. m \in Nat /\ Len(s) \in Nat
  OBVIOUS
<1>3. \A k \in 1 .. m : Before(I, at[k]) = k - 1
  BY <1>1, PickedRank
<1>4. /\ at \in [1 .. m -> 1 .. Len(s)]
      /\ \A j, k \in 1 .. m : j < k => at[j] < at[k]
      /\ \A k \in 1 .. m : out[k] = s[at[k]]
      /\ {at[k] : k \in 1 .. m} = I
  BY <1>1 DEF Picked
<1>5. CASE n > 0 /\ n < m
  <2> DEFINE u == SubSeq(out, 1, n)
             bt == [k \in 1 .. n |-> at[k]]
  <2>1. Cut(out, n) = u
    BY <1>5 DEF Cut
  <2>2. u \in Seq(E) /\ Len(u) = n /\ \A k \in 1 .. n : u[k] = out[k]
    BY <1>2, <1>5
  <2> HIDE DEF u, m
  <2>3. 1 .. n \subseteq 1 .. m
    BY <1>2, <1>5
  <2>4. FirstOf(I, n) = {bt[k] : k \in 1 .. n}
    <3>1. \A k \in 1 .. m : at[k] \in FirstOf(I, n) <=> k \in 1 .. n
      <4> TAKE k \in 1 .. m
      <4>1. at[k] \in I /\ (k - 1 < n <=> k \in 1 .. n)
        BY <1>2, <1>4, <1>5
      <4> QED BY <4>1, <1>3, <1>5 DEF FirstOf
    <3>2. FirstOf(I, n) \subseteq I
      BY DEF FirstOf
    <3> QED BY <3>1, <3>2, <2>3, <1>4
  <2>5. /\ bt \in [1 .. n -> 1 .. Len(s)]
        /\ \A j, k \in 1 .. n : j < k => bt[j] < bt[k]
        /\ \A k \in 1 .. n : u[k] = s[bt[k]]
    BY <1>4, <2>2, <2>3
  <2> HIDE DEF bt
  <2>6. Picked(s, FirstOf(I, n), u, bt)
    BY <2>2, <2>4, <2>5 DEF Picked
  <2> QED BY <2>1, <2>2, <2>6
<1>6. CASE ~ (n > 0 /\ n < m)
  <2>1. Cut(out, n) = out
    BY <1>6 DEF Cut
  <2>2. \A k \in 1 .. m : n = 0 \/ k - 1 < n
    BY <1>2, <1>6
  <2>3. FirstOf(I, n) = I
    <3> HIDE DEF m
    <3>1. \A i \in I : n = 0 \/ Before(I, i) < n
      BY <1>3, <1>4, <2>2
    <3> QED BY <3>1 DEF FirstOf
  <2> QED BY <1>1, <2>1, <2>3
<1> QED
  BY <1>5, <1>6

\* What a filter and a limit leave of a list: its first passing entries.
LEMMA FirstPassing ==
    ASSUME NEW E, NEW s \in Seq(E), NEW S, NEW n \in Nat
    PROVE  LET out   == Cut(Keep(s, S), n)
               first == FirstOf(Passing(s, S), n)
           IN  /\ out \in Seq(E) /\ Len(out) = Cardinality(first)
               /\ \A i \in first : out[UpTo(first, i)] = s[i]
               /\ \E at : Picked(s, first, out, at)
<1> DEFINE out   == Cut(Keep(s, S), n)
           first == FirstOf(Passing(s, S), n)
<1>1. Keep(s, S) \in Seq(E) /\ \E at : Picked(s, Passing(s, S), Keep(s, S), at)
  BY KeepPicks
<1>2. out \in Seq(E) /\ \E at : Picked(s, first, out, at)
  BY <1>1, CutPicks
<1> HIDE DEF out, first
<1>3. PICK at : Picked(s, first, out, at)
  BY <1>2
<1>4. /\ Len(out) = Cardinality(first)
      /\ \A k \in 1 .. Len(out) : UpTo(first, at[k]) = k
  BY <1>2, <1>3, PickedRank
<1>5. ASSUME NEW i \in first
      PROVE  out[UpTo(first, i)] = s[i]
  <2>1. PICK k \in 1 .. Len(out) : i = at[k]
    BY <1>3 DEF Picked
  <2> QED BY <1>3, <1>4, <2>1 DEF Picked
<1> QED
  BY <1>2, <1>4, <1>5 DEF out, first

-----------------------------------------------------------------------------
(* Table storage.                                                          *)

\* A request under way read before now; while the row of its key is as it was
\* then, what it will write is what it would write in one step, and a POST found
\* no entity.  A SAS that only adds can only POST.
PendingInv ==
    \A r \in TReq : treq[r] # TIdle =>
       /\ treq[r].write < clock
       /\ treq[r].sp = {"a"} => treq[r].kind = "insert"
       /\ touched[treq[r].key] <= treq[r].write =>
             /\ treq[r].props = Merged(treq[r].kind, rows[treq[r].key], treq[r].set, treq[r].write)
             /\ treq[r].kind = "insert" => rows[treq[r].key] = NoEntity

\* No row changed in the future.
TouchedBefore == \A k \in Key : touched[k] <= clock

\* The inductive invariant.
TInv == TTypeOK /\ PendingInv /\ TouchedBefore

LEMMA TInitInv == TInit => TInv
<1> SUFFICES ASSUME TInit PROVE TInv
  OBVIOUS
<1> USE MaxEntityAssumption DEF TInit
<1>1. TTypeOK
  <2>1. clock \in 1 .. (MaxEntity + 1) /\ touched \in [Key -> 0 .. (MaxEntity + 1)]
    OBVIOUS
  <2>2. rows \in [Key -> Entity \cup {NoEntity}] /\ treq \in [TReq -> Request \cup {TIdle}]
    OBVIOUS
  <2> QED
    BY <2>1, <2>2 DEF TTypeOK
<1> QED
  BY <1>1 DEF TInv, PendingInv, TouchedBefore

\* What is stored over an entity is an entity's properties.
LEMMA MergedType ==
    ASSUME NEW kind, NEW old \in Entity \cup {NoEntity}, NEW P \in SUBSET Prop, NEW w \in 1 .. MaxEntity
    PROVE  Merged(kind, old, P, w) \in Props
<1>1. Body(P, w) \in Props
  BY MaxEntityAssumption DEF Body, Props
<1>2. CASE kind = "merge" /\ old # NoEntity
  <2>1. old.props \in [Prop -> 0 .. MaxEntity]
    BY <1>2 DEF Entity, Props
  <2> QED
    BY <1>2, <2>1, MaxEntityAssumption DEF Merged, Props
<1> QED
  BY <1>1, <1>2 DEF Merged

\* A request that begins is a request, and knows what it read.
LEMMA BeginPending ==
    ASSUME TInv, NEW r \in TReq, NEW kind \in {"insert", "put", "merge"}, NEW k \in Key,
           NEW P \in SUBSET Prop, NEW sp \in Grant, clock <= MaxEntity,
           sp = {"a"} => kind = "insert", kind = "insert" => rows[k] = NoEntity,
           treq' = [treq EXCEPT ![r] = Pending(kind, k, P, sp)], clock' = clock + 1,
           UNCHANGED <<created, rows, touched>>
    PROVE  TInv'
<1> USE MaxEntityAssumption
<1>t. TTypeOK /\ PendingInv /\ TouchedBefore
  BY DEF TInv
<1>1. clock \in 1 .. MaxEntity /\ clock' \in 1 .. (MaxEntity + 1) /\ rows[k] \in Entity \cup {NoEntity}
  BY <1>t DEF TTypeOK
<1> DEFINE q == Pending(kind, k, P, sp)
<1>2. q \in Request
  BY <1>1, MergedType DEF Pending, Request
<1>3. /\ q.write = clock /\ q.sp = sp /\ q.kind = kind /\ q.key = k /\ q.set = P
      /\ q.props = Merged(kind, rows[k], P, clock)
  BY DEF Pending
<1> HIDE DEF q
<1>4. treq'[r] = q /\ (\A p \in TReq \ {r} : treq'[p] = treq[p]) /\ treq' \in [TReq -> Request \cup {TIdle}]
  BY <1>t, <1>2 DEF TTypeOK, q
<1>5. TTypeOK'
  BY <1>t, <1>1, <1>4 DEF TTypeOK
<1>6. TouchedBefore'
  BY <1>t DEF TouchedBefore, TTypeOK
<1>7. PendingInv'
  <2> SUFFICES ASSUME NEW p \in TReq, treq'[p] # TIdle
               PROVE  /\ treq'[p].write < clock'
                      /\ treq'[p].sp = {"a"} => treq'[p].kind = "insert"
                      /\ touched[treq'[p].key] <= treq'[p].write =>
                           /\ treq'[p].props = Merged(treq'[p].kind, rows[treq'[p].key], treq'[p].set, treq'[p].write)
                           /\ treq'[p].kind = "insert" => rows[treq'[p].key] = NoEntity
    BY SMTT(30) DEF PendingInv, Merged, Body
  <2>1. CASE p = r
    BY <2>1, <1>1, <1>3, <1>4
  <2>2. CASE p # r
    <3>1. treq'[p] = treq[p] /\ treq[p] \in Request /\ treq[p].write \in Nat
      BY <2>2, <1>t, <1>4 DEF TTypeOK, Request
    <3> QED
      BY <3>1, <1>t, <1>1 DEF PendingInv
  <2> QED
    BY <2>1, <2>2
<1> QED
  BY <1>5, <1>6, <1>7 DEF TInv

\* A step that changes rows notes when, and no request under way takes the rows it
\* changed for the ones it read.
LEMMA RowsChange ==
    ASSUME TInv, clock' = clock, created' \in BOOLEAN, rows' \in [Key -> Entity \cup {NoEntity}],
           touched' \in [Key -> 0 .. (MaxEntity + 1)],
           \A k \in Key : (rows'[k] = rows[k] /\ touched'[k] = touched[k]) \/ touched'[k] = clock,
           treq' \in [TReq -> Request \cup {TIdle}],
           \A p \in TReq : treq'[p] = treq[p] \/ treq'[p] = TIdle
    PROVE  TInv'
<1> USE MaxEntityAssumption
<1>t. TTypeOK /\ PendingInv /\ TouchedBefore /\ clock \in Nat
  BY DEF TInv, TTypeOK
<1>1. TTypeOK'
  BY <1>t DEF TTypeOK
<1>2. TouchedBefore'
  BY <1>t DEF TouchedBefore, TTypeOK
<1>3. PendingInv'
  <2> SUFFICES ASSUME NEW p \in TReq, treq'[p] # TIdle
               PROVE  /\ treq'[p].write < clock
                      /\ treq'[p].sp = {"a"} => treq'[p].kind = "insert"
                      /\ touched'[treq'[p].key] <= treq'[p].write =>
                           /\ treq'[p].props = Merged(treq'[p].kind, rows'[treq'[p].key], treq'[p].set, treq'[p].write)
                           /\ treq'[p].kind = "insert" => rows'[treq'[p].key] = NoEntity
    BY DEF PendingInv, Merged, Body
  <2>1. treq'[p] = treq[p] /\ treq[p] \in Request /\ treq[p].write \in Nat /\ treq[p].key \in Key
    BY <1>t DEF TTypeOK, Request
  <2>2. treq[p].write < clock
    BY <2>1, <1>t DEF PendingInv
  <2>3. touched'[treq[p].key] <= treq[p].write
           => rows'[treq[p].key] = rows[treq[p].key] /\ touched'[treq[p].key] = touched[treq[p].key]
    <3>1. CASE touched'[treq[p].key] = clock
      BY <2>1, <2>2, <1>t, <3>1
    <3>2. CASE rows'[treq[p].key] = rows[treq[p].key] /\ touched'[treq[p].key] = touched[treq[p].key]
      BY <3>2
    <3> QED
      BY <2>1, <3>1, <3>2
  <2> QED
    BY <2>1, <2>2, <2>3, <1>t DEF PendingInv
<1> QED
  BY <1>1, <1>2, <1>3 DEF TInv

LEMMA TStep == TInv /\ [TNext]_tvars => TInv'
<1> SUFFICES ASSUME TInv, [TNext]_tvars PROVE TInv'
  OBVIOUS
<1> USE MaxEntityAssumption
<1>t. TTypeOK /\ clock \in Nat /\ clock \in 0 .. (MaxEntity + 1)
  BY DEF TInv, TTypeOK
<1>1. ASSUME NEW sp \in Grant, PutTable(sp) PROVE TInv'
  BY <1>t, <1>1, RowsChange DEF PutTable, TTypeOK
<1>2. ASSUME NEW sp \in Grant, DeleteTable(sp) PROVE TInv'
  <2>1. rows' \in [Key -> Entity \cup {NoEntity}] /\ touched' \in [Key -> 0 .. (MaxEntity + 1)]
    BY <1>t, <1>2 DEF DeleteTable
  <2>2. \A k \in Key : touched'[k] = clock
    BY <1>2 DEF DeleteTable
  <2> QED
    BY <1>t, <1>2, <2>1, <2>2, RowsChange DEF DeleteTable, TTypeOK
<1>3. ASSUME NEW sp \in Grant, NEW k \in Key, DeleteEntity(k, sp) PROVE TInv'
  <2>1. rows' \in [Key -> Entity \cup {NoEntity}] /\ touched' \in [Key -> 0 .. (MaxEntity + 1)]
    BY <1>t, <1>3 DEF DeleteEntity, TTypeOK
  <2>2. \A j \in Key : (rows'[j] = rows[j] /\ touched'[j] = touched[j]) \/ touched'[j] = clock
    BY <1>t, <1>3 DEF DeleteEntity, TTypeOK
  <2> QED
    BY <1>t, <1>3, <2>1, <2>2, RowsChange DEF DeleteEntity, TTypeOK
<1>4. ASSUME NEW sp \in Grant, NEW r \in TReq, NEW k \in Key, NEW P \in SUBSET Prop, CheckAbsent(r, k, P, sp)
      PROVE  TInv'
  BY <1>4, BeginPending DEF CheckAbsent
<1>5. ASSUME NEW sp \in Grant, NEW r \in TReq, NEW k \in Key, NEW P \in SUBSET Prop,
             NEW kind \in {"put", "merge"}, ReadEntity(r, kind, k, P, sp)
      PROVE  TInv'
  <2>1. sp # {"a"}
    <3>1. MayCall(IF kind = "put" THEN "putEntity" ELSE "mergeEntity", sp)
      BY <1>5 DEF ReadEntity
    <3>2. "u" \in sp
      BY <3>1 DEF MayCall, SASPermits, TableRoutes, Route
    <3> QED
      BY <3>2
  <2> QED
    BY <1>5, <2>1, BeginPending DEF ReadEntity
<1>6. ASSUME NEW r \in TReq, WriteEntity(r) PROVE TInv'
  <2> DEFINE e == [etag |-> treq[r].write, props |-> treq[r].props]
  <2>1. treq[r] \in Request /\ treq[r].key \in Key
    BY <1>t, <1>6 DEF WriteEntity, TTypeOK, Request
  <2>2. e \in Entity
    BY <2>1 DEF Request, Entity
  <2>3. rows' \in [Key -> Entity \cup {NoEntity}] /\ touched' \in [Key -> 0 .. (MaxEntity + 1)]
    BY <1>t, <1>6, <2>1, <2>2 DEF WriteEntity, TTypeOK
  <2>4. \A j \in Key : (rows'[j] = rows[j] /\ touched'[j] = touched[j]) \/ touched'[j] = clock
    BY <1>t, <1>6, <2>1 DEF WriteEntity, TTypeOK
  <2>5. /\ treq' \in [TReq -> Request \cup {TIdle}]
        /\ \A p \in TReq : treq'[p] = treq[p] \/ treq'[p] = TIdle
    BY <1>t, <1>6 DEF WriteEntity, TTypeOK
  <2> QED
    BY <1>t, <1>6, <2>3, <2>4, <2>5, RowsChange DEF WriteEntity, TTypeOK
<1>7. CASE TCrash
  BY <1>t, <1>7, RowsChange DEF TCrash, TTypeOK
<1>8. CASE UNCHANGED tvars
  BY <1>t, <1>8, RowsChange DEF tvars, TTypeOK
<1> QED
  BY <1>1, <1>2, <1>3, <1>4, <1>5, <1>6, <1>7, <1>8 DEF TNext

LEMMA TInvAlways == TSpec => []TInv
BY TInitInv, TStep, PTL DEF TSpec

\* UpsertEntity, which reads the entity with one statement and writes the whole
\* row with another, differs from one atomic step only when the row changed in
\* between.
THEOREM WritesAtomic == TSpec => AtomicUnlessOverlapped
<1> DEFINE Same1 == \A r \in TReq :
             /\ treq[r] # TIdle /\ WriteEntity(r)
             /\ touched[treq[r].key] <= treq[r].write
             => rows'[treq[r].key].props = Atomic(treq[r], rows[treq[r].key])
<1>1. ASSUME TInv, NEW r \in TReq, treq[r] # TIdle, WriteEntity(r), touched[treq[r].key] <= treq[r].write
      PROVE  rows'[treq[r].key].props = Atomic(treq[r], rows[treq[r].key])
  <2>1. treq[r] \in Request /\ treq[r].key \in Key /\ rows \in [Key -> Entity \cup {NoEntity}]
    BY <1>1 DEF TInv, TTypeOK, Request
  <2>2. rows'[treq[r].key].props = treq[r].props
    BY <1>1, <2>1 DEF WriteEntity
  <2>3. treq[r].props = Merged(treq[r].kind, rows[treq[r].key], treq[r].set, treq[r].write)
    BY <1>1 DEF TInv, PendingInv
  <2>4. Merged(treq[r].kind, rows[treq[r].key], treq[r].set, treq[r].write) = Atomic(treq[r], rows[treq[r].key])
    BY DEF Merged, Atomic, Body
  <2> QED
    BY <2>2, <2>3, <2>4
<1>2. TInv => [Same1]_tvars
  BY <1>1
<1> QED
  BY <1>2, TInvAlways, PTL DEF AtomicUnlessOverlapped

\* InsertEntity, which looks for the entity before it writes over whatever is
\* there, replaces none that was there when it looked, for a client that may only
\* add.
THEOREM AddersSpare == TSpec => AddSparesOlder
<1> DEFINE Spares1 == \A r \in TReq :
             /\ treq[r] # TIdle /\ treq[r].sp = {"a"} /\ WriteEntity(r)
             /\ rows[treq[r].key] # NoEntity
             => touched[treq[r].key] > treq[r].write
<1>1. ASSUME TInv, NEW r \in TReq, treq[r] # TIdle, treq[r].sp = {"a"}, rows[treq[r].key] # NoEntity
      PROVE  touched[treq[r].key] > treq[r].write
  <2>0. TTypeOK /\ treq[r] \in Request
    BY <1>1 DEF TInv, TTypeOK
  <2>a. treq[r].key \in Key /\ treq[r].write \in Nat
    BY <2>0, MaxEntityAssumption DEF Request
  <2>b. touched[treq[r].key] \in 0 .. (MaxEntity + 1)
    BY <2>0, <2>a DEF TTypeOK
  <2>1. treq[r].write \in Nat /\ touched[treq[r].key] \in Nat
    BY <2>a, <2>b, MaxEntityAssumption
  <2>2. ~ (touched[treq[r].key] <= treq[r].write)
    BY <1>1 DEF TInv, PendingInv
  <2> QED
    BY <2>1, <2>2
<1>2. TInv => [Spares1]_tvars
  BY <1>1
<1> QED
  BY <1>2, TInvAlways, PTL DEF AddSparesOlder

\* The keys in order are a list.
LEMMA KeysInOrder == /\ [i \in Key |-> i] \in Seq(Key)
                     /\ Len([i \in Key |-> i]) = Cardinality(Key)
<1> DEFINE n == Cardinality(Key)
           order == [i \in 1 .. n |-> i]
<1>1. n \in Nat /\ Key = 1 .. n
  BY KeyAssumption, FS_CardinalityType
<1> HIDE DEF n
<1>2. order \in Seq(1 .. n) /\ Len(order) = n
  BY <1>1
<1> QED
  BY <1>1, <1>2 DEF n

Found(k0, p, v) == {k \in Key : Matches(k, k0, p, v)}

\* A query is the filter by key and property over the keys in order, and its limit,
\* wherever the limit is applied.
LEMMA QueryIsFilter ==
    ASSUME NEW k0, NEW p, NEW v, NEW top \in Nat
    PROVE  QueryEntities(k0, p, v, top)
             = Cut(Keep([i \in Key |-> i], Found(k0, p, v)), top)
<1> DEFINE order == [i \in Key |-> i]
           A == {k \in Key : Matches(k, k0, "", 0)}
           B == Found(k0, p, v)
<1>2. order \in Seq(Key)
  BY KeysInOrder
<1>3. Both(A, B) = B
  BY KeyAssumption DEF Matches, Found, Both
<1> HIDE DEF order, A, B
<1>4. Keep(Keep(order, A), B) = Keep(order, B)
  <2>1. Keep(Keep(order, A), B) = Keep(order, Both(A, B))
    BY <1>2, KeepBoth
  <2> QED BY <2>1, <1>3
<1>5. CASE p \in Prop
  <2>1. QueryEntities(k0, p, v, top) = Cut(Keep(Keep(order, A), B), top)
    BY <1>5 DEF QueryEntities, order, A, B, Found
  <2> QED BY <2>1, <1>4 DEF order, B
<1>6. CASE p \notin Prop
  <2>1. QueryEntities(k0, p, v, top) = Keep(Cut(Keep(order, A), top), B)
    BY <1>6 DEF QueryEntities, order, A, B, Found
  <2>2. A = B
    BY <1>6, KeyAssumption DEF A, B, Matches, Found
  <2>3. Keep(order, B) \in Seq(B)
    BY <1>2, KeptPass
  <2>4. Cut(Keep(order, B), top) \in Seq(B)
    BY <2>3, CutType
  <2>5. Keep(Cut(Keep(order, B), top), B) = Cut(Keep(order, B), top)
    BY <2>4, KeepAll
  <2> QED BY <2>1, <2>2, <2>5 DEF order, B
<1> QED
  BY <1>5, <1>6

FirstTop(k0, p, v, top) ==
    LET found == {k \in Key : Matches(k, k0, p, v)}
        out   == QueryEntities(k0, p, v, top)
    IN  /\ \A i, j \in 1 .. Len(out) : i < j => out[i] < out[j]
        /\ {out[i] : i \in 1 .. Len(out)} =
              {k \in found : top = 0 \/ Cardinality({x \in found : x < k}) < top}

\* One query gives the first top entities that match, in key order.
LEMMA QueryRight ==
    ASSUME NEW k0, NEW p, NEW v, NEW top \in Nat
    PROVE  FirstTop(k0, p, v, top)
<1> DEFINE order == [i \in Key |-> i]
           found == Found(k0, p, v)
           out   == QueryEntities(k0, p, v, top)
           first == FirstOf(found, top)
<1>0. Cardinality(Key) \in Nat
  BY KeyAssumption, FS_CardinalityType
<1>1. Key = 1 .. Cardinality(Key)
  BY KeyAssumption
<1>2. order \in Seq(Key) /\ Len(order) = Cardinality(Key)
  BY KeysInOrder, Zenon
<1>3. Passing(order, found) = found
  BY <1>0, <1>1, <1>2 DEF Passing, Found
<1>4. out = Cut(Keep(order, found), top)
  BY QueryIsFilter
<1> HIDE DEF out, order, found
<1>5. out \in Seq(Key) /\ \E at : Picked(order, first, out, at)
  BY <1>2, <1>3, <1>4, FirstPassing
<1> HIDE DEF first
<1>6. PICK at : Picked(order, first, out, at)
  BY <1>5
<1>8. \A k \in 1 .. Len(out) : out[k] = at[k]
  <2>1. \A k \in 1 .. Len(out) : at[k] \in Key /\ out[k] = order[at[k]]
    BY <1>0, <1>1, <1>2, <1>6 DEF Picked
  <2> QED BY <2>1 DEF order
<1>9. \A i, j \in 1 .. Len(out) : i < j => out[i] < out[j]
  BY <1>6, <1>8 DEF Picked
<1>10. {out[i] : i \in 1 .. Len(out)} = first
  <2>1. {at[k] : k \in 1 .. Len(out)} = first
    BY <1>6 DEF Picked
  <2> QED BY <2>1, <1>8
<1>11. first = {k \in found : top = 0 \/ Cardinality({x \in found : x < k}) < top}
  BY DEF first, FirstOf, Before
<1> QED
  BY <1>9, <1>10, <1>11 DEF out, found, Found, FirstTop

\* QueryIsFirstTop holds whatever the table contains.
LEMMA QueriesRight == QueryIsFirstTop
<1>1. Cardinality(Key) \in Nat
  BY KeyAssumption, FS_CardinalityType
<1>2. 0 .. Cardinality(Key) \subseteq Nat
  BY <1>1
<1>3. \A k0 \in Key \cup {0}, p \in Prop \cup {""}, v \in 1 .. MaxEntity, top \in 0 .. Cardinality(Key) :
         FirstTop(k0, p, v, top)
  BY <1>2, QueryRight, Zenon
<1> QED
  BY <1>3, Zenon DEF QueryIsFirstTop, FirstTop

\* TablesSafe: writes of an entity and the add-only SAS as above, and a query gives
\* the first entities that match, for any keys, properties and limits.
THEOREM TablesAlwaysSafe == TSpec => TablesSafe
<1>1. TInv => TTypeOK
  BY DEF TInv
<1> QED
  BY <1>1, QueriesRight, TInvAlways, WritesAtomic, AddersSpare, PTL DEF TablesSafe

-----------------------------------------------------------------------------
(* Cosmos DB.                                                              *)

\* Keys of rows and of PUTs under way are keys that were made; what listKeys
\* returned is the key of an existing row.
CInv ==
    /\ row \in [Group -> 0 .. MaxCosmosKey] /\ nextCosmosKey \in Nat \ {0}
    /\ \A q \in Put : put[q] # NoPut => put[q].group \in Group /\ put[q].key \in 1 .. MaxCosmosKey
    /\ put \in [Put -> {NoPut} \cup [group : Group, key : 1 .. MaxCosmosKey]]
    /\ \A gk \in listed : gk[1] \in Accounts /\ row[gk[1]] = gk[2]

LEMMA CStep == CInv /\ [CNext]_cvars => CInv'
<1> SUFFICES ASSUME CInv, [CNext]_cvars PROVE CInv'
  OBVIOUS
<1> USE CosmosAssumption
<1>1. ASSUME NEW q \in Put, NEW g \in Group, NewAccount(q, g) PROVE CInv'
  <2> DEFINE x == [group |-> g, key |-> nextCosmosKey]
  <2>1. nextCosmosKey \in 1 .. MaxCosmosKey /\ nextCosmosKey + 1 \in Nat \ {0}
    BY <1>1 DEF NewAccount, CInv
  <2>2. x \in [group : Group, key : 1 .. MaxCosmosKey]
    BY <2>1
  <2>3. put' \in [Put -> {NoPut} \cup [group : Group, key : 1 .. MaxCosmosKey]]
    BY <1>1, <2>2 DEF NewAccount, CInv
  <2>4. \A p \in Put : put'[p] = x \/ put'[p] = put[p]
    BY <1>1 DEF NewAccount, CInv
  <2>5. \A p \in Put : put'[p] # NoPut => put'[p].group \in Group /\ put'[p].key \in 1 .. MaxCosmosKey
    BY <2>1, <2>4 DEF CInv
  <2> QED
    BY <1>1, <2>1, <2>3, <2>5 DEF NewAccount, CInv, Accounts
<1>2. ASSUME NEW q \in Put, InsertAccount(q) PROVE CInv'
  <2>1. put[q].group \in Group /\ put[q].key \in 1 .. MaxCosmosKey
    BY <1>2 DEF InsertAccount, CInv
  <2>2. row' \in [Group -> 0 .. MaxCosmosKey] /\ \A g \in Group : row[g] # 0 => row'[g] = row[g]
    BY <1>2, <2>1 DEF InsertAccount, CInv
  <2>3. /\ put' \in [Put -> {NoPut} \cup [group : Group, key : 1 .. MaxCosmosKey]]
        /\ \A p \in Put : put'[p] = NoPut \/ put'[p] = put[p]
    BY <1>2 DEF InsertAccount, CInv
  <2>4. \A gk \in listed : gk[1] \in Accounts' /\ row'[gk[1]] = gk[2]
    BY <2>2 DEF CInv, Accounts
  <2> QED
    BY <1>2, <2>2, <2>3, <2>4 DEF InsertAccount, CInv
<1>3. ASSUME NEW g \in Group, ListKeys(g) PROVE CInv'
  BY <1>3 DEF ListKeys, CInv, Accounts
<1>4. ASSUME NEW i \in Id, NEW pk \in Pk, PutDoc(i, pk) PROVE CInv'
  BY <1>4 DEF PutDoc, CInv, Accounts
<1>5. CASE PutDB \/ PutColl \/ (\E g \in Group : UpdateAccount(g)) \/ UNCHANGED cvars
  BY <1>5 DEF PutDB, PutColl, UpdateAccount, cvars, CInv, Accounts
<1> QED
  BY <1>1, <1>2, <1>3, <1>4, <1>5 DEF CNext

\* Whatever PUTs of the account overlap, the key that listKeys returned goes on
\* working (InsertAccount never overwrites a row), and alone when no other group
\* has an account of the name.
THEOREM CosmosAlways == CSpec => []CosmosInv
<1>1. CInit => CInv
  BY CosmosAssumption DEF CInit, CInv
<1>2. ASSUME CInv PROVE CosmosInv
  <2> SUFFICES ASSUME NEW gk \in listed
               PROVE  /\ row[gk[1]] = gk[2]
                      /\ Accounts = {gk[1]} =>
                           {key \in 1 .. MaxCosmosKey : \E g \in Group : AuthKey(g, key)} = {gk[2]}
    BY DEF CosmosInv
  <2>1. gk[1] \in Group /\ row[gk[1]] = gk[2] /\ gk[2] \in 1 .. MaxCosmosKey
    BY <1>2, CosmosAssumption DEF CInv, Accounts
  <2> QED
    BY <2>1 DEF AuthKey
<1> QED
  BY <1>1, <1>2, CStep, PTL DEF CSpec

-----------------------------------------------------------------------------
(* Listings.                                                               *)

ListTypeOK ==
    /\ argRows \in Seq(ARGRow)
    /\ rights \subseteq Scope
    /\ query \in Query \cup {NoQuery}

\* What a request was allowed its caller could read at some moment of it, and while
\* the rights are steady every scope it is about is still to be asked for, allowed,
\* or not readable.
AskedInv ==
    query # NoQuery =>
       /\ rights \subseteq query.held
       /\ query.stable => query.held = rights
       /\ ~ query.root => ToSet(query.allowed) \subseteq query.held
       /\ ToSet(query.ask) \cup ToSet(query.allowed) \subseteq query.subs
       /\ query.kind = "graph" /\ query.stable =>
             \A s \in query.subs :
                \/ s \in ToSet(query.ask) \cup ToSet(query.allowed)
                \/ ~ query.root /\ s \notin query.held

\* The inductive invariant of the listings.
LInv == ListTypeOK /\ AskedInv /\ ListingsInv

LEMMA QueryFields ==
    ASSUME NEW q \in Query
    PROVE  /\ q.kind \in {"list", "graph"} /\ q.ask \in Seq(Scope) /\ q.subs \in SUBSET Scope
           /\ q.allowed \in Seq(Scope) /\ q.root \in BOOLEAN /\ q.type \in Type \cup {"any"}
           /\ q.limit \in 0 .. MaxLimit /\ q.held \in SUBSET Scope /\ q.stable \in BOOLEAN
           /\ q.table \in Tables
BY DEF Query

\* Nothing has to be shown of a step without an answer.
LEMMA NoAnswer == page = NoPage => ListingsInv
BY DEF NoPage, ListingsInv, ShownWereReadable, PageIsFirstReadable

\* The elements of a list, with one at the end and without the first.
LEMMA ElementsAppend ==
    ASSUME NEW E, NEW s \in Seq(E), NEW e \in E
    PROVE  ToSet(Append(s, e)) = ToSet(s) \cup {e} /\ Append(s, e) \in Seq(E)
<1>1. DOMAIN s = 1 .. Len(s) /\ DOMAIN Append(s, e) = 1 .. (Len(s) + 1) /\ Len(s) \in Nat
  OBVIOUS
<1>2. 1 .. (Len(s) + 1) = (1 .. Len(s)) \cup {Len(s) + 1}
  BY <1>1
<1>3. Append(s, e)[Len(s) + 1] = e /\ \A i \in 1 .. Len(s) : Append(s, e)[i] = s[i]
  OBVIOUS
<1>4. Append(s, e) \in Seq(E)
  OBVIOUS
<1> QED
  BY <1>1, <1>2, <1>3, <1>4 DEF ToSet

LEMMA ElementsTail ==
    ASSUME NEW E, NEW s \in Seq(E), s # <<>>
    PROVE  /\ ToSet(s) = ToSet(Tail(s)) \cup {Head(s)}
           /\ Tail(s) \in Seq(E) /\ Head(s) \in E
<1> DEFINE n == Len(s)
<1>1. n \in Nat /\ n # 0 /\ DOMAIN s = 1 .. n /\ DOMAIN Tail(s) = 1 .. (n - 1)
  OBVIOUS
<1>2. Head(s) = s[1] /\ \A i \in 1 .. (n - 1) : Tail(s)[i] = s[i + 1]
  OBVIOUS
<1>3. Tail(s) \in Seq(E) /\ Head(s) \in E
  OBVIOUS
<1>4. ASSUME NEW x
      PROVE  x \in ToSet(s) <=> x \in ToSet(Tail(s)) \/ x = Head(s)
  <2>1. ASSUME NEW i \in 1 .. n, x = s[i]
        PROVE  x \in ToSet(Tail(s)) \/ x = Head(s)
    <3>1. CASE i = 1
      BY <2>1, <3>1, <1>2
    <3>2. CASE i # 1
      <4>1. i - 1 \in 1 .. (n - 1) /\ (i - 1) + 1 = i
        BY <3>2, <1>1
      <4>2. Tail(s)[i - 1] = s[i]
        BY <4>1, <1>2
      <4> QED BY <4>1, <4>2, <2>1, <1>1 DEF ToSet
    <3> QED BY <3>1, <3>2
  <2>2. ASSUME NEW i \in 1 .. (n - 1), x = Tail(s)[i]
        PROVE  x \in ToSet(s)
    <3>1. i + 1 \in 1 .. n /\ x = s[i + 1]
      BY <2>2, <1>1, <1>2
    <3> QED BY <3>1, <1>1 DEF ToSet
  <2>3. Head(s) \in ToSet(s)
    BY <1>1, <1>2 DEF ToSet
  <2> QED BY <2>1, <2>2, <2>3, <1>1 DEF ToSet
<1> QED
  BY <1>3, <1>4

\* A list made of a finite set has its members.
LEMMA SetAsList ==
    ASSUME NEW S, IsFiniteSet(S)
    PROVE  SetToSeq(S) \in Seq(S) /\ ToSet(SetToSeq(S)) \subseteq S
<1> DEFINE n == Cardinality(S)
<1>1. n \in Nat /\ ExistsBijection(1 .. n, S)
  BY FS_CardinalityType
<1>2. \E f \in [1 .. n -> S] : IsInjective(f)
  BY <1>1 DEF ExistsBijection, Bijection, Injection
<1>3. SetToSeq(S) \in [1 .. n -> S]
  BY <1>2 DEF SetToSeq
<1> HIDE DEF n
<1> QED
  BY <1>1, <1>3 DEF ToSet

-----------------------------------------------------------------------------
\* uniqueNonEmpty loses no subscription and adds none.
LEMMA UniqueSame ==
    ASSUME NEW subs \in Seq(Scope \cup {NoScope})
    PROVE  /\ UniqueNonEmpty(subs) \in Seq(Scope)
           /\ ToSet(UniqueNonEmpty(subs)) = ToSet(subs) \ {NoScope}
<1> DEFINE n == Len(subs)
           first == {i \in 1 .. n : /\ subs[i] # NoScope
                                    /\ \A j \in 1 .. (i - 1) : subs[j] # subs[i]}
           order == [i \in 1 .. n |-> i]
           at == Keep(order, first)
           out == [k \in 1 .. Len(at) |-> subs[at[k]]]
<1>1. n \in Nat /\ DOMAIN subs = 1 .. n /\ \A i \in 1 .. n : subs[i] \in Scope \cup {NoScope}
  OBVIOUS
<1>2. UniqueNonEmpty(subs) = out
  BY DEF UniqueNonEmpty
<1>3. order \in Seq(1 .. n) /\ Len(order) = n /\ \A i \in 1 .. n : order[i] = i
  BY <1>1
<1>4. Passing(order, first) = first
  BY <1>3 DEF Passing
<1>5. first \subseteq 1 .. n /\ \A i \in first : subs[i] # NoScope
  OBVIOUS
<1>6. ASSUME NEW i \in 1 .. n, subs[i] # NoScope
      PROVE  \E j \in first : subs[j] = subs[i]
  <2> DEFINE U == {j \in 1 .. n : subs[j] = subs[i]}
  <2>1. U \subseteq Nat /\ U # {}
    BY <1>1
  <2>2. PICK j \in U : \A k \in U : j <= k
    <3> HIDE DEF U
    <3> QED BY <2>1, LeastOf
  <2>3. j \in 1 .. n /\ subs[j] = subs[i]
    BY <2>2
  <2>4. \A k \in 1 .. (j - 1) : subs[k] # subs[j]
    BY <2>2, <2>3, <1>1
  <2> QED BY <2>3, <2>4, <1>6
<1> HIDE DEF n, first, order
<1>7. at \in Seq(1 .. n) /\ \E w : Picked(order, first, at, w)
  BY <1>3, <1>4, KeepPicks
<1> HIDE DEF at
<1>8. PICK w : Picked(order, first, at, w)
  BY <1>7
<1>9. Len(at) \in Nat /\ \A k \in 1 .. Len(at) : at[k] \in 1 .. n
  <2> DEFINE D == 1 .. n
  <2>1. at \in Seq(D)
    BY <1>7
  <2> HIDE DEF D
  <2>2. Len(at) \in Nat /\ \A k \in 1 .. Len(at) : at[k] \in D
    BY <2>1
  <2> QED BY <2>2 DEF D
<1>10. \A k \in 1 .. Len(at) : at[k] = w[k]
  BY <1>3, <1>8 DEF Picked
<1>11. {at[k] : k \in 1 .. Len(at)} = first
  <2>1. {w[k] : k \in 1 .. Len(at)} = first
    BY <1>8 DEF Picked
  <2> QED BY <2>1, <1>10
<1>12. \A k \in 1 .. Len(at) : subs[at[k]] \in Scope
  BY <1>1, <1>5, <1>9, <1>11
<1>13. out \in Seq(Scope) /\ DOMAIN out = 1 .. Len(at)
  BY <1>9, <1>12
<1>14. ToSet(out) = {subs[i] : i \in first}
  <2>1. ToSet(out) = {out[k] : k \in 1 .. Len(at)}
    BY <1>13 DEF ToSet
  <2>2. \A k \in 1 .. Len(at) : out[k] = subs[at[k]]
    OBVIOUS
  <2>3. {out[k] : k \in 1 .. Len(at)} = {subs[at[k]] : k \in 1 .. Len(at)}
    BY <2>2
  <2> QED BY <2>1, <2>3, <1>11
<1>15. {subs[i] : i \in first} = ToSet(subs) \ {NoScope}
  <2>1. ToSet(subs) = {subs[i] : i \in 1 .. n}
    BY <1>1 DEF ToSet
  <2>2. ASSUME NEW x \in {subs[i] : i \in first}
        PROVE  x \in ToSet(subs) \ {NoScope}
    BY <2>1, <1>5
  <2>3. ASSUME NEW x \in ToSet(subs) \ {NoScope}
        PROVE  x \in {subs[i] : i \in first}
    BY <2>1, <1>6
  <2> QED BY <2>2, <2>3
<1> QED
  BY <1>2, <1>13, <1>14, <1>15

LEMMA AskedSame ==
    ASSUME NEW subs \in Seq(Scope \cup {NoScope})
    PROVE  /\ Asked(subs) \in Seq(Scope)
           /\ ToSet(Asked(subs)) = Named(subs) /\ Named(subs) \subseteq Scope
<1> DEFINE u == UniqueNonEmpty(subs)
<1>1. u \in Seq(Scope) /\ ToSet(u) = ToSet(subs) \ {NoScope}
  BY UniqueSame
<1>2. ToSet(u) \subseteq Scope /\ (u = <<>> <=> ToSet(u) = {})
  <2> HIDE DEF u
  <2>1. Len(u) \in Nat /\ DOMAIN u = 1 .. Len(u) /\ (u = <<>> <=> Len(u) = 0)
    BY <1>1
  <2>2. Len(u) # 0 => 1 \in DOMAIN u
    BY <2>1
  <2>3. \A i \in DOMAIN u : u[i] \in Scope
    BY <1>1
  <2>4. ToSet(u) \subseteq Scope
    BY <2>3 DEF ToSet
  <2>5. CASE Len(u) = 0
    <3>1. DOMAIN u = {}
      BY <2>1, <2>5
    <3> QED BY <3>1, <2>1, <2>4, <2>5 DEF ToSet
  <2>6. CASE Len(u) # 0
    BY <2>1, <2>2, <2>4, <2>6 DEF ToSet
  <2> QED BY <2>5, <2>6
<1>3. CASE u = <<>>
  <2>1. ToSet(subs) \subseteq {NoScope}
    BY <1>1, <1>2, <1>3
  <2>2. Asked(subs) = <<LabScope>> /\ Named(subs) = {LabScope}
    BY <1>3, <2>1 DEF Asked, Named
  <2>3. <<LabScope>> \in Seq(Scope) /\ ToSet(<<LabScope>>) = {LabScope}
    BY GraphAssumption DEF ToSet
  <2> QED BY <2>2, <2>3, GraphAssumption
<1>4. CASE u # <<>>
  <2>1. ~ (ToSet(subs) \subseteq {NoScope})
    BY <1>1, <1>2, <1>4
  <2> QED BY <1>1, <1>2, <1>4, <2>1 DEF Asked, Named
<1> QED
  BY <1>3, <1>4

-----------------------------------------------------------------------------
LEMMA LInitInv == GInit => LInv
<1> SUFFICES ASSUME GInit PROVE LInv
  OBVIOUS
<1>1. ListTypeOK /\ AskedInv
  BY DEF GInit, ListTypeOK, AskedInv
<1>2. ListingsInv
  BY NoAnswer DEF GInit
<1> QED
  BY <1>1, <1>2 DEF LInv

LEMMA LUpsert ==
    ASSUME LInv, NEW s \in Scope \cup {NoScope}, NEW type \in Type, UpsertARGResource(s, type)
    PROVE  LInv'
<1>1. AskedInv' /\ page' = NoPage
  BY DEF LInv, AskedInv, UpsertARGResource
<1>2. argRows' \in Seq(ARGRow)
  <2>1. argRows \in Seq(ARGRow)
    BY DEF LInv, ListTypeOK
  <2>2. CASE argRows' = Append(argRows, [scope |-> s, type |-> type])
    <3>1. [scope |-> s, type |-> type] \in ARGRow
      BY DEF ARGRow
    <3> QED BY <2>1, <2>2, <3>1
  <2>3. ASSUME NEW i \in 1 .. Len(argRows), argRows' = [argRows EXCEPT ![i].type = type]
        PROVE  argRows' \in Seq(ARGRow)
    <3>1. argRows[i] \in ARGRow
      BY <2>1
    <3>2. [argRows[i] EXCEPT !.type = type] \in ARGRow
      BY <3>1 DEF ARGRow
    <3>3. argRows' = [argRows EXCEPT ![i] = [argRows[i] EXCEPT !.type = type]]
      BY <2>3
    <3> QED BY <2>1, <3>2, <3>3
  <2> QED BY <2>2, <2>3 DEF UpsertARGResource
<1>3. ListTypeOK'
  BY <1>2 DEF LInv, ListTypeOK, UpsertARGResource
<1>4. ListingsInv'
  BY <1>1 DEF NoPage, ListingsInv, ShownWereReadable, PageIsFirstReadable
<1> QED
  BY <1>1, <1>3, <1>4 DEF LInv

LEMMA LChangeRights ==
    ASSUME LInv, NEW s \in Scope, ChangeRights(s)
    PROVE  LInv'
<1>1. ListTypeOK /\ AskedInv /\ rights' \subseteq Scope /\ argRows' = argRows /\ page' = NoPage
  BY DEF LInv, ListTypeOK, ChangeRights
<1>2. CASE query = NoQuery
  <2>1. query' = NoQuery
    BY <1>2 DEF ChangeRights
  <2> QED BY <1>1, <2>1 DEF LInv, ListTypeOK, AskedInv, NoPage, ListingsInv, ShownWereReadable, PageIsFirstReadable
<1>3. CASE query # NoQuery
  <2> DEFINE q == query
             h == q.held \cup rights'
  <2>1. q \in Query
    BY <1>1, <1>3 DEF ListTypeOK
  <2>2. query' = [q EXCEPT !.held = h, !.stable = FALSE]
    BY <1>3 DEF ChangeRights
  <2>3. q.held \subseteq Scope
    BY <2>1, QueryFields
  <2>4. h \in SUBSET Scope
    BY <1>1, <2>3
  <2>5. /\ query' \in Query /\ query'.held = h /\ query'.stable = FALSE
        /\ query'.ask = q.ask /\ query'.allowed = q.allowed /\ query'.root = q.root
        /\ query'.subs = q.subs
    <3> HIDE DEF q, h
    <3> QED BY <2>1, <2>2, <2>4 DEF Query
  <2>6. ListTypeOK'
    BY <1>1, <2>5 DEF ListTypeOK
  <2>7. AskedInv'
    BY <1>1, <1>3, <2>5 DEF AskedInv
  <2> QED BY <1>1, <2>6, <2>7 DEF LInv, NoPage, ListingsInv, ShownWereReadable, PageIsFirstReadable
<1> QED
  BY <1>2, <1>3

LEMMA LBeginList ==
    ASSUME LInv, NEW root \in BOOLEAN, NEW scopes \in SUBSET Scope, BeginList(root, scopes)
    PROVE  LInv'
<1> DEFINE ask == SetToSeq(scopes)
           q == [kind |-> "list", ask |-> ask, subs |-> scopes, allowed |-> <<>>,
                 root |-> root, table |-> RowTable,
                 type |-> "any", limit |-> 0, held |-> rights, stable |-> TRUE]
<1>1. IsFiniteSet(scopes)
  BY GraphAssumption, FS_Subset
<1>2. ask \in Seq(scopes) /\ ToSet(ask) \subseteq scopes
  BY <1>1, SetAsList
<1> HIDE DEF ask
<1>3. ask \in Seq(Scope)
  BY <1>2
<1>4. argRows' = argRows /\ rights' = rights /\ rights \subseteq Scope /\ page' = NoPage /\ query' = q
  BY DEF BeginList, LInv, ListTypeOK, ask
<1>5. q \in Query
  BY <1>3, <1>4, GraphAssumption DEF Query, Tables
<1>6. ListTypeOK'
  BY <1>4, <1>5 DEF LInv, ListTypeOK
<1>7. ToSet(<<>>) = {}
  BY DEF ToSet
<1>8. AskedInv'
  BY <1>2, <1>4, <1>7 DEF AskedInv
<1> QED
  BY <1>4, <1>6, <1>8 DEF LInv, NoPage, ListingsInv, ShownWereReadable, PageIsFirstReadable

LEMMA LBeginQuery ==
    ASSUME LInv, NEW root \in BOOLEAN, NEW subs \in SeqOf(Scope \cup {NoScope}, MaxSubs),
           NEW table \in Tables, NEW type \in Type \cup {"any"}, NEW limit \in 0 .. MaxLimit,
           BeginQuery(root, subs, table, type, limit)
    PROVE  LInv'
<1> DEFINE q == [kind |-> "graph", ask |-> Asked(subs), subs |-> Named(subs),
                 allowed |-> <<>>, root |-> root, table |-> table,
                 type |-> type, limit |-> limit, held |-> rights, stable |-> TRUE]
<1>1. subs \in Seq(Scope \cup {NoScope})
  BY DEF SeqOf
<1>2. Asked(subs) \in Seq(Scope) /\ ToSet(Asked(subs)) = Named(subs) /\ Named(subs) \subseteq Scope
  BY <1>1, AskedSame
<1>4. argRows' = argRows /\ rights' = rights /\ rights \subseteq Scope /\ page' = NoPage /\ query' = q
  BY DEF BeginQuery, LInv, ListTypeOK
<1>5. q \in Query
  BY <1>2, <1>4 DEF Query
<1>6. ListTypeOK'
  BY <1>4, <1>5 DEF LInv, ListTypeOK
<1>7. ToSet(<<>>) = {}
  BY DEF ToSet
<1>8. AskedInv'
  BY <1>2, <1>4, <1>7 DEF AskedInv
<1> QED
  BY <1>4, <1>6, <1>8 DEF LInv, NoPage, ListingsInv, ShownWereReadable, PageIsFirstReadable

LEMMA LEvaluate ==
    ASSUME LInv, EvaluateNext
    PROVE  LInv'
<1> DEFINE q == query
           s == Head(q.ask)
           may == q.root \/ s \in rights
           al == IF may THEN Append(q.allowed, s) ELSE q.allowed
<1>1. ListTypeOK /\ AskedInv /\ q # NoQuery /\ q.ask # <<>> /\ argRows' = argRows /\ rights' = rights /\ page' = NoPage
  BY DEF LInv, EvaluateNext
<1>2. q \in Query
  BY <1>1 DEF ListTypeOK
<1>3. q.ask \in Seq(Scope) /\ q.allowed \in Seq(Scope) /\ q.root \in BOOLEAN
  BY <1>2, QueryFields
<1>4. query' = [q EXCEPT !.ask = Tail(q.ask), !.allowed = al]
  BY DEF EvaluateNext
<1> HIDE DEF q
<1>5. ToSet(q.ask) = ToSet(Tail(q.ask)) \cup {s} /\ Tail(q.ask) \in Seq(Scope) /\ s \in Scope
  BY <1>1, <1>3, ElementsTail
<1> HIDE DEF s
<1>6. ToSet(Append(q.allowed, s)) = ToSet(q.allowed) \cup {s} /\ Append(q.allowed, s) \in Seq(Scope)
  BY <1>3, <1>5, ElementsAppend
<1>7. al \in Seq(Scope) /\ ToSet(al) = ToSet(q.allowed) \cup (IF may THEN {s} ELSE {})
  BY <1>3, <1>6
<1> HIDE DEF al
<1>8. /\ query' \in Query /\ query'.ask = Tail(q.ask) /\ query'.allowed = al
      /\ query'.held = q.held /\ query'.stable = q.stable /\ query'.root = q.root
      /\ query'.subs = q.subs /\ query'.kind = q.kind
  BY <1>2, <1>4, <1>5, <1>7 DEF Query
<1>9. ListTypeOK'
  BY <1>1, <1>8 DEF ListTypeOK
<1>10. AskedInv'
  BY <1>1, <1>3, <1>5, <1>7, <1>8 DEF AskedInv, q
<1> QED
  BY <1>1, <1>9, <1>10 DEF LInv, NoPage, ListingsInv, ShownWereReadable, PageIsFirstReadable

-----------------------------------------------------------------------------
\* The positions of the rows a query is to give: PageIsFirstReadable's want.
Want(q) ==
    {i \in DOMAIN argRows :
        /\ q.table = RowTable /\ q.type \in {"any", argRows[i].type}
        /\ \/ /\ argRows[i].scope \in q.subs
              /\ (q.root \/ argRows[i].scope \in q.held)
           \/ q.root /\ argRows[i].scope = NoScope}

\* PageIsFirstReadable of a page p and rows r.
FirstReadable(p, r) ==
    p.kind = "graph" /\ p.q.stable =>
       LET want == {i \in DOMAIN r :
                       /\ p.q.table = RowTable
                       /\ p.q.type \in {"any", r[i].type}
                       /\ \/ /\ r[i].scope \in p.q.subs
                             /\ (p.q.root \/ r[i].scope \in p.q.held)
                          \/ p.q.root /\ r[i].scope = NoScope}
           first == {i \in want : p.q.limit = 0
                                  \/ Cardinality({j \in want : j < i}) < p.q.limit}
       IN /\ Len(p.rows) = Cardinality(first)
          /\ \A i \in first : p.rows[Cardinality({j \in first : j <= i})] = r[i]

OfType(q)    == {line \in ARGRow : q.table = RowTable /\ q.type \in {"any", line.type}}
OfAllowed(q) == {line \in ARGRow : IF line.scope = NoScope THEN q.root
                                  ELSE line.scope \in ToSet(q.allowed)}

\* A page is the first of the rows that have the type and an allowed scope.
LEMMA PageIsFilter ==
    ASSUME ListTypeOK, NEW q \in Query
    PROVE  LET first == FirstOf(Passing(argRows, Both(OfType(q), OfAllowed(q))), q.limit)
           IN  /\ GraphPage(q) \in Seq(ARGRow) /\ Len(GraphPage(q)) = Cardinality(first)
               /\ \A i \in first : GraphPage(q)[UpTo(first, i)] = argRows[i]
               /\ \E at : Picked(argRows, first, GraphPage(q), at)
<1>1. argRows \in Seq(ARGRow)
  BY DEF ListTypeOK
<1>2. q.limit \in Nat
  BY QueryFields, GraphAssumption
<1>3. GraphPage(q) = Cut(Keep(Keep(argRows, OfType(q)), OfAllowed(q)), q.limit)
  BY DEF GraphPage, FilterARGBySubscriptions, ListARGResources, OfType, OfAllowed
<1>4. Keep(Keep(argRows, OfType(q)), OfAllowed(q)) = Keep(argRows, Both(OfType(q), OfAllowed(q)))
  BY <1>1, KeepBoth
<1> DEFINE S == Both(OfType(q), OfAllowed(q))
           n == q.limit
           out == Cut(Keep(argRows, S), n)
           first == FirstOf(Passing(argRows, S), n)
<1>5. GraphPage(q) = out
  BY <1>3, <1>4
<1>6. n \in Nat
  BY <1>2
<1>7. /\ out \in Seq(ARGRow) /\ Len(out) = Cardinality(first)
      /\ \A i \in first : out[UpTo(first, i)] = argRows[i]
      /\ \E at : Picked(argRows, first, out, at)
  <2> HIDE DEF S, n
  <2> QED BY <1>1, <1>6, FirstPassing
<1> HIDE DEF out
<1>8. /\ GraphPage(q) \in Seq(ARGRow) /\ Len(GraphPage(q)) = Cardinality(first)
      /\ \A i \in first : GraphPage(q)[UpTo(first, i)] = argRows[i]
      /\ \E at : Picked(argRows, first, GraphPage(q), at)
  BY <1>5, <1>7, Zenon
<1> QED
  BY <1>8, Zenon

\* What is shown was allowed, or is without a subscription and the caller is root.
LEMMA ShownWasAllowed ==
    ASSUME ListTypeOK, NEW q \in Query, ~ q.root, NEW i \in DOMAIN GraphPage(q)
    PROVE  GraphPage(q)[i].scope \in ToSet(q.allowed)
<1> DEFINE out == GraphPage(q)
           S == Both(OfType(q), OfAllowed(q))
           first == FirstOf(Passing(argRows, S), q.limit)
<1>1. out \in Seq(ARGRow) /\ \E at : Picked(argRows, first, out, at)
  BY PageIsFilter
<1>2. first \subseteq Passing(argRows, S)
  BY DEF FirstOf
<1>3. \A r \in S : r.scope \in ToSet(q.allowed)
  BY DEF Both, OfAllowed
<1> HIDE DEF out, S, first
<1>4. PICK at : Picked(argRows, first, out, at)
  BY <1>1
<1>5. out \in Seq(ARGRow)
  BY <1>1
<1>6. i \in 1 .. Len(out)
  BY <1>5 DEF out
<1>7. at[i] \in first /\ out[i] = argRows[at[i]]
  BY <1>4, <1>6 DEF Picked
<1>8. argRows[at[i]] \in S
  BY <1>2, <1>7 DEF Passing
<1> QED
  BY <1>3, <1>7, <1>8 DEF out

\* With steady rights the rows that pass are the rows that are wanted.
LEMMA PassingIsWanted ==
    ASSUME ListTypeOK, AskedInv, query # NoQuery, query.ask = <<>>,
           query.kind = "graph", query.stable
    PROVE  Passing(argRows, Both(OfType(query), OfAllowed(query))) = Want(query)
<1> DEFINE q == query
<1>1. argRows \in Seq(ARGRow) /\ q \in Query
  BY DEF ListTypeOK
<1>2. DOMAIN argRows = 1 .. Len(argRows)
  BY <1>1
<1>3. /\ ToSet(q.ask) = {} /\ q.root \in BOOLEAN
      /\ q.subs \subseteq Scope /\ NoScope \notin Scope
  BY <1>1, QueryFields, GraphAssumption DEF ToSet
<1>4. /\ ~ q.root => ToSet(q.allowed) \subseteq q.held
      /\ ToSet(q.allowed) \subseteq q.subs
      /\ \A s \in q.subs : s \in ToSet(q.allowed) \/ (~ q.root /\ s \notin q.held)
  BY <1>3 DEF AskedInv
<1> HIDE DEF q
<1>5. ASSUME NEW i \in 1 .. Len(argRows)
      PROVE  argRows[i] \in Both(OfType(q), OfAllowed(q)) <=> i \in Want(q)
  <2>1. argRows[i] \in ARGRow
    BY <1>1
  <2>2. argRows[i] \in OfType(q) <=>
           q.table = RowTable /\ q.type \in {"any", argRows[i].type}
    BY <2>1 DEF OfType
  <2>3. argRows[i] \in OfAllowed(q) <=>
           \/ argRows[i].scope \in q.subs /\ (q.root \/ argRows[i].scope \in q.held)
           \/ q.root /\ argRows[i].scope = NoScope
    BY <2>1, <1>3, <1>4 DEF OfAllowed
  <2> QED BY <1>2, <2>2, <2>3 DEF Both, Want
<1>6. Want(q) \subseteq 1 .. Len(argRows)
  BY <1>2 DEF Want
<1> QED
  BY <1>5, <1>6 DEF Passing, q

LEMMA LAnswer ==
    ASSUME LInv, AnswerPage
    PROVE  LInv'
<1> DEFINE q == query
           out == GraphPage(q)
           shown == {out[i].scope : i \in DOMAIN out}
<1>1. /\ ListTypeOK /\ AskedInv /\ q # NoQuery /\ q.ask = <<>>
      /\ argRows' = argRows /\ rights' = rights /\ query' = NoQuery
  BY DEF LInv, AnswerPage
<1>2. q \in Query
  BY <1>1 DEF ListTypeOK
<1>3. ListTypeOK' /\ AskedInv'
  BY <1>1 DEF ListTypeOK, AskedInv
<1>4. ~ q.root => ToSet(q.allowed) \subseteq q.held
  BY <1>1 DEF AskedInv
<1>5. CASE q.kind = "list"
  <2>1. page' = [kind |-> "list", q |-> q, shown |-> ToSet(q.allowed), rows |-> <<>>]
    BY <1>5 DEF AnswerPage
  <2> HIDE DEF q
  <2>2. ListingsInv'
    BY <2>1, <1>4 DEF ListingsInv, ShownWereReadable, PageIsFirstReadable
  <2> QED BY <1>3, <2>2 DEF LInv
<1>6. CASE q.kind # "list" /\ q.allowed = <<>>
  <2>1. page' = NoPage
    BY <1>6 DEF AnswerPage
  <2> QED BY <1>3, <2>1 DEF LInv, NoPage, ListingsInv, ShownWereReadable, PageIsFirstReadable
<1>7. CASE q.kind # "list" /\ q.allowed # <<>>
  <2>1. page' = [kind |-> "graph", q |-> q, rows |-> out, shown |-> shown]
    BY <1>7 DEF AnswerPage
  <2>2. ASSUME ~ q.root
        PROVE  shown \subseteq q.held
    <3>1. \A i \in DOMAIN out : out[i].scope \in ToSet(q.allowed)
      BY <1>1, <1>2, <2>2, ShownWasAllowed
    <3> QED BY <3>1, <2>2, <1>4
  <2>3. ShownWereReadable'
    <3> HIDE DEF q, out, shown
    <3> QED BY <2>1, <2>2 DEF ShownWereReadable
  <2>4. ASSUME q.stable
        PROVE  LET first == FirstOf(Want(q), q.limit)
               IN  /\ Len(out) = Cardinality(first)
                   /\ \A i \in first : out[UpTo(first, i)] = argRows[i]
    <3>1. q.kind = "graph"
      BY <1>2, <1>7, QueryFields
    <3>2. Passing(argRows, Both(OfType(q), OfAllowed(q))) = Want(q)
      BY <1>1, <2>4, <3>1, PassingIsWanted
    <3> QED BY <1>1, <1>2, <3>2, PageIsFilter
  <2>5. PageIsFirstReadable'
    <3> DEFINE p == [kind |-> "graph", q |-> q, rows |-> out, shown |-> shown]
    <3> HIDE DEF q, out, shown
    <3>1. p.q = q /\ p.rows = out
      OBVIOUS
    <3>2. page' = p /\ argRows' = argRows
      BY <2>1, <1>1
    <3> HIDE DEF p
    <3>3. FirstReadable(p, argRows)
      <4> SUFFICES ASSUME q.stable
                   PROVE  LET want  == Want(p.q)
                              first == {i \in want : p.q.limit = 0
                                           \/ Cardinality({j \in want : j < i}) < p.q.limit}
                          IN  /\ Len(p.rows) = Cardinality(first)
                              /\ \A i \in first :
                                    p.rows[Cardinality({j \in first : j <= i})] = argRows[i]
        BY <3>1, Zenon DEF FirstReadable, Want
      <4> DEFINE want == Want(p.q)
                 first == FirstOf(want, p.q.limit)
      <4>1. Len(p.rows) = Cardinality(first) /\ \A i \in first : p.rows[UpTo(first, i)] = argRows[i]
        BY <2>4, <3>1, Zenon
      <4> HIDE DEF want
      <4> QED BY <4>1, Zenon DEF FirstOf, Before, UpTo, want
    <3>4. FirstReadable(page', argRows')
      BY <3>2, <3>3
    <3> QED BY <3>4 DEF PageIsFirstReadable, FirstReadable
  <2> QED BY <1>3, <2>3, <2>5 DEF LInv, ListingsInv
<1> QED
  BY <1>5, <1>6, <1>7

LEMMA LStep == LInv /\ [GNext]_gvars => LInv'
<1> SUFFICES ASSUME LInv, [GNext]_gvars
             PROVE  LInv'
  OBVIOUS
<1>1. CASE UNCHANGED gvars
  <2>1. /\ argRows' = argRows /\ rights' = rights /\ query' = query /\ page' = page
        /\ ListTypeOK /\ AskedInv /\ ShownWereReadable /\ PageIsFirstReadable
    BY <1>1 DEF gvars, LInv, ListingsInv
  <2>2. ListTypeOK' /\ AskedInv' /\ ShownWereReadable'
    BY <2>1 DEF ListTypeOK, AskedInv, ShownWereReadable
  <2>3. FirstReadable(page, argRows)
    BY <2>1 DEF PageIsFirstReadable, FirstReadable
  <2>4. FirstReadable(page', argRows')
    BY <2>1, <2>3
  <2>5. PageIsFirstReadable'
    BY <2>4 DEF PageIsFirstReadable, FirstReadable
  <2> QED BY <2>2, <2>5 DEF LInv, ListingsInv
<1>2. ASSUME NEW s \in Scope, ChangeRights(s)
      PROVE  LInv'
  BY <1>2, LChangeRights
<1>3. ASSUME NEW s \in Scope \cup {NoScope}, NEW type \in Type, UpsertARGResource(s, type)
      PROVE  LInv'
  BY <1>3, LUpsert
<1>4. ASSUME NEW root \in BOOLEAN, NEW scopes \in SUBSET Scope, BeginList(root, scopes)
      PROVE  LInv'
  BY <1>4, LBeginList
<1>5. ASSUME NEW root \in BOOLEAN, NEW subs \in SeqOf(Scope \cup {NoScope}, MaxSubs),
             NEW table \in Tables, NEW type \in Type \cup {"any"}, NEW limit \in 0 .. MaxLimit,
             BeginQuery(root, subs, table, type, limit)
      PROVE  LInv'
  BY <1>5, LBeginQuery
<1>6. CASE EvaluateNext
  BY <1>6, LEvaluate
<1>7. CASE AnswerPage
  BY <1>7, LAnswer
<1> QED
  BY <1>1, <1>2, <1>3, <1>4, <1>5, <1>6, <1>7, Zenon DEF GNext

\* ListingsInv: whatever roles change between the evaluations of a request, a listing
\* shows only what its caller could read while it ran, and with steady rights a
\* Resource Graph query gives the first readable rows of its table and type up to its limit,
\* for any scopes, rows, bodies and limits.
THEOREM ListingsAlways == GSpec => []ListingsInv
<1>1. LInv => ListingsInv
  BY DEF LInv
<1> QED
  BY <1>1, LInitInv, LStep, PTL DEF GSpec

=============================================================================
