------------------------------ MODULE Storage ------------------------------
(***************************************************************************)
(* One storage account name: its rows and key, its containers and blobs    *)
(* and one of its queues (internal/services/storage, internal/store/       *)
(* data.go).  Blobs and queues are keyed by the account's name alone, while *)
(* storage_accounts has a row per resource group, so two groups that use   *)
(* one name share the data and are meant to share the key.                 *)
(*                                                                         *)
(* PUT account reads the key and writes the row in two statements; a data  *)
(* request is authorised, and later runs its own statement or transaction. *)
(***************************************************************************)
EXTENDS Sequences, FiniteSets, StorageAuth

CONSTANTS
    Rg,         \* resource groups
    Container, Blob,
    Req,        \* concurrent requests
    SasGrant,   \* the sets of letters that clients sign
    Timeout,    \* visibility timeouts, in seconds
    Idle,
    MaxKey,     \* bound: account keys generated
    MaxWrite,   \* bound: blob writes
    MaxMsg,     \* bound: messages enqueued
    MaxTime     \* bound: the clock, in half seconds

ASSUME StorageAssumption ==
    /\ MaxKey \in Nat /\ MaxWrite \in Nat /\ MaxMsg \in Nat /\ MaxTime \in Nat
    /\ Timeout \subseteq Nat

VARIABLES
    account,    \* storage_accounts: the key of the row of a group; 0: no row
    nextKey,
    containers, \* blob_containers
    blobs,      \* blobs: the write that made the content; 0: no row
    msgs,       \* storage_queue_messages: in id order
    now,        \* wall clock
    req,        \* requests between two of their steps
    nextWrite, nextMsg,
    raced,      \* history: two PUTs found no account of the name and overlapped
    wiped,      \* history: the first write after the last delete of a container
    lease,      \* history: until when the last receiver of a message may keep it
    consumed    \* history: the messages that were received for good

svars == <<account, nextKey, containers, blobs, msgs, now, req,
          nextWrite, nextMsg, raced, wiped, lease, consumed>>

Rows == {g \in Rg : account[g] # 0}

\* A row of the queue; visible is visible_after in whole seconds, 0 for ''.
Message == [id : 1 .. MaxMsg, visible : Nat]

\* time.RFC3339 drops the fraction.
Seconds(t) == t \div 2

Finish(r) == req' = [req EXCEPT ![r] = Idle]
Doing(r, op) == req[r] # Idle /\ req[r].op = op

-----------------------------------------------------------------------------
(* PUT account.                                                            *)

PutAccountOf(g, key) == [op |-> "putAccount", at |-> g, reader |-> FALSE, key |-> key]

\* UpsertStorageAccount takes the key of a row of that name, in any group, or
\* makes one ...
PutAccountRead(r, g) ==
    /\ req[r] = Idle
    /\ \/ /\ \E h \in Rows : req' = [req EXCEPT ![r] = PutAccountOf(g, account[h])]
          /\ UNCHANGED <<nextKey, raced>>
       \/ /\ Rows = {} /\ nextKey <= MaxKey
          /\ req' = [req EXCEPT ![r] = PutAccountOf(g, nextKey)]
          /\ nextKey' = nextKey + 1
          /\ raced' = (raced \/ \E q \in Req : Doing(q, "putAccount"))
    /\ UNCHANGED <<account, containers, blobs, msgs, now, nextWrite, nextMsg, wiped,
                   lease, consumed>>

\* ... and writes it, over the key of the row if there is one.
PutAccountWrite(r) ==
    /\ Doing(r, "putAccount")
    /\ account' = [account EXCEPT ![req[r].at] = req[r].key]
    /\ Finish(r)
    /\ UNCHANGED <<nextKey, containers, blobs, msgs, now, nextWrite, nextMsg, raced,
                   wiped, lease, consumed>>

-----------------------------------------------------------------------------
(* Authorisation of a data request: SELECT ... WHERE name = ? LIMIT 1 finds  *)
(* one of the rows.  SAS windows are compared with the lab's own clock, t.   *)

Credential ==
    [kind : {"sas"}, key : 1 .. MaxKey, sp : SasGrant, st : {0, 1}, se : {2}]
    \cup [kind : {"shared"}, key : 1 .. MaxKey]
    \cup [kind : {"bearer"}, root : BOOLEAN, audience : {"storage", "graph"},
          rights : {{<<DataAction(Routes[op]), g>> : op \in DOMAIN Routes} : g \in Rg}]

\* The letters of a credential: all of them, unless it is a SAS.
Signed(c) == IF c.kind = "sas" THEN c.sp ELSE Letters

\* The letter sets with which a request gets through on a row with that key.
LetterTable ==
    [op \in DOMAIN Routes |-> [g \in Rg |-> [key \in 1 .. MaxKey |->
        {Signed(c) : c \in {c \in Credential :
                              \E t \in 0 .. 2 : Authorized(c, Routes[op], g, key, t)}}]]]

LettersFor(op) == UNION {LetterTable[op][g][account[g]] : g \in Rows}

\* The requests that only read, and PUT queue: storage_queues is never read.
Reading == {"listContainers", "listBlobs", "getBlob", "peekMessage", "putQueue"}

\* The rest of the request depends on its path alone; whether its SAS was signed
\* for reading is kept for the properties.
Authorize(r, op, at) ==
    /\ req[r] = Idle
    /\ \E sp \in LettersFor(op) :
          req' = [req EXCEPT ![r] = [op |-> IF op \in Reading THEN "read" ELSE op, at |-> at, key |-> 0,
                                     reader |-> sp \subseteq {"r", "l", "p"}]]
    /\ UNCHANGED <<account, nextKey, containers, blobs, msgs, now, nextWrite, nextMsg,
                   raced, wiped, lease, consumed>>

-----------------------------------------------------------------------------
(* Containers and blobs.                                                   *)

PutContainer(r) ==
    /\ Doing(r, "putContainer")
    /\ containers' = containers \cup {req[r].at[1]}
    /\ Finish(r)
    /\ UNCHANGED <<account, nextKey, blobs, msgs, now, nextWrite, nextMsg,
                   raced, wiped, lease, consumed>>

\* One transaction: the blobs, then the container.
DeleteContainer(r) ==
    LET c == req[r].at[1] IN
    /\ Doing(r, "deleteContainer")
    /\ blobs' = [blobs EXCEPT ![c] = [b \in Blob |-> 0]]
    /\ containers' = containers \ {c}
    /\ wiped' = [wiped EXCEPT ![c] = nextWrite]
    /\ Finish(r)
    /\ UNCHANGED <<account, nextKey, msgs, now, nextWrite, nextMsg, raced, lease,
                   consumed>>

\* Nothing asks whether the container exists.
PutBlob(r) ==
    /\ Doing(r, "putBlob")
    /\ nextWrite <= MaxWrite
    /\ blobs' = [blobs EXCEPT ![req[r].at[1]][req[r].at[2]] = nextWrite]
    /\ nextWrite' = nextWrite + 1
    /\ Finish(r)
    /\ UNCHANGED <<account, nextKey, containers, msgs, now, nextMsg, raced, wiped,
                   lease, consumed>>

\* A missing blob is 404.
DeleteBlob(r) ==
    /\ Doing(r, "deleteBlob")
    /\ blobs' = [blobs EXCEPT ![req[r].at[1]][req[r].at[2]] = 0]
    /\ Finish(r)
    /\ UNCHANGED <<account, nextKey, containers, msgs, now, nextWrite, nextMsg,
                   raced, wiped, lease, consumed>>

ReadData(r) ==
    /\ Doing(r, "read")
    /\ Finish(r)
    /\ UNCHANGED <<account, nextKey, containers, blobs, msgs, now, nextWrite,
                   nextMsg, raced, wiped, lease, consumed>>

-----------------------------------------------------------------------------
(* The queue.                                                              *)

\* Nothing asks whether the queue exists.
PostMessage(r) ==
    /\ Doing(r, "postMessage")
    /\ nextMsg <= MaxMsg
    /\ msgs' = Append(msgs, [id |-> nextMsg, visible |-> 0])
    /\ nextMsg' = nextMsg + 1
    /\ Finish(r)
    /\ UNCHANGED <<account, nextKey, containers, blobs, now, nextWrite, raced,
                   wiped, lease, consumed>>

\* Mutant of Visible: a hidden message is handed out again.
VisibleAlways(m) == TRUE

Visible(m) == m.visible = 0 \/ m.visible <= Seconds(now)

\* SELECT ... ORDER BY id ASC LIMIT 1.
Oldest == CHOOSE i \in 1 .. Len(msgs) :
             Visible(msgs[i]) /\ \A j \in 1 .. (i - 1) : ~ Visible(msgs[j])

NothingVisible == \A i \in 1 .. Len(msgs) : ~ Visible(msgs[i])

\* Mutant of GetMessage: a timeout does not keep the message.
GetMessageDeletes(r, timeout) ==
    /\ Doing(r, "getMessage")
    /\ ~ NothingVisible
    /\ msgs' = [i \in 1 .. (Len(msgs) - 1) |-> IF i < Oldest THEN msgs[i] ELSE msgs[i + 1]]
    /\ IF timeout > 0
       THEN /\ lease' = [lease EXCEPT ![msgs[Oldest].id] = now + 2 * timeout]
            /\ UNCHANGED consumed
       ELSE consumed' = consumed \cup {msgs[Oldest].id} /\ UNCHANGED lease
    /\ Finish(r)
    /\ UNCHANGED <<account, nextKey, containers, blobs, now, nextWrite, nextMsg,
                   raced, wiped>>

\* Dequeue, one transaction: the oldest visible message is hidden for timeout
\* seconds, or deleted when that is 0.  Nothing visible is 204.
GetMessage(r, timeout) ==
    /\ Doing(r, "getMessage")
    /\ \/ NothingVisible /\ UNCHANGED <<msgs, lease, consumed>>
       \/ /\ ~ NothingVisible /\ timeout > 0
          /\ msgs' = [msgs EXCEPT ![Oldest].visible = Seconds(now + 2 * timeout)]
          /\ lease' = [lease EXCEPT ![msgs[Oldest].id] = now + 2 * timeout]
          /\ UNCHANGED consumed
       \/ /\ ~ NothingVisible /\ timeout = 0
          /\ msgs' = [i \in 1 .. (Len(msgs) - 1) |->
                         IF i < Oldest THEN msgs[i] ELSE msgs[i + 1]]
          /\ consumed' = consumed \cup {msgs[Oldest].id}
          /\ UNCHANGED lease
    /\ Finish(r)
    /\ UNCHANGED <<account, nextKey, containers, blobs, now, nextWrite, nextMsg,
                   raced, wiped>>

-----------------------------------------------------------------------------
\* The process stops: requests are lost, committed statements are not.
Crash ==
    /\ \E r \in Req : req[r] # Idle
    /\ req' = [r \in Req |-> Idle]
    /\ UNCHANGED <<account, nextKey, containers, blobs, msgs, now, nextWrite,
                   nextMsg, raced, wiped, lease, consumed>>

Tick ==
    /\ now < MaxTime
    /\ now' = now + 1
    /\ UNCHANGED <<account, nextKey, containers, blobs, msgs, req, nextWrite,
                   nextMsg, raced, wiped, lease, consumed>>

SInit ==
    /\ account = [g \in Rg |-> 0] /\ nextKey = 1
    /\ containers = {} /\ blobs = [c \in Container |-> [b \in Blob |-> 0]]
    /\ msgs = <<>>
    /\ now = 0
    /\ req = [r \in Req |-> Idle]
    /\ nextWrite = 1 /\ nextMsg = 1
    /\ raced = FALSE /\ wiped = [c \in Container |-> 0]
    /\ lease = [m \in 1 .. MaxMsg |-> 0] /\ consumed = {}

SNext ==
    \/ \E r \in Req :
          \/ \E g \in Rg : PutAccountRead(r, g)
          \/ PutAccountWrite(r)
          \/ \E op \in DOMAIN Routes, at \in Container \X Blob :
                Authorize(r, op, at)
          \/ PutContainer(r) \/ DeleteContainer(r) \/ PutBlob(r) \/ DeleteBlob(r)
          \/ ReadData(r) \/ PostMessage(r)
          \/ \E timeout \in Timeout : GetMessage(r, timeout)
    \/ Crash
    \/ Tick

SSpec == SInit /\ [][SNext]_svars

-----------------------------------------------------------------------------
(* Properties.                                                             *)

\* A request between two of its statements.
AccountRequest == [op : {"putAccount"}, at : Rg, reader : {FALSE}, key : 1 .. MaxKey]
DataRequest == [op : DOMAIN Routes \cup {"read"}, at : Container \X Blob, reader : BOOLEAN, key : {0}]

\* Every variable has its type.
STypeOK ==
    /\ account \in [Rg -> 0 .. MaxKey] /\ nextKey \in 1 .. (MaxKey + 1)
    /\ containers \subseteq Container
    /\ blobs \in [Container -> [Blob -> 0 .. MaxWrite]]
    /\ msgs \in Seq(Message)
    /\ now \in 0 .. MaxTime
    /\ req \in [Req -> AccountRequest \cup DataRequest \cup {Idle}]
    /\ nextWrite \in 1 .. (MaxWrite + 1) /\ nextMsg \in 1 .. (MaxMsg + 1)
    /\ raced \in BOOLEAN /\ wiped \in [Container -> 0 .. (MaxWrite + 1)]
    /\ lease \in [1 .. MaxMsg -> Nat] /\ consumed \subseteq 1 .. MaxMsg

\* Two groups that hold an account of one name hold one key for the data they
\* share, unless two first PUTs overlapped (UpsertStorageAccount reads the key
\* by name and writes it by group).
OneKeyPerName ==
    ~ raced => \A g, h \in Rows : account[g] = account[h]

\* What a container held before it was deleted is not in it when it is made
\* again, whatever blob requests overlap the delete (DeleteContainer).
WipedStaysWiped ==
    \A c \in Container, b \in Blob : blobs[c][b] # 0 => blobs[c][b] >= wiped[c]

\* A SAS that was signed for reading and listing makes, changes and removes no
\* container or blob, and adds no message; of what a reader can reach only a
\* message that it receives goes away (SASPermits, by route and letter).
ReadersOnlyReceive ==
    [][\A r \in Req :
          req[r] # Idle /\ req[r].reader /\ req'[r] = Idle
          => UNCHANGED <<account, containers, blobs, nextMsg>>]_svars

\* A message that was received is hidden until now + timeout, the words of the
\* comment on Dequeue.  It is not: both times are written in whole seconds, so the
\* message is back up to a second early.
HiddenUntilTimeout ==
    [][\A m \in 1 .. MaxMsg :
          lease'[m] # lease[m] \/ m \in consumed' \ consumed => now >= lease[m]]_svars

\* What the truncation leaves of HiddenUntilTimeout: a message that was received
\* with a timeout is not received again until less than a second is left of it.
LeaseHonoured ==
    [][\A m \in 1 .. MaxMsg :
          lease'[m] # lease[m] \/ m \in consumed' \ consumed => now > lease[m] - 2 \/ lease[m] = 0]_svars

\* Every message sent is in the queue or was received for good, never both and
\* never neither; and it is visible again when the timeout of its last receiver
\* is over (Dequeue hides in the same transaction as it selects).
NothingLost ==
    /\ \A m \in 1 .. (nextMsg - 1) :
          Cardinality({i \in 1 .. Len(msgs) : msgs[i].id = m}) = IF m \in consumed THEN 0 ELSE 1
    /\ \A i \in 1 .. Len(msgs) : now >= lease[msgs[i].id] => Visible(msgs[i])

\* What holds of the account name in every state: the groups that use it share one
\* key, a container made again shows nothing of its past, and no message is lost,
\* kept after it was received, or hidden for longer than its receiver asked.
StorageInv == STypeOK /\ OneKeyPerName /\ WipedStaysWiped /\ NothingLost

=============================================================================
