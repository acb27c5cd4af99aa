# TLA+ models of Noctaxris-AZ

Noctaxris-AZ is a single Go process that emulates a set of Azure services for
lab work. This directory models the parts of it where the order of steps
matters: what concurrent HTTP requests, AMQP connections and crashes can do to
the state in the SQLite store.

## How the program runs

Three facts about the code decide how everything here is modelled.

* Every HTTP request and every AMQP connection is a goroutine of its own.
* The store opens SQLite with one connection (`internal/store/store.go`,
  `SetMaxOpenConns(1)`). A statement, or a transaction between `Begin` and
  `Commit`, is therefore one atomic step. A handler that runs two statements is
  two steps, and any other goroutine may run between them.
* Committed statements survive a crash. Everything in memory (sessions, link
  credit, values a handler has read) does not.

So a module has one action per statement or transaction, a variable for what
each unfinished request remembers, and a `Crash` action where a crash can leave
something half done.

## Inventory

| Component | State | Operations | What is hard |
|---|---|---|---|
| Service Bus queues, AMQP server | message rows, namespace keys; per connection: session, links, credit | PUT namespace, HTTP send/receive, Open, Attach, Flow, Transfer, Detach | two front ends on one queue, dequeue before write, credit, token and namespace from different frames |
| Service Bus topics | topics, subscriptions, topic message rows | PUT topic/subscription, send, receive | fan-out is one commit per subscription |
| Event Hubs | namespaces, hubs, events, captured copies | PUT, send, receive, capture | one name in several groups, authorised row by row |
| Event Grid, outgoing HTTP | topics, event subscriptions, records | PUT subscription with handshake, publish | slow, refusing and unreachable webhooks, an address that changes after it was checked |
| App Configuration | stores, key-values, flags, snapshots | PUT/DELETE store, PUT key-value, flag, snapshot | a snapshot is many statements; data is keyed by store name only |
| Key Vault | vaults, secret versions, deleted secrets, keys, certificates | PUT, GET, DELETE, recover | read-then-transaction, certificate and secret written separately, one-second timestamps |
| Storage | accounts and keys, containers, blobs, queue messages | PUT account, blob and queue operations | accounts per group and data per name, visibility timeout on a truncated clock, three kinds of credential |
| Tables | tables, entities | POST, PUT, MERGE, GET, DELETE, query | check-then-write, read-then-write without an ETag |
| Cosmos DB | accounts and keys, items | PUT account, listKeys, upsert, read, query, change feed | two groups with one account name, read-then-insert of the key |
| Entra token endpoint | device codes, refresh and access tokens, signing key, Conditional Access policies | token (four grants), device code, approve, JWKS, policy write | expiry boundaries, racing approvals, a key that two services make, policies that change under a request |
| Entra applications | apps, service principals, owners, secrets, keys, federated credentials | Graph writes, the proofs of a client | check-then-insert, one object under several ids, resources that are deleted and made again |
| Entra users, groups, roles | attributes, rules, members, role members | Graph PATCH and POST, refresh of dynamic groups | a refresh is many statements after the PATCH it belongs to |
| Lab OIDC issuer | one signing key | sign, publish | first key made by two requests |
| Authentication | none of its own | bearer, shared key and SAS verification | which audience is good for what, which letter for which route |
| RBAC | role definitions and assignments | evaluate, assign, delete | scopes, nested groups with a depth limit |
| ARM resource types | rows of one table | PUT, GET, DELETE, list of nineteen types | nineteen copies of one handler that must not reach each other's rows, secrets in properties |
| Function apps, activity log | app rows, log rows | PUT, DELETE, invoke | several statements per request, look-ups by name alone |
| Managed identity | two identity tables | PUT, DELETE, metadata token | read-then-overwrite of ids that role assignments name, ids that clients bring |
| Subscriptions, Resource Graph | subscriptions, groups, `arg_resources` | listings, queries | a decision per scope while roles change, paging after filtering |
| Container registry | upload sessions, blobs, manifests | start, patch, finish, put manifest, pull | steps of one upload from several requests, two commits per manifest, a right that is looked up in several statements |
| Monitor, Log Analytics, audit | log rows | append, query | |
| Server, lab clock, TLS, configuration, compute | listener, clock offset, files | start, stop | shutdown order |

Components interact through the store only, with four exceptions: the AMQP
server verifies SAS tokens with the key the Service Bus handlers wrote; every
handler asks authentication and RBAC before it acts; a certificate PUT in Key
Vault writes a secret; the container registry signs with the token service's key
and makes it when there is none.

For each component, the properties that make it correct:

* Service Bus: a message is delivered at most once and in order, an
  acknowledged one is kept, credit bounds what is pushed, and a token opens the
  links of its own namespace only.
* App Configuration: a snapshot is the store at one instant and stays so; a
  deleted store leaves nothing for its successor.
* Key Vault: a version is live or deleted, never both; recover brings back the
  last one deleted; a certificate whose key may not leave keeps it in.
* RBAC: a grant has a reason; authority over assignments comes from root.
* Storage: one key for one name; a container made again is empty; a message that
  was received is invisible for its timeout, to less than a second, and none is lost; a SAS for reading
  changes nothing but what it receives.
* Tables and Cosmos DB: a write is atomic unless another overlapped it; a query
  returns the first matches; a key that was listed goes on working.
* Entra tokens: a token goes back to a proof of its principal for its audience
  and is accepted for its life; a code has one approver; Conditional Access
  blocks what it names; the token service makes one signing key.
* Entra applications: a credential opens its own application only, a second key
  needs a proof of the first, a scoped administrator stays in scope.
* Entra groups: who matches a rule becomes a member.
* Container registry: a digest names its content, an upload ends once, what was
  answered can be pulled, a push needs the push role.
* Event Hubs: an event is captured once, is handed out in order, and stays in the
  group its reader was let into.
* Topics and Event Grid: an answered send is in every subscription; an event goes
  only to validated, permitted addresses, and a publish ends.
* ARM: a row changes with the right of its own type and is found whole, a cluster's
  credentials need their own right, identities keep their ids, a page is the first
  readable rows.

## Modules

### ServiceBus, MessageQueue, MCServiceBus, ServiceBusProofs

`ServiceBus` is the queue side of `internal/services/servicebus/handler.go`, the
tables behind it and the whole AMQP server.

| State | Code |
|---|---|
| `rows`, `nextId` | table `servicebus_messages`, its AUTOINCREMENT id |
| `key`, `puts`, `issued` | the SAS key of each namespace, PUTs between choosing a key and writing it, every key a namespace has had |
| `pc` | what a connection's goroutine does: waits for a frame, is in `deliver`, writes a transfer, writes a disposition, or is down |
| `host`, `sas`, `links`, `cur`, `hand`, `acking` | the session struct and the locals of `deliver` and of the Transfer handler |
| `delivered`, `lost`, `acked` | history |

One action per frame the server handles (`Open`, `Attach`, `Flow`, `Transfer`,
`Detach`), per statement of `deliver` (`DeliverTake` is the DELETE of the row,
`WriteTransfer` the write to the socket, `DeliverDone` the end of the loop), per
HTTP route that moves messages (`PostMessage`, `GetMessage`), and per statement
of a namespace PUT. `Disconnect` and `Crash` drop what is in memory.

A row that `deliver` took from the table is gone before it is written to the
client. This is the reason for `hand` and for `lost`: a connection that dies in
between loses the message. The code is at-most-once, and `MessageQueue` says so
without mentioning connections, sessions or credit: a message is put, taken in
the order of its lane, and then arrives or is lost. A lane is a queue, a session
id and the dead-letter flag. `ImplementsMessageQueue` maps the table to its
`queued`, and the hands of all connections to its `held`.

A token is a record of its signer and expiry; HMAC is perfect. Namespace names
are first labels of hostnames; `Listener` stands for the first label of the
server's own listen address, which is what the connection string the server
hands out contains. A namespace name is used in one resource group.

### AppConfig, MCResources, ArmProofs

Stores are pairs of resource group and name, because that is their primary key;
everything else is keyed by the name alone. PUT of a key-value or flag is the
lookup of the store and then the write. PUT of a snapshot is five kinds of step:
read the snapshot row, insert it with status ready, list the key-values, insert
each copy, finish. Deleting a store is a transaction. As history,
`cut` is the set that a finished PUT had listed and `raced` the stores that were
deleted while a write on them was under way.

### KeyVault, MCKeyVault, KeyVaultProofs

`live[n]` is the sequence of versions of a secret in rowid order, `gone[n]` the
deleted-secret rows with their one-second timestamps, `cert[n]` the newest
certificate. A secret version stands for its value as well. DELETE is a read and
a transaction, recover a gate on the certificate policy, a read, a transaction
and a read for the answer, a PUT of an exportable certificate two inserts.

### RoleCatalog, Rbac, MCRbac, RbacProofs

`RoleCatalog` is `roleGrants` and its helpers, with an action string abstracted
to an area and a verb. `Rbac` is `Evaluate` statement by statement: list the
assignments of a scope, take each one that is relevant, list the members of each
group it expands, go to the parent scope. A request is any number of these
followed by its use: reading something, or writing or deleting an assignment.
Groups nest only as the seed nests them (`Nested`), since adding a member through
Graph stores it as a user; the seed has one nested group
(`internal/store/directory.go:129`), far from the depth limit of `groupContains`
(`ShallowNesting`). The several ids of one directory object
(`principalIDs`) are one principal.

### EntraTokens, MCEntraTokens, EntraTokensProofs

The token endpoint: `token.go`, `conditional_access.go` and the key and minting
parts of `handler.go` in `internal/services/entra`, the statements behind them,
and `AuthenticateToken` in `internal/kernel/authn/jwt.go`.

| State | Code |
|---|---|
| `codes`, `refresh`, `tokens`, `policies` | tables `device_codes`, `refresh_tokens`, `access_tokens`, `entra_ca_policies` |
| `signers`, `priv`, `mu` | table `entra_signing_keys` without the lab issuer's row, `Service.priv`, `Service.mu` |
| `req` | what a request in progress knows and does next |
| `now` | the clock, two ticks to a second |
| `proved`, `told`, `foreign`, `req[r].open`, `req[r].unread` | history: who proved itself for what, approvals answered with success, keys that the registry stored, whether a request was unblocked at an instant, whether the policies could not be read for it |

A grant starts (`BeginPassword`, `BeginClient`, `BeginRefresh`, `BeginDevice`)
where its proof succeeded, with the statement that read it; then come
`CheckAccess`, which lets everybody through when the policies cannot be read, the
key (`ensureKey` when there is one, otherwise `EnsureKeyRead` and
`EnsureKeyInsert` with the mutex held), `mintAccessToken` and `PutRefreshToken`.
`BeginRegistryKey` and `RegistryKeyInsert` are the same SELECT and INSERT by the
container registry, which does not take the mutex. An approval is its password check and
then the UPDATE. What a request reads from the clock is in the step of the
statement it is used for. Expiry is written as whole seconds and compared in three ways:
`After` on the exact time, strings of seconds in the UPDATE, `now.Unix() > exp` in
the claims. Audiences are compared after `normalizeTokenAudience`, so an audience
is what that yields. How an application proves itself is left to the caller. The
row of the sign-in log, whose error is ignored, is left out.

### StorageAuth, Storage, Listing, Tables, Cosmos, MCData, DataProofs

`StorageAuth` is the decision the blob, queue and table handlers share: a route
is its service, method and whether its path names an object; `SASPermits` maps it
to letters, `storageDataAction` and `tableDataAction` to a data action.

`Storage` is one account name in several groups. PUT of the account is a read by
name and a write by group; a data request is authorised in one step (with the key
the name has then) and runs its statement or transaction in another. `blobs` holds
the number of the write that made the content. The queue's rows carry
`visible_after`, cut to whole seconds on a clock of half seconds. History:
`raced`, `wiped`, `lease`, `consumed`.

`Tables` is one table: POST looks and writes, PUT and MERGE read and write the
whole row. A property's value is the number of the request that gave it, so that a
lost update can be seen. A query is the scan in key order and the loop over it;
`Listing` has what list handlers do with a list: `Keep`, the loop that appends the
entries that pass, as a recursive function over the positions, and `Cut`, the limit.
`Cosmos` is one account name in several groups, with
`LIMIT 1` as a choice among the rows, and the items of one container, which are
written; the reads of items are single SELECTs and left out.

### Registry, MCEvents, DeliveryProofs

The registry's ARM row, tokens, upload sessions, blobs and manifests of
`internal/services/acr` and `internal/store/acr.go`. sha256 is perfect: a digest
is the name of a content. A request of root is let through; for another,
`requireV2` looks the registry's row up in one step (`RegistryAuthzScope`: one of
the rows of the name, or the subscription) and asks for the action at each scope of
the chain in further ones (`EvaluateScope`), and the write comes after that; a finishing PUT looks for the session, reads its body and asks again in
the transaction; a manifest is two commits, the reference and the digest. Roles,
the ARM row and the process may go away between any two.

### EventHubs, ServiceBusTopics, EventGrid, MCEvents, DeliveryProofs

`EventHubs` is a hub name in namespaces of one name. A request lists them, asks
for each whether the caller may act on its group (one step each) and uses what was
allowed in a last step; `held` remembers where the caller really had the right.
`ServiceBusTopics` has a step for the listing of the subscriptions and one for
each copy, any of which may be the last. `EventGrid` has the handshake and the
storing of a subscription, and for a publish the listing, then for each
subscription the check `Allowed` and the dial, then the record. The other end of a
url answers, redirects (which the client refuses, so that the post is an error),
takes the event and is silent, or cannot be reached, and the address behind its name
may become private at any time (`private`). A post ends by what the other end does
(`PostEvent`) or by the client's timeout (`PostTimeout`).

### Applications, Groups, OidcLab, MCDirectory, DirectoryProofs

`Applications` is the Graph side of an application and how a client proves to be
one: `applications.go`, `graph.go`, `graph_write.go`, `wif.go` in
`internal/services/entra` with `directory.go` and `fic_match.go` in
`internal/store`. An app has a client id and an object id, and its service
principal a third; rows refer to any of the three, as in the code. A write
resolves its target, asks for the right (directory role, scoped assignment or
ownership), then counts or looks, then writes, each in a step. A caller may be an
application, under any of its ids; a role may be given to it at any time
(`GiveRole`). A name is remembered by who gave it. `Groups` is PATCH of users, devices and
groups with `refreshDynamicGroups` statement by statement, group members and role
members; a department or job title is the set of its words. `OidcLab` is the
issuer's key from SELECT to INSERT.

### Resources, FunctionApps, Identities, ResourceGraph, MCResources, ArmProofs, DataProofs

`Resources` is all nineteen handlers that keep a row in `arm_lab_resources`. A
handler is a record of its route, its `providerKey`, the prefix of its rights and
the defaults its PUT adds, so the nineteen are data and put, del, get, list and
the inventory are written once. A property's name is the words it is made of, folded
(`Folded`), by which `isSecretPropertyKey` decides. A behaviour chooses two of them. `FunctionApps` is
apps of one name in several groups and the activity log; `SELECT ... LIMIT 1` is
the first row inserted. `Identities` is the two identity tables, whose rows are
pairs of a principal and a client id, drawn by the lab or brought by the PUT, and the
metadata token route up to the principal that a token is minted for. `ResourceGraph` is
the listings that evaluate scope by scope; a query evaluates each subscription of its
body, or the lab's own (`LabScope`) when the body names none, reads the rows of its table and type, filters
and cuts, with `Keep` and `Cut` of `Listing`. A second upsert of a row changes its type
and not its subscription. History: the subscriptions a query is about (`Named`), the
rights its caller has had since it began and whether they changed.

### How the composed runs are built

MCData, MCEvents, MCDirectory and MCResources put several modules side by side.
The code of these parts shares no table that one writes and another reads, with one
exception, so a behaviour picks one part at the start (`service`) and steps of the
others change nothing it could see. The exception is the table of role members, which
`Groups` writes and `Applications` reads; `GiveRole` writes it in `Applications`. The
registry is two parts: requests meet only in uploads, blobs and manifests, where root's
overlap ("registry"), and one request is followed through its authorisation while
rows, roles and tokens change ("access"). In "grid" one client publishes and the other
manages subscriptions; in "graph" only rights change after an answer. In MCData, MCDirectory and MCResources a step without effect
is allowed only when no request is under way (`Rest`, `AtRest`): the bounds can be
used up, and a request that could not go on would still be reported as a deadlock.
The theorems are about each part's own specification (`SSpec`, `TSpec`, `RSpec`,
...), of which a behaviour of the composed run is, as far as that part's variables
go, a behaviour.

## Runs

| Run | Checks | Shows |
|---|---|---|
| `queue` | `AckedIsKept`, `CreditRespected`, `ImplementsMessageQueue` | two connections and HTTP clients on one queue with sessions, dead letters, disconnects and crashes |
| `auth` | `NamespaceIsolation` | every mix of hostname, connection string and token over two namespaces with two concurrent PUTs and token expiry |
| `keyvault` | `OneHome`, `GateHonoured`, `RecoversLatest` | two requests on one name, two seconds, crashes |
| `keyvault_moved` | `LatestIsMoved` (violated) | a PUT in the middle of a DELETE is in no table afterwards |
| `rbac` | `GrantJustified`, `AuthorityFromRoot`, `QuietVerdict` | one caller, two scopes, nested groups, assignments that change while they are read |
| `tokens` | `TokenHasProof`, `OneApprover`, `ApprovalCounts`, `BlockedGetsNothing`, `OneSigner`, `LifeToTheSecond` | two requests, two users, an application, a policy that changes, the first key, crashes, four instants in two seconds |
| `data` | `StorageInv`, `LeaseHonoured`, `ReadersOnlyReceive`, `TablesSafe`, `CosmosInv` | two requests on an account name in two groups, four SAS, blobs, a queue with a clock, a table, a Cosmos account |
| `data_lease` | `HiddenUntilTimeout` (violated) | a message received with a timeout is received again before it is over |
| `events` | `RegistryInv`, `PushNeedsRole`, `HubsInv`, `EventsStayInGroup`, `TopicsInv`, `GridInv`, `PublishCompletes` | two requests on each of the three event services, failures between copies, webhooks that do what they like; pushes to a registry whose rows and roles come and go, crashes |
| `events_allowlist` | `OnlyAllowlisted` (violated) | an event is delivered to a loopback url that is not in the allowlist |
| `directory` | `ApplicationsInv`, `ApplicationSteps`, `GroupsInv`, `MintedVerifies` | two Graph requests, of root and of an application with a scoped assignment, over applications that are deleted and made again, dynamic groups under overlapping PATCHes, the lab issuer's first requests |
| `resources` | `ResourcesInv`, `OwnRightOnly`, `SnapshotsInv`, `DeletedIsEmpty`, `FunctionsInv`, `IdentitiesSafe`, `ListingsInv` | every pair of the nineteen resource types, an App Configuration store in two groups with deletions and crashes, function apps of one name in two groups, identities, listings while rights change |

A component's property is a conjunction of named parts, of which the type
invariant is the first:

| Property | Parts |
|---|---|
| `SnapshotsInv` | `TypeOK`, `OneCopier`, `SnapshotIsCut` |
| `StorageInv` | `STypeOK`, `OneKeyPerName`, `WipedStaysWiped`, `NothingLost` |
| `TablesSafe` | `AtomicUnlessOverlapped`, `AddSparesOlder`, `TTypeOK`, `QueryIsFirstTop` |
| `RegistryInv` | `TypeOK`, `DigestNamesContent`, `UploadOnce`, `AnsweredIsPullable` |
| `HubsInv`, `TopicsInv` | `HTypeOK`, `CaptureIsWhole`, `PartitionInOrder`; `PTypeOK`, `FanOutIsWhole`, `TopicInOrder` |
| `GridInv`, `PublishCompletes` | `GTypeOK`, `PostedWasValidated`, `PrivateIsNotReached`, `RecordIsTrue`; `PublishEnds`, `EveryoneIsPosted` |
| `ApplicationsInv`, `ApplicationSteps` | `ATypeOK`, `CredentialStaysInApp`; `KeyNeedsProof`, `MadeTwiceOnlyByRace`, `ScopedStaysInScope` |
| `GroupsInv` | `DTypeOK`, `MatchingIsMember` |
| `ResourcesInv` | `RTypeOK`, `FoundWhereSent`, `SpecialRights` |
| `FunctionsInv` | `LogIsTrue`, `InvokeStaysInGroup`, `PutAnswersItsApp` |
| `IdentitiesSafe` | `IdsStay`, `IdsAreOwn`, `ReplyIsRight` |
| `ListingsInv` | `ShownWereReadable`, `PageIsFirstReadable` |

The runs leave out what is proved and is implied by the rest or is plain typing: `TypeOK`,
`AtMostOnce` and `NoOvertaking` of `ServiceBus` (the last two also follow from the
refinement), `TypeOK` of `KeyVault`, `Rbac` and `EntraTokens`, and
`OmittedNeverEvades`.

Many properties say "unless two requests overlapped". In each of them the code
reads in one statement and writes in another, and the exception is exactly the
overlap, kept in a history variable; that nothing else breaks the promise is what
the run shows. `LatestIsMoved` and `HiddenUntilTimeout` restate comments and
`OnlyAllowlisted` a line of a document that the code does not keep; the findings in
`PROJECT.json` quote them. `LeaseHonoured` is what is left of `HiddenUntilTimeout`: the
message is back less than a second early.

### Bounds

* `MaxId`: messages ever enqueued. Two messages in three lanes, with two
  receivers, give a dequeue that overlaps another, and a message overtaken by
  another if that were possible. The proofs have no such bound.
* `MaxCredit` 2: a loop that stops on credit, one that stops on an empty queue,
  and a Flow that lowers the credit of an earlier one.
* `MaxTime` and `TokenTTL` 1 in `auth`: a token before and at its expiry. The
  `queue` run has no clock because nothing after Attach reads it.
* `Key` 3 in `auth`: one for each of two namespaces and one that the second PUT
  of a race brings.
* `MaxDelete` 2 (`resources`): a store that is deleted, made again and deleted again.
* `MaxVer` 3, `MaxTime` 1 in `keyvault`: a live version, a deleted one and one
  that arrives in between, with two deletions in one second or in two.
* `MaxBegun` 3, `Code` 1, `Key` 2 in `tokens`: an approval, an exchange and a
  refresh in a row, two approvals that race, and a second key, the registry's or one
  that the mutex let be made. Lives of one tick with `MaxTime` 3 put an expiry inside a second,
  at its start and one second late. The proofs have no such bounds.
* In `rbac` one assignment name and one caller: the races need one row that
  changes, and the row names a principal, a group or a group inside it.
* `Rg`, `Group`, `HGroup`, `AppGroup` 2 (`data`, `events`, `resources`): one name in
  two groups is what look-ups by name alone get wrong; a third adds no new pair.
* Two requests in every run: each property is about what one request does between
  two statements of another. `OReq` 3 is a third that reads after both.
* `MaxTime` 3 with timeouts of 0 and 1 second in `data`: a receive in the first and
  in the second half of a second, its expiry, and what the cut of the second costs.
* `MaxKey` 2, `MaxCosmosKey` 3: the keys two racing PUTs bring, and one more for
  the second group. `MaxWrite`, `MaxItem`, `MaxMsg`, `MaxEvent`, `MaxSend` 2 and
  `MaxEntity` 3: a first value, the one that overwrites or overtakes it, and for
  entities the one that reads in between.
* `MaxUpload` 1 with two requests: they meet on one session. `Content` 2: a digest
  that is put with the other content. `RGroup` 2 with a push role on the registry of
  one group and on the whole of the other: a row that is found, goes and is made again
  elsewhere while the right is looked up.
* `MaxPublish` 1 with two subscriptions and two urls, one on loopback: a post that
  fails before one that works. A second publication shares nothing with the first
  but the subscriptions, which the other request writes meanwhile.
* `MaxApp` 2, `MaxObj` 3, `MaxSP` 3, `MaxBegin` 3: an application deleted and
  resurrected by a PATCH, beside another one, and a second principal; the caller that
  is not root is the first application's own principal, with an assignment scoped to
  that application. `MaxPatch` 3:
  a user, a group and one more PATCH.
* Two of nineteen handlers in a behaviour, every pair: confusing rows or rights
  takes two. `MaxPut`, `MaxChange`, `MaxRow` 2 or 3, as above. `MaxId` 4: two pairs that
  the lab draws, beside two that are pinned, each with an id that the lab draws as well. `MaxSubs` 2: a
  body that names a subscription twice, a blank one, or none. `MaxLimit` 1: no limit,
  or one that cuts.

Requests and values that nothing distinguishes are symmetric; no liveness run
uses symmetry. Deadlock is checked in every run.

### Fairness

One property is liveness, `PublishEnds` in `events`, and one thing is assumed fair: a
publish that is under way goes on (`GProgress`). Its steps are statements on the local
file, the look-ups of its own loop and `PostTimeout`, the timeout of five seconds that
`httpegress.Client` puts on every post. Nothing is assumed of the webhooks and of the
network: no fairness makes a post end by an answer, a redirect or a refusal. That a
publish ends is then due to the timeout (its mutant, a client that waits as long as it
takes, never ends) and to the loop being over a list read once. A crash ends a publish
as well. AMQP clients, HTTP requests and crashes have no fairness.

## Proofs

TLAPS proves forty-eight theorems for every value of the constants; thirty-eight
state a property that a run checks. Each uses the named assumptions of the modules
it is about and no others:

* bounds are naturals, inputs are of their type, and the values for "none" are not
  members of the sets they complete;
* what the code orders is a number: the keys of a table (`KeyAssumption`: finitely many,
  numbered in the order of partition and row key), the groups of a hub and of a
  resource, the subscriptions of a topic; what a request counts or lists is finite
  (`IsFiniteSet` of `GSub`, `Call`, `Ident` and `Scope`);
* the lab has a subscription of its own and a blank entry is none (`GraphAssumption`);
* `Up` is the scopes above a scope (`ScopeTree`), and the seeded nesting of groups
  has no cycle and is within the depth limit (`ShallowNesting`, used by `QuietVerdict`
  alone, which is false without it);
* the root caller is a caller (`ApplicationsAssumption`), pinned ids are pairs, any
  pairs (`IdentitiesAssumption`), and the seeded administrator is a user
  (`GroupsAssumption`).

Most of the proofs are one argument: a request carries what it read to a later
statement, and the inductive invariant says what the carried value still guarantees,
given the history variable that records who came between. Each proof module states
that invariant first, then has one lemma per action. Where the requests of a module
are alike, one lemma (`CallOnly`, `ClientOnly`, `RequestOnly`, `OneRequest`, ...) says
what a step of one request leaves of the others.

**ServiceBusProofs.** `CoreInv` is `TypeOK` with `LinkInv`: a connection in
`deliver` has a current link, and it has credit to spend when it holds a row;
without it the subtraction of the credit is not typed. `StepMoves` sums every
action up in the way it moves messages between the table, the hands, the clients
and the lost ones. `MsgInv` (places are disjoint, ids are below the counter and
unique, lanes are ordered, what was acknowledged has a place) is shown to be
kept by such moves and no longer looks at actions. `AtMostOnce`, `NoOvertaking`
and `AckedIsKept` follow, and the refinement `RefinesMessageQueue` is proved move
by move. `CreditSafe` rests on the link invariant and on a sum: what a link
was sent since its last Flow and what it may still be sent are what that Flow granted
(`CreditSum`); `Isolation` on an invariant
that a key under way in a PUT was issued to no other namespace.

**KeyVaultProofs.** `OneHome` is not inductive: a request between the read and the
transaction of a recover holds a version in its hand. `KVInv` adds that every
version in a table or a hand is older than the next one (`Made`), that a request
about to write has a version in its hand (`InHand`), and that a request past the
gate had the policy open at an instant of its life (`OpenInv`). `GateHonoured` is
proved as an action property from it. `RecoversLatest` needs `Dated` as well: no
deletion is in the future, and no row was deleted later than that of the version
deleted last.

**RbacProofs.** `RInv` is `TypeOK`, that each row's authority reaches root
(`RowsRooted`), that what a request has read and queued is justified by rows and
members it really read (`RequestsSound`), and `AuthorityFromRoot`. `QuietVerdict` is
that `Evaluate` is right, in both directions. For it `QInv` adds `RequestsThorough`:
every row that entitles a quiet request is still ahead of it, at a scope above, among
the rows listed, or as the row whose groups are being listed, of which the listed
groups and the pending ones together hold everything nested in a listed one
(`Explored`). When nothing is pending the listed groups are closed under nesting, so
that the caller is in none of them. `roleGrants` is never expanded: the theorems hold
for every catalogue of roles.

**EntraTokensProofs.** Eight theorems: the six properties of `tokens`, the type invariant
and `OmittedNeverEvades`. None of
the invariants is inductive alone. `ETInv` adds that what each request knows is
founded (`RequestsFounded`: a proof for its principal and audience), that refresh tokens and approved codes are of
users that spoke (`UsersSpoke`), that a request making the key holds the mutex
and the service has made none yet (`KeyInv`; the registry may have), and that the policy history is right
(`OpenInv`). `Grow` sums up what every step keeps; with it only the request that
moves has to be looked at. `Lives` and `Counts` come down to one fact about
seconds and ticks (`Seconds`).

**ArmProofs.** App Configuration: `ACInv` adds to the properties what a snapshot PUT
still owes (`CopierInv`: the captured copies are those it listed without those it has
still to insert, and the row is its own), that a name without a row has no copies
(`ClearInv`), and that a write still has its store unless that was deleted under it.
Identities: `IdentInv` says what each request that read the tables may still count on
(`ReadInv`), and that an id the lab drew is in the hands of one request or in one row,
unless a PUT brought it. Function apps: `FunctionsIInv` says that the log entries and the changes
still to be logged are together no more than the changes (`LogInv`), and that a call
nobody overlapped still finds the row it wrote, or the first row it found (`SawInv`).
Row types: `RowsIInv` says that a route's last PUT is the one in the row of its key
(`SentIsStored`) and what a request was let in with (`LetIn`); that the nineteen
copies agree with themselves is one lemma (`HandlerShape`), and that the inventory's
`LIKE type/%` meets no other type another (`NoTypeInAnother`).

**DataProofs.** Storage: `SInv` has the key a PUT carries (`KeyInHand`), that no
container was deleted in the future (`WipedBefore`), and the queue's rows:
ids are unique and below the counter, a message is in the table or was consumed, and
`visible_after` is the truncated lease (`QueueInv`). `LeaseHonoured` follows from
the last with the fact that whole seconds lose less than one. Tables: `TInv` says that
what a write carries is what it would read now, unless the row was touched after it
began (`PendingInv`). Cosmos: `CInv`, a listed key is that of its group's row, which no
later INSERT replaces.

Queries and pages are about what a loop over a list computes, which takes induction
over lists. It is had from the least number of a set of naturals (`LeastOf`, from the
library's `WFMin`): a set of lists that has the empty one and is closed under `Append`
has them all (`SeqInduction`). With it `Keep` is characterised once for all lists and
filters: its result is the entries at the positions that pass, in their order
(`KeepPicks`, with `Picked` the rising enumeration of a set of positions); two filters
in a row are one (`KeepBoth`); after `Cut` the positions are those with fewer than n
passing ones before them, and an entry stands at its rank (`FirstPassing`).
`QueryIsFirstTop` and `PageIsFirstReadable` are instances of that. A query on properties
cuts after the second filter and a query without them before it, and both are right
because the second filter then passes everything (`KeepAll`). For the pages, `LInv` says
of a request under way that it was allowed only what its caller held meanwhile, and with
steady rights that each of its subscriptions is still to be asked for, was allowed or is
not readable (`AskedInv`); `UniqueSame` says that dropping blanks and repetitions from a
body loses no subscription.

**DeliveryProofs.** Registry: `RegInv` has the row and the role with which a push was let
in, each seen while it ran, and the digest a finishing PUT compared (`PushInv`), and that an open session was not finished
(`SessionInv`). Event Grid: `GridIInv` follows a publication: its urls were validated,
it is its request's own (`OwnInv`), its flag says whether a webhook answered
(`FlagInv`), and posts made and posts waiting add up to the subscriptions listed
(`CountInv`). Topics: `TopicIInv`, a copy is given once, and an open send is in no
subscription it has still to go to and in every other one it should be in (`Fits`).
Event Hubs: `HubIInv` has that copies are numbered as they come and waiting events
stand in that order (`IdInv`), that what was handed out came in order and before what
waits (`TakenInv`), and that a request has noticed every right its caller has and found
keys only of groups where it had one (`HeldInv`).

**DirectoryProofs.** Applications: `AppsInv` rests on ids that are fixed for ever
(`Fixed`): object and service principal ids are never used again, so a row that names
one names the same application for good. `RowsInv` says so of owners, keys, secrets
and federated credentials, `WriteInv` what a write has found and still relies on (its
right, its count, its proof of a key), `TokenInv` that everything a proof has collected
is of its client's application. `Grows`: nothing but a registration is ever removed,
which is why a request may rely on what it read. Groups: `DirInv`, unless a process was cut
off and no refresh has listed since, whoever matches a rule and is no member yet is
going to be added by a request under way (`CoverInv`).
`LabInv`: nothing is signed before a key is stored.

Only model-checked:

* `PublishEnds`, which is liveness under fairness; the safety half of
  `PublishCompletes` is proved (`EveryoneAlwaysPosted`);
* `LatestIsMoved`, `HiddenUntilTimeout` and `OnlyAllowlisted`, which are violated.

## What was seen and has no run

* Owner is excluded from data planes by `roleGrants`, where
  `docs/services/authorization.md:45` says "all actions"; Key Vault Administrator
  is granted control-plane actions (`internal/kernel/authz/rbac.go:264`), where
  `authorization.md:57` speaks of data.
* In App Configuration a write that looked the store up before it was deleted is
  committed after it. `DeletedIsEmpty` allows for exactly these.
* Two deletions of one secret name within a second are ordered by the
  timestamp alone, so recover may bring back the older. `RecoversLatest` allows
  for exactly these.
* A snapshot PUT in App Configuration that is still copying when its store is
  deleted goes on inserting; when the store and the snapshot are made again
  meanwhile, its key-values land in the new snapshot after that one was finished.
  The comment at `internal/store/app_observe.go:519` says "captured KV stays
  frozen".
* A sign-in that Conditional Access blocks is in the log with result 0: the row is
  written first. The error of that insert is ignored
  (`internal/services/entra/token.go:311`), so a sign-in may be in no log.
* Device codes and refresh tokens can be exchanged again until they expire.
* When the policies cannot be read, nothing is blocked
  (`internal/services/entra/conditional_access.go:61`); `BlockedGetsNothing` allows for
  exactly that. A policy that is enabled between the check and the mint does not stop
  the token.
* The container registry makes the signing key without the mutex of the token service
  (`internal/services/acr/v2.go:302`). On a fresh store the two may make a key each;
  the JWKS then publishes one of them, and a token signed with the other is refused
  once its hash is gone from the table, in the last second of its life. `OneSigner` and
  `LifeToTheSecond` allow for that key and no other.
* A link stays attached after its token expires or its namespace's key changes.
* The connection string that the server hands out names its listen address as the
  endpoint. The AMQP server takes the endpoint's first label for the namespace
  (`internal/amqp/server.go:342`), so a client that attaches by queue name is
  refused; `docs/services/servicebus.md:59` has it connect.
* A snapshot's row says ready before its key-values are copied
  (`internal/store/app_observe.go:533`); a crash leaves it listed and incomplete.
* A certificate's private key and its row are two commits
  (`internal/services/keyvault/certificates.go:42`).
* `Evaluate` reads assignments and members in separate statements, so a grant may
  be right at no single instant (`internal/kernel/authz/rbac.go:49`).
* A group that Graph adds to a group is stored as a user and not expanded
  (`internal/services/entra/graph_write.go:164`).
* Registry: `docs/services/acr.md` lets Reader pull, `roleGrants` and
  `rbac_storage_data_test.go:73` do not; a manifest put under a digest is not compared
  with it; an upload session is not bound to its repository; deleting the ARM row
  leaves blobs and manifests; the registry's row and the role are looked up in separate
  statements, so a push may be let in by a role on a registry that was deleted and made
  again in another group meanwhile, and a name in two groups is any row's.
* Storage: a GET of queue messages removes them with a SAS or a role that reads;
  writes of blobs, messages, entities, items, events and topic messages do not ask
  whether their container was made; the key of a name in two groups is any row's.
* Tables: two MERGEs at once lose one's properties.
* Cosmos: with one name in two groups listKeys may give a key that the data plane
  refuses, and the two accounts share their items
  (`internal/store/cosmos.go:66`). A query takes for the id the first quoted part
  without `=` and `select`, so an item whose id holds one of them is not found by it
  (`internal/services/cosmos/handler.go:195`); an item whose body is not JSON makes the
  query answer 200 with an empty body, while the change feed wraps it as `raw`.
* Topics: a send that fails half way has reached some subscriptions, and a retry
  reaches them again.
* Event Grid: any HTTP status counts as delivered, except a redirect, which the client
  refuses although the webhook has the event; a publish that stops before its
  record is posted and not recorded; subscriptions are kept by topic name alone.
* Directory: two POSTs of a service principal at once make two rows; a PATCH that
  overlaps a DELETE brings the application back under a new object id; secrets,
  keys, federated credentials and service principals survive their application;
  dynamic groups never lose members and ignore `membershipRuleProcessingState`;
  `-eq` on a department is a substring match; no code inserts a device. When the role
  assignments cannot be read, a member of Application Administrator is let through
  whatever its scopes (`applicationAdministratorAllows` in
  `internal/services/entra/graph.go`); `ScopedStaysInScope` allows for exactly that.
  Creating an application or a service principal asks for a role and for no scope, so
  a scoped administrator who is a member too may create anywhere. A role is given by
  who held Global Administrator when the request came; nothing asks again before the
  INSERT.
* ARM: a PUT does not ask whether its resource group exists; `armprops.Public` looks
  at top-level names only, so a secret inside an object is answered, and a client's
  `revisions` array is answered as it was sent
  (`internal/services/containerapps/handler.go:151`); the provider listings of vaults and of
  `Microsoft.Web/sites` read keys that nobody writes; `emails:send` stores under
  "default" without a service; the chat route and the invocation of a function find
  an account or app by name, so that one in a second group cannot be reached; a PUT
  of a function app that is deleted meanwhile answers without a name. An invocation
  looks the name up, asks for the right on the app it found and looks the name up again
  (`internal/services/functions/handler.go:216`): when that app goes in between, the
  caller gets the answer of an app of the name in another group, for which no right was
  asked. `InvokeStaysInGroup` allows for exactly that overlap. The activity log is also
  written by the lab's injection routes (`internal/services/monitor/inject.go:129`,
  `internal/server/lab_forensics.go:165`) with any operation; `LogIsTrue` is about what
  the handlers append.
* Resource Graph: rows are written under `SecurityResources` only, so a query of the
  table `Resources` finds nothing.
* Managed identity: of two overlapping first PUTs one answers ids that are not
  kept, and of a user-assigned identity the later write replaces the ids that the
  earlier PUT answered, where `docs/services/managedidentity.md:35` says "A later put
  keeps the stored pair"; a PUT of a system-assigned identity whose read fails answers
  new ids and keeps the stored ones (`internal/services/managedidentity/handler.go:277`);
  a pinned id may be given to two identities, or be one that another already has.

## Not modelled

Of the modelled components: Begin, End and Close frames (no state that another
operation reads), the AMQP codec, Key Vault keys with encrypt and decrypt,
principal aliases that appear during a request, group nestings beyond the seeded
one (the depth limit of 8 is in the model and cannot be reached), claims matching
expressions of federated credentials beyond a subject, rules on displayName and on
devices, `sendEmail`, the activity log's query, the sign-in log, the reads of Cosmos
items, whether a directory role is given by who may give it, contents, metadata and paging of
listings.

Of the others: the Monitor and Log Analytics queries are over append-only rows;
configuration and start-up run once, before anything is concurrent; the server's
routing table has no state; TLS, sealing and password hashing are cryptography,
taken to be perfect everywhere; the compute host calls an external container
engine. `PROJECT.json` says so for each.

## Plan

Every safety property that a passing run checks is proved. What is left, in the order
of what it would add:

1. a composition of tokens, `Rbac` and one data plane (a request that is answered had a
   token, a grant and an object at some instant of its life), which the invariants
   `ETInv` and `QInv` are strong enough to carry;
2. a more general `ShallowNesting` (nestings with cycles, which `seen` ends), by
   counting the groups listed;
3. the shutdown of the AMQP listener against open connections.

The eight proof modules follow the packages of the code: queues, tokens, RBAC, Key
Vault, ARM, data, delivery, directory.
