------------------------------- MODULE Cosmos -------------------------------
(***************************************************************************)
(* One Cosmos DB account name and the items of one container               *)
(* (internal/services/cosmos, internal/store/cosmos.go).                   *)
(*                                                                         *)
(* Accounts are rows of a resource group, with a key each; the data plane  *)
(* looks an account up by name alone (LIMIT 1).  PUT account reads and     *)
(* writes in two statements; an item is one upsert.  The reads of items    *)
(* (a point read, a query, the change feed) are single SELECTs that change *)
(* nothing and are left out.                                               *)
(***************************************************************************)
EXTENDS Naturals, FiniteSets

CONSTANTS
    Group,      \* resource groups
    Id, Pk,     \* item ids and partition key values
    Put,        \* concurrent PUTs of the account
    NoPut,
    MaxCosmosKey,     \* bound: keys generated
    MaxItem     \* bound: item writes

ASSUME CosmosAssumption == MaxCosmosKey \in Nat /\ MaxItem \in Nat

VARIABLES
    made,       \* cosmos_databases and cosmos_containers: some were made
    row,        \* cosmos_accounts: the key of a group's row; 0: no row
    put,        \* PUTs of the account between their statements
    items,      \* cosmos_items: the write that made the body; 0: no row
    nextCosmosKey, nextItem,
    listed      \* history: the keys listKeys returned, with their group

cvars == <<made, row, put, items, nextCosmosKey, nextItem, listed>>

Accounts == {g \in Group : row[g] # 0}

-----------------------------------------------------------------------------
\* UpsertCosmosAccount: a row of the group keeps its key (UPDATE location) ...
UpdateAccount(g) ==
    /\ row[g] # 0
    /\ UNCHANGED cvars

\* ... without one a key is made ...
NewAccount(q, g) ==
    /\ put[q] = NoPut /\ row[g] = 0 /\ nextCosmosKey <= MaxCosmosKey
    /\ put' = [put EXCEPT ![q] = [group |-> g, key |-> nextCosmosKey]]
    /\ nextCosmosKey' = nextCosmosKey + 1
    /\ UNCHANGED <<made, row, items, nextItem, listed>>

\* Mutant of InsertAccount: the upsert of the other account tables.
InsertOrReplaceAccount(q) ==
    /\ put[q] # NoPut
    /\ row' = [row EXCEPT ![put[q].group] = put[q].key]
    /\ put' = [put EXCEPT ![q] = NoPut]
    /\ UNCHANGED <<made, items, nextCosmosKey, nextItem, listed>>

\* ... and inserted; when another PUT was first the primary key makes it fail.
InsertAccount(q) ==
    /\ put[q] # NoPut
    /\ row' = [row EXCEPT ![put[q].group] = IF @ = 0 THEN put[q].key ELSE @]
    /\ put' = [put EXCEPT ![q] = NoPut]
    /\ UNCHANGED <<made, items, nextCosmosKey, nextItem, listed>>

ListKeys(g) ==
    /\ row[g] # 0
    /\ listed' = listed \cup {<<g, row[g]>>}
    /\ UNCHANGED <<made, row, put, items, nextCosmosKey, nextItem>>

-----------------------------------------------------------------------------
\* authData with an account key: the row that is found must have that key.
AuthKey(g, key) == g \in Accounts /\ row[g] = key

\* authData with a bearer token: root, or Cosmos data roles at the row's group.
AuthBearer(g, rights) == g \in Accounts /\ (rights = "root" \/ rights = g)

AuthData ==
    \E g \in Group : \/ \E key \in 1 .. MaxCosmosKey : AuthKey(g, key)
                     \/ \E rights \in Group \cup {"root"} : AuthBearer(g, rights)

\* putDB and putColl: a row each, which no handler reads.
PutDB ==
    /\ AuthData = TRUE
    /\ made' = made \cup {"database"}
    /\ UNCHANGED <<row, put, items, nextCosmosKey, nextItem, listed>>

PutColl ==
    /\ AuthData = TRUE
    /\ made' = made \cup {"container"}
    /\ UNCHANGED <<row, put, items, nextCosmosKey, nextItem, listed>>

\* UpsertCosmosItem.  Neither the database nor the container need exist.
PutDoc(i, pk) ==
    /\ AuthData = TRUE
    /\ nextItem <= MaxItem
    /\ items' = [items EXCEPT ![i][pk] = nextItem]
    /\ nextItem' = nextItem + 1
    /\ UNCHANGED <<made, row, put, nextCosmosKey, listed>>

CInit ==
    /\ made = {} /\ row = [g \in Group |-> 0]
    /\ put = [q \in Put |-> NoPut]
    /\ items = [i \in Id |-> [pk \in Pk |-> 0]]
    /\ nextCosmosKey = 1 /\ nextItem = 1
    /\ listed = {}

CNext ==
    \/ \E g \in Group : UpdateAccount(g) \/ ListKeys(g)
    \/ \E q \in Put : InsertAccount(q) \/ \E g \in Group : NewAccount(q, g)
    \/ PutDB \/ PutColl
    \/ \E i \in Id, pk \in Pk : PutDoc(i, pk)

CSpec == CInit /\ [][CNext]_cvars

-----------------------------------------------------------------------------
(* Properties.                                                             *)

\* A key that listKeys returned stays the key of its account, whatever PUTs of
\* the account overlap (UpsertCosmosAccount reads the row and inserts it in two
\* statements, and two PUTs may both find none); and while no other group has the
\* name the data plane takes that key and nothing else.
CosmosInv ==
    \A gk \in listed :
       /\ row[gk[1]] = gk[2]
       /\ Accounts = {gk[1]} =>
             {key \in 1 .. MaxCosmosKey : \E g \in Group : AuthKey(g, key)} = {gk[2]}

=============================================================================
