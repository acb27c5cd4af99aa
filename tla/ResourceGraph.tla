---------------------------- MODULE ResourceGraph ----------------------------
(***************************************************************************)
(* The listings that ask the evaluator once per scope                      *)
(* (internal/services/subscriptions): subscriptions, the resource groups   *)
(* of a subscription, and Resource Graph queries.                          *)
(*                                                                         *)
(* The first two read a list and evaluate each entry; a query evaluates    *)
(* each subscription it names and then reads arg_resources, keeps the rows *)
(* of the allowed ones and cuts at the query's limit.  Role assignments    *)
(* may change between any two of these steps.                              *)
(***************************************************************************)
EXTENDS Naturals, Sequences, SequencesExt, Listing

CONSTANTS
    Scope,      \* subscriptions, or the groups of one
    NoScope,    \* a row without a subscription, a blank entry of a body
    LabScope,   \* SubscriptionID: what a query without subscriptions is about
    Type,       \* types of rows
    NoQuery,
    MaxRow,     \* bound: rows of arg_resources
    MaxSubs,    \* bound: subscriptions in a body
    MaxLimit    \* bound: limits

\* Those who write rows (injectAssessments, handleLabBulkSeed) all write them under RowTable.
\* The table of a query: one that names none reads every table, which is the same as
\* naming this one.
RowTable == "SecurityResources"
Tables == {RowTable, "Resources"}

\* A request: the scopes it has still to ask for, those it was allowed, whether its
\* caller is root, its table, type and limit, and (history) all the scopes it is about,
\* the rights its caller has had since it began, and whether they have not changed.
Query == [kind : {"list", "graph"}, ask : Seq(Scope), subs : SUBSET Scope,
          allowed : Seq(Scope), root : BOOLEAN, table : Tables, type : Type \cup {"any"},
          limit : 0 .. MaxLimit, held : SUBSET Scope, stable : BOOLEAN]

ASSUME GraphAssumption ==
    /\ LabScope \in Scope /\ NoScope \notin Scope /\ IsFiniteSet(Scope)
    /\ MaxLimit \in Nat /\ NoQuery \notin Query

VARIABLES
    argRows,    \* arg_resources, in the order a scan meets them
    rights,     \* scopes at which the evaluator lets the caller read
    query,      \* the request under way
    page        \* history: the answer just given

gvars == <<argRows, rights, query, page>>

NoPage == [kind |-> "none"]

ARGRow == [scope : Scope \cup {NoScope}, type : Type]

-----------------------------------------------------------------------------
\* UpsertARGResource: a new row, or row i with another type; the row keeps its
\* subscription.
UpsertARGResource(s, type) ==
    /\ \/ Len(argRows) < MaxRow /\ argRows' = Append(argRows, [scope |-> s, type |-> type])
       \/ \E i \in 1 .. Len(argRows) : argRows' = [argRows EXCEPT ![i].type = type]
    /\ page' = NoPage
    /\ UNCHANGED <<rights, query>>

\* Role assignments of the caller come and go (Rbac).
ChangeRights(s) ==
    /\ rights' = IF s \in rights THEN rights \ {s} ELSE rights \cup {s}
    /\ query' = IF query = NoQuery THEN NoQuery
                ELSE [query EXCEPT !.held = @ \cup rights', !.stable = FALSE]
    /\ page' = NoPage
    /\ UNCHANGED argRows

\* uniqueNonEmpty of the subscriptions asked for.
UniqueNonEmpty(subs) ==
    LET first == {i \in 1 .. Len(subs) : /\ subs[i] # NoScope
                                         /\ \A j \in 1 .. (i - 1) : subs[j] # subs[i]}
        at    == Keep([i \in 1 .. Len(subs) |-> i], first)
    IN  [k \in 1 .. Len(at) |-> subs[at[k]]]

\* The subscriptions a query is about: the lab's own when the body names none.
Asked(subs) == LET asked == UniqueNonEmpty(subs) IN IF asked = <<>> THEN <<LabScope>> ELSE asked

\* listSubscriptions, listResourceGroups: the list is read first (ListSubscriptions,
\* ListResourceGroups).
BeginList(root, scopes) ==
    /\ query = NoQuery
    /\ query' = [kind |-> "list", ask |-> SetToSeq(scopes), subs |-> scopes, allowed |-> <<>>,
                 root |-> root, table |-> RowTable,
                 type |-> "any", limit |-> 0, held |-> rights, stable |-> TRUE]
    /\ page' = NoPage
    /\ UNCHANGED <<argRows, rights>>

\* History: the set of these, from the body itself.
Named(subs) == IF ToSet(subs) \subseteq {NoScope} THEN {LabScope} ELSE ToSet(subs) \ {NoScope}

\* queryResourceGraph: the subscriptions of the body, a table and a type or any, a
\* limit or none (0).
BeginQuery(root, subs, table, type, limit) ==
    /\ query = NoQuery
    /\ query' = [kind |-> "graph", ask |-> Asked(subs), subs |-> Named(subs),
                 allowed |-> <<>>, root |-> root, table |-> table,
                 type |-> type, limit |-> limit, held |-> rights, stable |-> TRUE]
    /\ page' = NoPage
    /\ UNCHANGED <<argRows, rights>>

\* Authz.Evaluate at the next scope.
EvaluateNext ==
    /\ query # NoQuery /\ query.ask # <<>>
    /\ LET s == Head(query.ask) IN
       query' = [query EXCEPT
           !.ask = Tail(@),
           !.allowed = IF query.root \/ s \in rights THEN Append(@, s) ELSE @]
    /\ page' = NoPage
    /\ UNCHANGED <<argRows, rights>>

\* filterARGBySubscriptions
FilterARGBySubscriptions(rows, allowed, includeEmpty) ==
    Keep(rows, {row \in ARGRow : IF row.scope = NoScope THEN includeEmpty
                                 ELSE row.scope \in ToSet(allowed)})

\* ListARGResources
ListARGResources(table, type) ==
    Keep(argRows, {row \in ARGRow : table = RowTable /\ type \in {"any", row.type}})

\* Mutant of GraphPage: the statement has the LIMIT, and the filter comes after it.
CutThenFilter(q) ==
    FilterARGBySubscriptions(Cut(ListARGResources(q.table, q.type), q.limit), q.allowed, q.root)

\* The rows a query answers with.
GraphPage(q) ==
    Cut(FilterARGBySubscriptions(ListARGResources(q.table, q.type), q.allowed, q.root), q.limit)

\* The answer: a query none of whose subscriptions is allowed is 403, a list is
\* then empty.
AnswerPage ==
    /\ query # NoQuery /\ query.ask = <<>>
    /\ page' = IF query.kind = "list"
               THEN [kind |-> "list", q |-> query, shown |-> ToSet(query.allowed), rows |-> <<>>]
               ELSE IF query.allowed = <<>> THEN NoPage
               ELSE [kind |-> "graph", q |-> query, rows |-> GraphPage(query),
                     shown |-> {GraphPage(query)[i].scope : i \in DOMAIN GraphPage(query)}]
    /\ query' = NoQuery
    /\ UNCHANGED <<argRows, rights>>

GInit ==
    /\ argRows = <<>> /\ rights = {}
    /\ query = NoQuery /\ page = NoPage

GNext ==
    \/ \E s \in Scope : ChangeRights(s)
    \/ \E s \in Scope \cup {NoScope}, type \in Type : UpsertARGResource(s, type)
    \/ \E root \in BOOLEAN :
          \/ \E scopes \in SUBSET Scope : BeginList(root, scopes)
          \/ \E subs \in SeqOf(Scope \cup {NoScope}, MaxSubs), table \in Tables,
                type \in Type \cup {"any"}, limit \in 0 .. MaxLimit :
                BeginQuery(root, subs, table, type, limit)
    \/ EvaluateNext \/ AnswerPage

GSpec == GInit /\ [][GNext]_gvars

-----------------------------------------------------------------------------
(* Properties.                                                             *)

\* What a listing shows the caller could read at some moment of the request;
\* rows without a subscription are for root alone.
ShownWereReadable ==
    page.kind # "none" /\ ~page.q.root => page.shown \subseteq page.q.held

\* While the caller's rights do not change, a query's page is the first rows, in
\* the order of the table, of the table and type asked for and of the subscriptions
\* asked for and readable: as many as the limit, and none is missing when there are
\* fewer.
PageIsFirstReadable ==
    page.kind = "graph" /\ page.q.stable =>
       LET want == {i \in DOMAIN argRows :
                       /\ page.q.table = RowTable
                       /\ page.q.type \in {"any", argRows[i].type}
                       /\ \/ /\ argRows[i].scope \in page.q.subs
                             /\ (page.q.root \/ argRows[i].scope \in page.q.held)
                          \/ page.q.root /\ argRows[i].scope = NoScope}
           first == {i \in want : page.q.limit = 0
                                  \/ Cardinality({j \in want : j < i}) < page.q.limit}
       IN /\ Len(page.rows) = Cardinality(first)
          /\ \A i \in first : page.rows[Cardinality({j \in first : j <= i})] = argRows[i]

\* A listing shows what its caller could read and, with steady rights, the first
\* of it up to the limit.
ListingsInv == ShownWereReadable /\ PageIsFirstReadable

=============================================================================
