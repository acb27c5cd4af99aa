---------------------------- MODULE FunctionApps ----------------------------
(***************************************************************************)
(* The function apps of one name, resource groups, and the activity log    *)
(* both write (internal/services/functions/handler.go,                     *)
(* internal/services/subscriptions/handler.go, internal/store/             *)
(* app_observe.go).                                                        *)
(*                                                                         *)
(* A PUT is three statements (write, log, read back), a DELETE two, an     *)
(* invocation two look-ups by name around its check.  The log is written   *)
(* after the change and its error is dropped.  SELECT ... WHERE name = ?   *)
(* LIMIT 1 goes through the table in the order of insertion.  Root's       *)
(* inject routes (monitor injectActivityLog, handleLabBulkSeed) write      *)
(* entries of any operation on purpose; the log here is what the handlers  *)
(* of these changes append themselves.                                     *)
(***************************************************************************)
EXTENDS Naturals, Sequences, FiniteSets, SequencesExt

CONSTANTS
    AppGroup,   \* resource groups that may hold an app of the name
    Call,       \* concurrent requests
    NoApp, Rest,
    MaxChange   \* bound: PUTs and DELETEs begun

VARIABLES
    apps,       \* function_apps of the name, in insertion order: [group, mock]
    groups,     \* resource_groups
    log,        \* activity_log: how often an operation was logged
    call,       \* requests between their statements
    changes,    \* PUTs and DELETEs begun
    done,       \* history: how often an operation changed a row
    touched,    \* history: calls during which another wrote the name's rows
    answered    \* history: the last answer

fvars == <<apps, groups, log, call, changes, done, touched, answered>>

Op == {"writeApp", "deleteApp", "writeGroup"}

Change ==
    [op : Op \cup {"invoke"}, group : AppGroup, at : {"write", "log", "read", "mock"},
     mock : 0 .. MaxChange]

ASSUME FunctionsAssumption ==
    /\ IsFiniteSet(Call) /\ MaxChange \in Nat /\ Rest \notin Change
    /\ NoApp \notin [group : AppGroup, mock : Nat]

Groups == {apps[i].group : i \in DOMAIN apps}

\* GetFunctionAppByName
GetFunctionAppByName == IF apps = <<>> THEN NoApp ELSE Head(apps)

\* GetFunctionApp; group and name are the key of the table.
RowOf(g) == CHOOSE i \in DOMAIN apps : apps[i].group = g

GetFunctionApp(g) == IF g \in Groups THEN apps[RowOf(g)] ELSE NoApp

\* A write of c to the rows is seen by the calls that are under way.
Touch(c) == touched' = touched \cup {d \in Call \ {c} : call[d] # Rest}

Ends(c, a) ==
    /\ call' = [call EXCEPT ![c] = Rest]
    /\ answered' = [a EXCEPT !.overlapped = c \in touched]

NoAnswer == [to |-> "none", group |-> 0, sent |-> 0, got |-> NoApp, overlapped |-> FALSE]

-----------------------------------------------------------------------------
\* require at the app's id, or at the group's, for a request that changes one;
\* its body is the number of the change.
BeginChange(c, op, g) ==
    /\ call[c] = Rest /\ changes < MaxChange
    /\ changes' = changes + 1
    /\ call' = [call EXCEPT ![c] =
                   [op |-> op, group |-> g, at |-> "write", mock |-> changes + 1]]
    /\ touched' = touched \ {c}
    /\ UNCHANGED <<apps, groups, log, done, answered>>

AtWrite(c, op) == call[c] # Rest /\ call[c].op = op /\ call[c].at = "write"

\* UpsertFunctionApp: an app that exists keeps its place in the table.
UpsertFunctionApp(c) ==
    LET g == call[c].group  row == [group |-> g, mock |-> call[c].mock] IN
    /\ AtWrite(c, "writeApp")
    /\ apps' = IF g \in Groups
               THEN [i \in DOMAIN apps |-> IF apps[i].group = g THEN row ELSE apps[i]]
               ELSE Append(apps, row)
    /\ done' = [done EXCEPT !["writeApp"] = @ + 1]
    /\ call' = [call EXCEPT ![c].at = "log"]
    /\ Touch(c)
    /\ UNCHANGED <<groups, log, changes, answered>>

\* DeleteFunctionApp; without a row the request ends with 404 and no log.
DeleteFunctionApp(c) ==
    LET g == call[c].group IN
    /\ AtWrite(c, "deleteApp")
    /\ IF g \in Groups
       THEN /\ apps' = RemoveAt(apps, RowOf(g))
            /\ done' = [done EXCEPT !["deleteApp"] = @ + 1]
            /\ call' = [call EXCEPT ![c].at = "log"]
            /\ Touch(c)
            /\ UNCHANGED answered
       ELSE /\ Ends(c, [NoAnswer EXCEPT !.to = "deleteApp", !.group = g])
            /\ UNCHANGED <<apps, done, touched>>
    /\ UNCHANGED <<groups, log, changes>>

\* UpsertResourceGroup
UpsertResourceGroup(c) ==
    /\ AtWrite(c, "writeGroup")
    /\ groups' = groups \cup {call[c].group}
    /\ done' = [done EXCEPT !["writeGroup"] = @ + 1]
    /\ call' = [call EXCEPT ![c].at = "log"]
    /\ UNCHANGED <<apps, log, changes, touched, answered>>

\* AppendActivityLog by the handlers of these changes; its error, if any, is
\* dropped.  A DELETE and a PUT of a group end here, a PUT of an app goes on to
\* read it back.
AppendActivityLog(c, fails) ==
    /\ call[c] # Rest /\ call[c].at = "log"
    /\ log' = IF fails THEN log ELSE [log EXCEPT ![call[c].op] = @ + 1]
    /\ IF call[c].op = "writeApp"
       THEN call' = [call EXCEPT ![c].at = "read"] /\ UNCHANGED answered
       ELSE Ends(c, [NoAnswer EXCEPT !.to = call[c].op, !.group = call[c].group])
    /\ UNCHANGED <<apps, groups, changes, done, touched>>

\* Mutant of PutAnswer: the app is read back by its name.
PutAnswerByName(c) ==
    /\ call[c] # Rest /\ call[c].at = "read"
    /\ Ends(c, [NoAnswer EXCEPT !.to = "writeApp", !.group = call[c].group,
                                !.sent = call[c].mock,
                                !.got = GetFunctionAppByName])
    /\ UNCHANGED <<apps, groups, log, changes, done, touched>>

\* The end of putApp: GetFunctionApp, whose ok and error are dropped; a row that
\* is gone by then is answered as an app without a name.
PutAnswer(c) ==
    /\ call[c] # Rest /\ call[c].at = "read"
    /\ Ends(c, [NoAnswer EXCEPT !.to = "writeApp", !.group = call[c].group,
                                !.sent = call[c].mock,
                                !.got = GetFunctionApp(call[c].group)])
    /\ UNCHANGED <<apps, groups, log, changes, done, touched>>

\* invoke: the app of the name is looked up and the right asked for at its id ...
InvokeFind(c) ==
    /\ call[c] = Rest /\ apps # <<>>
    /\ call' = [call EXCEPT ![c] =
                   [op |-> "invoke", group |-> GetFunctionAppByName.group,
                    at |-> "mock", mock |-> 0]]
    /\ touched' = touched \ {c}
    /\ UNCHANGED <<apps, groups, log, changes, done, answered>>

\* ... and the name is looked up again for the answer (InvokeFunctionAppMock);
\* none by then answers {"ok":true}.
InvokeFunctionAppMock(c) ==
    /\ call[c] # Rest /\ call[c].at = "mock"
    /\ Ends(c, [NoAnswer EXCEPT !.to = "invoke", !.group = call[c].group,
                                !.got = GetFunctionAppByName])
    /\ UNCHANGED <<apps, groups, log, changes, done, touched>>

\* The process stops; the tables stay.
FCrash ==
    /\ \E c \in Call : call[c] # Rest
    /\ call' = [c \in Call |-> Rest] /\ touched' = {}
    /\ UNCHANGED <<apps, groups, log, changes, done, answered>>

FInit ==
    /\ apps = <<>> /\ groups = {} /\ changes = 0
    /\ log = [o \in Op |-> 0] /\ done = [o \in Op |-> 0]
    /\ call = [c \in Call |-> Rest]
    /\ touched = {} /\ answered = NoAnswer

FNext ==
    \/ \E c \in Call, op \in Op, g \in AppGroup : BeginChange(c, op, g)
    \/ \E c \in Call :
          \/ UpsertFunctionApp(c) \/ DeleteFunctionApp(c) \/ UpsertResourceGroup(c)
          \/ \E fails \in BOOLEAN : AppendActivityLog(c, fails)
          \/ PutAnswer(c) \/ InvokeFind(c) \/ InvokeFunctionAppMock(c)
    \/ FCrash

FSpec == FInit /\ [][FNext]_fvars

-----------------------------------------------------------------------------
(* Properties.                                                             *)

\* What the handlers append to the activity log is never more changes of a kind than
\* were made: an entry follows its change, and a request that changed nothing leaves
\* none.  (It may be fewer: the append's error is dropped, and a crash comes
\* between.  Entries that root injects are not counted.)
LogIsTrue == \A o \in Op : log[o] <= done[o]

\* Unless the name's rows were written meanwhile, an invocation answers with the
\* app at whose id its right was checked, although it looks the name up twice and
\* other groups may hold an app of that name.  When the checked app is deleted
\* between the two, the answer is the other group's, whose right nobody checked.
InvokeStaysInGroup ==
    answered.to = "invoke" /\ ~answered.overlapped =>
       answered.got # NoApp /\ answered.got.group = answered.group

\* Unless the rows were written meanwhile, a PUT answers with the app it wrote,
\* as it wrote it, although the answer comes from a read after two more steps.
PutAnswersItsApp ==
    answered.to = "writeApp" /\ ~answered.overlapped =>
       answered.got = [group |-> answered.group, mock |-> answered.sent]

\* Answers are about the app that was checked or written although each comes from
\* another look-up, and the log shows no change that was not made.
FunctionsInv == LogIsTrue /\ InvokeStaysInGroup /\ PutAnswersItsApp

=============================================================================
