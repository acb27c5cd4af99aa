---------------------------- MODULE MessageQueue ----------------------------
(***************************************************************************)
(* What a Service Bus queue of the emulator promises its clients: an       *)
(* at-most-once mailbox.  A message leaves the mailbox once, never before  *)
(* an older message of its lane, and then reaches its receiver or is lost; *)
(* it never comes back.  There is no lock to expire and nothing to settle. *)
(***************************************************************************)
EXTENDS Integers

CONSTANTS
    Message,    \* messages: records with a field id, and the lane they are in
    Lane(_)     \* messages of one lane keep their order

VARIABLES
    queued,     \* waiting in the mailbox
    held,       \* taken out, on their way to a receiver
    delivered,  \* received
    lost        \* taken out and never received

mqVars == <<queued, held, delivered, lost>>

Seen == queued \cup held \cup delivered \cup lost

Init == queued = {} /\ held = {} /\ delivered = {} /\ lost = {}

\* A new message is younger than every message seen so far.
Put(m) ==
    /\ \A o \in Seen : o.id < m.id
    /\ queued' = queued \cup {m}
    /\ UNCHANGED <<held, delivered, lost>>

\* A message is taken before the younger ones of its lane.
Takeable(m) == m \in queued /\ \A o \in queued : Lane(o) = Lane(m) => m.id <= o.id

Take(m) ==
    /\ Takeable(m)
    /\ queued' = queued \ {m}
    /\ held' = held \cup {m}
    /\ UNCHANGED <<delivered, lost>>

Arrive(m) ==
    /\ m \in held
    /\ held' = held \ {m}
    /\ delivered' = delivered \cup {m}
    /\ UNCHANGED <<queued, lost>>

Lose(S) ==
    /\ S \subseteq held
    /\ held' = held \ S
    /\ lost' = lost \cup S
    /\ UNCHANGED <<queued, delivered>>

\* A receiver that answers in the same step.
Receive(m) ==
    /\ Takeable(m)
    /\ queued' = queued \ {m}
    /\ \/ delivered' = delivered \cup {m} /\ UNCHANGED <<held, lost>>
       \/ lost' = lost \cup {m} /\ UNCHANGED <<held, delivered>>

Next ==
    \/ \E m \in Message : Put(m) \/ Take(m) \/ Arrive(m) \/ Receive(m)
    \/ \E S \in SUBSET held : Lose(S)

Spec == Init /\ [][Next]_mqVars

=============================================================================
