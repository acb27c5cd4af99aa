--------------------------- MODULE MCEntraTokens ---------------------------
(***************************************************************************)
(* A small instance of EntraTokens for TLC.                                *)
(***************************************************************************)
EXTENDS EntraTokens, TLC

CONSTANTS app, other, arm, good

\* A request that says little, and one that says all.
Forms ==
    {[aud |-> NoAud, client |-> NoClient, agent |-> NoAgent],
     [aud |-> arm, client |-> app, agent |-> good]}

\* A policy for one application.
Conds == {[include |-> {app}, exclude |-> {other}, agents |-> {good}]}

Symmetry == Permutations(User) \cup Permutations(Key) \cup Permutations(Req)

=============================================================================
