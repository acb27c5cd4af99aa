------------------------------- MODULE Listing -------------------------------
(***************************************************************************)
(* What the list handlers and their queries do with a list: keep the       *)
(* entries that pass a filter, in their order, and cut at a limit.         *)
(***************************************************************************)
EXTENDS Naturals, Sequences

\* The loop for rows.Next() { ... append(out, row) }: entry by entry, the ones in
\* S are appended.
Keep(s, S) ==
    LET out[i \in 0 .. Len(s)] ==
            IF i = 0 THEN <<>>
            ELSE IF s[i] \in S THEN Append(out[i - 1], s[i])
            ELSE out[i - 1]
    IN  out[Len(s)]

\* The first n; 0 is no limit.
Cut(s, n) == IF n > 0 /\ n < Len(s) THEN SubSeq(s, 1, n) ELSE s

=============================================================================
