----------------------------- MODULE MCKeyVault -----------------------------
(***************************************************************************)
(* Small instances of KeyVault for TLC.                                    *)
(***************************************************************************)
EXTENDS KeyVault, TLC

Symmetry == Permutations(Req)

=============================================================================
