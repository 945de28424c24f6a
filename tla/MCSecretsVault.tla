--------------------------- MODULE MCSecretsVault ---------------------------
(***************************************************************************)
(* Small instances of SecretsVault for TLC.                                *)
(***************************************************************************)
EXTENDS SecretsVault, TLC

Symmetry == Permutations(Requests)

=============================================================================
