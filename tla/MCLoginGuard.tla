---------------------------- MODULE MCLoginGuard ----------------------------
(***************************************************************************)
(* Small instances of LoginGuard for TLC.                                  *)
(***************************************************************************)
EXTENDS LoginGuard, TLC

Symmetry == Permutations(Requests) \cup Permutations(Users) \cup Permutations(Codes)

=============================================================================
