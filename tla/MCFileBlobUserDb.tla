-------------------------- MODULE MCFileBlobUserDb --------------------------
(***************************************************************************)
(* Small instances of FileBlobUserDb for TLC.                              *)
(***************************************************************************)
EXTENDS FileBlobUserDb, TLC

Symmetry == Permutations(Requests) \cup Permutations(Exclusive) \cup Permutations(Roles)
               \cup Permutations(Stamps)

=============================================================================
