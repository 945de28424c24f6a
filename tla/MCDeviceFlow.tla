---------------------------- MODULE MCDeviceFlow ----------------------------
(***************************************************************************)
(* Small instances of DeviceFlow for TLC.                                  *)
(***************************************************************************)
EXTENDS DeviceFlow, TLC

CodeSymmetry == Permutations(DeviceCodes) \cup Permutations(Requests)

Symmetry ==
    CodeSymmetry \cup Permutations(UserCodes) \cup Permutations(Clients)

=============================================================================
