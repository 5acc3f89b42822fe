--------------------------- MODULE MCSharedSettings ---------------------------
(* Instances of SharedSettings for TLC. *)
EXTENDS SharedSettings, TLC

\* No definition tells one device from another, nor one saved preference.
DevicePlainSymmetry == Permutations(Devices) \cup Permutations(Plain)

=============================================================================
