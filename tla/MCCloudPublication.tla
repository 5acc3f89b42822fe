-------------------------- MODULE MCCloudPublication --------------------------
(* Instances of CloudPublication for TLC. *)
EXTENDS CloudPublication, TLC

\* No definition tells one device from another, and no slot from another but for
\* which free one is taken.
DeviceSymmetry == Permutations(Devices)

=============================================================================
