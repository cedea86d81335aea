-------------------------- MODULE MCDeviceOverlap --------------------------
(* An instance of DeviceOverlap for TLC. *)
EXTENDS DeviceOverlap, TLC

\* Documents, ETags and callers are compared only for equality.
ProcNames == Permutations(Guid) \cup Permutations(Etag) \cup Permutations(Proc)
=============================================================================
