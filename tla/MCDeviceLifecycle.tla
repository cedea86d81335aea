------------------------- MODULE MCDeviceLifecycle -------------------------
(* Instances of DeviceLifecycle for TLC. *)
EXTENDS DeviceLifecycle, TLC

\* Documents and ETags are compared only for equality.
Names == Permutations(Guid) \cup Permutations(Etag)
=============================================================================
