---------------------------- MODULE MCFilterStore ----------------------------
(* FilterStore for TLC: the name of the built-in filter, and a bound on the    *)
(* number of requests.                                                         *)
EXTENDS FilterStore, TLC

CONSTANT MaxRequests

VARIABLE requests

BuiltinNames == [b \in Builtin |-> 2]
Alike == Permutations(Caller)

MCInit == Init /\ requests = 0

MCNext ==
  \/ Proceed /\ UNCHANGED requests
  \/ /\ requests < MaxRequests
     /\ \E c \in Caller : Request(c)
     /\ requests' = requests + 1

MCSpec == MCInit /\ [][MCNext]_<<vars, requests>>
=============================================================================
