---------------------------- MODULE MCRulesStore ----------------------------
(* Values of the constants of RulesStore for TLC.                          *)
EXTENDS RulesStore, TLC

CONSTANTS d1, d2, r1, r2, r3, p1, p2

\* One device with two rules, and two devices, one of them with two rules.
OneOwner == [r \in {r1, r2} |-> d1]
TwoOwners == [r \in {r1, r2, r3} |-> IF r = r3 THEN d2 ELSE d1]

Threads == Permutations({p1, p2})
=============================================================================
