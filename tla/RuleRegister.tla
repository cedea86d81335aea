---------------------------- MODULE RuleRegister ----------------------------
(***************************************************************************)
(* What the rules table promises its callers: each rule is a register that *)
(* is created once, changed by atomic read-modify-write steps and deleted. *)
(* A rule's content is abstracted to the number of changes made to it, so  *)
(* a change that was computed from an older content than the one it        *)
(* replaces (a lost update) is not a step of this specification.           *)
(***************************************************************************)
EXTENDS Integers

CONSTANT Rule   \* rule ids

VARIABLE changes  \* of each rule: changes since it was created, Absent if none

Absent == -1

Init == changes = [r \in Rule |-> Absent]

Create(r) ==
  /\ changes[r] = Absent
  /\ changes' = [changes EXCEPT ![r] = 0]

Change(r) ==
  /\ changes[r] # Absent
  /\ changes' = [changes EXCEPT ![r] = @ + 1]

Delete(r) ==
  /\ changes[r] # Absent
  /\ changes' = [changes EXCEPT ![r] = Absent]

Next == \E r \in Rule : Create(r) \/ Change(r) \/ Delete(r)

Spec == Init /\ [][Next]_changes
=============================================================================
