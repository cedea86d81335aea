--------------------------- MODULE DeviceOverlap ---------------------------
(***************************************************************************)
(* What is left of the claims on identity and document when the operations *)
(* of several callers meet on a device.  Nothing in DeviceLogic orders     *)
(* them: the identity registry alone, which refuses to create an identity  *)
(* twice, keeps two adds apart.  This module runs DeviceLifecycle and      *)
(* keeps a history of the steps in which the code lets one operation run   *)
(* over another; on every other device the registries agree.               *)
(***************************************************************************)
EXTENDS DeviceLifecycle

VARIABLES
  again,   \* history: processes that retry a rollback call which was applied
  overrun  \* history: devices on which one operation ran over another

ovars == <<vars, again, overrun>>

OTypeOK == TypeOK /\ again \subseteq Proc /\ overrun \subseteq Device

\* The process whose call this step is.
Moves(p) == <<pc'[p], tries'[p]>> # <<pc[p], tries[p]>>

\* The adds that have created the identity of d and not finished with it.
OpenAdds(d) == {p \in Proc \ again : job[p].dev = d /\ pc[p] \in Owner}

\* The removals that have deleted the identity of d and not finished with it.
OpenRemovals(d) ==
  {p \in Proc : /\ job[p].dev = d
                /\ \/ pc[p] \in {"rmRead", "rmDelete"}
                   \/ pc[p] = "rmRollback" /\ p \notin again}

Taken(d) == ~Absent(d) /\ Absent(d)'
Given(d) == Absent(d) /\ ~Absent(d)'

\* The call of p on d did its rollback, whether or not p was told.
RolledBack(p, d) ==
  \/ pc[p] = "addRollback" /\ Taken(d)
  \/ pc[p] = "rmRollback" /\ Given(d)

\* A removal takes the identity of an add that is not finished.
RemovesUnderAdd(p, d) == pc[p] = "rmHub" /\ Taken(d) /\ OpenAdds(d) # {}

\* A rollback that was applied, with its answer lost, is applied once more: the
\* identity it takes or gives by now is that of another operation.
RollsBackTwice(p, d) == p \in again /\ RolledBack(p, d)

\* The rollback of a removal leaves the identity to an add that may not keep it.
LeavesToAdd(p, d) ==
  /\ pc[p] = "rmRollback" /\ p \notin again /\ pc'[p] = "idle"
  /\ ~Absent(d) /\ OpenAdds(d) # {}

\* An upsert brings back a document that was removed since it was read.
SavesRemoved(p) ==
  /\ pc[p] \in {"stSave", "upSave"} /\ docs' # docs
  /\ docs[job[p].guid] = NoDocument

Overruns(p, d) ==
  \/ RemovesUnderAdd(p, d) \/ RollsBackTwice(p, d)
  \/ LeavesToAdd(p, d) \/ SavesRemoved(p)

\* The step is a call of p on d.
Calls(p, d) == Moves(p) /\ job[p].dev = d

Remember ==
  /\ again' = {p \in Proc : /\ pc'[p] = pc[p]
                            /\ \/ p \in again
                               \/ \E d \in Device : Calls(p, d) /\ RolledBack(p, d)}
  /\ overrun' = overrun \cup {d \in Device : \E p \in Proc : Calls(p, d) /\ Overruns(p, d)}

OInit == Init /\ again = {} /\ overrun = {}

ONext == Next /\ Remember

OSpec == OInit /\ [][ONext]_ovars

-----------------------------------------------------------------------------
(* Properties.                                                             *)

\* Whatever operations meet on a device and whatever fails, is lost or is
\* retried, two documents never describe it, unless one operation ran over
\* another in one of the four ways of Overruns: the check for the id and the
\* insert (DeviceRegistryRepository.AddDeviceAsync) are two calls, and what keeps
\* two adds from inserting is that only one of them can create the identity.
OneDocument ==
  \A d \in Device \ overrun : \A g, h \in DocsOf(d) : g = h

\* With the same exceptions, a device nobody works on has an identity exactly
\* when it has a document, or a failure without compensation is recorded in gap:
\* an add that meets a removal, another add or itself retried undoes its own
\* identity and no other.
RegistriesMatch ==
  \A d \in Device \ overrun : Sound(d, "registered") => (~Absent(d) <=> DocsOf(d) # {})

-----------------------------------------------------------------------------
(* Why they hold.                                                          *)

Holding == {"rmDelete", "stSave", "upSend", "upCheck", "upSave"}

\* A document in hand is of the device it was read for, or gone; one about to be
\* inserted is nobody else's.
DocumentsHeld ==
  /\ \A g \in Guid : docs[g].dev = NoDevice => docs[g] = NoDocument
  /\ \A p \in Proc : pc[p] = "addSave" =>
       /\ job[p].guid \in Guid /\ docs[job[p].guid] = NoDocument
       /\ \A q \in Proc \ {p} : job[q].guid # job[p].guid
  /\ \A p \in Proc : pc[p] \in Holding =>
       job[p].guid \in Guid /\ docs[job[p].guid].dev \in {job[p].dev, NoDevice}
  /\ \A p, q \in Proc : pc[p] \in Holding /\ pc[q] \in Holding /\ job[p].guid = job[q].guid =>
       job[p].dev = job[q].dev

\* The identity is the lock of the one add that created it.
Locked(d) ==
  /\ \A p, q \in OpenAdds(d) : p = q
  /\ OpenAdds(d) # {} => ~Absent(d)
  /\ (\E p \in OpenAdds(d) : pc[p] = "addSave") => DocsOf(d) = {}
  /\ \A g, h \in DocsOf(d) : g = h

\* Where the registries stand while operations are under way.
Between(d) ==
  /\ \A p, q \in OpenRemovals(d) : p = q
  /\ OpenRemovals(d) # {} => DocsOf(d) # {}
  /\ \A p \in OpenRemovals(d) : pc[p] = "rmDelete" => docs[job[p].guid].dev = d
  /\ Absent(d) /\ DocsOf(d) # {} => OpenRemovals(d) # {}
  /\ ~Absent(d) /\ (DocsOf(d) = {} \/ OpenRemovals(d) # {}) => OpenAdds(d) # {}
  /\ \A p \in OpenAdds(d) :
       IF pc[p] = "addTag" THEN DocsOf(d) # {} /\ OpenRemovals(d) = {}
       ELSE DocsOf(d) = {} \/ OpenRemovals(d) # {}

\* A removal puts back an identity it has seen.
SeenPresent ==
  \A p \in Proc : pc[p] \in {"rmHub", "rmRead", "rmDelete", "rmRollback"} =>
    job[p].seen # "Absent"

\* Only the hub call of a rollback is ever made again after it was applied.
RetriesRollback == \A p \in again : pc[p] \in {"addRollback", "rmRollback"}

OverlapInv ==
  /\ DocumentsHeld
  /\ SeenPresent
  /\ RetriesRollback
  /\ \A d \in Device \ overrun : Locked(d)
  /\ \A d \in Device \ overrun : <<d, "registered">> \notin gap => Between(d)
=============================================================================
