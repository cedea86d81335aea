-------------------------- MODULE DeviceLifecycle --------------------------
(***************************************************************************)
(* The device operations of DeviceLogic: add, remove, enable/disable and   *)
(* update.  Each one is a sequence of calls to four stores that share no   *)
(* transaction:                                                            *)
(*   - the identity registry of the IoT Hub, with the device's twin        *)
(*     (IotHubRepository, every call wrapped by AzureRetryHelper);         *)
(*   - the device registry, a DocumentDB collection                        *)
(*     (DeviceRegistryRepositoryWithIoTHubDM);                             *)
(*   - the table of devices the simulator runs (VirtualDeviceTableStorage);*)
(*   - the rules table, reached through DeviceRulesLogic.                  *)
(* One action is one call, so the operations of several request threads,   *)
(* of the event processor and of the bootstrap job interleave between any  *)
(* two calls.  A call may be refused (it has no effect), be applied with   *)
(* its answer lost, or never be made because the process dies.             *)
(***************************************************************************)
EXTENDS Naturals, FiniteSets

CONSTANTS
  Device,     \* device ids
  Simulated,  \* the devices whose IsSimulatedDevice is true
  Proc,       \* request threads and event processors running an operation
  Guid,       \* ids of registry documents (Guid.NewGuid)
  Etag,       \* ETags the IoT Hub gives to the versions of an identity
  NoDevice, NoGuid, NoEtag,
  RetryCount, \* AzureRetryHelper.RETRY_COUNT
  Ops,        \* the operations callers start: {"add","remove","status","update"}
  Faults,     \* what may go wrong with a call: {"refused","lost","crash"}
  Serial      \* TRUE: callers never run two operations on one device at once

ASSUME ConstantsAssumption ==
  /\ Simulated \subseteq Device
  /\ NoDevice \notin Device
  /\ NoGuid \notin Guid
  /\ NoEtag \notin Etag
  /\ RetryCount \in Nat
  /\ Serial \in BOOLEAN

VARIABLES
  hub,    \* identity of each device: status, twin tag HubEnabledState, ETag
  docs,   \* registry documents by id; a document of NoDevice does not exist
  virt,   \* devices listed in the simulator's table
  ruled,  \* devices that have rows in the rules table
  pc,     \* the next call of each process
  job,    \* the local variables of the operation a process runs
  tries,  \* currentRetry of the IoT Hub call a process is in
  gap     \* history: <<device, facet>> that a failure, or a rule posted for a
          \* device without document, left without compensation so far

stores == <<hub, docs, virt, ruled>>
vars == <<hub, docs, virt, ruled, pc, job, tries, gap>>

Status == {"Absent", "Enabled", "Disabled"}
Tag == {"None", "Enabled", "Disabled"}
DocState == {"Unset", "Enabled", "Disabled"}
Facet == {"registered", "status", "tag", "simulated", "rules"}

Identity == [status : Status, tag : Tag, etag : Etag \cup {NoEtag}]
Document == [dev : Device \cup {NoDevice}, state : DocState]
Job == [dev : Device \cup {NoDevice}, want : {"Enabled", "Disabled"},
        seen : Status, etag : Etag \cup {NoEtag},
        guid : Guid \cup {NoGuid}, state : DocState]

NoIdentity == [status |-> "Absent", tag |-> "None", etag |-> NoEtag]
NoDocument == [dev |-> NoDevice, state |-> "Unset"]
NoJob == [dev |-> NoDevice, want |-> "Enabled", seen |-> "Absent",
          etag |-> NoEtag, guid |-> NoGuid, state |-> "Unset"]

AddLabel == {"addCheck", "addHub", "addTwin", "addRead", "addSave", "addTag",
             "addVirtual", "addRollback"}
RemoveLabel == {"rmGet", "rmHub", "rmRead", "rmDelete", "rmVirtual", "rmRules",
                "rmRollback"}
StatusLabel == {"stGet", "stHub", "stRead", "stSave", "stTag", "stKeys",
                "stVirtual", "stRevertGet", "stRevert"}
UpdateLabel == {"upRead", "upSend", "upCheck", "upSave"}
Label == {"idle"} \cup AddLabel \cup RemoveLabel \cup StatusLabel \cup UpdateLabel

TypeOK ==
  /\ hub \in [Device -> Identity]
  /\ docs \in [Guid -> Document]
  /\ virt \subseteq Device
  /\ ruled \subseteq Device
  /\ pc \in [Proc -> Label]
  /\ job \in [Proc -> Job]
  /\ tries \in [Proc -> 0..RetryCount]
  /\ gap \subseteq Device \X Facet
  /\ \A p \in Proc : pc[p] # "idle" => job[p].dev \in Device

Init ==
  /\ hub = [d \in Device |-> NoIdentity]
  /\ docs = [g \in Guid |-> NoDocument]
  /\ virt = {}
  /\ ruled = {}
  /\ pc = [p \in Proc |-> "idle"]
  /\ job = [p \in Proc |-> NoJob]
  /\ tries = [p \in Proc |-> 0]
  /\ gap = {}

-----------------------------------------------------------------------------
(* Control: what an operation does after a call.                           *)

\* The call is over and the operation continues at l with local variables j.
Advance(p, l, j) ==
  /\ pc' = [pc EXCEPT ![p] = l]
  /\ job' = [job EXCEPT ![p] = j]
  /\ tries' = [tries EXCEPT ![p] = 0]

\* The operation continues at l; "idle" is its return or its exception.
GoTo(p, l) == Advance(p, l, IF l = "idle" THEN NoJob ELSE job[p])

\* Mutant of Retry: currentRetry is compared before it is incremented.
RetryOffByOne(p) ==
  /\ tries[p] <= RetryCount
  /\ tries' = [tries EXCEPT ![p] = @ + 1]
  /\ UNCHANGED <<pc, job>>

\* Mutant of Retry: currentRetry starts again when the limit is reached.
RetryForever(p) ==
  /\ tries' = [tries EXCEPT ![p] = (@ + 1) % (RetryCount + 1)]
  /\ UNCHANGED <<pc, job>>

\* AzureRetryHelper: a transient failure makes the helper call again, at most
\* RetryCount times.
Retry(p) ==
  /\ tries[p] < RetryCount
  /\ tries' = [tries EXCEPT ![p] = @ + 1]
  /\ UNCHANGED <<pc, job>>

\* A call that fails without effect: cond says when the store itself rejects
\* it, otherwise the call never reaches the store.
Refused(cond) == cond \/ "refused" \in Faults

\* A call that is applied although the caller sees a failure.
Lost == "lost" \in Faults

\* The failure just taken is not compensated by the code.
Spoil(d, F) == gap' = gap \cup ({d} \X F)

Idle(d) == \A p \in Proc : pc[p] # "idle" => job[p].dev # d

-----------------------------------------------------------------------------
(* The stores.                                                             *)

\* The documents a query on DeviceProperties.DeviceID returns; GetDeviceAsync
\* takes the first one, whichever the store lists first.
DocsOf(d) == {g \in Guid : docs[g].dev = d}

Absent(d) == hub[d].status = "Absent"

\* A new version of the identity of d: its ETag is none that anyone holds.
PutIdentity(d, s, t) ==
  \E e \in Etag :
    /\ e # hub[d].etag
    /\ \A q \in Proc : job[q].etag # e
    /\ hub' = [hub EXCEPT ![d] = [status |-> s, tag |-> t, etag |-> e]]

\* RegistryManager.AddDeviceAsync: a new identity has a new, empty twin.
CreateIdentity(d, s) == Absent(d) /\ PutIdentity(d, s, "None")

\* RegistryManager.RemoveDeviceAsync: the twin goes with the identity.
DeleteIdentity(d) == ~Absent(d) /\ hub' = [hub EXCEPT ![d] = NoIdentity]

\* RegistryManager.UpdateDeviceAsync: conditional on the ETag that was read.
CanReplace(p) == LET d == job[p].dev IN ~Absent(d) /\ hub[d].etag = job[p].etag
ReplaceStatus(p, s) ==
  LET d == job[p].dev IN CanReplace(p) /\ PutIdentity(d, s, hub[d].tag)

\* UpdateTwinAsync with ETag "*".
SetTag(d, t) == ~Absent(d) /\ hub' = [hub EXCEPT ![d].tag = t]

\* DocumentDBClient.SaveAsync: an upsert by document id.
Upsert(g, d, s) == docs' = [docs EXCEPT ![g] = [dev |-> d, state |-> s]]

\* DocumentDBClient.DeleteAsync.
DeleteDoc(g) == docs[g] # NoDocument /\ docs' = [docs EXCEPT ![g] = NoDocument]

\* A Guid no document and no running operation has.
FreshGuid(g) == docs[g] = NoDocument /\ \A q \in Proc : job[q].guid # g

Opposite(s) == IF s = "Enabled" THEN "Disabled" ELSE "Enabled"

Start(p, d, l, w) ==
  /\ pc[p] = "idle"
  /\ Serial => Idle(d)
  /\ Advance(p, l, [NoJob EXCEPT !.dev = d, !.want = w])
  /\ UNCHANGED <<hub, docs, virt, ruled, gap>>

-----------------------------------------------------------------------------
(* AddDeviceAsync, BootstrapDefaultDevices and GenerateNDevices.           *)

\* Only AddDeviceAsync validates first.
StartAdd(p, d) ==
  "add" \in Ops /\ \E l \in {"addCheck", "addHub"} : Start(p, d, l, "Enabled")

\* ValidateDevice: a registered id, or a failed query, ends the operation.
AddCheck(p) ==
  LET d == job[p].dev IN
  /\ pc[p] = "addCheck"
  /\ \/ DocsOf(d) = {} /\ GoTo(p, "addHub")
     \/ Refused(DocsOf(d) # {}) /\ GoTo(p, "idle")
  /\ UNCHANGED <<stores, gap>>

\* Mutant of AddHub: a device the hub already knows is accepted.
AddHubTolerant(p) ==
  LET d == job[p].dev IN
  /\ pc[p] = "addHub"
  /\ CreateIdentity(d, "Enabled") \/ (~Absent(d) /\ UNCHANGED hub)
  /\ GoTo(p, "addRead")
  /\ UNCHANGED <<docs, virt, ruled, gap>>

\* IotHubRepository.AddDeviceAsync; a retry of a create that was applied finds
\* the identity there and fails.  Devices with tags or desired properties have
\* their twin written next.
AddHub(p) ==
  LET d == job[p].dev IN
  /\ pc[p] = "addHub"
  /\ \/ /\ CreateIdentity(d, "Enabled")
        /\ \E l \in {"addTwin", "addRead"} : GoTo(p, l)
        /\ UNCHANGED gap
     \/ /\ Lost /\ CreateIdentity(d, "Enabled")
        /\ Retry(p) \/ GoTo(p, "idle")
        /\ Spoil(d, {"registered"})
     \/ /\ \/ Refused(~Absent(d)) /\ GoTo(p, "idle")
           \/ Refused(FALSE) /\ Retry(p)
        /\ UNCHANGED <<hub, gap>>
  /\ UNCHANGED <<docs, virt, ruled>>

\* The device's own tags; a failure leaves the identity, no rollback covers it.
AddTwin(p) ==
  LET d == job[p].dev IN
  /\ pc[p] = "addTwin"
  /\ \/ ~Absent(d) /\ GoTo(p, "addRead") /\ UNCHANGED gap
     \/ /\ Refused(Absent(d)) \/ Lost
        /\ GoTo(p, "idle")
        /\ Spoil(d, {"registered"})
  /\ UNCHANGED stores

\* DeviceRegistryRepository.AddDeviceAsync looks for the id first.
AddRead(p) ==
  LET d == job[p].dev IN
  /\ pc[p] = "addRead"
  /\ \/ /\ DocsOf(d) = {}
        /\ \E g \in Guid, s \in {"Unset", "Enabled"} :
             /\ FreshGuid(g)
             /\ Advance(p, "addSave", [job[p] EXCEPT !.guid = g, !.state = s])
     \/ Refused(DocsOf(d) # {}) /\ GoTo(p, "addRollback")
  /\ UNCHANGED <<stores, gap>>

AddSave(p) ==
  LET d == job[p].dev IN
  /\ pc[p] = "addSave"
  /\ \/ /\ Upsert(job[p].guid, d, job[p].state)
        /\ GoTo(p, "addTag")
        /\ UNCHANGED gap
     \/ /\ Lost /\ Upsert(job[p].guid, d, job[p].state)
        /\ GoTo(p, "addRollback")
        /\ Spoil(d, {"registered"})
     \/ /\ Refused(FALSE)
        /\ GoTo(p, "addRollback")
        /\ UNCHANGED <<docs, gap>>
  /\ UNCHANGED <<hub, virt, ruled>>

\* SetHubEnabledStateTag: its failure rolls the identity back, not the document.
AddTag(p) ==
  LET d == job[p].dev IN
  /\ pc[p] = "addTag"
  /\ \/ /\ SetTag(d, "Enabled")
        /\ GoTo(p, IF d \in Simulated THEN "addVirtual" ELSE "idle")
        /\ UNCHANGED gap
     \/ /\ \/ Lost /\ SetTag(d, "Enabled")
           \/ Refused(Absent(d)) /\ UNCHANGED hub
        /\ GoTo(p, "addRollback")
        /\ Spoil(d, {"registered"})
  /\ UNCHANGED <<docs, virt, ruled>>

\* A failure of the simulator's table is swallowed.
AddVirtual(p) ==
  LET d == job[p].dev IN
  /\ pc[p] = "addVirtual"
  /\ \/ virt' = virt \cup {d} /\ UNCHANGED gap
     \/ Refused(FALSE) /\ UNCHANGED virt /\ Spoil(d, {"simulated"})
  /\ GoTo(p, "idle")
  /\ UNCHANGED <<hub, docs, ruled>>

\* Mutant of AddRollback: the exception is rethrown without the removal.
AddRollbackDropped(p) ==
  pc[p] = "addRollback" /\ GoTo(p, "idle") /\ UNCHANGED <<stores, gap>>

\* TryRemoveDeviceAsync: the outcome is ignored and the captured exception is
\* thrown.
AddRollback(p) ==
  LET d == job[p].dev IN
  /\ pc[p] = "addRollback"
  /\ \/ DeleteIdentity(d) /\ GoTo(p, "idle") /\ UNCHANGED gap
     \/ Lost /\ DeleteIdentity(d) /\ (Retry(p) \/ GoTo(p, "idle")) /\ UNCHANGED gap
     \/ Absent(d) /\ GoTo(p, "idle") /\ UNCHANGED <<hub, gap>>
     \/ Refused(FALSE) /\ Retry(p) /\ UNCHANGED <<hub, gap>>
     \/ Refused(FALSE) /\ GoTo(p, "idle") /\ UNCHANGED hub /\ Spoil(d, {"registered"})
  /\ UNCHANGED <<docs, virt, ruled>>

-----------------------------------------------------------------------------
(* RemoveDeviceAsync.                                                      *)

StartRemove(p, d) == "remove" \in Ops /\ Start(p, d, "rmGet", "Enabled")

\* GetIotHubDeviceAsync; null is DeviceNotRegisteredException.
RmGet(p) ==
  LET d == job[p].dev IN
  /\ pc[p] = "rmGet"
  /\ \/ ~Absent(d) /\ Advance(p, "rmHub", [job[p] EXCEPT !.seen = hub[d].status])
     \/ Refused(Absent(d)) /\ GoTo(p, "idle")
     \/ Refused(FALSE) /\ Retry(p)
  /\ UNCHANGED <<stores, gap>>

\* A retry of a removal that was applied fails: the identity is gone and the
\* document stays.
RmHub(p) ==
  LET d == job[p].dev IN
  /\ pc[p] = "rmHub"
  /\ \/ DeleteIdentity(d) /\ GoTo(p, "rmRead") /\ UNCHANGED gap
     \/ /\ Lost /\ DeleteIdentity(d)
        /\ Retry(p) \/ GoTo(p, "idle")
        /\ Spoil(d, {"registered"})
     \/ /\ \/ Refused(Absent(d)) /\ GoTo(p, "idle")
           \/ Refused(FALSE) /\ Retry(p)
        /\ UNCHANGED <<hub, gap>>
  /\ UNCHANGED <<docs, virt, ruled>>

RmRead(p) ==
  LET d == job[p].dev IN
  /\ pc[p] = "rmRead"
  /\ \/ \E g \in DocsOf(d) : Advance(p, "rmDelete", [job[p] EXCEPT !.guid = g])
     \/ Refused(DocsOf(d) = {}) /\ GoTo(p, "rmRollback")
  /\ UNCHANGED <<stores, gap>>

\* "It is assumed that if an exception has occured in the Device Registry, the
\* device is still in that store": not when the answer to the delete was lost.
RmDelete(p) ==
  LET d == job[p].dev IN
  /\ pc[p] = "rmDelete"
  /\ \/ DeleteDoc(job[p].guid) /\ GoTo(p, "rmVirtual") /\ UNCHANGED gap
     \/ /\ Lost /\ DeleteDoc(job[p].guid)
        /\ GoTo(p, "rmRollback")
        /\ Spoil(d, {"registered"})
     \/ /\ Refused(docs[job[p].guid] = NoDocument)
        /\ GoTo(p, "rmRollback")
        /\ UNCHANGED <<docs, gap>>
  /\ UNCHANGED <<hub, virt, ruled>>

RmVirtual(p) ==
  LET d == job[p].dev IN
  /\ pc[p] = "rmVirtual"
  /\ \/ virt' = virt \ {d} /\ UNCHANGED gap
     \/ Refused(FALSE) /\ UNCHANGED virt /\ Spoil(d, {"simulated"})
  /\ GoTo(p, "rmRules")
  /\ UNCHANGED <<hub, docs, ruled>>

\* RemoveAllRulesForDeviceAsync: a row that cannot be deleted is only reported.
\* Rows left or posted before are deleted with the others.
RmRules(p) ==
  LET d == job[p].dev IN
  /\ pc[p] = "rmRules"
  /\ \/ ruled' = ruled \ {d} /\ gap' = gap \ {<<d, "rules">>}
     \/ Refused(FALSE) /\ UNCHANGED ruled /\ Spoil(d, {"rules"})
  /\ GoTo(p, "idle")
  /\ UNCHANGED <<hub, docs, virt>>

\* TryAddDeviceAsync: the identity comes back with its status, its twin empty.
RmRollback(p) ==
  LET d == job[p].dev IN
  /\ pc[p] = "rmRollback"
  /\ \/ CreateIdentity(d, job[p].seen) /\ GoTo(p, "idle") /\ Spoil(d, {"tag"})
     \/ /\ Lost /\ CreateIdentity(d, job[p].seen)
        /\ Retry(p) \/ GoTo(p, "idle")
        /\ Spoil(d, {"tag"})
     \/ ~Absent(d) /\ GoTo(p, "idle") /\ UNCHANGED <<hub, gap>>
     \/ Refused(FALSE) /\ Retry(p) /\ UNCHANGED <<hub, gap>>
     \/ Refused(FALSE) /\ GoTo(p, "idle") /\ UNCHANGED hub /\ Spoil(d, {"registered"})
  /\ UNCHANGED <<docs, virt, ruled>>

-----------------------------------------------------------------------------
(* UpdateDeviceEnabledStatusAsync.                                         *)

StartStatus(p, d) ==
  "status" \in Ops /\ \E w \in {"Enabled", "Disabled"} : Start(p, d, "stGet", w)

\* A null device is dereferenced: the exception goes to the caller.
StGet(p) ==
  LET d == job[p].dev IN
  /\ pc[p] = "stGet"
  /\ \/ /\ ~Absent(d)
        /\ Advance(p, "stHub", [job[p] EXCEPT !.seen = hub[d].status,
                                              !.etag = hub[d].etag])
     \/ Refused(Absent(d)) /\ GoTo(p, "idle")
     \/ Refused(FALSE) /\ Retry(p)
  /\ UNCHANGED <<stores, gap>>

StHub(p) ==
  LET d == job[p].dev IN
  /\ pc[p] = "stHub"
  /\ \/ ReplaceStatus(p, job[p].want) /\ GoTo(p, "stRead") /\ UNCHANGED gap
     \/ /\ Lost /\ ReplaceStatus(p, job[p].want)
        /\ Retry(p) \/ GoTo(p, "idle")
        /\ Spoil(d, {"status", "tag", "simulated"})
     \/ /\ \/ Refused(~CanReplace(p)) /\ GoTo(p, "idle")
           \/ Refused(FALSE) /\ Retry(p)
        /\ UNCHANGED <<hub, gap>>
  /\ UNCHANGED <<docs, virt, ruled>>

\* Mutant of StRead: a missing document ends the operation without a revert.
StReadNoRevert(p) ==
  LET d == job[p].dev IN
  /\ pc[p] = "stRead"
  /\ \/ \E g \in DocsOf(d) : Advance(p, "stSave", [job[p] EXCEPT !.guid = g])
     \/ Refused(DocsOf(d) = {}) /\ GoTo(p, "idle")
  /\ UNCHANGED <<stores, gap>>

StRead(p) ==
  LET d == job[p].dev IN
  /\ pc[p] = "stRead"
  /\ \/ \E g \in DocsOf(d) : Advance(p, "stSave", [job[p] EXCEPT !.guid = g])
     \/ Refused(DocsOf(d) = {}) /\ GoTo(p, "stRevertGet")
  /\ UNCHANGED <<stores, gap>>

StSave(p) ==
  LET d == job[p].dev IN
  /\ pc[p] = "stSave"
  /\ \/ /\ Upsert(job[p].guid, d, job[p].want)
        /\ GoTo(p, "stTag")
        /\ UNCHANGED gap
     \/ /\ Lost /\ Upsert(job[p].guid, d, job[p].want)
        /\ GoTo(p, "stRevertGet")
        /\ Spoil(d, {"status", "tag", "simulated"})
     \/ Refused(FALSE) /\ GoTo(p, "stRevertGet") /\ UNCHANGED <<docs, gap>>
  /\ UNCHANGED <<hub, virt, ruled>>

\* A failure reverts the identity; the document keeps the new state.
StTag(p) ==
  LET d == job[p].dev IN
  /\ pc[p] = "stTag"
  /\ \/ /\ SetTag(d, job[p].want)
        /\ GoTo(p, IF d \notin Simulated THEN "idle"
                   ELSE IF job[p].want = "Enabled" THEN "stKeys" ELSE "stVirtual")
        /\ UNCHANGED gap
     \/ /\ \/ Lost /\ SetTag(d, job[p].want)
           \/ Refused(Absent(d)) /\ UNCHANGED hub
        /\ GoTo(p, "stRevertGet")
        /\ Spoil(d, {"status", "tag", "simulated"})
  /\ UNCHANGED <<docs, virt, ruled>>

\* AddOrRemoveSimulatedDevice needs the keys to enable; failures are swallowed.
StKeys(p) ==
  LET d == job[p].dev IN
  /\ pc[p] = "stKeys"
  /\ \/ ~Absent(d) /\ GoTo(p, "stVirtual") /\ UNCHANGED gap
     \/ Refused(Absent(d)) /\ GoTo(p, "idle") /\ Spoil(d, {"simulated"})
  /\ UNCHANGED stores

StVirtual(p) ==
  LET d == job[p].dev IN
  /\ pc[p] = "stVirtual"
  /\ \/ /\ virt' = IF job[p].want = "Enabled" THEN virt \cup {d} ELSE virt \ {d}
        /\ UNCHANGED gap
     \/ Refused(FALSE) /\ UNCHANGED virt /\ Spoil(d, {"simulated"})
  /\ GoTo(p, "idle")
  /\ UNCHANGED <<hub, docs, ruled>>

\* The revert is the same read-then-replace with !isEnabled.
StRevertGet(p) ==
  LET d == job[p].dev IN
  /\ pc[p] = "stRevertGet"
  /\ \/ /\ ~Absent(d)
        /\ Advance(p, "stRevert", [job[p] EXCEPT !.etag = hub[d].etag])
        /\ UNCHANGED gap
     \/ /\ Refused(Absent(d)) /\ GoTo(p, "idle")
        /\ Spoil(d, {"status", "tag", "simulated"})
     \/ Refused(FALSE) /\ Retry(p) /\ UNCHANGED gap
  /\ UNCHANGED stores

\* It restores the status only of a call that was changing it: the status a
\* device already had is replaced by its opposite.
StRevert(p) ==
  LET d == job[p].dev
      flips == job[p].seen = job[p].want
      spoiled == {"status", "tag", "simulated"}
  IN
  /\ pc[p] = "stRevert"
  /\ \/ /\ ReplaceStatus(p, Opposite(job[p].want))
        /\ GoTo(p, "idle") \/ (Lost /\ Retry(p))
        /\ Spoil(d, IF flips THEN spoiled ELSE {})
     \/ /\ Refused(~CanReplace(p)) /\ GoTo(p, "idle")
        /\ UNCHANGED hub
        /\ Spoil(d, IF flips THEN {} ELSE spoiled)
     \/ Refused(FALSE) /\ Retry(p) /\ UNCHANGED <<hub, gap>>
  /\ UNCHANGED <<docs, virt, ruled>>

-----------------------------------------------------------------------------
(* SendCommandAsync, UpdateDeviceFromDeviceInfoPacketAsync and             *)
(* UpdateDeviceAsync: read the document, change the copy, save the copy.   *)

StartUpdate(p, d) == "update" \in Ops /\ Start(p, d, "upRead", "Enabled")

\* A command is sent before the copy is saved.  A DeviceInfo packet brings its
\* own DeviceProperties, in which a device reports HubEnabledState true.
UpRead(p) ==
  LET d == job[p].dev IN
  /\ pc[p] = "upRead"
  /\ \/ \E g \in DocsOf(d) :
          \/ \E l \in {"upSend", "upCheck"} :
               Advance(p, l, [job[p] EXCEPT !.guid = g, !.state = docs[g].state])
          \/ Advance(p, "upCheck", [job[p] EXCEPT !.guid = g, !.state = "Enabled"])
     \/ Refused(DocsOf(d) = {}) /\ GoTo(p, "idle")
  /\ UNCHANGED <<stores, gap>>

UpSend(p) ==
  LET d == job[p].dev IN
  /\ pc[p] = "upSend"
  /\ \/ ~Absent(d) /\ GoTo(p, "upCheck")
     \/ Refused(Absent(d)) /\ GoTo(p, "idle")
     \/ /\ Refused(FALSE) \/ (Lost /\ ~Absent(d))
        /\ Retry(p) \/ GoTo(p, "idle")
  /\ UNCHANGED <<stores, gap>>

\* DeviceRegistryRepository.UpdateDeviceAsync: the device must be registered.
UpCheck(p) ==
  LET d == job[p].dev IN
  /\ pc[p] = "upCheck"
  /\ \/ DocsOf(d) # {} /\ GoTo(p, "upSave")
     \/ Refused(DocsOf(d) = {}) /\ GoTo(p, "idle")
  /\ UNCHANGED <<stores, gap>>

\* The upsert of the copy.  The twin is written next only if it changed since
\* it was read, and then its ETag refuses it: none of these stores changes.
UpSave(p) ==
  LET d == job[p].dev
      was == docs[job[p].guid].state
  IN
  /\ pc[p] = "upSave"
  /\ \/ /\ Upsert(job[p].guid, d, job[p].state)
        /\ Spoil(d, IF was = "Disabled" /\ job[p].state # was THEN {"status"} ELSE {})
     \/ Refused(FALSE) /\ UNCHANGED <<docs, gap>>
  /\ GoTo(p, "idle")
  /\ UNCHANGED <<hub, virt, ruled>>

-----------------------------------------------------------------------------
\* DeviceRulesLogic.SaveDeviceRuleAsync, called from the rules page of a device.
\* Neither it nor the controller asks whether the device is still registered: a
\* form that is posted after the removal leaves a rule, which gap records.
SaveRule(d) ==
  /\ Serial => Idle(d)
  /\ ruled' = ruled \cup {d}
  /\ Spoil(d, IF DocsOf(d) = {} THEN {"rules"} ELSE {})
  /\ UNCHANGED <<hub, docs, virt, pc, job, tries>>

\* What is left undone when the process dies before its call at label l.
CrashSpoils(l) ==
  CASE l \in {"addTwin", "addRead", "addSave", "addRollback",
              "rmRead", "rmDelete", "rmRollback"} -> {"registered"}
    [] l \in {"stRead", "stSave", "stTag", "stRevertGet", "stRevert"} ->
         {"status", "tag", "simulated"}
    [] l = "addTag" -> {"tag", "simulated"}
    [] l \in {"addVirtual", "stKeys", "stVirtual"} -> {"simulated"}
    [] l = "rmVirtual" -> {"simulated", "rules"}
    [] l = "rmRules" -> {"rules"}
    [] OTHER -> {}

Crash(p) ==
  /\ "crash" \in Faults
  /\ pc[p] # "idle"
  /\ Spoil(job[p].dev, CrashSpoils(pc[p]))
  /\ GoTo(p, "idle")
  /\ UNCHANGED stores

Call(p) ==
  \/ AddCheck(p) \/ AddHub(p) \/ AddTwin(p) \/ AddRead(p) \/ AddSave(p)
  \/ AddTag(p) \/ AddVirtual(p) \/ AddRollback(p)
  \/ RmGet(p) \/ RmHub(p) \/ RmRead(p) \/ RmDelete(p) \/ RmVirtual(p)
  \/ RmRules(p) \/ RmRollback(p)
  \/ StGet(p) \/ StHub(p) \/ StRead(p) \/ StSave(p) \/ StTag(p) \/ StKeys(p)
  \/ StVirtual(p) \/ StRevertGet(p) \/ StRevert(p)
  \/ UpRead(p) \/ UpSend(p) \/ UpCheck(p) \/ UpSave(p)

Begin(p, d) ==
  StartAdd(p, d) \/ StartRemove(p, d) \/ StartStatus(p, d) \/ StartUpdate(p, d)

Next ==
  \/ \E p \in Proc : Call(p) \/ Crash(p)
  \/ \E p \in Proc, d \in Device : Begin(p, d)
  \/ \E d \in Device : SaveRule(d)

Spec == Init /\ [][Next]_vars

\* A request thread that has begun an operation keeps running it.
FairSpec == Spec /\ \A p \in Proc : WF_vars(Call(p))

-----------------------------------------------------------------------------
(* Properties.                                                             *)

\* No operation runs on d and no uncompensated failure touched this facet.
Sound(d, f) == Idle(d) /\ {<<d, f>>, <<d, "registered">>} \cap gap = {}

Registered(d) == ~Absent(d) /\ DocsOf(d) # {}

\* The rollbacks of add and remove work for callers that take turns: outside the
\* failures recorded in gap, a device has an identity in the hub exactly when it
\* has a document, so its id can be added or removed again (DeviceLogic, add and
\* remove rollbacks).  DeviceOverlap states it for callers that meet.
RegisteredAgree ==
  \A d \in Device : Sound(d, "registered") => (~Absent(d) <=> DocsOf(d) # {})

\* Two documents never describe one device, whatever fails, if callers take turns
\* (DeviceOverlap: if they meet): the list of devices is built with ToDictionary
\* on DeviceID and throws on a duplicate.
UniqueDocs ==
  \A g, h \in Guid : docs[g].dev = docs[h].dev /\ docs[g].dev \in Device => g = h

\* The state shown for a device is the state the hub enforces: the document
\* says Disabled exactly when the identity is disabled.
StatusAgree ==
  \A d \in Device : Sound(d, "status") /\ Registered(d) =>
    \A g \in DocsOf(d) : docs[g].state = "Disabled" <=> hub[d].status = "Disabled"

\* The twin tag the dashboard filters on follows the status of the identity.
TagAgree ==
  \A d \in Device : Sound(d, "tag") /\ Registered(d) => hub[d].tag = hub[d].status

\* The simulator runs the registered, enabled, simulated devices and no other.
SimulatorAgree ==
  \A d \in Device : Sound(d, "simulated") =>
    (d \in virt <=> d \in Simulated /\ hub[d].status = "Enabled")

\* A removed device leaves no rule behind: a device without document has rules
\* only if their deletion failed or one was posted when it had none already.
RulesGone ==
  \A d \in Device : Sound(d, "rules") /\ d \in ruled => DocsOf(d) # {}

\* Whatever failed, was revoked or reverted on the way, the stores tell one story
\* of a device at rest, except where gap records what the code gave up on.
StoresAgree == StatusAgree /\ TagAgree /\ SimulatorAgree /\ RulesGone

\* Every operation returns or throws: the retry helper gives up.
Terminates == \A p \in Proc : pc[p] # "idle" ~> pc[p] = "idle"

-----------------------------------------------------------------------------
(* Why they hold for callers that take turns: what is true between calls.  *)

\* Labels at which a process alone may be creating or taking back an identity.
Owner == {"addTwin", "addRead", "addSave", "addTag", "addRollback"}

\* The document about to be inserted is new and nobody else inserts it.
NewDocument ==
  \A p \in Proc : pc[p] = "addSave" =>
    /\ job[p].guid \in Guid
    /\ docs[job[p].guid] = NoDocument
    /\ DocsOf(job[p].dev) = {}
    /\ \A q \in Proc \ {p} : pc[q] = "addSave" => job[q].guid # job[p].guid

\* The copy about to be saved or deleted is still a document of the device.
HeldDocument ==
  \A p \in Proc : pc[p] \in {"rmDelete", "stSave", "upSend", "upCheck", "upSave"} =>
    job[p].guid \in Guid /\ docs[job[p].guid].dev = job[p].dev

\* Callers that respect Serial never meet on a device.
Exclusive ==
  \A p, q \in Proc : pc[p] # "idle" /\ pc[q] # "idle" /\ job[p].dev = job[q].dev => p = q

\* Where an operation stands in the middle of its two registrations.
Midway(l, d) ==
  /\ l \in {"addTwin", "addRead", "addSave"} => ~Absent(d) /\ DocsOf(d) = {}
  /\ l = "addRollback" => DocsOf(d) = {}
  /\ l \in {"rmRead", "rmDelete"} => Absent(d) /\ DocsOf(d) # {}
  /\ l = "rmRollback" => DocsOf(d) # {}
  /\ l \notin {"addTwin", "addRead", "addSave", "addRollback", "rmRead",
               "rmDelete", "rmRollback"} => (~Absent(d) <=> DocsOf(d) # {})

\* The inductive invariant behind RegisteredAgree and UniqueDocs when callers
\* serialise the operations of a device: every process stands where the two
\* registrations of its device say, unless a failure was not compensated.
SerialInv ==
  /\ UniqueDocs
  /\ NewDocument
  /\ HeldDocument
  /\ Exclusive
  /\ RegisteredAgree
  /\ \A p \in Proc : pc[p] # "idle" /\ <<job[p].dev, "registered">> \notin gap =>
       Midway(pc[p], job[p].dev)
  /\ \A p \in Proc : pc[p] \in {"rmHub", "rmRead", "rmDelete", "rmRollback"} =>
       job[p].seen # "Absent"

-----------------------------------------------------------------------------
(* What the source says of itself and the code does not do.                *)

\* UpdateDeviceAsync, by its summary, throws if the device is not in the
\* registry: updating never brings a document into being.
UpdateNeverCreates ==
  [][\A p \in Proc : pc[p] = "upSave" /\ docs' # docs =>
       docs[job[p].guid] # NoDocument]_vars

\* The rollback of RemoveDeviceAsync assumes that the document is still there
\* and so keeps the same devices in both repositories.
RollbackAssumption ==
  \A p \in Proc : pc[p] = "rmRollback" => DocsOf(job[p].dev) # {}
=============================================================================
