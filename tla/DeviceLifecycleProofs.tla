----------------------- MODULE DeviceLifecycleProofs -----------------------
(* Theorems about DeviceLifecycle, for every value of its constants. *)
EXTENDS DeviceOverlap, TLAPS

(***************************************************************************)
(* Type correctness.                                                       *)
(***************************************************************************)

LEMMA InitTyped == Init => TypeOK
  BY ConstantsAssumption
  DEF Init, TypeOK, Identity, Document, Job, NoIdentity, NoDocument, NoJob,
      Label, Status, Tag, DocState

LEMMA DefaultsTyped ==
  /\ NoJob \in Job
  /\ NoIdentity \in Identity
  /\ NoDocument \in Document
  BY DEF NoJob, NoIdentity, NoDocument, Job, Identity, Document, Status, Tag,
         DocState

\* Continuing at a label keeps the types of the control variables.
LEMMA GoToTyped ==
  ASSUME TypeOK, NEW p \in Proc, NEW l \in Label, pc[p] # "idle", GoTo(p, l)
  PROVE  /\ pc' \in [Proc -> Label]
         /\ job' \in [Proc -> Job]
         /\ tries' \in [Proc -> 0..RetryCount]
         /\ \A q \in Proc : pc'[q] # "idle" => job'[q].dev \in Device
  BY DefaultsTyped, ConstantsAssumption DEF TypeOK, GoTo, Advance

LEMMA RetryTyped ==
  ASSUME TypeOK, NEW p \in Proc, Retry(p)
  PROVE  /\ pc' \in [Proc -> Label]
         /\ job' \in [Proc -> Job]
         /\ tries' \in [Proc -> 0..RetryCount]
         /\ \A q \in Proc : pc'[q] # "idle" => job'[q].dev \in Device
  BY ConstantsAssumption DEF TypeOK, Retry

LEMMA AdvanceTyped ==
  ASSUME TypeOK, NEW p \in Proc, NEW l \in Label, NEW j \in Job,
         j.dev \in Device, Advance(p, l, j)
  PROVE  /\ pc' \in [Proc -> Label]
         /\ job' \in [Proc -> Job]
         /\ tries' \in [Proc -> 0..RetryCount]
         /\ \A q \in Proc : pc'[q] # "idle" => job'[q].dev \in Device
  BY ConstantsAssumption DEF TypeOK, Advance

LEMMA HubTyped ==
  ASSUME TypeOK, NEW d \in Device
  PROVE  /\ \A s \in Status, t \in Tag :
              PutIdentity(d, s, t) => hub' \in [Device -> Identity]
         /\ DeleteIdentity(d) => hub' \in [Device -> Identity]
         /\ \A t \in Tag : SetTag(d, t) => hub' \in [Device -> Identity]
  BY DefaultsTyped DEF TypeOK, PutIdentity, DeleteIdentity, SetTag, Identity

LEMMA DocsTyped ==
  ASSUME TypeOK, NEW g
  PROVE  /\ \A d \in Device, s \in DocState :
              Upsert(g, d, s) => docs' \in [Guid -> Document]
         /\ DeleteDoc(g) => docs' \in [Guid -> Document]
  BY DefaultsTyped DEF TypeOK, Upsert, DeleteDoc, Document

\* gap only ever grows by pairs of a device and facets.
LEMMA SpoilTyped ==
  ASSUME TypeOK, NEW d \in Device, NEW F \in SUBSET Facet, Spoil(d, F)
  PROVE  gap' \subseteq Device \X Facet
  BY DEF TypeOK, Spoil

\* The calls of AddDevice and its callers.
LEMMA AddTyped ==
  ASSUME TypeOK, NEW p \in Proc,
         \/ AddCheck(p) \/ AddHub(p) \/ AddTwin(p) \/ AddRead(p)
         \/ AddSave(p) \/ AddTag(p) \/ AddVirtual(p) \/ AddRollback(p)
  PROVE  TypeOK'
<1> USE DEF stores, TypeOK, Label, AddLabel, Status, Tag, Facet
<1>0. pc[p] # "idle" /\ job[p].dev \in Device /\ job[p] \in Job
  BY DEF AddCheck, AddHub, AddTwin, AddRead, AddSave, AddTag, AddVirtual, AddRollback
<1>1. CASE AddCheck(p)
  BY <1>0, <1>1, GoToTyped, RetryTyped, AdvanceTyped, HubTyped, DocsTyped, SpoilTyped
  DEF AddCheck
<1>2. CASE AddHub(p)
  BY <1>0, <1>2, GoToTyped, RetryTyped, AdvanceTyped, HubTyped, DocsTyped, SpoilTyped
  DEF AddHub, CreateIdentity
<1>3. CASE AddTwin(p)
  BY <1>0, <1>3, GoToTyped, RetryTyped, AdvanceTyped, HubTyped, DocsTyped, SpoilTyped
  DEF AddTwin
<1>4. CASE AddRead(p)
  BY <1>0, <1>4, GoToTyped, RetryTyped, AdvanceTyped, HubTyped, DocsTyped, SpoilTyped
  DEF AddRead, Job, DocState
<1>5. CASE AddSave(p)
  BY <1>0, <1>5, GoToTyped, RetryTyped, AdvanceTyped, HubTyped, DocsTyped, SpoilTyped
  DEF AddSave, Job
<1>6. CASE AddTag(p)
  BY <1>0, <1>6, GoToTyped, RetryTyped, AdvanceTyped, HubTyped, DocsTyped, SpoilTyped
  DEF AddTag
<1>7. CASE AddVirtual(p)
  BY <1>0, <1>7, GoToTyped, RetryTyped, AdvanceTyped, HubTyped, DocsTyped, SpoilTyped
  DEF AddVirtual
<1>8. CASE AddRollback(p)
  BY <1>0, <1>8, GoToTyped, RetryTyped, AdvanceTyped, HubTyped, DocsTyped, SpoilTyped
  DEF AddRollback
<1> QED
  BY <1>1, <1>2, <1>3, <1>4, <1>5, <1>6, <1>7, <1>8

\* The calls of RemoveDevice.
LEMMA RemoveTyped ==
  ASSUME TypeOK, NEW p \in Proc,
         \/ RmGet(p) \/ RmHub(p) \/ RmRead(p) \/ RmDelete(p)
         \/ RmVirtual(p) \/ RmRules(p) \/ RmRollback(p)
  PROVE  TypeOK'
<1> USE DEF stores, TypeOK, Label, RemoveLabel, Status, Tag, Facet
<1>0. pc[p] # "idle" /\ job[p].dev \in Device /\ job[p] \in Job
  BY DEF RmGet, RmHub, RmRead, RmDelete, RmVirtual, RmRules, RmRollback
<1>1. CASE RmGet(p)
  BY <1>0, <1>1, GoToTyped, RetryTyped, AdvanceTyped, HubTyped, DocsTyped, SpoilTyped
  DEF RmGet, Job, Identity
<1>2. CASE RmHub(p)
  BY <1>0, <1>2, GoToTyped, RetryTyped, AdvanceTyped, HubTyped, DocsTyped, SpoilTyped
  DEF RmHub
<1>3. CASE RmRead(p)
  BY <1>0, <1>3, GoToTyped, RetryTyped, AdvanceTyped, HubTyped, DocsTyped, SpoilTyped
  DEF RmRead, Job, DocsOf
<1>4. CASE RmDelete(p)
  BY <1>0, <1>4, GoToTyped, RetryTyped, AdvanceTyped, HubTyped, DocsTyped, SpoilTyped
  DEF RmDelete, Job
<1>5. CASE RmVirtual(p)
  BY <1>0, <1>5, GoToTyped, RetryTyped, AdvanceTyped, HubTyped, DocsTyped, SpoilTyped
  DEF RmVirtual
<1>6. CASE RmRules(p)
  BY <1>0, <1>6, GoToTyped, RetryTyped, AdvanceTyped, HubTyped, DocsTyped, SpoilTyped
  DEF RmRules
<1>7. CASE RmRollback(p)
  BY <1>0, <1>7, GoToTyped, RetryTyped, AdvanceTyped, HubTyped, DocsTyped, SpoilTyped
  DEF RmRollback, CreateIdentity, Job
<1> QED
  BY <1>1, <1>2, <1>3, <1>4, <1>5, <1>6, <1>7

\* The calls of UpdateDeviceEnabledStatus.
LEMMA StatusTyped ==
  ASSUME TypeOK, NEW p \in Proc,
         \/ StGet(p) \/ StHub(p) \/ StRead(p) \/ StSave(p)
         \/ StTag(p) \/ StKeys(p) \/ StVirtual(p) \/ StRevertGet(p)
         \/ StRevert(p)
  PROVE  TypeOK'
<1> USE DEF stores, TypeOK, Label, StatusLabel, Status, Tag, Facet
<1>0. pc[p] # "idle" /\ job[p].dev \in Device /\ job[p] \in Job
  BY DEF StGet, StHub, StRead, StSave, StTag, StKeys, StVirtual, StRevertGet, StRevert
<1>1. CASE StGet(p)
  BY <1>0, <1>1, GoToTyped, RetryTyped, AdvanceTyped, HubTyped, DocsTyped, SpoilTyped
  DEF StGet, Job, Identity
<1>2. CASE StHub(p)
  <2>1. job[p].want \in Status /\ hub[job[p].dev].tag \in Tag
    BY <1>0 DEF Job, Identity
  <2>2. ReplaceStatus(p, job[p].want) => hub' \in [Device -> Identity]
    BY <1>0, <2>1, HubTyped DEF ReplaceStatus
  <2> QED
    BY <1>0, <1>2, <2>2, GoToTyped, RetryTyped, SpoilTyped DEF StHub
<1>3. CASE StRead(p)
  BY <1>0, <1>3, GoToTyped, RetryTyped, AdvanceTyped, HubTyped, DocsTyped, SpoilTyped
  DEF StRead, Job, DocsOf
<1>4. CASE StSave(p)
  <2>1. job[p].want \in DocState
    BY <1>0 DEF Job, DocState
  <2>2. Upsert(job[p].guid, job[p].dev, job[p].want) => docs' \in [Guid -> Document]
    BY <1>0, <2>1, DocsTyped
  <2> QED
    BY <1>0, <1>4, <2>2, GoToTyped, SpoilTyped DEF StSave
<1>5. CASE StTag(p)
  BY <1>0, <1>5, GoToTyped, RetryTyped, AdvanceTyped, HubTyped, DocsTyped, SpoilTyped
  DEF StTag, Job
<1>6. CASE StKeys(p)
  BY <1>0, <1>6, GoToTyped, RetryTyped, AdvanceTyped, HubTyped, DocsTyped, SpoilTyped
  DEF StKeys
<1>7. CASE StVirtual(p)
  BY <1>0, <1>7, GoToTyped, RetryTyped, AdvanceTyped, HubTyped, DocsTyped, SpoilTyped
  DEF StVirtual
<1>8. CASE StRevertGet(p)
  BY <1>0, <1>8, GoToTyped, RetryTyped, AdvanceTyped, HubTyped, DocsTyped, SpoilTyped
  DEF StRevertGet, Job, Identity
<1>9. CASE StRevert(p)
  <2>1. Opposite(job[p].want) \in Status /\ hub[job[p].dev].tag \in Tag
    BY <1>0 DEF Job, Identity, Opposite
  <2>2. ReplaceStatus(p, Opposite(job[p].want)) => hub' \in [Device -> Identity]
    BY <1>0, <2>1, HubTyped DEF ReplaceStatus
  <2>3. \A b \in BOOLEAN :
          /\ (IF b THEN {"status", "tag", "simulated"} ELSE {}) \subseteq Facet
          /\ (IF b THEN {} ELSE {"status", "tag", "simulated"}) \subseteq Facet
    OBVIOUS
  <2>4. gap' \subseteq Device \X Facet
    BY <1>0, <1>9, <2>3, SpoilTyped DEF StRevert
  <2> QED
    BY <1>0, <1>9, <2>2, <2>4, GoToTyped, RetryTyped DEF StRevert
<1> QED
  BY <1>1, <1>2, <1>3, <1>4, <1>5, <1>6, <1>7, <1>8, <1>9

\* The calls of the three updates of a document.
LEMMA UpdateTyped ==
  ASSUME TypeOK, NEW p \in Proc,
         \/ UpRead(p) \/ UpSend(p) \/ UpCheck(p) \/ UpSave(p)
  PROVE  TypeOK'
<1> USE DEF stores, TypeOK, Label, UpdateLabel, Status, Tag, Facet
<1>0. pc[p] # "idle" /\ job[p].dev \in Device /\ job[p] \in Job
  BY DEF UpRead, UpSend, UpCheck, UpSave
<1>1. CASE UpRead(p)
  BY <1>0, <1>1, GoToTyped, RetryTyped, AdvanceTyped, HubTyped, DocsTyped, SpoilTyped
  DEF UpRead, Job, DocsOf, Document, DocState
<1>2. CASE UpSend(p)
  BY <1>0, <1>2, GoToTyped, RetryTyped, AdvanceTyped, HubTyped, DocsTyped, SpoilTyped
  DEF UpSend
<1>3. CASE UpCheck(p)
  BY <1>0, <1>3, GoToTyped, RetryTyped, AdvanceTyped, HubTyped, DocsTyped, SpoilTyped
  DEF UpCheck
<1>4. CASE UpSave(p)
  BY <1>0, <1>4, GoToTyped, RetryTyped, AdvanceTyped, HubTyped, DocsTyped, SpoilTyped
  DEF UpSave, Job
<1> QED
  BY <1>1, <1>2, <1>3, <1>4

\* Starting an operation types its process and touches no store.
LEMMA BeginTyped ==
  ASSUME TypeOK, NEW p \in Proc, NEW d \in Device, Begin(p, d)
  PROVE  TypeOK'
<1> PICK l \in {"addCheck", "addHub", "rmGet", "stGet", "upRead"},
         w \in {"Enabled", "Disabled"} : Start(p, d, l, w)
  BY DEF Begin, StartAdd, StartRemove, StartStatus, StartUpdate
<1> DEFINE j == [NoJob EXCEPT !.dev = d, !.want = w]
<1>1. j \in Job /\ j.dev \in Device
  BY DEF NoJob, Job, Status, DocState
<1>2. l \in Label
  BY DEF Label, AddLabel, RemoveLabel, StatusLabel, UpdateLabel
<1>3. Advance(p, l, j)
  BY DEF Start
<1> QED
  BY <1>1, <1>2, <1>3, AdvanceTyped DEF Start, TypeOK

LEMMA CrashTyped ==
  ASSUME TypeOK, NEW p \in Proc, Crash(p)
  PROVE  TypeOK'
<1>1. pc[p] # "idle" /\ job[p].dev \in Device
  BY DEF Crash, TypeOK
<1>2. CrashSpoils(pc[p]) \subseteq Facet
  BY DEF CrashSpoils, Facet
<1>3. gap' \subseteq Device \X Facet
  BY <1>1, <1>2, SpoilTyped DEF Crash
<1>4. "idle" \in Label
  BY DEF Label
<1> QED
  BY <1>1, <1>3, <1>4, GoToTyped DEF Crash, TypeOK, stores

LEMMA NextTyped == TypeOK /\ [Next]_vars => TypeOK'
<1> SUFFICES ASSUME TypeOK, [Next]_vars PROVE TypeOK'
  OBVIOUS
<1>1. CASE UNCHANGED vars
  BY <1>1 DEF vars, TypeOK
<1>2. ASSUME NEW p \in Proc, Call(p) PROVE TypeOK'
  BY <1>2, AddTyped, RemoveTyped, StatusTyped, UpdateTyped DEF Call
<1>3. ASSUME NEW p \in Proc, NEW d \in Device, Begin(p, d) PROVE TypeOK'
  BY <1>3, BeginTyped
<1>4. ASSUME NEW d \in Device, SaveRule(d) PROVE TypeOK'
  BY <1>4, SpoilTyped DEF SaveRule, TypeOK, Facet
<1> QED
  BY <1>1, <1>2, <1>3, <1>4, CrashTyped DEF Next

\* Whatever fails and however operations interleave, the stores, the local
\* variables and the retry counters keep their types; the counter of a call
\* never passes RETRY_COUNT (AzureRetryHelper).
THEOREM TypeCorrect == Spec => []TypeOK
  BY InitTyped, NextTyped, PTL DEF Spec

(***************************************************************************)
(* Effects of the operators the calls are built from.                      *)
(***************************************************************************)

\* The documents a call of p may write: none, or the one it holds.
LocalDocs(p, d) ==
  \/ docs' = docs
  \/ /\ pc[p] \in {"addSave", "rmDelete", "stSave", "upSave"}
     /\ \E x \in Document :
          /\ x.dev \in {d, NoDevice}
          /\ x.dev = NoDevice => x = NoDocument
          /\ docs' = [docs EXCEPT ![job[p].guid] = x]

LocalHub(d) == \A c \in Device \ {d} : hub'[c] = hub[c]

LocalGap(d) ==
  /\ \A x \in gap : x \in gap' \/ x = <<d, "rules">>
  /\ \A c \in Device \ {d} : <<c, "registered">> \in gap' => <<c, "registered">> \in gap

LocalControl(p, d) ==
  /\ \A q \in Proc \ {p} : pc'[q] = pc[q] /\ job'[q] = job[q]
  /\ pc'[p] = "idle" \/ job'[p].dev = d

LocalStep(p, d) ==
  LocalDocs(p, d) /\ LocalHub(d) /\ LocalGap(d) /\ LocalControl(p, d)

\* A process moves alone and stays on its device until it is done.
LEMMA ControlEffect ==
  ASSUME TypeOK, NEW p \in Proc, NEW d \in Device, d = job[p].dev
  PROVE  /\ \A l : GoTo(p, l) =>
              /\ LocalControl(p, d) /\ pc'[p] = l
              /\ l # "idle" => job'[p] = job[p]
         /\ \A l, j : Advance(p, l, j) /\ j.dev = d =>
              LocalControl(p, d) /\ pc'[p] = l /\ job'[p] = j
         /\ Retry(p) => LocalControl(p, d) /\ pc'[p] = pc[p] /\ job'[p] = job[p]
  BY DEF TypeOK, GoTo, Advance, Retry, LocalControl

LEMMA JobExcept ==
  ASSUME NEW j \in Job, NEW x, NEW y
  PROVE  /\ [j EXCEPT !.guid = x].dev = j.dev
         /\ [j EXCEPT !.guid = x].guid = x
         /\ [j EXCEPT !.guid = x].seen = j.seen
         /\ [j EXCEPT !.guid = x, !.state = y].dev = j.dev
         /\ [j EXCEPT !.guid = x, !.state = y].guid = x
         /\ [j EXCEPT !.guid = x, !.state = y].state = y
         /\ [j EXCEPT !.seen = x].dev = j.dev
         /\ [j EXCEPT !.seen = x].seen = x
         /\ [j EXCEPT !.seen = x, !.etag = y].dev = j.dev
         /\ [j EXCEPT !.etag = x].dev = j.dev
  BY DEF Job

LEMMA HubEffect ==
  ASSUME TypeOK, NEW d \in Device
  PROVE  /\ \A s, t : PutIdentity(d, s, t) /\ s # "Absent" => LocalHub(d) /\ ~Absent(d)'
         /\ \A s : CreateIdentity(d, s) /\ s # "Absent" =>
              LocalHub(d) /\ Absent(d) /\ ~Absent(d)'
         /\ DeleteIdentity(d) => LocalHub(d) /\ ~Absent(d) /\ Absent(d)'
         /\ \A t : SetTag(d, t) => LocalHub(d) /\ ~Absent(d) /\ ~Absent(d)'
         /\ UNCHANGED hub => LocalHub(d) /\ (Absent(d)' <=> Absent(d))
  BY DEF TypeOK, PutIdentity, CreateIdentity, DeleteIdentity, SetTag, LocalHub,
         Absent, NoIdentity, Identity

\* What is recorded is recorded of d, and what RmRules makes up for is its rules.
LEMMA GapEffect ==
  ASSUME NEW d
  PROVE  /\ \A F : Spoil(d, F) =>
              LocalGap(d) /\ ("registered" \in F => <<d, "registered">> \in gap')
         /\ gap' = gap \ {<<d, "rules">>} => LocalGap(d)
         /\ UNCHANGED gap => LocalGap(d)
         /\ LocalGap(d) /\ <<d, "registered">> \in gap => <<d, "registered">> \in gap'
  BY DEF Spoil, LocalGap

LEMMA NoDocsEffect ==
  ASSUME NEW p, NEW d, UNCHANGED docs
  PROVE  LocalDocs(p, d) /\ DocsOf(d)' = DocsOf(d)
  BY DEF LocalDocs, DocsOf

\* Saving the document a process holds changes no device's set of documents.
LEMMA ResaveEffect ==
  ASSUME TypeOK, NEW g \in Guid, NEW d \in Device, docs[g].dev = d,
         NEW s \in DocState, Upsert(g, d, s)
  PROVE  /\ \A c : DocsOf(c)' = DocsOf(c)
         /\ \A h \in Guid : docs'[h].dev = docs[h].dev
         /\ \E x \in Document : /\ x.dev \in {d, NoDevice}
                                /\ x.dev = NoDevice => x = NoDocument
                                /\ docs' = [docs EXCEPT ![g] = x]
<1>1. [dev |-> d, state |-> s] \in Document
  BY DEF Document
<1>2. \A h \in Guid : docs'[h].dev = docs[h].dev
  BY DEF TypeOK, Upsert
<1>3. \A c : DocsOf(c)' = DocsOf(c)
  BY <1>2 DEF DocsOf
<1>4. d # NoDevice
  BY ConstantsAssumption
<1> QED
  BY <1>1, <1>2, <1>3, <1>4 DEF Upsert

\* Inserting a document gives its device exactly that one.
LEMMA InsertEffect ==
  ASSUME TypeOK, NEW g \in Guid, NEW d \in Device, DocsOf(d) = {},
         NEW s \in DocState, Upsert(g, d, s)
  PROVE  /\ DocsOf(d)' = {g}
         /\ \A h, i \in Guid : docs'[h].dev = d /\ docs'[i].dev = d => h = i
         /\ \E x \in Document : /\ x.dev \in {d, NoDevice}
                                /\ x.dev = NoDevice => x = NoDocument
                                /\ docs' = [docs EXCEPT ![g] = x]
<1>1. [dev |-> d, state |-> s] \in Document /\ d # NoDevice
  BY ConstantsAssumption DEF Document
<1>2. DocsOf(d)' = {g}
  BY DEF TypeOK, Upsert, DocsOf
<1>3. \A h, i \in Guid : docs'[h].dev = d /\ docs'[i].dev = d => h = i
  BY <1>2 DEF DocsOf
<1>4. docs' = [docs EXCEPT ![g] = [dev |-> d, state |-> s]]
  BY DEF Upsert
<1> QED
  BY <1>1, <1>2, <1>3, <1>4

\* Deleting the only document of a device leaves it none.
LEMMA DeleteDocEffect ==
  ASSUME TypeOK, NEW g \in Guid, NEW d \in Device, docs[g].dev = d,
         \A h, i \in Guid : docs[h].dev = d /\ docs[i].dev = d => h = i,
         DeleteDoc(g)
  PROVE  /\ DocsOf(d)' = {}
         /\ \E x \in Document : /\ x.dev \in {d, NoDevice}
                                /\ x.dev = NoDevice => x = NoDocument
                                /\ docs' = [docs EXCEPT ![g] = x]
  BY DefaultsTyped, ConstantsAssumption DEF TypeOK, DeleteDoc, DocsOf, NoDocument

(***************************************************************************)
(* Operations that meet on a device.  A call of p concerns one device d:   *)
(* Alone and LocalStep say that the other processes and devices stay as    *)
(* they are, GuidStep which document p may have in hand after it.  What is *)
(* left to show is where the registries of d stand (Locked and Between),   *)
(* and only for a call that does not run over another operation.           *)
(***************************************************************************)

\* The step is a call of p, and of no other process.
Alone(p) ==
  /\ Moves(p)
  /\ \A q \in Proc \ {p} : pc'[q] = pc[q] /\ job'[q] = job[q] /\ tries'[q] = tries[q]

\* What p has in hand after a call on d: a new document, one it has just read,
\* what it had before, or nothing it may still write.
GuidStep(p, d) ==
  \/ /\ UNCHANGED docs /\ pc'[p] = "addSave"
     /\ job'[p].guid \in Guid /\ FreshGuid(job'[p].guid)
  \/ UNCHANGED docs /\ pc'[p] \in Holding /\ job'[p].guid \in DocsOf(d)
  \/ /\ UNCHANGED docs /\ pc[p] \in Holding /\ pc'[p] \in Holding
     /\ job'[p].guid = job[p].guid
  \/ pc'[p] \notin Holding \cup {"addSave"} /\ job'[p].guid \in {job[p].guid, NoGuid}

LEMMA MoveEffect ==
  ASSUME TypeOK, NEW p \in Proc
  PROVE  /\ \A l : GoTo(p, l) /\ l # pc[p] => Alone(p)
         /\ \A l, j : Advance(p, l, j) /\ l # pc[p] => Alone(p)
         /\ Retry(p) => Alone(p)
  BY DEF TypeOK, GoTo, Advance, Retry, Alone, Moves

LEMMA GuidEffect ==
  ASSUME TypeOK, NEW p \in Proc
  PROVE  /\ \A l : GoTo(p, l) =>
              /\ pc'[p] = l /\ job'[p].guid \in {job[p].guid, NoGuid}
              /\ l # "idle" => job'[p].guid = job[p].guid
         /\ Retry(p) => pc'[p] = pc[p] /\ job'[p].guid = job[p].guid
  BY DEF TypeOK, GoTo, Advance, Retry, NoJob, Job

LEMMA AddAlone ==
  ASSUME TypeOK, NEW p \in Proc, NEW d \in Device, d = job[p].dev,
         \/ AddCheck(p) \/ AddHub(p) \/ AddTwin(p) \/ AddRead(p)
         \/ AddSave(p) \/ AddTag(p) \/ AddVirtual(p) \/ AddRollback(p)
  PROVE  Alone(p) /\ LocalStep(p, d) /\ GuidStep(p, d)
<1> USE DEF stores
<1>0. job[p] \in Job /\ job[p].state \in DocState /\ d # NoDevice
  BY ConstantsAssumption DEF TypeOK, Job
<1>1. CASE AddCheck(p)
  <2>1. Alone(p)
    BY <1>1, MoveEffect DEF AddCheck
  <2>2. LocalStep(p, d)
    BY <1>1, ControlEffect, HubEffect, GapEffect, NoDocsEffect DEF AddCheck, LocalStep
  <2>3. GuidStep(p, d)
    BY <1>1, GuidEffect DEF AddCheck, GuidStep, Holding
  <2> QED
    BY <2>1, <2>2, <2>3
<1>2. CASE AddHub(p)
  <2>1. Alone(p)
    BY <1>2, MoveEffect DEF AddHub
  <2>2. LocalStep(p, d)
    BY <1>2, ControlEffect, HubEffect, GapEffect, NoDocsEffect DEF AddHub, LocalStep
  <2>3. GuidStep(p, d)
    BY <1>2, GuidEffect DEF AddHub, GuidStep, Holding
  <2> QED
    BY <2>1, <2>2, <2>3
<1>3. CASE AddTwin(p)
  <2>1. Alone(p)
    BY <1>3, MoveEffect DEF AddTwin
  <2>2. LocalStep(p, d)
    BY <1>3, ControlEffect, HubEffect, GapEffect, NoDocsEffect DEF AddTwin, LocalStep
  <2>3. GuidStep(p, d)
    BY <1>3, GuidEffect DEF AddTwin, GuidStep, Holding
  <2> QED
    BY <2>1, <2>2, <2>3
<1>4. CASE AddRead(p)
  <2>0. UNCHANGED <<hub, docs, gap>> /\ pc[p] = "addRead"
    BY <1>4 DEF AddRead
  <2>1. Alone(p)
    BY <1>4, MoveEffect DEF AddRead
  <2>2. CASE GoTo(p, "addRollback")
    <3>1. LocalStep(p, d)
      BY <2>0, <2>2, ControlEffect, HubEffect, GapEffect, NoDocsEffect DEF LocalStep
    <3>2. GuidStep(p, d)
      BY <2>0, <2>2, GuidEffect DEF GuidStep, Holding
    <3> QED
      BY <2>1, <3>1, <3>2
  <2>3. ASSUME NEW g \in Guid, NEW s, FreshGuid(g),
               Advance(p, "addSave", [job[p] EXCEPT !.guid = g, !.state = s])
        PROVE  LocalStep(p, d) /\ GuidStep(p, d)
    <3>1. PICK j : j = [job[p] EXCEPT !.guid = g, !.state = s]
      OBVIOUS
    <3>2. j.dev = d /\ j.guid = g
      BY <1>0, <3>1, JobExcept
    <3>3. Advance(p, "addSave", j)
      BY <2>3, <3>1
    <3>4. LocalControl(p, d) /\ pc'[p] = "addSave" /\ job'[p] = j
      BY <3>2, <3>3, ControlEffect
    <3> QED
      BY <2>0, <2>3, <3>2, <3>4, HubEffect, GapEffect, NoDocsEffect
      DEF LocalStep, GuidStep
  <2> QED
    BY <1>4, <2>1, <2>2, <2>3 DEF AddRead
<1>5. CASE AddSave(p)
  <2>1. Alone(p)
    BY <1>5, MoveEffect DEF AddSave
  <2>2. LocalDocs(p, d)
    <3>1. [dev |-> d, state |-> job[p].state] \in Document
      BY <1>0 DEF Document
    <3> QED
      BY <1>0, <1>5, <3>1 DEF AddSave, LocalDocs, Upsert
  <2>3. LocalHub(d) /\ LocalGap(d) /\ LocalControl(p, d)
    BY <1>5, ControlEffect, HubEffect, GapEffect DEF AddSave
  <2>4. GuidStep(p, d)
    BY <1>5, GuidEffect DEF AddSave, GuidStep, Holding
  <2> QED
    BY <2>1, <2>2, <2>3, <2>4 DEF LocalStep
<1>6. CASE AddTag(p)
  <2>1. Alone(p)
    BY <1>6, MoveEffect DEF AddTag
  <2>2. LocalStep(p, d)
    BY <1>6, ControlEffect, HubEffect, GapEffect, NoDocsEffect DEF AddTag, LocalStep
  <2>3. GuidStep(p, d)
    BY <1>6, GuidEffect DEF AddTag, GuidStep, Holding
  <2> QED
    BY <2>1, <2>2, <2>3
<1>7. CASE AddVirtual(p)
  <2>1. Alone(p)
    BY <1>7, MoveEffect DEF AddVirtual
  <2>2. LocalStep(p, d)
    BY <1>7, ControlEffect, HubEffect, GapEffect, NoDocsEffect DEF AddVirtual, LocalStep
  <2>3. GuidStep(p, d)
    BY <1>7, GuidEffect DEF AddVirtual, GuidStep, Holding
  <2> QED
    BY <2>1, <2>2, <2>3
<1>8. CASE AddRollback(p)
  <2>1. Alone(p)
    BY <1>8, MoveEffect DEF AddRollback
  <2>2. LocalStep(p, d)
    BY <1>8, ControlEffect, HubEffect, GapEffect, NoDocsEffect DEF AddRollback, LocalStep
  <2>3. GuidStep(p, d)
    BY <1>8, GuidEffect DEF AddRollback, GuidStep, Holding
  <2> QED
    BY <2>1, <2>2, <2>3
<1> QED
  BY <1>1, <1>2, <1>3, <1>4, <1>5, <1>6, <1>7, <1>8

LEMMA RemoveAlone ==
  ASSUME TypeOK, NEW p \in Proc, NEW d \in Device, d = job[p].dev,
         pc[p] = "rmRollback" => job[p].seen # "Absent",
         \/ RmGet(p) \/ RmHub(p) \/ RmRead(p) \/ RmDelete(p)
         \/ RmVirtual(p) \/ RmRules(p) \/ RmRollback(p)
  PROVE  Alone(p) /\ LocalStep(p, d) /\ GuidStep(p, d)
<1> USE DEF stores
<1>0. job[p] \in Job /\ d # NoDevice
  BY ConstantsAssumption DEF TypeOK
<1>1. CASE RmGet(p)
  <2>0. UNCHANGED <<hub, docs, gap>> /\ pc[p] = "rmGet"
    BY <1>1 DEF RmGet
  <2>1. Alone(p)
    BY <1>1, MoveEffect DEF RmGet
  <2>2. CASE GoTo(p, "idle") \/ Retry(p)
    BY <2>0, <2>1, <2>2, ControlEffect, HubEffect, GapEffect, NoDocsEffect, GuidEffect
    DEF LocalStep, GuidStep, Holding
  <2>3. ASSUME NEW s, Advance(p, "rmHub", [job[p] EXCEPT !.seen = s])
        PROVE  LocalStep(p, d) /\ GuidStep(p, d)
    <3>1. PICK j : j = [job[p] EXCEPT !.seen = s]
      OBVIOUS
    <3>2. j.dev = d /\ j.guid = job[p].guid
      BY <1>0, <3>1 DEF Job
    <3>3. Advance(p, "rmHub", j)
      BY <2>3, <3>1
    <3>4. LocalControl(p, d) /\ pc'[p] = "rmHub" /\ job'[p] = j
      BY <3>2, <3>3, ControlEffect
    <3> QED
      BY <2>0, <2>3, <3>2, <3>4, HubEffect, GapEffect, NoDocsEffect
      DEF LocalStep, GuidStep, Holding
  <2> QED
    BY <1>1, <2>1, <2>2, <2>3 DEF RmGet
<1>2. CASE RmHub(p)
  <2>1. Alone(p)
    BY <1>2, MoveEffect DEF RmHub
  <2>2. LocalStep(p, d)
    BY <1>0, <1>2, ControlEffect, HubEffect, GapEffect, NoDocsEffect
    DEF RmHub, LocalStep
  <2>3. GuidStep(p, d)
    BY <1>2, GuidEffect DEF RmHub, GuidStep, Holding
  <2> QED
    BY <2>1, <2>2, <2>3
<1>3. CASE RmRead(p)
  <2>0. UNCHANGED <<hub, docs, gap>> /\ pc[p] = "rmRead"
    BY <1>3 DEF RmRead
  <2>1. Alone(p)
    BY <1>3, MoveEffect DEF RmRead
  <2>2. CASE GoTo(p, "rmRollback")
    BY <2>0, <2>1, <2>2, ControlEffect, HubEffect, GapEffect, NoDocsEffect, GuidEffect
    DEF LocalStep, GuidStep, Holding
  <2>3. ASSUME NEW g \in DocsOf(d), Advance(p, "rmDelete", [job[p] EXCEPT !.guid = g])
        PROVE  LocalStep(p, d) /\ GuidStep(p, d)
    <3>1. PICK j : j = [job[p] EXCEPT !.guid = g]
      OBVIOUS
    <3>2. j.dev = d /\ j.guid = g
      BY <1>0, <3>1, JobExcept
    <3>3. Advance(p, "rmDelete", j)
      BY <2>3, <3>1
    <3>4. LocalControl(p, d) /\ pc'[p] = "rmDelete" /\ job'[p] = j
      BY <3>2, <3>3, ControlEffect
    <3> QED
      BY <2>0, <2>3, <3>2, <3>4, HubEffect, GapEffect, NoDocsEffect
      DEF LocalStep, GuidStep, Holding
  <2> QED
    BY <1>3, <2>1, <2>2, <2>3 DEF RmRead
<1>4. CASE RmDelete(p)
  <2>1. Alone(p)
    BY <1>4, MoveEffect DEF RmDelete
  <2>2. LocalDocs(p, d)
    BY <1>4, DefaultsTyped DEF RmDelete, LocalDocs, DeleteDoc, NoDocument
  <2>3. LocalHub(d) /\ LocalGap(d) /\ LocalControl(p, d)
    BY <1>4, ControlEffect, HubEffect, GapEffect DEF RmDelete
  <2>4. GuidStep(p, d)
    BY <1>4, GuidEffect DEF RmDelete, GuidStep, Holding
  <2> QED
    BY <2>1, <2>2, <2>3, <2>4 DEF LocalStep
<1>5. CASE RmVirtual(p)
  <2>1. Alone(p)
    BY <1>5, MoveEffect DEF RmVirtual
  <2>2. LocalStep(p, d)
    BY <1>0, <1>5, ControlEffect, HubEffect, GapEffect, NoDocsEffect
    DEF RmVirtual, LocalStep
  <2>3. GuidStep(p, d)
    BY <1>5, GuidEffect DEF RmVirtual, GuidStep, Holding
  <2> QED
    BY <2>1, <2>2, <2>3
<1>6. CASE RmRules(p)
  <2>1. Alone(p)
    BY <1>6, MoveEffect DEF RmRules
  <2>2. LocalStep(p, d)
    BY <1>0, <1>6, ControlEffect, HubEffect, GapEffect, NoDocsEffect
    DEF RmRules, LocalStep
  <2>3. GuidStep(p, d)
    BY <1>6, GuidEffect DEF RmRules, GuidStep, Holding
  <2> QED
    BY <2>1, <2>2, <2>3
<1>7. CASE RmRollback(p)
  <2>1. Alone(p)
    BY <1>7, MoveEffect DEF RmRollback
  <2>2. LocalStep(p, d)
    BY <1>0, <1>7, ControlEffect, HubEffect, GapEffect, NoDocsEffect
    DEF RmRollback, LocalStep
  <2>3. GuidStep(p, d)
    BY <1>7, GuidEffect DEF RmRollback, GuidStep, Holding
  <2> QED
    BY <2>1, <2>2, <2>3
<1> QED
  BY <1>1, <1>2, <1>3, <1>4, <1>5, <1>6, <1>7

LEMMA StatusAlone ==
  ASSUME TypeOK, NEW p \in Proc, NEW d \in Device, d = job[p].dev,
         \/ StGet(p) \/ StHub(p) \/ StRead(p) \/ StSave(p) \/ StTag(p)
         \/ StKeys(p) \/ StVirtual(p) \/ StRevertGet(p) \/ StRevert(p)
  PROVE  Alone(p) /\ LocalStep(p, d) /\ GuidStep(p, d)
<1> USE DEF stores
<1>0. /\ job[p] \in Job /\ d # NoDevice /\ job[p].want \in {"Enabled", "Disabled"}
      /\ Opposite(job[p].want) # "Absent"
  BY ConstantsAssumption DEF TypeOK, Job, Opposite
<1>a. ASSUME NEW l \in {"stHub", "stRevert"}, NEW j, Advance(p, l, j), j.dev = d,
             j.guid = job[p].guid, UNCHANGED <<hub, docs>>, LocalGap(d)
      PROVE  LocalStep(p, d) /\ GuidStep(p, d)
  BY <1>a, ControlEffect, HubEffect, NoDocsEffect DEF LocalStep, GuidStep, Holding
<1>1. CASE StGet(p)
  <2>0. UNCHANGED <<hub, docs, gap>> /\ pc[p] = "stGet" /\ LocalGap(d)
    BY <1>1, GapEffect DEF StGet
  <2>1. Alone(p)
    BY <1>1, MoveEffect DEF StGet
  <2>2. CASE GoTo(p, "idle") \/ Retry(p)
    BY <2>0, <2>1, <2>2, ControlEffect, HubEffect, NoDocsEffect, GuidEffect
    DEF LocalStep, GuidStep, Holding
  <2>3. CASE Advance(p, "stHub", [job[p] EXCEPT !.seen = hub[d].status, !.etag = hub[d].etag])
    <3>1. PICK j : j = [job[p] EXCEPT !.seen = hub[d].status, !.etag = hub[d].etag]
      OBVIOUS
    <3>2. j.dev = d /\ j.guid = job[p].guid
      BY <1>0, <3>1 DEF Job
    <3>3. Advance(p, "stHub", j)
      BY <2>3, <3>1
    <3> QED
      BY <1>a, <2>0, <2>1, <3>2, <3>3
  <2> QED
    BY <1>1, <2>1, <2>2, <2>3 DEF StGet
<1>2. CASE StHub(p)
  <2>1. Alone(p)
    BY <1>2, MoveEffect DEF StHub
  <2>2. LocalStep(p, d)
    BY <1>0, <1>2, ControlEffect, HubEffect, GapEffect, NoDocsEffect
    DEF StHub, LocalStep, ReplaceStatus
  <2>3. GuidStep(p, d)
    BY <1>2, GuidEffect DEF StHub, GuidStep, Holding
  <2> QED
    BY <2>1, <2>2, <2>3
<1>3. CASE StRead(p)
  <2>0. UNCHANGED <<hub, docs, gap>> /\ pc[p] = "stRead"
    BY <1>3 DEF StRead
  <2>1. Alone(p)
    BY <1>3, MoveEffect DEF StRead
  <2>2. CASE GoTo(p, "stRevertGet")
    BY <2>0, <2>1, <2>2, ControlEffect, HubEffect, GapEffect, NoDocsEffect, GuidEffect
    DEF LocalStep, GuidStep, Holding
  <2>3. ASSUME NEW g \in DocsOf(d), Advance(p, "stSave", [job[p] EXCEPT !.guid = g])
        PROVE  LocalStep(p, d) /\ GuidStep(p, d)
    <3>1. PICK j : j = [job[p] EXCEPT !.guid = g]
      OBVIOUS
    <3>2. j.dev = d /\ j.guid = g
      BY <1>0, <3>1, JobExcept
    <3>3. Advance(p, "stSave", j)
      BY <2>3, <3>1
    <3>4. LocalControl(p, d) /\ pc'[p] = "stSave" /\ job'[p] = j
      BY <3>2, <3>3, ControlEffect
    <3> QED
      BY <2>0, <2>3, <3>2, <3>4, HubEffect, GapEffect, NoDocsEffect
      DEF LocalStep, GuidStep, Holding
  <2> QED
    BY <1>3, <2>1, <2>2, <2>3 DEF StRead
<1>4. CASE StSave(p)
  <2>1. Alone(p)
    BY <1>4, MoveEffect DEF StSave
  <2>2. LocalDocs(p, d)
    <3>1. [dev |-> d, state |-> job[p].want] \in Document
      BY <1>0 DEF Document, DocState
    <3> QED
      BY <1>0, <1>4, <3>1 DEF StSave, LocalDocs, Upsert
  <2>3. LocalHub(d) /\ LocalGap(d) /\ LocalControl(p, d)
    BY <1>4, ControlEffect, HubEffect, GapEffect DEF StSave
  <2>4. GuidStep(p, d)
    BY <1>4, GuidEffect DEF StSave, GuidStep, Holding
  <2> QED
    BY <2>1, <2>2, <2>3, <2>4 DEF LocalStep
<1>5. CASE StTag(p)
  <2>1. Alone(p)
    BY <1>5, MoveEffect DEF StTag
  <2>2. LocalStep(p, d)
    BY <1>0, <1>5, ControlEffect, HubEffect, GapEffect, NoDocsEffect
    DEF StTag, LocalStep
  <2>3. GuidStep(p, d)
    BY <1>5, GuidEffect DEF StTag, GuidStep, Holding
  <2> QED
    BY <2>1, <2>2, <2>3
<1>6. CASE StKeys(p)
  <2>1. Alone(p)
    BY <1>6, MoveEffect DEF StKeys
  <2>2. LocalStep(p, d)
    BY <1>0, <1>6, ControlEffect, HubEffect, GapEffect, NoDocsEffect
    DEF StKeys, LocalStep
  <2>3. GuidStep(p, d)
    BY <1>6, GuidEffect DEF StKeys, GuidStep, Holding
  <2> QED
    BY <2>1, <2>2, <2>3
<1>7. CASE StVirtual(p)
  <2>1. Alone(p)
    BY <1>7, MoveEffect DEF StVirtual
  <2>2. LocalStep(p, d)
    BY <1>0, <1>7, ControlEffect, HubEffect, GapEffect, NoDocsEffect
    DEF StVirtual, LocalStep
  <2>3. GuidStep(p, d)
    BY <1>7, GuidEffect DEF StVirtual, GuidStep, Holding
  <2> QED
    BY <2>1, <2>2, <2>3
<1>8. CASE StRevertGet(p)
  <2>0. UNCHANGED <<hub, docs>> /\ pc[p] = "stRevertGet"
    BY <1>8 DEF StRevertGet
  <2>1. Alone(p) /\ LocalGap(d)
    BY <1>8, MoveEffect, GapEffect DEF StRevertGet
  <2>2. CASE GoTo(p, "idle") \/ Retry(p)
    BY <2>0, <2>1, <2>2, ControlEffect, HubEffect, NoDocsEffect, GuidEffect
    DEF LocalStep, GuidStep, Holding
  <2>3. CASE Advance(p, "stRevert", [job[p] EXCEPT !.etag = hub[d].etag])
    <3>1. PICK j : j = [job[p] EXCEPT !.etag = hub[d].etag]
      OBVIOUS
    <3>2. j.dev = d /\ j.guid = job[p].guid
      BY <1>0, <3>1 DEF Job
    <3>3. Advance(p, "stRevert", j)
      BY <2>3, <3>1
    <3> QED
      BY <1>a, <2>0, <2>1, <3>2, <3>3
  <2> QED
    BY <1>8, <2>1, <2>2, <2>3 DEF StRevertGet
<1>9. CASE StRevert(p)
  <2>1. Alone(p)
    BY <1>9, MoveEffect DEF StRevert
  <2>2. LocalStep(p, d)
    BY <1>0, <1>9, ControlEffect, HubEffect, GapEffect, NoDocsEffect
    DEF StRevert, LocalStep, ReplaceStatus
  <2>3. GuidStep(p, d)
    BY <1>9, GuidEffect DEF StRevert, GuidStep, Holding
  <2> QED
    BY <2>1, <2>2, <2>3
<1> QED
  BY <1>1, <1>2, <1>3, <1>4, <1>5, <1>6, <1>7, <1>8, <1>9

LEMMA UpdateAlone ==
  ASSUME TypeOK, NEW p \in Proc, NEW d \in Device, d = job[p].dev,
         UpRead(p) \/ UpSend(p) \/ UpCheck(p) \/ UpSave(p)
  PROVE  Alone(p) /\ LocalStep(p, d) /\ GuidStep(p, d)
<1> USE DEF stores
<1>0. job[p] \in Job /\ job[p].state \in DocState /\ d # NoDevice
  BY ConstantsAssumption DEF TypeOK, Job
<1>1. CASE UpRead(p)
  <2>0. UNCHANGED <<hub, docs, gap>> /\ pc[p] = "upRead"
    BY <1>1 DEF UpRead
  <2>1. Alone(p)
    BY <1>1, MoveEffect DEF UpRead
  <2>2. CASE GoTo(p, "idle")
    BY <2>0, <2>1, <2>2, ControlEffect, HubEffect, GapEffect, NoDocsEffect, GuidEffect
    DEF LocalStep, GuidStep, Holding
  <2>3. ASSUME NEW g \in DocsOf(d), NEW l \in {"upSend", "upCheck"}, NEW s,
               Advance(p, l, [job[p] EXCEPT !.guid = g, !.state = s])
        PROVE  LocalStep(p, d) /\ GuidStep(p, d)
    <3>1. PICK j : j = [job[p] EXCEPT !.guid = g, !.state = s]
      OBVIOUS
    <3>2. j.dev = d /\ j.guid = g
      BY <1>0, <3>1, JobExcept
    <3>3. Advance(p, l, j)
      BY <2>3, <3>1
    <3>4. LocalControl(p, d) /\ pc'[p] = l /\ job'[p] = j
      BY <3>2, <3>3, ControlEffect
    <3> QED
      BY <2>0, <2>3, <3>2, <3>4, HubEffect, GapEffect, NoDocsEffect
      DEF LocalStep, GuidStep, Holding
  <2> QED
    BY <1>1, <2>1, <2>2, <2>3 DEF UpRead
<1>2. CASE UpSend(p)
  <2>1. Alone(p)
    BY <1>2, MoveEffect DEF UpSend
  <2>2. LocalStep(p, d)
    BY <1>0, <1>2, ControlEffect, HubEffect, GapEffect, NoDocsEffect
    DEF UpSend, LocalStep
  <2>3. GuidStep(p, d)
    BY <1>2, GuidEffect DEF UpSend, GuidStep, Holding
  <2> QED
    BY <2>1, <2>2, <2>3
<1>3. CASE UpCheck(p)
  <2>1. Alone(p)
    BY <1>3, MoveEffect DEF UpCheck
  <2>2. LocalStep(p, d)
    BY <1>0, <1>3, ControlEffect, HubEffect, GapEffect, NoDocsEffect
    DEF UpCheck, LocalStep
  <2>3. GuidStep(p, d)
    BY <1>3, GuidEffect DEF UpCheck, GuidStep, Holding
  <2> QED
    BY <2>1, <2>2, <2>3
<1>4. CASE UpSave(p)
  <2>1. Alone(p)
    BY <1>4, MoveEffect DEF UpSave
  <2>2. LocalDocs(p, d)
    <3>1. [dev |-> d, state |-> job[p].state] \in Document
      BY <1>0 DEF Document
    <3> QED
      BY <1>0, <1>4, <3>1 DEF UpSave, LocalDocs, Upsert
  <2>3. LocalHub(d) /\ LocalGap(d) /\ LocalControl(p, d)
    BY <1>4, ControlEffect, HubEffect, GapEffect DEF UpSave
  <2>4. GuidStep(p, d)
    BY <1>4, GuidEffect DEF UpSave, GuidStep, Holding
  <2> QED
    BY <2>1, <2>2, <2>3, <2>4 DEF LocalStep
<1> QED
  BY <1>1, <1>2, <1>3, <1>4

-----------------------------------------------------------------------------
(* What every call keeps.                                                  *)

\* The document a call of p may write is of its device, or nobody's.
LEMMA WrittenDoc ==
  ASSUME TypeOK, DocumentsHeld, NEW p \in Proc, NEW d \in Device, d = job[p].dev,
         LocalDocs(p, d), docs' # docs
  PROVE  /\ pc[p] \in {"addSave", "rmDelete", "stSave", "upSave"}
         /\ job[p].guid \in Guid
         /\ docs[job[p].guid].dev \in {d, NoDevice}
         /\ docs'[job[p].guid] \in Document /\ docs'[job[p].guid].dev \in {d, NoDevice}
         /\ docs'[job[p].guid].dev = NoDevice => docs'[job[p].guid] = NoDocument
         /\ \A g \in Guid \ {job[p].guid} : docs'[g] = docs[g]
<1>1. /\ pc[p] \in {"addSave", "rmDelete", "stSave", "upSave"}
      /\ job[p].guid \in Guid
      /\ docs[job[p].guid].dev \in {d, NoDevice}
  BY DEF LocalDocs, DocumentsHeld, Holding, NoDocument
<1> QED
  BY <1>1 DEF LocalDocs, TypeOK

LEMMA HeldStep ==
  ASSUME TypeOK, DocumentsHeld, NEW p \in Proc, NEW d \in Device, d = job[p].dev,
         pc[p] # "idle", Alone(p), LocalStep(p, d), GuidStep(p, d)
  PROVE  DocumentsHeld'
<1> USE DEF LocalStep
<1>0. /\ d # NoDevice
      /\ \A q \in Proc \ {p} : pc'[q] = pc[q] /\ job'[q] = job[q]
      /\ pc'[p] = "idle" \/ job'[p].dev = d
  BY ConstantsAssumption DEF Alone, LocalControl
<1>1. ASSUME NEW g \in Guid, docs'[g].dev = NoDevice PROVE docs'[g] = NoDocument
  BY <1>1, WrittenDoc DEF DocumentsHeld
<1>2. ASSUME NEW q \in Proc, pc'[q] = "addSave"
      PROVE  /\ job'[q].guid \in Guid /\ docs'[job'[q].guid] = NoDocument
             /\ \A r \in Proc \ {q} : job'[r].guid # job'[q].guid
  <2>1. CASE q = p
    BY <1>0, <1>2, <2>1 DEF GuidStep, FreshGuid, Holding
  <2>2. CASE q # p
    <3>1. /\ pc[q] = "addSave" /\ job'[q].guid = job[q].guid
          /\ job[q].guid \in Guid /\ docs[job[q].guid] = NoDocument
          /\ \A r \in Proc \ {q} : job[r].guid # job[q].guid
      BY <1>0, <1>2, <2>2 DEF DocumentsHeld
    <3>2. docs'[job[q].guid] = docs[job[q].guid]
      BY <2>2, <3>1, WrittenDoc
    <3>3. job'[p].guid # job[q].guid
      BY <2>2, <3>1, ConstantsAssumption, <1>0 DEF GuidStep, FreshGuid, DocsOf, NoDocument
    <3> QED
      BY <1>0, <3>1, <3>2, <3>3
  <2> QED
    BY <2>1, <2>2
<1>3. ASSUME NEW q \in Proc, pc'[q] \in Holding
      PROVE  job'[q].guid \in Guid /\ docs'[job'[q].guid].dev \in {job'[q].dev, NoDevice}
  <2>1. CASE q = p
    <3>1. docs' = docs /\ job'[p].dev = d /\ job'[p].guid \in Guid
          /\ docs[job'[p].guid].dev \in {d, NoDevice}
      BY <1>0, <1>3, <2>1 DEF GuidStep, Holding, DocsOf, DocumentsHeld
    <3> QED
      BY <2>1, <3>1
  <2>2. CASE q # p
    <3>1. /\ pc[q] \in Holding /\ job'[q] = job[q] /\ job[q].guid \in Guid
          /\ docs[job[q].guid].dev \in {job[q].dev, NoDevice}
      BY <1>0, <1>3, <2>2 DEF DocumentsHeld
    <3>2. CASE job[q].guid = job[p].guid /\ docs' # docs
      <4>1. pc[p] \in Holding
        BY <2>2, <3>1, <3>2, WrittenDoc DEF DocumentsHeld, Holding
      <4>2. job[q].dev = d
        BY <3>1, <3>2, <4>1 DEF DocumentsHeld
      <4> QED
        BY <3>1, <3>2, <4>2, WrittenDoc
    <3>3. CASE job[q].guid # job[p].guid \/ docs' = docs
      BY <3>1, <3>3, WrittenDoc
    <3> QED
      BY <3>2, <3>3
  <2> QED
    BY <2>1, <2>2
<1>4. ASSUME NEW q \in Proc \ {p}, pc'[q] \in Holding, pc'[p] \in Holding,
             job'[q].guid = job'[p].guid
      PROVE  job'[q].dev = job'[p].dev
  <2>1. /\ pc[q] \in Holding /\ job'[q] = job[q] /\ job'[p].dev = d
        /\ docs[job[q].guid].dev \in {job[q].dev, NoDevice}
    BY <1>0, <1>4 DEF DocumentsHeld, Holding
  <2>2. CASE job'[p].guid \in DocsOf(d)
    BY <1>0, <1>4, <2>1, <2>2 DEF DocsOf
  <2>3. CASE pc[p] \in Holding /\ job'[p].guid = job[p].guid
    BY <1>4, <2>1, <2>3 DEF DocumentsHeld
  <2> QED
    BY <1>4, <2>2, <2>3 DEF GuidStep, Holding
<1>5. ASSUME NEW q \in Proc, NEW r \in Proc, pc'[q] \in Holding, pc'[r] \in Holding,
             job'[q].guid = job'[r].guid
      PROVE  job'[q].dev = job'[r].dev
  <2>1. CASE q # p /\ r # p
    BY <1>0, <1>5, <2>1 DEF DocumentsHeld
  <2>2. CASE q = p \/ r = p
    BY <1>4, <1>5, <2>2
  <2> QED
    BY <2>1, <2>2
<1> QED
  BY <1>1, <1>2, <1>3, <1>5 DEF DocumentsHeld

\* What a call of p on d adds to the history, and to the operations under way.
LEMMA HistoryStep ==
  ASSUME TypeOK, NEW p \in Proc, NEW d \in Device, d = job[p].dev, Alone(p),
         LocalControl(p, d), Remember
  PROVE  /\ overrun \subseteq overrun'
         /\ d \notin overrun' => ~Overruns(p, d)
         /\ p \in again' <=> pc'[p] = pc[p] /\ (p \in again \/ RolledBack(p, d))
         /\ OpenAdds(d) \ {p} = OpenAdds(d)' \ {p}
         /\ OpenRemovals(d) \ {p} = OpenRemovals(d)' \ {p}
         /\ \A c \in Device \ {d} :
              OpenAdds(c)' = OpenAdds(c) /\ OpenRemovals(c)' = OpenRemovals(c)
<1>1. /\ \A q \in Proc \ {p} : pc'[q] = pc[q] /\ job'[q] = job[q] /\ ~Moves(q)
      /\ pc'[p] = "idle" \/ job'[p].dev = d
  BY DEF Alone, LocalControl, Moves
<1>2. Calls(p, d) /\ \A q \in Proc, c \in Device : Calls(q, c) => q = p /\ c = d
  BY <1>1 DEF Calls, Alone
<1>3. overrun \subseteq overrun' /\ (d \notin overrun' => ~Overruns(p, d))
  BY <1>2 DEF Remember
<1>4. p \in again' <=> pc'[p] = pc[p] /\ (p \in again \/ RolledBack(p, d))
  BY <1>2 DEF Remember
<1>5. \A q \in Proc \ {p} : q \in again' <=> q \in again
  BY <1>1, <1>2 DEF Remember
<1>6. OpenAdds(d) \ {p} = OpenAdds(d)' \ {p} /\ OpenRemovals(d) \ {p} = OpenRemovals(d)' \ {p}
  BY <1>1, <1>5 DEF OpenAdds, OpenRemovals
<1>7. ASSUME NEW c \in Device \ {d}
      PROVE  OpenAdds(c)' = OpenAdds(c) /\ OpenRemovals(c)' = OpenRemovals(c)
  <2>1. p \notin OpenAdds(c) /\ p \notin OpenAdds(c)'
    BY <1>1 DEF OpenAdds, Owner
  <2>2. p \notin OpenRemovals(c) /\ p \notin OpenRemovals(c)'
    BY <1>1 DEF OpenRemovals
  <2> QED
    BY <1>1, <1>5, <2>1, <2>2 DEF OpenAdds, OpenRemovals
<1> QED
  BY <1>3, <1>4, <1>6, <1>7

\* A call of p on d leaves every other device where it is.
LEMMA OthersKept ==
  ASSUME TypeOK, DocumentsHeld, NEW p \in Proc, NEW d \in Device, d = job[p].dev,
         Alone(p), LocalStep(p, d), Remember, NEW c \in Device \ {d}
  PROVE  /\ Locked(c) => Locked(c)'
         /\ Between(c) => Between(c)'
<1>1. Absent(c)' <=> Absent(c)
  BY DEF LocalStep, LocalHub, Absent
<1>2. \A g \in Guid : docs[g].dev = c \/ docs'[g].dev = c => docs'[g] = docs[g]
  BY WrittenDoc, ConstantsAssumption DEF LocalStep
<1>3. DocsOf(c)' = DocsOf(c)
  BY <1>2 DEF DocsOf
<1>4. OpenAdds(c)' = OpenAdds(c) /\ OpenRemovals(c)' = OpenRemovals(c)
  BY HistoryStep DEF LocalStep
<1>5. \A q \in OpenAdds(c) \cup OpenRemovals(c) : pc'[q] = pc[q] /\ job'[q] = job[q]
  <2>1. \A q \in OpenAdds(c) \cup OpenRemovals(c) : q \in Proc /\ q # p
    BY DEF OpenAdds, OpenRemovals
  <2> QED
    BY <2>1 DEF Alone
<1>6. Locked(c) => Locked(c)'
  BY <1>1, <1>3, <1>4, <1>5 DEF Locked
<1>7. Between(c) => Between(c)'
  <2>1. \A q \in OpenRemovals(c) : docs[job[q].guid].dev = c /\ pc[q] = "rmDelete"
                 => docs'[job[q].guid].dev = c
    <3> SUFFICES ASSUME NEW q \in OpenRemovals(c), pc[q] = "rmDelete",
                        docs[job[q].guid].dev = c
                 PROVE  docs'[job[q].guid].dev = c
      OBVIOUS
    <3>1. job[q].guid \in Guid
      BY DEF DocumentsHeld, Holding, OpenRemovals
    <3> QED
      BY <1>2, <3>1
  <2> QED
    BY <1>1, <1>3, <1>4, <1>5, <2>1 DEF Between
<1> QED
  BY <1>6, <1>7

-----------------------------------------------------------------------------
(* Where a call leaves the registries of its device.                       *)

\* Labels at which an operation has created or deleted an identity.
Critical == Owner \cup {"rmRead", "rmDelete", "rmRollback"}

\* A call of p on d that runs over no other operation.
Clean(p, d) ==
  /\ TypeOK /\ DocumentsHeld /\ SeenPresent /\ RetriesRollback /\ Remember
  /\ p \in Proc /\ d \in Device /\ d = job[p].dev
  /\ Alone(p) /\ LocalStep(p, d)
  /\ d \notin overrun'
  /\ Locked(d)
  /\ <<d, "registered">> \notin gap => Between(d)

\* What it owes.
Stays(d) ==
  /\ Locked(d)'
  /\ <<d, "registered">> \notin gap' => Between(d)'

\* Who is under way on d after the call: whoever was, and p as its label says.
LEMMA UnderWay ==
  ASSUME NEW p, NEW d, Clean(p, d)
  PROVE  /\ ~Overruns(p, d)
         /\ <<d, "registered">> \notin gap' => <<d, "registered">> \notin gap
         /\ p \in OpenAdds(d) <=> pc[p] \in Owner /\ p \notin again
         /\ p \in OpenRemovals(d) <=> \/ pc[p] \in {"rmRead", "rmDelete"}
                                      \/ pc[p] = "rmRollback" /\ p \notin again
         /\ p \in OpenAdds(d)' <=> pc'[p] \in Owner /\ p \notin again'
         /\ p \in OpenRemovals(d)' <=> \/ pc'[p] \in {"rmRead", "rmDelete"}
                                       \/ pc'[p] = "rmRollback" /\ p \notin again'
         /\ p \in again' <=> pc'[p] = pc[p] /\ (p \in again \/ RolledBack(p, d))
         /\ \A q : q # p => /\ q \in OpenAdds(d)' <=> q \in OpenAdds(d)
                            /\ q \in OpenRemovals(d)' <=> q \in OpenRemovals(d)
         /\ \A q \in OpenAdds(d) \cup OpenRemovals(d) : q # p => pc'[q] = pc[q] /\ job'[q] = job[q]
         /\ \A q \in OpenRemovals(d) : pc[q] = "rmDelete" => job[q].guid \in Guid
<1>0. /\ p \in Proc /\ d \in Device /\ job[p].dev = d /\ TypeOK /\ Alone(p) /\ Remember
      /\ LocalControl(p, d) /\ LocalGap(d) /\ DocumentsHeld /\ d \notin overrun'
  BY DEF Clean, LocalStep
<1>1. pc'[p] = "idle" \/ job'[p].dev = d
  BY <1>0 DEF LocalControl
<1>2. /\ ~Overruns(p, d)
      /\ p \in again' <=> pc'[p] = pc[p] /\ (p \in again \/ RolledBack(p, d))
      /\ \A q : q # p => /\ q \in OpenAdds(d)' <=> q \in OpenAdds(d)
                         /\ q \in OpenRemovals(d)' <=> q \in OpenRemovals(d)
  BY <1>0, HistoryStep
<1>3. p \in OpenAdds(d)' <=> pc'[p] \in Owner /\ p \notin again'
  BY <1>0, <1>1 DEF OpenAdds, Owner
<1>4. p \in OpenRemovals(d)' <=> \/ pc'[p] \in {"rmRead", "rmDelete"}
                                 \/ pc'[p] = "rmRollback" /\ p \notin again'
  <2>1. CASE pc'[p] = "idle"
    BY <2>1 DEF OpenRemovals
  <2>2. CASE job'[p].dev = d
    BY <1>0, <2>2 DEF OpenRemovals
  <2> QED
    BY <1>1, <2>1, <2>2
<1>5. <<d, "registered">> \notin gap' => <<d, "registered">> \notin gap
  BY <1>0, GapEffect
<1>6. \A q \in OpenAdds(d) \cup OpenRemovals(d) : q # p => pc'[q] = pc[q] /\ job'[q] = job[q]
  BY <1>0 DEF OpenAdds, OpenRemovals, LocalControl
<1>7. \A q \in OpenRemovals(d) : pc[q] = "rmDelete" => job[q].guid \in Guid
  BY <1>0 DEF OpenRemovals, DocumentsHeld, Holding
<1>8. p \in OpenAdds(d) <=> pc[p] \in Owner /\ p \notin again
  BY <1>0 DEF OpenAdds
<1>9. p \in OpenRemovals(d) <=> \/ pc[p] \in {"rmRead", "rmDelete"}
                                \/ pc[p] = "rmRollback" /\ p \notin again
  BY <1>0 DEF OpenRemovals
<1> QED
  BY <1>2, <1>3, <1>4, <1>5, <1>6, <1>7, <1>8, <1>9

\* A call that neither enters nor leaves the critical labels, nor changes what d
\* has, leaves it where it stands.
LEMMA Aside ==
  ASSUME NEW p, NEW d, Clean(p, d), pc[p] \notin Critical, pc'[p] \notin Critical,
         Absent(d)' <=> Absent(d), \A g \in Guid : docs'[g].dev = docs[g].dev
  PROVE  Stays(d)
<1>1. DocsOf(d)' = DocsOf(d)
  BY DEF DocsOf
<1>2. OpenAdds(d)' = OpenAdds(d) /\ OpenRemovals(d)' = OpenRemovals(d)
  <2>1. /\ \A q : q \in OpenAdds(d)' <=> q \in OpenAdds(d)
        /\ \A q : q \in OpenRemovals(d)' <=> q \in OpenRemovals(d)
    <3>1. /\ p \notin OpenAdds(d) /\ p \notin OpenAdds(d)'
          /\ p \notin OpenRemovals(d) /\ p \notin OpenRemovals(d)'
      BY UnderWay DEF Critical
    <3>2. \A q : q # p => /\ q \in OpenAdds(d)' <=> q \in OpenAdds(d)
                          /\ q \in OpenRemovals(d)' <=> q \in OpenRemovals(d)
      BY UnderWay
    <3> QED
      BY <3>1, <3>2
  <2> QED
    BY <2>1, Zenon
<1>3. /\ p \notin OpenAdds(d) /\ p \notin OpenRemovals(d)
      /\ \A q \in OpenAdds(d) \cup OpenRemovals(d) : q # p => pc'[q] = pc[q] /\ job'[q] = job[q]
      /\ \A q \in OpenRemovals(d) : pc[q] = "rmDelete" => job[q].guid \in Guid
      /\ <<d, "registered">> \notin gap' => <<d, "registered">> \notin gap
  BY UnderWay DEF Critical
<1>4. Locked(d)'
  BY <1>1, <1>2, <1>3 DEF Locked, Clean
<1>5. Between(d) => Between(d)'
  BY <1>1, <1>2, <1>3 DEF Between
<1> QED
  BY <1>3, <1>4, <1>5 DEF Stays, Clean

\* A call that changes what d has stands for the calls below; each of them
\* accounts for p itself, and the facts of UnderWay for everybody else.
LEMMA AddHubStays ==
  ASSUME NEW p, NEW d, Clean(p, d), AddHub(p)
  PROVE  Stays(d)
<1>0. /\ TypeOK /\ p \in Proc /\ d \in Device /\ d = job[p].dev /\ Locked(d)
      /\ <<d, "registered">> \notin gap => Between(d)
      /\ pc[p] = "addHub" /\ UNCHANGED docs /\ DocsOf(d)' = DocsOf(d)
  BY NoDocsEffect DEF Clean, AddHub
<1>1. p \notin OpenAdds(d) /\ p \notin OpenRemovals(d) /\ p \notin again
  BY <1>0, UnderWay DEF Owner, Clean, RetriesRollback
<1>2. CASE /\ CreateIdentity(d, "Enabled") /\ UNCHANGED gap
           /\ \E l \in {"addTwin", "addRead"} : GoTo(p, l)
  <2>1. Absent(d) /\ ~Absent(d)' /\ pc'[p] \in {"addTwin", "addRead"}
    BY <1>0, <1>2, HubEffect, ControlEffect
  <2>2. /\ p \in OpenAdds(d)' /\ p \notin OpenRemovals(d)' /\ OpenAdds(d) = {}
    BY <1>0, <1>1, <2>1, UnderWay DEF Owner, Locked
  <2> QED
    BY <1>0, <1>1, <1>2, <2>1, <2>2, UnderWay DEF Stays, Locked, Between
<1>3. CASE /\ CreateIdentity(d, "Enabled") /\ Spoil(d, {"registered"})
           /\ Retry(p) \/ GoTo(p, "idle")
  <2>1. Absent(d) /\ ~Absent(d)' /\ pc'[p] \in {"addHub", "idle"}
    BY <1>0, <1>3, HubEffect, ControlEffect
  <2>2. /\ p \notin OpenAdds(d)' /\ OpenAdds(d) = {}
    BY <1>0, <1>1, <2>1, UnderWay DEF Owner, Locked
  <2>3. <<d, "registered">> \in gap'
    BY <1>3, GapEffect
  <2> QED
    BY <1>0, <1>1, <2>1, <2>2, <2>3, UnderWay DEF Stays, Locked
<1>4. CASE UNCHANGED <<hub, gap>> /\ (GoTo(p, "idle") \/ Retry(p))
  <2>1. (Absent(d)' <=> Absent(d)) /\ pc'[p] \in {"addHub", "idle"}
    BY <1>0, <1>4, HubEffect, ControlEffect
  <2> QED
    BY <1>0, <2>1, Aside DEF Critical, Owner
<1> QED
  BY <1>0, <1>2, <1>3, <1>4 DEF AddHub

LEMMA AddTwinStays ==
  ASSUME NEW p, NEW d, Clean(p, d), AddTwin(p)
  PROVE  Stays(d)
<1>0. /\ TypeOK /\ p \in Proc /\ d \in Device /\ d = job[p].dev /\ Locked(d)
      /\ <<d, "registered">> \notin gap => Between(d)
      /\ pc[p] = "addTwin" /\ UNCHANGED <<hub, docs>> /\ DocsOf(d)' = DocsOf(d)
      /\ (Absent(d)' <=> Absent(d))
  BY NoDocsEffect, HubEffect DEF Clean, AddTwin, stores
<1>1. p \in OpenAdds(d) /\ p \notin OpenRemovals(d)
  BY <1>0, UnderWay DEF Owner, Clean, RetriesRollback
<1>2. CASE UNCHANGED gap /\ GoTo(p, "addRead")
  <2>1. pc'[p] = "addRead"
    BY <1>0, <1>2, ControlEffect
  <2>2. p \in OpenAdds(d)' /\ p \notin OpenRemovals(d)'
    BY <1>0, <2>1, UnderWay DEF Owner
  <2> QED
    BY <1>0, <1>1, <1>2, <2>1, <2>2, UnderWay DEF Stays, Locked, Between
<1>3. CASE GoTo(p, "idle") /\ Spoil(d, {"registered"})
  <2>1. pc'[p] = "idle" /\ <<d, "registered">> \in gap'
    BY <1>0, <1>3, ControlEffect, GapEffect
  <2>2. p \notin OpenAdds(d)'
    BY <1>0, <2>1, UnderWay DEF Owner
  <2> QED
    BY <1>0, <1>1, <2>1, <2>2, UnderWay DEF Stays, Locked
<1> QED
  BY <1>0, <1>2, <1>3 DEF AddTwin

LEMMA AddReadStays ==
  ASSUME NEW p, NEW d, Clean(p, d), AddRead(p)
  PROVE  Stays(d)
<1>0. /\ TypeOK /\ p \in Proc /\ d \in Device /\ d = job[p].dev /\ Locked(d)
      /\ <<d, "registered">> \notin gap => Between(d)
      /\ pc[p] = "addRead" /\ UNCHANGED <<hub, docs, gap>> /\ DocsOf(d)' = DocsOf(d)
      /\ (Absent(d)' <=> Absent(d))
  BY NoDocsEffect, HubEffect DEF Clean, AddRead, stores
<1>1. p \in OpenAdds(d) /\ p \notin OpenRemovals(d)
  BY <1>0, UnderWay DEF Owner, Clean, RetriesRollback
<1>2. (pc'[p] = "addSave" /\ DocsOf(d) = {}) \/ pc'[p] = "addRollback"
  BY <1>0, ControlEffect DEF AddRead, Advance, TypeOK
<1>3. p \in OpenAdds(d)' /\ p \notin OpenRemovals(d)'
  BY <1>0, <1>2, UnderWay DEF Owner
<1> QED
  BY <1>0, <1>1, <1>2, <1>3, UnderWay DEF Stays, Locked, Between

LEMMA AddSaveStays ==
  ASSUME NEW p, NEW d, Clean(p, d), AddSave(p)
  PROVE  Stays(d)
<1>0. /\ TypeOK /\ p \in Proc /\ d \in Device /\ d = job[p].dev /\ Locked(d)
      /\ <<d, "registered">> \notin gap => Between(d)
      /\ pc[p] = "addSave" /\ UNCHANGED hub /\ (Absent(d)' <=> Absent(d))
      /\ job[p].guid \in Guid /\ job[p].state \in DocState
  BY HubEffect DEF Clean, AddSave, DocumentsHeld, TypeOK, Job
<1>1. p \in OpenAdds(d) /\ p \notin OpenRemovals(d)
  BY <1>0, UnderWay DEF Owner, Clean, RetriesRollback
<1>2. DocsOf(d) = {}
  BY <1>0, <1>1 DEF Locked
<1>3. CASE Upsert(job[p].guid, d, job[p].state) /\ UNCHANGED gap /\ GoTo(p, "addTag")
  <2>1. DocsOf(d)' = {job[p].guid} /\ pc'[p] = "addTag"
    BY <1>0, <1>2, <1>3, InsertEffect, ControlEffect
  <2>2. p \in OpenAdds(d)' /\ p \notin OpenRemovals(d)'
    BY <1>0, <2>1, UnderWay DEF Owner
  <2> QED
    BY <1>0, <1>1, <1>2, <1>3, <2>1, <2>2, UnderWay DEF Stays, Locked, Between
<1>4. CASE /\ Upsert(job[p].guid, d, job[p].state) /\ Spoil(d, {"registered"})
           /\ GoTo(p, "addRollback")
  <2>1. /\ DocsOf(d)' = {job[p].guid} /\ pc'[p] = "addRollback"
        /\ <<d, "registered">> \in gap'
    BY <1>0, <1>2, <1>4, InsertEffect, ControlEffect, GapEffect
  <2>2. p \in OpenAdds(d)'
    BY <1>0, <2>1, UnderWay DEF Owner
  <2> QED
    BY <1>0, <1>1, <2>1, <2>2, UnderWay DEF Stays, Locked
<1>5. CASE UNCHANGED <<docs, gap>> /\ GoTo(p, "addRollback")
  <2>1. DocsOf(d)' = DocsOf(d) /\ pc'[p] = "addRollback"
    BY <1>0, <1>5, NoDocsEffect, ControlEffect
  <2>2. p \in OpenAdds(d)' /\ p \notin OpenRemovals(d)'
    BY <1>0, <2>1, UnderWay DEF Owner
  <2> QED
    BY <1>0, <1>1, <1>2, <1>5, <2>1, <2>2, UnderWay DEF Stays, Locked, Between
<1> QED
  BY <1>0, <1>3, <1>4, <1>5 DEF AddSave

LEMMA AddTagStays ==
  ASSUME NEW p, NEW d, Clean(p, d), AddTag(p)
  PROVE  Stays(d)
<1>0. /\ TypeOK /\ p \in Proc /\ d \in Device /\ d = job[p].dev /\ Locked(d)
      /\ <<d, "registered">> \notin gap => Between(d)
      /\ pc[p] = "addTag" /\ UNCHANGED docs /\ DocsOf(d)' = DocsOf(d)
  BY NoDocsEffect DEF Clean, AddTag
<1>1. p \in OpenAdds(d) /\ p \notin OpenRemovals(d)
  BY <1>0, UnderWay DEF Owner, Clean, RetriesRollback
<1>2. ~Absent(d) /\ ~Absent(d)'
  BY <1>0, <1>1, HubEffect DEF AddTag, Locked
<1>3. CASE UNCHANGED gap /\ \E l \in {"addVirtual", "idle"} : GoTo(p, l)
  <2>1. pc'[p] \in {"addVirtual", "idle"}
    BY <1>0, <1>3, ControlEffect
  <2>2. p \notin OpenAdds(d)' /\ p \notin OpenRemovals(d)'
    BY <1>0, <2>1, UnderWay DEF Owner
  <2> QED
    BY <1>0, <1>1, <1>2, <1>3, <2>1, <2>2, UnderWay DEF Stays, Locked, Between
<1>4. CASE Spoil(d, {"registered"}) /\ GoTo(p, "addRollback")
  <2>1. pc'[p] = "addRollback" /\ <<d, "registered">> \in gap'
    BY <1>0, <1>4, ControlEffect, GapEffect
  <2>2. p \in OpenAdds(d)'
    BY <1>0, <2>1, UnderWay DEF Owner
  <2> QED
    BY <1>0, <1>1, <1>2, <2>1, <2>2, UnderWay DEF Stays, Locked
<1> QED
  BY <1>0, <1>3, <1>4 DEF AddTag

\* A rollback whose call was applied before takes nobody's identity (it would
\* run over its owner); one that was not is the only owner.
LEMMA AddRollbackStays ==
  ASSUME NEW p, NEW d, Clean(p, d), AddRollback(p)
  PROVE  Stays(d)
<1>0. /\ TypeOK /\ p \in Proc /\ d \in Device /\ d = job[p].dev /\ Locked(d)
      /\ <<d, "registered">> \notin gap => Between(d)
      /\ pc[p] = "addRollback" /\ UNCHANGED docs /\ DocsOf(d)' = DocsOf(d)
  BY NoDocsEffect DEF Clean, AddRollback
<1>1. p \notin OpenRemovals(d) /\ p \notin OpenRemovals(d)' /\ ~RollsBackTwice(p, d)
  <2>1. pc'[p] \in {"addRollback", "idle"}
    BY <1>0, ControlEffect DEF AddRollback
  <2> QED
    BY <1>0, <2>1, UnderWay DEF Overruns
<1>2. CASE DeleteIdentity(d) /\ UNCHANGED gap /\ (Retry(p) \/ GoTo(p, "idle"))
  <2>1. ~Absent(d) /\ Absent(d)' /\ pc'[p] \in {"addRollback", "idle"}
    BY <1>0, <1>2, HubEffect, ControlEffect
  <2>2. p \in OpenAdds(d) /\ RolledBack(p, d)
    BY <1>0, <1>1, <2>1, UnderWay DEF Owner, RollsBackTwice, RolledBack, Taken
  <2>3. p \notin OpenAdds(d)'
    BY <1>0, <2>1, <2>2, UnderWay DEF Owner
  <2> QED
    BY <1>0, <1>1, <1>2, <2>1, <2>2, <2>3, UnderWay DEF Stays, Locked, Between
<1>3. CASE Absent(d) /\ GoTo(p, "idle") /\ UNCHANGED <<hub, gap>>
  <2>1. Absent(d) /\ Absent(d)' /\ pc'[p] = "idle"
    BY <1>0, <1>3, HubEffect, ControlEffect
  <2>2. p \notin OpenAdds(d) /\ p \notin OpenAdds(d)'
    BY <1>0, <2>1, UnderWay DEF Owner, Locked
  <2> QED
    BY <1>0, <1>1, <1>3, <2>1, <2>2, UnderWay DEF Stays, Locked, Between
<1>4. CASE Retry(p) /\ UNCHANGED <<hub, gap>>
  <2>1. (Absent(d)' <=> Absent(d)) /\ pc'[p] = pc[p] /\ ~RolledBack(p, d)
    BY <1>0, <1>4, HubEffect, ControlEffect DEF RolledBack, Taken
  <2>2. p \in OpenAdds(d)' <=> p \in OpenAdds(d)
    BY <1>0, <2>1, UnderWay
  <2> QED
    BY <1>0, <1>1, <1>4, <2>1, <2>2, UnderWay DEF Stays, Locked, Between
<1>5. CASE GoTo(p, "idle") /\ UNCHANGED hub /\ Spoil(d, {"registered"})
  <2>1. /\ (Absent(d)' <=> Absent(d)) /\ pc'[p] = "idle"
        /\ <<d, "registered">> \in gap'
    BY <1>0, <1>5, HubEffect, ControlEffect, GapEffect
  <2>2. p \notin OpenAdds(d)'
    BY <1>0, <2>1, UnderWay DEF Owner
  <2> QED
    BY <1>0, <2>1, <2>2, UnderWay DEF Stays, Locked
<1> QED
  BY <1>0, <1>2, <1>3, <1>4, <1>5 DEF AddRollback

LEMMA RmHubStays ==
  ASSUME NEW p, NEW d, Clean(p, d), RmHub(p)
  PROVE  Stays(d)
<1>0. /\ TypeOK /\ p \in Proc /\ d \in Device /\ d = job[p].dev /\ Locked(d)
      /\ <<d, "registered">> \notin gap => Between(d)
      /\ pc[p] = "rmHub" /\ UNCHANGED docs /\ DocsOf(d)' = DocsOf(d)
  BY NoDocsEffect DEF Clean, RmHub
<1>1. /\ p \notin OpenAdds(d) /\ p \notin OpenRemovals(d) /\ p \notin again
      /\ ~RemovesUnderAdd(p, d)
  BY <1>0, UnderWay DEF Owner, Overruns, Clean, RetriesRollback
<1>2. CASE DeleteIdentity(d) /\ GoTo(p, "rmRead") /\ UNCHANGED gap
  <2>1. ~Absent(d) /\ Absent(d)' /\ pc'[p] = "rmRead"
    BY <1>0, <1>2, HubEffect, ControlEffect
  <2>2. OpenAdds(d) = {} /\ p \notin OpenAdds(d)' /\ p \in OpenRemovals(d)'
    BY <1>0, <1>1, <2>1, UnderWay DEF RemovesUnderAdd, Taken, Owner
  <2> QED
    BY <1>0, <1>1, <1>2, <2>1, <2>2, UnderWay DEF Stays, Locked, Between
<1>3. CASE DeleteIdentity(d) /\ (Retry(p) \/ GoTo(p, "idle")) /\ Spoil(d, {"registered"})
  <2>1. /\ ~Absent(d) /\ Absent(d)' /\ pc'[p] \in {"rmHub", "idle"}
        /\ <<d, "registered">> \in gap'
    BY <1>0, <1>3, HubEffect, ControlEffect, GapEffect
  <2>2. OpenAdds(d) = {} /\ p \notin OpenAdds(d)'
    BY <1>0, <1>1, <2>1, UnderWay DEF RemovesUnderAdd, Taken, Owner
  <2> QED
    BY <1>0, <1>1, <2>1, <2>2, UnderWay DEF Stays, Locked
<1>4. CASE UNCHANGED <<hub, gap>> /\ (GoTo(p, "idle") \/ Retry(p))
  <2>1. (Absent(d)' <=> Absent(d)) /\ pc'[p] \in {"rmHub", "idle"}
    BY <1>0, <1>4, HubEffect, ControlEffect
  <2> QED
    BY <1>0, <2>1, Aside DEF Critical, Owner
<1> QED
  BY <1>0, <1>2, <1>3, <1>4 DEF RmHub

LEMMA RmReadStays ==
  ASSUME NEW p, NEW d, Clean(p, d), RmRead(p)
  PROVE  Stays(d)
<1>0. /\ TypeOK /\ p \in Proc /\ d \in Device /\ d = job[p].dev /\ Locked(d)
      /\ <<d, "registered">> \notin gap => Between(d) /\ job[p] \in Job
      /\ pc[p] = "rmRead" /\ UNCHANGED <<hub, docs, gap>> /\ DocsOf(d)' = DocsOf(d)
      /\ (Absent(d)' <=> Absent(d))
  BY NoDocsEffect, HubEffect DEF Clean, RmRead, stores, TypeOK
<1>1. p \notin OpenAdds(d) /\ p \in OpenRemovals(d)
  BY <1>0, UnderWay DEF Owner
<1>2. \/ pc'[p] = "rmRollback"
      \/ pc'[p] = "rmDelete" /\ docs[job'[p].guid].dev = d
  <2>1. CASE GoTo(p, "rmRollback")
    BY <1>0, <2>1, ControlEffect
  <2>2. CASE \E g \in DocsOf(d) : Advance(p, "rmDelete", [job[p] EXCEPT !.guid = g])
    <3>1. PICK g \in DocsOf(d) : Advance(p, "rmDelete", [job[p] EXCEPT !.guid = g])
      BY <2>2
    <3>2. job'[p].guid = g /\ pc'[p] = "rmDelete"
      BY <1>0, <3>1 DEF Advance, TypeOK, Job
    <3> QED
      BY <3>2 DEF DocsOf
  <2> QED
    BY <1>0, <2>1, <2>2 DEF RmRead
<1>3. p \notin OpenAdds(d)' /\ p \in OpenRemovals(d)'
  BY <1>0, <1>2, UnderWay DEF Owner
<1> QED
  BY <1>0, <1>1, <1>2, <1>3, UnderWay DEF Stays, Locked, Between

LEMMA RmDeleteStays ==
  ASSUME NEW p, NEW d, Clean(p, d), RmDelete(p)
  PROVE  Stays(d)
<1>0. /\ TypeOK /\ p \in Proc /\ d \in Device /\ d = job[p].dev /\ Locked(d)
      /\ <<d, "registered">> \notin gap => Between(d)
      /\ pc[p] = "rmDelete" /\ UNCHANGED hub /\ (Absent(d)' <=> Absent(d))
      /\ job[p].guid \in Guid /\ d # NoDevice
  BY HubEffect, ConstantsAssumption DEF Clean, RmDelete, DocumentsHeld, Holding
<1>1. p \notin OpenAdds(d) /\ p \in OpenRemovals(d)
  BY <1>0, UnderWay DEF Owner
<1>2. DeleteDoc(job[p].guid) => DocsOf(d)' = DocsOf(d) \ {job[p].guid}
  BY <1>0 DEF DeleteDoc, DocsOf, NoDocument, TypeOK
<1>3. CASE DeleteDoc(job[p].guid) /\ GoTo(p, "rmVirtual") /\ UNCHANGED gap
  <2>1. pc'[p] = "rmVirtual" /\ DocsOf(d)' = DocsOf(d) \ {job[p].guid}
    BY <1>0, <1>2, <1>3, ControlEffect
  <2>2. p \notin OpenAdds(d)' /\ p \notin OpenRemovals(d)'
    BY <1>0, <2>1, UnderWay DEF Owner
  <2>3. Locked(d)'
    BY <1>0, <1>1, <2>1, <2>2, UnderWay DEF Locked
  <2>4. <<d, "registered">> \notin gap => Between(d)'
    <3>1. <<d, "registered">> \notin gap => job[p].guid \in DocsOf(d)
      BY <1>0, <1>1 DEF Between, DocsOf
    <3>2. <<d, "registered">> \notin gap => DocsOf(d)' = {}
      BY <1>0, <2>1, <3>1 DEF Locked
    <3> QED
      BY <1>0, <1>1, <2>1, <2>2, <3>2, UnderWay DEF Between
  <2> QED
    BY <1>3, <2>3, <2>4 DEF Stays
<1>4. CASE DeleteDoc(job[p].guid) /\ GoTo(p, "rmRollback") /\ Spoil(d, {"registered"})
  <2>1. /\ pc'[p] = "rmRollback" /\ DocsOf(d)' = DocsOf(d) \ {job[p].guid}
        /\ <<d, "registered">> \in gap'
    BY <1>0, <1>2, <1>4, ControlEffect, GapEffect
  <2>2. p \notin OpenAdds(d)'
    BY <1>0, <2>1, UnderWay DEF Owner
  <2> QED
    BY <1>0, <1>1, <2>1, <2>2, UnderWay DEF Stays, Locked
<1>5. CASE GoTo(p, "rmRollback") /\ UNCHANGED <<docs, gap>>
  <2>1. pc'[p] = "rmRollback" /\ DocsOf(d)' = DocsOf(d)
    BY <1>0, <1>5, ControlEffect, NoDocsEffect
  <2>2. p \notin OpenAdds(d)' /\ p \in OpenRemovals(d)'
    BY <1>0, <2>1, UnderWay DEF Owner
  <2> QED
    BY <1>0, <1>1, <1>5, <2>1, <2>2, UnderWay DEF Stays, Locked, Between
<1> QED
  BY <1>0, <1>3, <1>4, <1>5 DEF RmDelete

\* The rollback of a removal finds the identity gone, as it left it: with nobody
\* in between the document is still there for it.
LEMMA RmRollbackStays ==
  ASSUME NEW p, NEW d, Clean(p, d), RmRollback(p)
  PROVE  Stays(d)
<1>0. /\ TypeOK /\ p \in Proc /\ d \in Device /\ d = job[p].dev /\ Locked(d)
      /\ <<d, "registered">> \notin gap => Between(d)
      /\ pc[p] = "rmRollback" /\ UNCHANGED docs /\ DocsOf(d)' = DocsOf(d)
      /\ job[p].seen # "Absent"
  BY NoDocsEffect DEF Clean, RmRollback, SeenPresent
<1>1. /\ p \notin OpenAdds(d) /\ p \notin OpenAdds(d)'
      /\ ~RollsBackTwice(p, d) /\ ~LeavesToAdd(p, d)
  <2>1. pc'[p] \in {"rmRollback", "idle"}
    BY <1>0, ControlEffect DEF RmRollback
  <2> QED
    BY <1>0, <2>1, UnderWay DEF Overruns, Owner
<1>2. CASE /\ CreateIdentity(d, job[p].seen) /\ Spoil(d, {"tag"})
           /\ Retry(p) \/ GoTo(p, "idle")
  <2>1. Absent(d) /\ ~Absent(d)' /\ pc'[p] \in {"rmRollback", "idle"}
    BY <1>0, <1>2, HubEffect, ControlEffect
  <2>2. p \in OpenRemovals(d) /\ RolledBack(p, d)
    BY <1>0, <1>1, <2>1, UnderWay DEF RollsBackTwice, RolledBack, Given
  <2>3. p \notin OpenRemovals(d)' /\ OpenAdds(d) = {}
    BY <1>0, <2>1, <2>2, UnderWay DEF Locked
  <2> QED
    BY <1>0, <1>1, <2>1, <2>2, <2>3, UnderWay DEF Stays, Locked, Between
<1>3. CASE ~Absent(d) /\ GoTo(p, "idle") /\ UNCHANGED <<hub, gap>>
  <2>1. ~Absent(d) /\ ~Absent(d)' /\ pc'[p] = "idle"
    BY <1>0, <1>3, HubEffect, ControlEffect
  <2>2. p \notin OpenRemovals(d)' /\ (p \in OpenRemovals(d) => OpenAdds(d) = {})
    BY <1>0, <1>1, <2>1, UnderWay DEF LeavesToAdd
  <2> QED
    BY <1>0, <1>1, <1>3, <2>1, <2>2, UnderWay DEF Stays, Locked, Between
<1>4. CASE Retry(p) /\ UNCHANGED <<hub, gap>>
  <2>1. (Absent(d)' <=> Absent(d)) /\ pc'[p] = pc[p] /\ ~RolledBack(p, d)
    BY <1>0, <1>4, HubEffect, ControlEffect DEF RolledBack, Given
  <2>2. p \in OpenRemovals(d)' <=> p \in OpenRemovals(d)
    BY <1>0, <2>1, UnderWay
  <2> QED
    BY <1>0, <1>1, <1>4, <2>1, <2>2, UnderWay DEF Stays, Locked, Between
<1>5. CASE GoTo(p, "idle") /\ UNCHANGED hub /\ Spoil(d, {"registered"})
  <2>1. (Absent(d)' <=> Absent(d)) /\ <<d, "registered">> \in gap'
    BY <1>0, <1>5, HubEffect, GapEffect
  <2> QED
    BY <1>0, <1>1, <2>1, UnderWay DEF Stays, Locked
<1> QED
  BY <1>0, <1>2, <1>3, <1>4, <1>5 DEF RmRollback

\* No other call creates or deletes an identity or a document: an upsert of the
\* copy in hand finds its document there, or it would bring it back.
LEMMA OtherCallsStay ==
  ASSUME NEW p, NEW d, Clean(p, d),
         \/ AddCheck(p) \/ AddVirtual(p) \/ RmGet(p) \/ RmVirtual(p) \/ RmRules(p)
         \/ StGet(p) \/ StHub(p) \/ StRead(p) \/ StSave(p) \/ StTag(p)
         \/ StKeys(p) \/ StVirtual(p) \/ StRevertGet(p) \/ StRevert(p)
         \/ UpRead(p) \/ UpSend(p) \/ UpCheck(p) \/ UpSave(p)
  PROVE  Stays(d)
<1>0. /\ TypeOK /\ p \in Proc /\ d \in Device /\ d = job[p].dev /\ job[p] \in Job
      /\ ~SavesRemoved(p) /\ DocumentsHeld /\ job[p].want # "Absent"
      /\ Opposite(job[p].want) # "Absent"
  BY UnderWay DEF Clean, TypeOK, Overruns, Job, Opposite
<1>1. pc[p] \notin Critical /\ pc'[p] \notin Critical
  <2> USE DEF Critical, Owner, GoTo, Advance, Retry, TypeOK
  <2>1. CASE AddCheck(p) \/ AddVirtual(p) \/ RmGet(p) \/ RmVirtual(p) \/ RmRules(p)
    BY <1>0, <2>1 DEF AddCheck, AddVirtual, RmGet, RmVirtual, RmRules
  <2>2. CASE \/ StGet(p) \/ StHub(p) \/ StRead(p) \/ StSave(p) \/ StTag(p)
             \/ StKeys(p) \/ StVirtual(p) \/ StRevertGet(p) \/ StRevert(p)
    BY <1>0, <2>2
    DEF StGet, StHub, StRead, StSave, StTag, StKeys, StVirtual, StRevertGet, StRevert
  <2>3. CASE UpRead(p) \/ UpSend(p) \/ UpCheck(p) \/ UpSave(p)
    BY <1>0, <2>3 DEF UpRead, UpSend, UpCheck, UpSave
  <2> QED
    BY <2>1, <2>2, <2>3
<1>2. Absent(d)' <=> Absent(d)
  BY <1>0, HubEffect
  DEF AddCheck, AddVirtual, RmGet, RmVirtual, RmRules, StGet, StHub, StRead, StSave,
      StTag, StKeys, StVirtual, StRevertGet, StRevert, UpRead, UpSend, UpCheck, UpSave,
      ReplaceStatus, CanReplace, stores
<1>3. \A g \in Guid : docs'[g].dev = docs[g].dev
  <2>1. CASE docs' = docs
    BY <2>1
  <2>2. CASE docs' # docs
    <3>1. PICK s : Upsert(job[p].guid, d, s) /\ pc[p] \in {"stSave", "upSave"}
      BY <1>0, <2>2
      DEF AddCheck, AddVirtual, RmGet, RmVirtual, RmRules, StGet, StHub, StRead, StSave,
          StTag, StKeys, StVirtual, StRevertGet, StRevert, UpRead, UpSend, UpCheck,
          UpSave, stores
    <3>2. docs[job[p].guid].dev = d
      BY <1>0, <2>2, <3>1 DEF SavesRemoved, DocumentsHeld, Holding
    <3> QED
      BY <1>0, <3>1, <3>2 DEF Upsert, TypeOK
  <2> QED
    BY <2>1, <2>2
<1> QED
  BY <1>1, <1>2, <1>3, Aside

LEMMA CallStays ==
  ASSUME NEW p, NEW d, Clean(p, d), Call(p)
  PROVE  Stays(d)
  BY AddHubStays, AddTwinStays, AddReadStays, AddSaveStays, AddTagStays, AddRollbackStays,
     RmHubStays, RmReadStays, RmDeleteStays, RmRollbackStays, OtherCallsStay DEF Call

\* A process that dies with one registry done leaves a gap, unless both were.
LEMMA CrashStays ==
  ASSUME NEW p, NEW d, Clean(p, d), Crash(p)
  PROVE  Stays(d)
<1>0. /\ TypeOK /\ p \in Proc /\ d \in Device /\ d = job[p].dev /\ Locked(d)
      /\ <<d, "registered">> \notin gap => Between(d)
      /\ UNCHANGED <<hub, docs>> /\ DocsOf(d)' = DocsOf(d) /\ (Absent(d)' <=> Absent(d))
      /\ pc'[p] = "idle" /\ Spoil(d, CrashSpoils(pc[p]))
  BY NoDocsEffect, HubEffect, ControlEffect DEF Clean, Crash, stores
<1>1. CASE pc[p] \notin Critical
  BY <1>0, <1>1, Aside DEF Critical, Owner
<1>2. CASE pc[p] = "addTag"
  <2>1. p \in OpenAdds(d) /\ p \notin OpenRemovals(d)
    BY <1>0, <1>2, UnderWay DEF Owner, Clean, RetriesRollback
  <2>2. p \notin OpenAdds(d)' /\ p \notin OpenRemovals(d)'
    BY <1>0, UnderWay DEF Owner
  <2> QED
    BY <1>0, <1>2, <2>1, <2>2, UnderWay DEF Stays, Locked, Between
<1>3. CASE pc[p] \in Critical \ {"addTag"}
  <2>1. <<d, "registered">> \in gap'
    <3>1. "registered" \in CrashSpoils(pc[p])
      BY <1>3 DEF CrashSpoils, Critical, Owner
    <3> QED
      BY <1>0, <3>1, GapEffect
  <2>2. p \notin OpenAdds(d)'
    BY <1>0, UnderWay DEF Owner
  <2> QED
    BY <1>0, <2>1, <2>2, UnderWay DEF Stays, Locked
<1> QED
  BY <1>1, <1>2, <1>3

-----------------------------------------------------------------------------
(* The invariant of overlapping operations.                                *)

\* A removal that goes on has seen an identity.
LEMMA SeenStep ==
  ASSUME TypeOK, SeenPresent, NEW p \in Proc, Call(p) \/ Crash(p), Alone(p)
  PROVE  SeenPresent'
<1> DEFINE L == {"rmHub", "rmRead", "rmDelete", "rmRollback"}
<1>1. pc'[p] \in L => job'[p].seen # "Absent"
  <2>0. job[p] \in Job /\ (pc[p] \in L => job[p].seen # "Absent")
    BY DEF TypeOK, SeenPresent
  <2>1. CASE RmGet(p)
    BY <2>0, <2>1 DEF RmGet, GoTo, Advance, Retry, TypeOK, Absent, Job
  <2>2. CASE RmRead(p)
    BY <2>0, <2>2 DEF RmRead, GoTo, Advance, TypeOK, Job
  <2>3. CASE RmHub(p) \/ RmDelete(p) \/ RmVirtual(p) \/ RmRules(p) \/ RmRollback(p) \/ Crash(p)
    BY <2>0, <2>3
    DEF RmHub, RmDelete, RmVirtual, RmRules, RmRollback, Crash, GoTo, Advance, Retry, TypeOK
  <2>4. CASE \/ AddCheck(p) \/ AddHub(p) \/ AddTwin(p) \/ AddRead(p)
             \/ AddSave(p) \/ AddTag(p) \/ AddVirtual(p) \/ AddRollback(p)
    BY <2>4
    DEF AddCheck, AddHub, AddTwin, AddRead, AddSave, AddTag, AddVirtual, AddRollback,
        GoTo, Advance, Retry, TypeOK
  <2>5. CASE \/ StGet(p) \/ StHub(p) \/ StRead(p) \/ StSave(p) \/ StTag(p)
             \/ StKeys(p) \/ StVirtual(p) \/ StRevertGet(p) \/ StRevert(p)
    BY <2>5
    DEF StGet, StHub, StRead, StSave, StTag, StKeys, StVirtual, StRevertGet, StRevert,
        GoTo, Advance, Retry, TypeOK
  <2>6. CASE UpRead(p) \/ UpSend(p) \/ UpCheck(p) \/ UpSave(p)
    BY <2>6 DEF UpRead, UpSend, UpCheck, UpSave, GoTo, Advance, Retry, TypeOK
  <2> QED
    BY <2>1, <2>2, <2>3, <2>4, <2>5, <2>6 DEF Call
<1> QED
  BY <1>1 DEF SeenPresent, Alone

LEMMA WorkKeeps ==
  ASSUME OTypeOK, OverlapInv, NEW p \in Proc, Call(p) \/ Crash(p), Remember
  PROVE  OverlapInv'
<1> DEFINE d == job[p].dev
<1> USE DEF OTypeOK, OverlapInv
<1>1. pc[p] # "idle"
  BY DEF Call, Crash, AddCheck, AddHub, AddTwin, AddRead, AddSave, AddTag, AddVirtual,
         AddRollback, RmGet, RmHub, RmRead, RmDelete, RmVirtual, RmRules, RmRollback,
         StGet, StHub, StRead, StSave, StTag, StKeys, StVirtual, StRevertGet, StRevert,
         UpRead, UpSend, UpCheck, UpSave
<1>2. d \in Device
  BY <1>1 DEF TypeOK
<1>3. Alone(p) /\ LocalStep(p, d) /\ GuidStep(p, d)
  <2>1. CASE Call(p)
    BY <1>2, <2>1, AddAlone, RemoveAlone, StatusAlone, UpdateAlone DEF Call, SeenPresent
  <2>2. CASE Crash(p)
    BY <1>1, <1>2, <2>2, MoveEffect, ControlEffect, GuidEffect, HubEffect, GapEffect,
       NoDocsEffect
    DEF Crash, stores, LocalStep, GuidStep, Holding
  <2> QED
    BY <2>1, <2>2
<1>4. DocumentsHeld'
  BY <1>1, <1>2, <1>3, HeldStep
<1>5. SeenPresent'
  BY <1>3, SeenStep
<1>6. RetriesRollback'
  BY DEF RetriesRollback, Remember, RolledBack
<1>7. overrun \subseteq overrun'
  BY <1>2, <1>3, HistoryStep DEF LocalStep
<1>8. \A c \in Device : <<c, "registered">> \notin gap' => <<c, "registered">> \notin gap
  BY <1>3 DEF LocalStep, LocalGap
<1>9. ASSUME NEW c \in Device \ overrun'
      PROVE  Locked(c)' /\ (<<c, "registered">> \notin gap' => Between(c)')
  <2>1. CASE c = d
    <3>1. Clean(p, d)
      BY <1>2, <1>3, <1>7, <1>9, <2>1 DEF Clean
    <3> QED
      BY <2>1, <3>1, CallStays, CrashStays DEF Stays
  <2>2. CASE c # d
    BY <1>2, <1>3, <1>7, <1>8, <1>9, <2>2, OthersKept
  <2> QED
    BY <2>1, <2>2
<1> QED
  BY <1>4, <1>5, <1>6, <1>9

\* An operation that begins has nothing in hand and no place in a registry.
LEMMA BeginKeeps ==
  ASSUME OTypeOK, OverlapInv, NEW p \in Proc, NEW d \in Device, Begin(p, d), Remember
  PROVE  OverlapInv'
<1> USE DEF OTypeOK, OverlapInv
<1>1. PICK l \in {"addCheck", "addHub", "rmGet", "stGet", "upRead"},
           w \in {"Enabled", "Disabled"} : Start(p, d, l, w)
  BY DEF Begin, StartAdd, StartRemove, StartStatus, StartUpdate
<1>2. /\ pc[p] = "idle" /\ pc'[p] \in {"addCheck", "addHub", "rmGet", "stGet", "upRead"}
      /\ job'[p].guid = NoGuid
      /\ \A q \in Proc \ {p} : pc'[q] = pc[q] /\ job'[q] = job[q] /\ tries'[q] = tries[q]
      /\ UNCHANGED <<hub, docs, gap>>
  BY <1>1 DEF Start, Advance, NoJob, TypeOK
<1>3. again' = again /\ overrun' = overrun
  <2>1. \A q \in Proc, c \in Device : Calls(q, c) => ~RolledBack(q, c) /\ ~Overruns(q, c)
    BY <1>2 DEF Calls, Moves, RolledBack, Overruns, RemovesUnderAdd, RollsBackTwice,
                LeavesToAdd, SavesRemoved, RetriesRollback
  <2>2. \A q : q \in again' <=> q \in again
    BY <1>2, <2>1 DEF Remember, RetriesRollback
  <2>3. \A c : c \in overrun' <=> c \in overrun
    BY <2>1 DEF Remember
  <2> QED
    BY <2>2, <2>3, Zenon
<1>4. \A c : OpenAdds(c)' = OpenAdds(c) /\ OpenRemovals(c)' = OpenRemovals(c)
  BY <1>2, <1>3 DEF OpenAdds, OpenRemovals, Owner
<1>5. DocumentsHeld'
  BY <1>2, ConstantsAssumption DEF DocumentsHeld, Holding
<1>6. SeenPresent' /\ RetriesRollback'
  BY <1>2, <1>3 DEF SeenPresent, RetriesRollback
<1>7. \A c : (Absent(c)' <=> Absent(c)) /\ DocsOf(c)' = DocsOf(c)
  BY <1>2 DEF Absent, DocsOf
<1>8. \A c, q : q \in OpenAdds(c) \cup OpenRemovals(c) => pc'[q] = pc[q] /\ job'[q] = job[q]
  BY <1>2 DEF OpenAdds, OpenRemovals, Owner
<1>9. \A c : (Locked(c) => Locked(c)') /\ (Between(c) => Between(c)')
  BY <1>2, <1>4, <1>7, <1>8 DEF Locked, Between
<1> QED
  BY <1>2, <1>3, <1>5, <1>6, <1>9

\* Nobody moves: a rule is saved, or nothing happens.
LEMMA StillKeeps ==
  ASSUME OTypeOK, OverlapInv, UNCHANGED <<hub, docs, pc, job, again, overrun>>,
         \A c \in Device : <<c, "registered">> \notin gap' => <<c, "registered">> \notin gap
  PROVE  OverlapInv'
<1> USE DEF OverlapInv
<1>1. \A c : /\ (Absent(c)' <=> Absent(c)) /\ DocsOf(c)' = DocsOf(c)
             /\ OpenAdds(c)' = OpenAdds(c) /\ OpenRemovals(c)' = OpenRemovals(c)
  BY DEF Absent, DocsOf, OpenAdds, OpenRemovals
<1>2. \A c : (Locked(c) => Locked(c)') /\ (Between(c) => Between(c)')
  BY <1>1 DEF Locked, Between
<1>3. DocumentsHeld' /\ SeenPresent' /\ RetriesRollback'
  BY DEF DocumentsHeld, SeenPresent, RetriesRollback
<1> QED
  BY <1>2, <1>3

LEMMA SaveRuleStill ==
  ASSUME OTypeOK, NEW d \in Device, SaveRule(d), Remember
  PROVE  /\ UNCHANGED <<hub, docs, pc, job, again, overrun>>
         /\ \A c \in Device : <<c, "registered">> \notin gap' => <<c, "registered">> \notin gap
<1>1. UNCHANGED <<hub, docs, pc, job, tries>> /\ gap \subseteq gap'
  BY DEF SaveRule, Spoil
<1>2. \A q, c : ~Calls(q, c)
  BY <1>1 DEF Calls, Moves
<1>3. again' = again /\ overrun' = overrun
  BY <1>1, <1>2 DEF Remember, OTypeOK
<1> QED
  BY <1>1, <1>3

LEMMA OverlapInitial == OInit => OTypeOK /\ OverlapInv
<1> SUFFICES ASSUME OInit PROVE OTypeOK /\ OverlapInv
  OBVIOUS
<1>1. Init /\ again = {} /\ overrun = {} /\ OTypeOK
  BY InitTyped DEF OInit, OTypeOK
<1>2. /\ \A d \in Device : DocsOf(d) = {} /\ Absent(d)
      /\ \A d : OpenAdds(d) = {} /\ OpenRemovals(d) = {}
  BY <1>1, ConstantsAssumption
  DEF Init, DocsOf, Absent, NoDocument, NoIdentity, OpenAdds, OpenRemovals, Owner
<1>3. \A d \in Device : Locked(d) /\ Between(d)
  BY <1>2 DEF Locked, Between
<1>4. DocumentsHeld /\ SeenPresent /\ RetriesRollback
  BY <1>1 DEF Init, DocumentsHeld, SeenPresent, RetriesRollback, Holding
<1> QED
  BY <1>1, <1>3, <1>4 DEF OverlapInv

LEMMA OverlapStep == OTypeOK /\ OverlapInv /\ [ONext]_ovars => OTypeOK' /\ OverlapInv'
<1> SUFFICES ASSUME OTypeOK, OverlapInv, [ONext]_ovars PROVE OTypeOK' /\ OverlapInv'
  OBVIOUS
<1>1. OTypeOK'
  <2>1. TypeOK'
    BY NextTyped DEF ONext, ovars, OTypeOK
  <2> QED
    BY <2>1 DEF ONext, ovars, OTypeOK, Remember
<1>2. CASE UNCHANGED ovars
  <2>1. UNCHANGED <<hub, docs, pc, job, gap, again, overrun>>
    BY <1>2 DEF ovars, vars
  <2>2. UNCHANGED <<hub, docs, pc, job, again, overrun>>
    BY <2>1
  <2> QED
    BY <1>1, <2>1, <2>2, StillKeeps
<1>3. CASE ONext
  <2>0. Next
    BY <1>3 DEF ONext
  <2>1. ASSUME NEW p \in Proc, Call(p) \/ Crash(p) PROVE OverlapInv'
    BY <1>3, <2>1, WorkKeeps DEF ONext
  <2>2. ASSUME NEW p \in Proc, NEW d \in Device, Begin(p, d) PROVE OverlapInv'
    BY <1>3, <2>2, BeginKeeps DEF ONext
  <2>3. ASSUME NEW d \in Device, SaveRule(d) PROVE OverlapInv'
    BY <1>3, <2>3, SaveRuleStill, StillKeeps DEF ONext
  <2> QED
    BY <1>1, <2>0, <2>1, <2>2, <2>3 DEF Next
<1> QED
  BY <1>1, <1>2, <1>3

\* However many callers meet on a device, whatever is refused, lost, retried or
\* cut short by a crash, two documents never describe it: the identity that only
\* one add can create is the lock under which its document is inserted
\* (IotHubRepository.AddDeviceAsync before DeviceRegistryRepository.AddDeviceAsync).
\* Excepted are the devices on which one operation ran over another, in the four
\* ways of Overruns.
THEOREM DocumentsUnique == OSpec => []OneDocument
<1>1. OverlapInv => OneDocument
  BY DEF OverlapInv, Locked, OneDocument
<1> QED
  BY <1>1, OverlapInitial, OverlapStep, PTL DEF OSpec

\* Under the same exceptions a device at rest has an identity exactly when it has
\* a document, or gap records a failure that the code does not make up for: no
\* rollback of a caller undoes what another one has done.
THEOREM RegistriesAgree == OSpec => []RegistriesMatch
<1>1. ASSUME OverlapInv PROVE RegistriesMatch
  <2>1. SUFFICES ASSUME NEW d \in Device \ overrun, Sound(d, "registered")
                 PROVE  ~Absent(d) <=> DocsOf(d) # {}
    BY DEF RegistriesMatch
  <2>2. Between(d) /\ Idle(d)
    BY <1>1, <2>1 DEF OverlapInv, Sound
  <2>3. OpenAdds(d) = {} /\ OpenRemovals(d) = {}
    BY <2>2 DEF Idle, OpenAdds, OpenRemovals, Owner
  <2> QED
    BY <2>2, <2>3 DEF Between
<1> QED
  BY <1>1, OverlapInitial, OverlapStep, PTL DEF OSpec

=============================================================================
