----------------------- MODULE DeviceSerialProofs -----------------------
(***************************************************************************)
(* When callers serialise the operations of a device, its stores tell one  *)
(* story whatever calls fail, are lost or are never made: what a single    *)
(* operation leaves behind.  SerialInv is inductive, and says where an     *)
(* operation is in its two registrations.  A call of p concerns one d only *)
(* (LocalStep), so it is enough to show where it leaves p and d (Stands);  *)
(* LocalKeeps lifts that to SerialInv.  StoresAgree follows in the same    *)
(* way from Story, which says how far each operation has brought the four  *)
(* stores (Tells); StoryLocal lifts it.                                    *)
(***************************************************************************)
EXTENDS DeviceLifecycleProofs

\* What SerialInv says of process p and device d.
Stands(p, d) ==
  /\ \A g, h \in Guid : docs[g].dev = d /\ docs[h].dev = d => g = h
  /\ pc[p] = "addSave" =>
       /\ job[p].guid \in Guid
       /\ docs[job[p].guid] = NoDocument
       /\ DocsOf(d) = {}
       /\ \A q \in Proc \ {p} : pc[q] = "addSave" => job[q].guid # job[p].guid
  /\ pc[p] \in Holding => job[p].guid \in Guid /\ docs[job[p].guid].dev = d
  /\ <<d, "registered">> \notin gap => Midway(pc[p], d)
  /\ pc[p] \in {"rmHub", "rmRead", "rmDelete", "rmRollback"} => job[p].seen # "Absent"

-----------------------------------------------------------------------------
(* From one device to all of them.                                         *)

LEMMA InitSerial == Init => SerialInv
  BY ConstantsAssumption
  DEF Init, SerialInv, UniqueDocs, NewDocument, HeldDocument, Exclusive,
      RegisteredAgree, DocsOf, Absent, NoIdentity, NoDocument

LEMMA SerialStands ==
  ASSUME TypeOK, SerialInv, NEW p \in Proc, pc[p] # "idle"
  PROVE  Stands(p, job[p].dev)
  BY DEF TypeOK, SerialInv, Stands, Holding, UniqueDocs, NewDocument, HeldDocument

\* A call that writes no document leaves p standing where its label says, if p
\* has not just taken hold of a document.
LEMMA StandsKept ==
  ASSUME NEW p \in Proc, NEW d, Stands(p, d), UNCHANGED docs, LocalControl(p, d),
         pc'[p] = "addSave" => pc[p] = "addSave" /\ job'[p] = job[p],
         pc'[p] \in Holding => pc[p] \in Holding /\ job'[p] = job[p],
         pc'[p] \in {"rmHub", "rmRead", "rmDelete", "rmRollback"} => job'[p].seen # "Absent",
         <<d, "registered">> \notin gap' => Midway(pc[p], d)'
  PROVE  Stands(p, d)'
<1>1. DocsOf(d)' = DocsOf(d)
  BY DEF DocsOf
<1> QED
  BY <1>1 DEF Stands, LocalControl

\* A call of p on d writes no document of another device.
LEMMA OtherDocs ==
  ASSUME TypeOK, NEW p \in Proc, NEW d \in Device, LocalDocs(p, d), Stands(p, d)
  PROVE  \A g \in Guid : docs[g].dev \in Device \ {d} \/ docs'[g].dev \in Device \ {d}
                        => docs'[g] = docs[g]
<1>1. CASE docs' = docs
  BY <1>1
<1>2. CASE pc[p] \in {"addSave", "rmDelete", "stSave", "upSave"}
  <2>1. job[p].guid \in Guid /\ docs[job[p].guid].dev \in {d, NoDevice}
    BY <1>2 DEF Stands, Holding, NoDocument
  <2> QED
    BY <2>1, ConstantsAssumption DEF LocalDocs, TypeOK
<1> QED
  BY <1>1, <1>2 DEF LocalDocs

LEMMA LocalKeeps ==
  ASSUME TypeOK, SerialInv, NEW p \in Proc, pc[p] # "idle",
         NEW d \in Device, d = job[p].dev,
         LocalStep(p, d), Stands(p, d)', TypeOK'
  PROVE  SerialInv'
<1>0. d # NoDevice
  BY ConstantsAssumption DEF TypeOK
<1>a. Stands(p, d)
  BY SerialStands
<1>b. \A q \in Proc \ {p} : pc[q] # "idle" => job[q].dev # d
  BY DEF SerialInv, Exclusive
<1>c. \A q \in Proc \ {p} : pc'[q] = pc[q] /\ job'[q] = job[q]
  BY DEF LocalStep, LocalControl
<1>d. pc'[p] = "idle" \/ job'[p].dev = d
  BY DEF LocalStep, LocalControl
<1>e. \A g \in Guid : docs[g].dev \in Device \ {d} \/ docs'[g].dev \in Device \ {d}
                     => docs'[g] = docs[g]
  BY <1>a, OtherDocs DEF LocalStep
<1>f. \A c \in Device \ {d} : DocsOf(c)' = DocsOf(c) /\ Absent(c)' = Absent(c)
  BY <1>e DEF DocsOf, Absent, LocalStep, LocalHub
<1>g. \A q \in Proc \ {p} : pc[q] = "addSave" => docs'[job[q].guid] = docs[job[q].guid]
  <2>1. CASE docs' = docs
    BY <2>1
  <2>2. CASE pc[p] \in {"addSave", "rmDelete", "stSave", "upSave"}
    <3> SUFFICES ASSUME NEW q \in Proc \ {p}, pc[q] = "addSave"
                 PROVE  job[q].guid # job[p].guid
      BY DEF SerialInv, NewDocument, LocalStep, LocalDocs, TypeOK
    <3>1. CASE pc[p] = "addSave"
      BY <3>1 DEF SerialInv, NewDocument
    <3>2. CASE pc[p] # "addSave"
      BY <1>0, <1>a, <2>2, <3>2 DEF Stands, Holding, SerialInv, NewDocument, NoDocument
    <3> QED
      BY <3>1, <3>2
  <2> QED
    BY <2>1, <2>2 DEF LocalStep, LocalDocs
<1>1. UniqueDocs'
  BY <1>e DEF SerialInv, UniqueDocs, Stands, TypeOK
<1>2. NewDocument'
  <2>1. ASSUME NEW q \in Proc, pc'[q] = "addSave", q # p
        PROVE  /\ job'[q].guid \in Guid
               /\ docs'[job'[q].guid] = NoDocument
               /\ DocsOf(job[q].dev)' = {}
               /\ \A r \in Proc \ {q} : pc'[r] = "addSave" => job'[r].guid # job'[q].guid
    <3>1. job[q].dev \in Device \ {d}
      BY <1>b, <1>c, <2>1 DEF TypeOK
    <3>2. /\ job'[q] = job[q] /\ pc[q] = "addSave"
          /\ job[q].guid \in Guid /\ docs[job[q].guid] = NoDocument
          /\ DocsOf(job[q].dev) = {}
      BY <1>c, <2>1 DEF SerialInv, NewDocument
    <3>3. DocsOf(job[q].dev)' = {}
      BY <1>f, <3>1, <3>2 DEF DocsOf
    <3>4. \A r \in Proc \ {q} : pc'[r] = "addSave" => job'[r].guid # job'[q].guid
      <4>1. pc'[p] = "addSave" => job'[p].guid # job'[q].guid
        BY <2>1 DEF Stands
      <4> QED
        BY <1>c, <3>2, <4>1 DEF SerialInv, NewDocument
    <3> QED
      BY <1>g, <2>1, <3>2, <3>3, <3>4
  <2>2. pc'[p] = "addSave" =>
          /\ job'[p].guid \in Guid
          /\ docs'[job'[p].guid] = NoDocument
          /\ DocsOf(job[p].dev)' = {}
          /\ \A r \in Proc \ {p} : pc'[r] = "addSave" => job'[r].guid # job'[p].guid
    BY <1>d DEF Stands, DocsOf
  <2> QED
    BY <2>1, <2>2 DEF NewDocument
<1>3. HeldDocument'
  <2>1. ASSUME NEW q \in Proc, pc'[q] \in Holding, q # p
        PROVE  job'[q].guid \in Guid /\ docs'[job'[q].guid].dev = job'[q].dev
    <3>1. job[q].dev \in Device \ {d}
      BY <1>b, <1>c, <2>1 DEF TypeOK, Holding
    <3> QED
      BY <1>c, <1>e, <2>1, <3>1 DEF SerialInv, HeldDocument, Holding
  <2> QED
    BY <1>d, <2>1 DEF HeldDocument, Stands, Holding
<1>4. Exclusive'
  BY <1>b, <1>c, <1>d DEF SerialInv, Exclusive
<1>5. RegisteredAgree'
  <2> SUFFICES ASSUME NEW c \in Device, Sound(c, "registered")'
               PROVE  (~Absent(c) <=> DocsOf(c) # {})'
    BY DEF RegisteredAgree
  <2>1. CASE c = d
    <3>1. pc'[p] = "idle"
      BY <1>d, <2>1 DEF Sound, Idle
    <3> QED
      BY <2>1, <3>1 DEF Stands, Midway, Sound
  <2>2. CASE c # d
    <3>1. Sound(c, "registered")
      BY <1>c, <2>2 DEF Sound, Idle, LocalStep, LocalGap
    <3> QED
      BY <1>f, <2>2, <3>1 DEF SerialInv, RegisteredAgree
  <2> QED
    BY <2>1, <2>2
<1>6. ASSUME NEW q \in Proc, pc'[q] # "idle",
             <<job'[q].dev, "registered">> \notin gap'
      PROVE  Midway(pc[q], job[q].dev)'
  <2>1. CASE q = p
    BY <1>6, <1>d, <2>1 DEF Stands, Midway, Absent, DocsOf
  <2>2. CASE q # p
    <3>1. job[q].dev \in Device \ {d} /\ Midway(pc[q], job[q].dev)
      BY <1>6, <1>b, <1>c, <2>2 DEF TypeOK, SerialInv, LocalStep, LocalGap
    <3> QED
      BY <1>c, <1>f, <2>2, <3>1 DEF Midway
  <2> QED
    BY <2>1, <2>2
<1>7. \A q \in Proc : pc'[q] \in {"rmHub", "rmRead", "rmDelete", "rmRollback"} =>
        job'[q].seen # "Absent"
  BY <1>c DEF SerialInv, Stands
<1> QED
  BY <1>1, <1>2, <1>3, <1>4, <1>5, <1>6, <1>7 DEF SerialInv

-----------------------------------------------------------------------------
(* Every call is local and leaves its process where it should stand.       *)

\* The call neither registers nor unregisters d.
Kept(d) == (Absent(d)' <=> Absent(d)) /\ DocsOf(d)' = DocsOf(d)

LEMMA AddSteps ==
  ASSUME TypeOK, SerialInv, NEW p \in Proc, NEW d \in Device, d = job[p].dev,
         \/ AddCheck(p) \/ AddHub(p) \/ AddTwin(p) \/ AddRead(p)
         \/ AddSave(p) \/ AddTag(p) \/ AddVirtual(p) \/ AddRollback(p)
  PROVE  LocalStep(p, d) /\ Stands(p, d)'
<1>0. pc[p] # "idle"
  BY DEF AddCheck, AddHub, AddTwin, AddRead, AddSave, AddTag, AddVirtual, AddRollback
<1>1. Stands(p, d)
  BY <1>0, SerialStands
<1>2. /\ d # NoDevice /\ job[p] \in Job
      /\ job[p].want # "Absent" /\ Opposite(job[p].want) # "Absent"
  BY ConstantsAssumption DEF TypeOK, Job, Opposite
<1>3. CASE AddCheck(p)
  <2>1. LocalStep(p, d)
    BY <1>1, <1>2, <1>3, ControlEffect, HubEffect, GapEffect, NoDocsEffect
    DEF AddCheck, stores, LocalStep
  <2>2. /\ pc[p] = "addCheck"
        /\ Kept(d) /\ pc'[p] \in {"addHub", "idle"}
    BY <1>1, <1>2, <1>3, ControlEffect, HubEffect, GapEffect, NoDocsEffect
    DEF AddCheck, stores, Kept
  <2>3. <<d, "registered">> \notin gap' => Midway(pc[p], d)'
    BY <1>1, <2>1, <2>2, GapEffect DEF Stands, Midway, Kept, LocalStep
  <2>4. UNCHANGED docs
    BY <1>3 DEF AddCheck, stores
  <2>5. pc'[p] \in Holding \cup {"rmHub", "rmRead", "rmRollback"} => job'[p] = job[p]
    BY <1>3, <2>2, ControlEffect DEF AddCheck, Holding
  <2> QED
    BY <1>1, <2>1, <2>2, <2>3, <2>4, <2>5, StandsKept DEF LocalStep, Holding, Stands
<1>4. CASE AddHub(p)
  <2>1. LocalStep(p, d)
    BY <1>1, <1>2, <1>4, ControlEffect, HubEffect, GapEffect, NoDocsEffect
    DEF AddHub, stores, LocalStep
  <2>2. /\ pc[p] = "addHub"
        /\ \/ Absent(d) /\ DocsOf(d)' = DocsOf(d) /\ ~Absent(d)' /\ pc'[p] \in {"addTwin", "addRead"}
           \/ <<d, "registered">> \in gap' /\ pc'[p] \in {"addHub", "idle"}
           \/ Kept(d) /\ pc'[p] \in {"addHub", "idle"}
    BY <1>1, <1>2, <1>4, ControlEffect, HubEffect, GapEffect, NoDocsEffect
    DEF AddHub, stores, Kept
  <2>3. <<d, "registered">> \notin gap' => Midway(pc[p], d)'
    BY <1>1, <2>1, <2>2, GapEffect DEF Stands, Midway, Kept, LocalStep
  <2>4. UNCHANGED docs
    BY <1>4 DEF AddHub, stores
  <2>5. pc'[p] \in Holding \cup {"rmHub", "rmRead", "rmRollback"} => job'[p] = job[p]
    BY <1>4, <2>2, ControlEffect DEF AddHub, Holding
  <2> QED
    BY <1>1, <2>1, <2>2, <2>3, <2>4, <2>5, StandsKept DEF LocalStep, Holding, Stands
<1>5. CASE AddTwin(p)
  <2>1. LocalStep(p, d)
    BY <1>1, <1>2, <1>5, ControlEffect, HubEffect, GapEffect, NoDocsEffect
    DEF AddTwin, stores, LocalStep
  <2>2. /\ pc[p] = "addTwin"
        /\ \/ Kept(d) /\ pc'[p] = "addRead"
           \/ <<d, "registered">> \in gap' /\ pc'[p] = "idle"
    BY <1>1, <1>2, <1>5, ControlEffect, HubEffect, GapEffect, NoDocsEffect
    DEF AddTwin, stores, Kept
  <2>3. <<d, "registered">> \notin gap' => Midway(pc[p], d)'
    BY <1>1, <2>1, <2>2, GapEffect DEF Stands, Midway, Kept, LocalStep
  <2>4. UNCHANGED docs
    BY <1>5 DEF AddTwin, stores
  <2>5. pc'[p] \in Holding \cup {"rmHub", "rmRead", "rmRollback"} => job'[p] = job[p]
    BY <1>5, <2>2, ControlEffect DEF AddTwin, Holding
  <2> QED
    BY <1>1, <2>1, <2>2, <2>3, <2>4, <2>5, StandsKept DEF LocalStep, Holding, Stands
<1>6. CASE AddRead(p)
  <2>1. UNCHANGED <<stores, gap>> /\ pc[p] = "addRead" /\ Kept(d)
    BY <1>6, HubEffect, NoDocsEffect DEF AddRead, stores, Kept
  <2>2. ASSUME NEW g \in Guid, NEW s, DocsOf(d) = {}, FreshGuid(g),
               Advance(p, "addSave", [job[p] EXCEPT !.guid = g, !.state = s])
        PROVE  LocalControl(p, d) /\ Stands(p, d)'
    <3>1. PICK j : j = [job[p] EXCEPT !.guid = g, !.state = s]
      OBVIOUS
    <3>2. j.dev = d /\ j.guid = g
      BY <1>2, <3>1, JobExcept
    <3>0. Advance(p, "addSave", j)
      BY <2>2, <3>1
    <3>3. LocalControl(p, d) /\ pc'[p] = "addSave" /\ job'[p] = j
      BY <3>0, <3>2, ControlEffect
    <3>4. <<d, "registered">> \notin gap' => Midway(pc[p], d)'
      BY <1>1, <2>1, <2>2, <3>3 DEF Stands, Midway, Kept
    <3>5. docs' = docs /\ docs[g] = NoDocument /\ DocsOf(d)' = {}
      BY <2>1, <2>2 DEF stores, FreshGuid, Kept
    <3>6. \A q \in Proc \ {p} : job'[q].guid # g
      BY <2>2, <3>3 DEF FreshGuid, LocalControl
    <3> QED
      BY <1>1, <3>2, <3>3, <3>4, <3>5, <3>6 DEF Stands, Holding
  <2>3. ASSUME GoTo(p, "addRollback") PROVE LocalControl(p, d) /\ Stands(p, d)'
    <3>1. LocalControl(p, d) /\ pc'[p] = "addRollback"
      BY <2>3, ControlEffect
    <3>2. <<d, "registered">> \notin gap' => Midway(pc[p], d)'
      BY <1>1, <2>1, <3>1 DEF Stands, Midway, Kept
    <3> QED
      BY <1>1, <2>1, <3>1, <3>2, StandsKept DEF Holding, stores
  <2>4. LocalControl(p, d) /\ Stands(p, d)'
    BY <1>6, <2>2, <2>3 DEF AddRead
  <2> QED
    BY <2>1, <2>4, HubEffect, GapEffect, NoDocsEffect DEF LocalStep, stores
<1>7. CASE AddSave(p)
  <2>1. pc[p] = "addSave" /\ job[p].guid \in Guid /\ DocsOf(d) = {} /\ job[p].state \in DocState
    BY <1>1, <1>2, <1>7 DEF AddSave, Stands, Job
  <2>2. /\ LocalHub(d) /\ LocalGap(d) /\ LocalControl(p, d)
        /\ Absent(d)' <=> Absent(d)
        /\ \/ Upsert(job[p].guid, d, job[p].state) /\ pc'[p] = "addTag"
           \/ /\ Upsert(job[p].guid, d, job[p].state)
              /\ pc'[p] = "addRollback" /\ <<d, "registered">> \in gap'
           \/ docs' = docs /\ pc'[p] = "addRollback"
    BY <1>7, ControlEffect, HubEffect, GapEffect DEF AddSave
  <2>3. CASE /\ Upsert(job[p].guid, d, job[p].state)
             /\ \/ pc'[p] = "addTag"
                \/ pc'[p] = "addRollback" /\ <<d, "registered">> \in gap'
    <3>1. /\ DocsOf(d)' = {job[p].guid}
          /\ \A h, i \in Guid : docs'[h].dev = d /\ docs'[i].dev = d => h = i
          /\ LocalDocs(p, d)
      BY <2>1, <2>3, InsertEffect DEF LocalDocs
    <3>2. <<d, "registered">> \notin gap' => Midway(pc[p], d)'
      BY <1>1, <2>1, <2>2, <2>3, <3>1, GapEffect DEF Stands, Midway
    <3> QED
      BY <2>2, <2>3, <3>1, <3>2 DEF LocalStep, Stands, Holding
  <2>4. CASE docs' = docs /\ pc'[p] = "addRollback"
    <3>1. <<d, "registered">> \notin gap' => Midway(pc[p], d)'
      BY <1>1, <2>1, <2>2, <2>4, GapEffect, NoDocsEffect DEF Stands, Midway
    <3> QED
      BY <1>1, <2>2, <2>4, <3>1, StandsKept, NoDocsEffect DEF LocalStep, Holding
  <2> QED
    BY <2>2, <2>3, <2>4
<1>8. CASE AddTag(p)
  <2>1. LocalStep(p, d)
    BY <1>1, <1>2, <1>8, ControlEffect, HubEffect, GapEffect, NoDocsEffect
    DEF AddTag, stores, LocalStep
  <2>2. /\ pc[p] = "addTag"
        /\ \/ Kept(d) /\ pc'[p] \in {"addVirtual", "idle"}
           \/ <<d, "registered">> \in gap' /\ pc'[p] = "addRollback"
    BY <1>1, <1>2, <1>8, ControlEffect, HubEffect, GapEffect, NoDocsEffect
    DEF AddTag, stores, Kept
  <2>3. <<d, "registered">> \notin gap' => Midway(pc[p], d)'
    BY <1>1, <2>1, <2>2, GapEffect DEF Stands, Midway, Kept, LocalStep
  <2>4. UNCHANGED docs
    BY <1>8 DEF AddTag, stores
  <2>5. pc'[p] \in Holding \cup {"rmHub", "rmRead", "rmRollback"} => job'[p] = job[p]
    BY <1>8, <2>2, ControlEffect DEF AddTag, Holding
  <2> QED
    BY <1>1, <2>1, <2>2, <2>3, <2>4, <2>5, StandsKept DEF LocalStep, Holding, Stands
<1>9. CASE AddVirtual(p)
  <2>1. LocalStep(p, d)
    BY <1>1, <1>2, <1>9, ControlEffect, HubEffect, GapEffect, NoDocsEffect
    DEF AddVirtual, stores, LocalStep
  <2>2. /\ pc[p] = "addVirtual"
        /\ Kept(d) /\ pc'[p] = "idle"
    BY <1>1, <1>2, <1>9, ControlEffect, HubEffect, GapEffect, NoDocsEffect
    DEF AddVirtual, stores, Kept
  <2>3. <<d, "registered">> \notin gap' => Midway(pc[p], d)'
    BY <1>1, <2>1, <2>2, GapEffect DEF Stands, Midway, Kept, LocalStep
  <2>4. UNCHANGED docs
    BY <1>9 DEF AddVirtual, stores
  <2>5. pc'[p] \in Holding \cup {"rmHub", "rmRead", "rmRollback"} => job'[p] = job[p]
    BY <1>9, <2>2, ControlEffect DEF AddVirtual, Holding
  <2> QED
    BY <1>1, <2>1, <2>2, <2>3, <2>4, <2>5, StandsKept DEF LocalStep, Holding, Stands
<1>10. CASE AddRollback(p)
  <2>1. LocalStep(p, d)
    BY <1>1, <1>2, <1>10, ControlEffect, HubEffect, GapEffect, NoDocsEffect
    DEF AddRollback, stores, LocalStep
  <2>2. /\ pc[p] = "addRollback"
        /\ \/ DocsOf(d)' = DocsOf(d) /\ Absent(d)' /\ pc'[p] \in {"addRollback", "idle"}
           \/ Kept(d) /\ pc'[p] = "addRollback"
           \/ <<d, "registered">> \in gap' /\ pc'[p] = "idle"
    BY <1>1, <1>2, <1>10, ControlEffect, HubEffect, GapEffect, NoDocsEffect
    DEF AddRollback, stores, Kept
  <2>3. <<d, "registered">> \notin gap' => Midway(pc[p], d)'
    BY <1>1, <2>1, <2>2, GapEffect DEF Stands, Midway, Kept, LocalStep
  <2>4. UNCHANGED docs
    BY <1>10 DEF AddRollback, stores
  <2>5. pc'[p] \in Holding \cup {"rmHub", "rmRead", "rmRollback"} => job'[p] = job[p]
    BY <1>10, <2>2, ControlEffect DEF AddRollback, Holding
  <2> QED
    BY <1>1, <2>1, <2>2, <2>3, <2>4, <2>5, StandsKept DEF LocalStep, Holding, Stands
<1> QED
  BY <1>3, <1>4, <1>5, <1>6, <1>7, <1>8, <1>9, <1>10

LEMMA RemoveSteps ==
  ASSUME TypeOK, SerialInv, NEW p \in Proc, NEW d \in Device, d = job[p].dev,
         \/ RmGet(p) \/ RmHub(p) \/ RmRead(p) \/ RmDelete(p)
         \/ RmVirtual(p) \/ RmRules(p) \/ RmRollback(p)
  PROVE  LocalStep(p, d) /\ Stands(p, d)'
<1>0. pc[p] # "idle"
  BY DEF RmGet, RmHub, RmRead, RmDelete, RmVirtual, RmRules, RmRollback
<1>1. Stands(p, d)
  BY <1>0, SerialStands
<1>2. /\ d # NoDevice /\ job[p] \in Job
      /\ job[p].want # "Absent" /\ Opposite(job[p].want) # "Absent"
  BY ConstantsAssumption DEF TypeOK, Job, Opposite
<1>3. CASE RmGet(p)
  <2>1. PICK j : j = [job[p] EXCEPT !.seen = hub[d].status]
    OBVIOUS
  <2>2. j.dev = d /\ j.seen = hub[d].status
    BY <1>2, <2>1, JobExcept
  <2>3. /\ \/ ~Absent(d) /\ Advance(p, "rmHub", j)
           \/ GoTo(p, "idle")
           \/ Retry(p)
        /\ pc[p] = "rmGet" /\ UNCHANGED <<stores, gap>>
    BY <1>3, <2>1 DEF RmGet
  <2>4. LocalControl(p, d) /\ Kept(d) /\ UNCHANGED <<stores, gap>>
    BY <2>2, <2>3, ControlEffect, HubEffect, NoDocsEffect DEF stores, Kept
  <2>5. pc'[p] \in {"rmGet", "idle"} \/ (pc'[p] = "rmHub" /\ job'[p].seen # "Absent")
    BY <2>2, <2>3, ControlEffect DEF Absent
  <2>6. LocalStep(p, d)
    BY <2>4, HubEffect, GapEffect, NoDocsEffect DEF LocalStep, stores
  <2>7. <<d, "registered">> \notin gap' => Midway(pc[p], d)'
    BY <1>1, <2>3, <2>4, <2>5 DEF Stands, Midway, Kept
  <2> QED
    BY <1>1, <2>4, <2>5, <2>6, <2>7, StandsKept DEF Holding, stores
<1>4. CASE RmHub(p)
  <2>1. LocalStep(p, d)
    BY <1>1, <1>2, <1>4, ControlEffect, HubEffect, GapEffect, NoDocsEffect
    DEF RmHub, stores, LocalStep
  <2>2. /\ pc[p] = "rmHub"
        /\ \/ ~Absent(d) /\ Absent(d)' /\ DocsOf(d)' = DocsOf(d) /\ pc'[p] = "rmRead"
           \/ <<d, "registered">> \in gap' /\ pc'[p] \in {"rmHub", "idle"}
           \/ Kept(d) /\ pc'[p] \in {"rmHub", "idle"}
    BY <1>1, <1>2, <1>4, ControlEffect, HubEffect, GapEffect, NoDocsEffect
    DEF RmHub, stores, Kept
  <2>3. <<d, "registered">> \notin gap' => Midway(pc[p], d)'
    BY <1>1, <2>1, <2>2, GapEffect DEF Stands, Midway, Kept, LocalStep
  <2>4. UNCHANGED docs
    BY <1>4 DEF RmHub, stores
  <2>5. pc'[p] \in Holding \cup {"rmHub", "rmRead", "rmRollback"} => job'[p] = job[p]
    BY <1>4, <2>2, ControlEffect DEF RmHub, Holding
  <2> QED
    BY <1>1, <2>1, <2>2, <2>3, <2>4, <2>5, StandsKept DEF LocalStep, Holding, Stands
<1>5. CASE RmRead(p)
  <2>1. UNCHANGED <<stores, gap>> /\ pc[p] = "rmRead" /\ Kept(d)
    BY <1>5, HubEffect, NoDocsEffect DEF RmRead, stores, Kept
  <2>2. ASSUME NEW g \in DocsOf(d), Advance(p, "rmDelete", [job[p] EXCEPT !.guid = g])
        PROVE  LocalControl(p, d) /\ Stands(p, d)'
    <3>1. PICK j : j = [job[p] EXCEPT !.guid = g]
      OBVIOUS
    <3>2. j.dev = d /\ j.guid = g /\ j.seen = job[p].seen
      BY <1>2, <3>1, JobExcept
    <3>0. Advance(p, "rmDelete", j)
      BY <2>2, <3>1
    <3>3. LocalControl(p, d) /\ pc'[p] = "rmDelete" /\ job'[p] = j
      BY <3>0, <3>2, ControlEffect
    <3>4. <<d, "registered">> \notin gap' => Midway(pc[p], d)'
      BY <1>1, <2>1, <3>3 DEF Stands, Midway, Kept
    <3>5. docs' = docs /\ g \in Guid /\ docs[g].dev = d
      BY <2>1, <2>2 DEF stores, DocsOf
    <3> QED
      BY <1>1, <2>1, <3>2, <3>3, <3>4, <3>5 DEF Stands, Holding
  <2>3. ASSUME GoTo(p, "rmRollback") PROVE LocalControl(p, d) /\ Stands(p, d)'
    <3>1. LocalControl(p, d) /\ pc'[p] = "rmRollback" /\ ("rmRollback" # "idle" => job'[p] = job[p])
      BY <2>3, ControlEffect
    <3>2. <<d, "registered">> \notin gap' => Midway(pc[p], d)'
      BY <1>1, <2>1, <3>1 DEF Stands, Midway, Kept
    <3>3. pc'[p] \in {"rmHub", "rmRead", "rmDelete", "rmRollback"} => job'[p].seen # "Absent"
      BY <1>1, <2>1, <3>1 DEF Stands
    <3> QED
      BY <1>1, <2>1, <3>1, <3>2, <3>3, StandsKept DEF Holding, stores
  <2>4. LocalControl(p, d) /\ Stands(p, d)'
    BY <1>5, <2>2, <2>3 DEF RmRead
  <2> QED
    BY <2>1, <2>4, HubEffect, GapEffect, NoDocsEffect DEF LocalStep, stores
<1>6. CASE RmDelete(p)
  <2>1. /\ pc[p] = "rmDelete" /\ job[p].guid \in Guid /\ docs[job[p].guid].dev = d
        /\ job[p].seen # "Absent"
        /\ \A h, i \in Guid : docs[h].dev = d /\ docs[i].dev = d => h = i
    BY <1>1, <1>6 DEF RmDelete, Stands, Holding
  <2>2. /\ LocalHub(d) /\ LocalGap(d) /\ LocalControl(p, d)
        /\ Absent(d)' <=> Absent(d)
        /\ \/ DeleteDoc(job[p].guid) /\ pc'[p] = "rmVirtual"
           \/ /\ DeleteDoc(job[p].guid) /\ job'[p] = job[p]
              /\ pc'[p] = "rmRollback" /\ <<d, "registered">> \in gap'
           \/ docs' = docs /\ pc'[p] = "rmRollback" /\ job'[p] = job[p]
    BY <1>6, ControlEffect, HubEffect, GapEffect DEF RmDelete
  <2>3. CASE /\ DeleteDoc(job[p].guid)
             /\ \/ pc'[p] = "rmVirtual"
                \/ /\ pc'[p] = "rmRollback" /\ job'[p] = job[p]
                   /\ <<d, "registered">> \in gap'
    <3>1. DocsOf(d)' = {} /\ LocalDocs(p, d)
      BY <2>1, <2>3, DeleteDocEffect DEF LocalDocs
    <3>2. \A h \in Guid : docs'[h].dev # d
      BY <3>1 DEF DocsOf
    <3>3. <<d, "registered">> \notin gap' => Midway(pc[p], d)'
      BY <1>1, <2>1, <2>2, <2>3, <3>1, GapEffect DEF Stands, Midway
    <3> QED
      BY <2>1, <2>2, <2>3, <3>1, <3>2, <3>3 DEF LocalStep, Stands, Holding
  <2>4. CASE docs' = docs /\ pc'[p] = "rmRollback" /\ job'[p] = job[p]
    <3>1. <<d, "registered">> \notin gap' => Midway(pc[p], d)'
      BY <1>1, <2>1, <2>2, <2>4, GapEffect, NoDocsEffect DEF Stands, Midway
    <3> QED
      BY <1>1, <2>1, <2>2, <2>4, <3>1, StandsKept, NoDocsEffect DEF LocalStep, Holding
  <2> QED
    BY <2>2, <2>3, <2>4
<1>7. CASE RmVirtual(p)
  <2>1. LocalStep(p, d)
    BY <1>1, <1>2, <1>7, ControlEffect, HubEffect, GapEffect, NoDocsEffect
    DEF RmVirtual, stores, LocalStep
  <2>2. /\ pc[p] = "rmVirtual"
        /\ Kept(d) /\ pc'[p] = "rmRules"
    BY <1>1, <1>2, <1>7, ControlEffect, HubEffect, GapEffect, NoDocsEffect
    DEF RmVirtual, stores, Kept
  <2>3. <<d, "registered">> \notin gap' => Midway(pc[p], d)'
    BY <1>1, <2>1, <2>2, GapEffect DEF Stands, Midway, Kept, LocalStep
  <2>4. UNCHANGED docs
    BY <1>7 DEF RmVirtual, stores
  <2>5. pc'[p] \in Holding \cup {"rmHub", "rmRead", "rmRollback"} => job'[p] = job[p]
    BY <1>7, <2>2, ControlEffect DEF RmVirtual, Holding
  <2> QED
    BY <1>1, <2>1, <2>2, <2>3, <2>4, <2>5, StandsKept DEF LocalStep, Holding, Stands
<1>8. CASE RmRules(p)
  <2>1. LocalStep(p, d)
    BY <1>1, <1>2, <1>8, ControlEffect, HubEffect, GapEffect, NoDocsEffect
    DEF RmRules, stores, LocalStep
  <2>2. /\ pc[p] = "rmRules"
        /\ Kept(d) /\ pc'[p] = "idle"
    BY <1>1, <1>2, <1>8, ControlEffect, HubEffect, GapEffect, NoDocsEffect
    DEF RmRules, stores, Kept
  <2>3. <<d, "registered">> \notin gap' => Midway(pc[p], d)'
    BY <1>1, <2>1, <2>2, GapEffect DEF Stands, Midway, Kept, LocalStep
  <2>4. UNCHANGED docs
    BY <1>8 DEF RmRules, stores
  <2>5. pc'[p] \in Holding \cup {"rmHub", "rmRead", "rmRollback"} => job'[p] = job[p]
    BY <1>8, <2>2, ControlEffect DEF RmRules, Holding
  <2> QED
    BY <1>1, <2>1, <2>2, <2>3, <2>4, <2>5, StandsKept DEF LocalStep, Holding, Stands
<1>9. CASE RmRollback(p)
  <2>1. LocalStep(p, d)
    BY <1>1, <1>2, <1>9, ControlEffect, HubEffect, GapEffect, NoDocsEffect
    DEF RmRollback, stores, LocalStep, Stands
  <2>2. /\ pc[p] = "rmRollback"
        /\ \/ DocsOf(d)' = DocsOf(d) /\ ~Absent(d)' /\ pc'[p] \in {"rmRollback", "idle"}
           \/ Kept(d) /\ pc'[p] = "rmRollback"
           \/ <<d, "registered">> \in gap' /\ pc'[p] = "idle"
    BY <1>1, <1>2, <1>9, ControlEffect, HubEffect, GapEffect, NoDocsEffect
    DEF RmRollback, stores, Kept, Stands
  <2>3. <<d, "registered">> \notin gap' => Midway(pc[p], d)'
    BY <1>1, <2>1, <2>2, GapEffect DEF Stands, Midway, Kept, LocalStep
  <2>4. UNCHANGED docs
    BY <1>9 DEF RmRollback, stores
  <2>5. pc'[p] \in Holding \cup {"rmHub", "rmRead", "rmRollback"} => job'[p] = job[p]
    BY <1>9, <2>2, ControlEffect DEF RmRollback, Holding
  <2> QED
    BY <1>1, <2>1, <2>2, <2>3, <2>4, <2>5, StandsKept DEF LocalStep, Holding, Stands
<1> QED
  BY <1>3, <1>4, <1>5, <1>6, <1>7, <1>8, <1>9

LEMMA StatusSteps ==
  ASSUME TypeOK, SerialInv, NEW p \in Proc, NEW d \in Device, d = job[p].dev,
         \/ StGet(p) \/ StHub(p) \/ StRead(p) \/ StSave(p)
         \/ StTag(p) \/ StKeys(p) \/ StVirtual(p) \/ StRevertGet(p)
         \/ StRevert(p)
  PROVE  LocalStep(p, d) /\ Stands(p, d)'
<1>0. pc[p] # "idle"
  BY DEF StGet, StHub, StRead, StSave, StTag, StKeys, StVirtual, StRevertGet, StRevert
<1>1. Stands(p, d)
  BY <1>0, SerialStands
<1>2. /\ d # NoDevice /\ job[p] \in Job
      /\ job[p].want # "Absent" /\ Opposite(job[p].want) # "Absent"
  BY ConstantsAssumption DEF TypeOK, Job, Opposite
<1>3. CASE StGet(p)
  <2>1. PICK j : j = [job[p] EXCEPT !.seen = hub[d].status, !.etag = hub[d].etag]
    OBVIOUS
  <2>2. j.dev = d
    BY <1>2, <2>1, JobExcept
  <2>3. /\ Advance(p, "stHub", j) \/ GoTo(p, "idle") \/ Retry(p)
        /\ pc[p] = "stGet" /\ UNCHANGED <<stores, gap>>
    BY <1>3, <2>1 DEF StGet
  <2>4. LocalControl(p, d) /\ Kept(d) /\ pc'[p] \in {"stHub", "stGet", "idle"}
    BY <2>2, <2>3, ControlEffect, HubEffect, NoDocsEffect DEF stores, Kept
  <2>5. LocalStep(p, d)
    BY <2>3, <2>4, HubEffect, GapEffect, NoDocsEffect DEF LocalStep, stores
  <2>6. <<d, "registered">> \notin gap' => Midway(pc[p], d)'
    BY <1>1, <2>3, <2>4 DEF Stands, Midway, Kept
  <2> QED
    BY <1>1, <2>3, <2>4, <2>5, <2>6, StandsKept DEF Holding, stores
<1>4. CASE StHub(p)
  <2>1. LocalStep(p, d)
    BY <1>1, <1>2, <1>4, ControlEffect, HubEffect, GapEffect, NoDocsEffect
    DEF StHub, stores, LocalStep, ReplaceStatus, CanReplace
  <2>2. /\ pc[p] = "stHub"
        /\ Kept(d) /\ pc'[p] \in {"stRead", "stHub", "idle"}
    BY <1>1, <1>2, <1>4, ControlEffect, HubEffect, GapEffect, NoDocsEffect
    DEF StHub, stores, Kept, ReplaceStatus, CanReplace
  <2>3. <<d, "registered">> \notin gap' => Midway(pc[p], d)'
    BY <1>1, <2>1, <2>2, GapEffect DEF Stands, Midway, Kept, LocalStep
  <2>4. UNCHANGED docs
    BY <1>4 DEF StHub, stores
  <2>5. pc'[p] \in Holding \cup {"rmHub", "rmRead", "rmRollback"} => job'[p] = job[p]
    BY <1>4, <2>2, ControlEffect DEF StHub, Holding
  <2> QED
    BY <1>1, <2>1, <2>2, <2>3, <2>4, <2>5, StandsKept DEF LocalStep, Holding, Stands
<1>5. CASE StRead(p)
  <2>1. UNCHANGED <<stores, gap>> /\ pc[p] = "stRead" /\ Kept(d)
    BY <1>5, HubEffect, NoDocsEffect DEF StRead, stores, Kept
  <2>2. ASSUME NEW g \in DocsOf(d), Advance(p, "stSave", [job[p] EXCEPT !.guid = g])
        PROVE  LocalControl(p, d) /\ Stands(p, d)'
    <3>1. PICK j : j = [job[p] EXCEPT !.guid = g]
      OBVIOUS
    <3>2. j.dev = d /\ j.guid = g /\ j.seen = job[p].seen
      BY <1>2, <3>1, JobExcept
    <3>0. Advance(p, "stSave", j)
      BY <2>2, <3>1
    <3>3. LocalControl(p, d) /\ pc'[p] = "stSave" /\ job'[p] = j
      BY <3>0, <3>2, ControlEffect
    <3>4. <<d, "registered">> \notin gap' => Midway(pc[p], d)'
      BY <1>1, <2>1, <3>3 DEF Stands, Midway, Kept
    <3>5. docs' = docs /\ g \in Guid /\ docs[g].dev = d
      BY <2>1, <2>2 DEF stores, DocsOf
    <3> QED
      BY <1>1, <2>1, <3>2, <3>3, <3>4, <3>5 DEF Stands, Holding
  <2>3. ASSUME GoTo(p, "stRevertGet") PROVE LocalControl(p, d) /\ Stands(p, d)'
    <3>1. LocalControl(p, d) /\ pc'[p] = "stRevertGet" /\ ("stRevertGet" # "idle" => job'[p] = job[p])
      BY <2>3, ControlEffect
    <3>2. <<d, "registered">> \notin gap' => Midway(pc[p], d)'
      BY <1>1, <2>1, <3>1 DEF Stands, Midway, Kept
    <3>3. pc'[p] \in {"rmHub", "rmRead", "rmDelete", "rmRollback"} => job'[p].seen # "Absent"
      BY <1>1, <2>1, <3>1 DEF Stands
    <3> QED
      BY <1>1, <2>1, <3>1, <3>2, <3>3, StandsKept DEF Holding, stores
  <2>4. LocalControl(p, d) /\ Stands(p, d)'
    BY <1>5, <2>2, <2>3 DEF StRead
  <2> QED
    BY <2>1, <2>4, HubEffect, GapEffect, NoDocsEffect DEF LocalStep, stores
<1>6. CASE StSave(p)
  <2>1. /\ pc[p] = "stSave" /\ job[p].guid \in Guid /\ docs[job[p].guid].dev = d
        /\ job[p].want \in DocState
    BY <1>1, <1>2, <1>6 DEF StSave, Stands, Holding, Job, DocState
  <2>2. /\ LocalHub(d) /\ LocalGap(d) /\ LocalControl(p, d)
        /\ Absent(d)' <=> Absent(d)
        /\ Upsert(job[p].guid, d, job[p].want) \/ docs' = docs
        /\ pc'[p] \in {"stTag", "stRevertGet"}
    BY <1>6, ControlEffect, HubEffect, GapEffect DEF StSave
  <2>3. /\ DocsOf(d)' = DocsOf(d) /\ LocalDocs(p, d)
        /\ \A h \in Guid : docs'[h].dev = docs[h].dev
    BY <2>1, <2>2, ResaveEffect, NoDocsEffect DEF LocalDocs
  <2>4. <<d, "registered">> \notin gap' => Midway(pc[p], d)'
    BY <1>1, <2>1, <2>2, <2>3, GapEffect DEF Stands, Midway
  <2> QED
    BY <1>1, <2>2, <2>3, <2>4 DEF LocalStep, Stands, Holding
<1>7. CASE StTag(p)
  <2>1. LocalStep(p, d)
    BY <1>1, <1>2, <1>7, ControlEffect, HubEffect, GapEffect, NoDocsEffect
    DEF StTag, stores, LocalStep
  <2>2. /\ pc[p] = "stTag"
        /\ Kept(d) /\ pc'[p] \in {"stKeys", "stVirtual", "stRevertGet", "idle"}
    BY <1>1, <1>2, <1>7, ControlEffect, HubEffect, GapEffect, NoDocsEffect
    DEF StTag, stores, Kept
  <2>3. <<d, "registered">> \notin gap' => Midway(pc[p], d)'
    BY <1>1, <2>1, <2>2, GapEffect DEF Stands, Midway, Kept, LocalStep
  <2>4. UNCHANGED docs
    BY <1>7 DEF StTag, stores
  <2>5. pc'[p] \in Holding \cup {"rmHub", "rmRead", "rmRollback"} => job'[p] = job[p]
    BY <1>7, <2>2, ControlEffect DEF StTag, Holding
  <2> QED
    BY <1>1, <2>1, <2>2, <2>3, <2>4, <2>5, StandsKept DEF LocalStep, Holding, Stands
<1>8. CASE StKeys(p)
  <2>1. LocalStep(p, d)
    BY <1>1, <1>2, <1>8, ControlEffect, HubEffect, GapEffect, NoDocsEffect
    DEF StKeys, stores, LocalStep
  <2>2. /\ pc[p] = "stKeys"
        /\ Kept(d) /\ pc'[p] \in {"stVirtual", "idle"}
    BY <1>1, <1>2, <1>8, ControlEffect, HubEffect, GapEffect, NoDocsEffect
    DEF StKeys, stores, Kept
  <2>3. <<d, "registered">> \notin gap' => Midway(pc[p], d)'
    BY <1>1, <2>1, <2>2, GapEffect DEF Stands, Midway, Kept, LocalStep
  <2>4. UNCHANGED docs
    BY <1>8 DEF StKeys, stores
  <2>5. pc'[p] \in Holding \cup {"rmHub", "rmRead", "rmRollback"} => job'[p] = job[p]
    BY <1>8, <2>2, ControlEffect DEF StKeys, Holding
  <2> QED
    BY <1>1, <2>1, <2>2, <2>3, <2>4, <2>5, StandsKept DEF LocalStep, Holding, Stands
<1>9. CASE StVirtual(p)
  <2>1. LocalStep(p, d)
    BY <1>1, <1>2, <1>9, ControlEffect, HubEffect, GapEffect, NoDocsEffect
    DEF StVirtual, stores, LocalStep
  <2>2. /\ pc[p] = "stVirtual"
        /\ Kept(d) /\ pc'[p] = "idle"
    BY <1>1, <1>2, <1>9, ControlEffect, HubEffect, GapEffect, NoDocsEffect
    DEF StVirtual, stores, Kept
  <2>3. <<d, "registered">> \notin gap' => Midway(pc[p], d)'
    BY <1>1, <2>1, <2>2, GapEffect DEF Stands, Midway, Kept, LocalStep
  <2>4. UNCHANGED docs
    BY <1>9 DEF StVirtual, stores
  <2>5. pc'[p] \in Holding \cup {"rmHub", "rmRead", "rmRollback"} => job'[p] = job[p]
    BY <1>9, <2>2, ControlEffect DEF StVirtual, Holding
  <2> QED
    BY <1>1, <2>1, <2>2, <2>3, <2>4, <2>5, StandsKept DEF LocalStep, Holding, Stands
<1>10. CASE StRevertGet(p)
  <2>1. PICK j : j = [job[p] EXCEPT !.etag = hub[d].etag]
    OBVIOUS
  <2>2. j.dev = d
    BY <1>2, <2>1, JobExcept
  <2>3. /\ Advance(p, "stRevert", j) \/ GoTo(p, "idle") \/ Retry(p)
        /\ UNCHANGED gap \/ Spoil(d, {"status", "tag", "simulated"})
        /\ pc[p] = "stRevertGet" /\ UNCHANGED stores
    BY <1>10, <2>1 DEF StRevertGet
  <2>4. LocalControl(p, d) /\ Kept(d) /\ pc'[p] \in {"stRevert", "stRevertGet", "idle"}
    BY <2>2, <2>3, ControlEffect, HubEffect, NoDocsEffect DEF stores, Kept
  <2>5. LocalStep(p, d)
    BY <2>3, <2>4, HubEffect, GapEffect, NoDocsEffect DEF LocalStep, stores
  <2>6. <<d, "registered">> \notin gap' => Midway(pc[p], d)'
    BY <1>1, <2>3, <2>4, <2>5, GapEffect DEF Stands, Midway, Kept, LocalStep
  <2> QED
    BY <1>1, <2>3, <2>4, <2>5, <2>6, StandsKept DEF Holding, stores
<1>11. CASE StRevert(p)
  <2>1. LocalStep(p, d)
    BY <1>1, <1>2, <1>11, ControlEffect, HubEffect, GapEffect, NoDocsEffect
    DEF StRevert, stores, LocalStep, ReplaceStatus, CanReplace
  <2>2. /\ pc[p] = "stRevert"
        /\ Kept(d) /\ pc'[p] \in {"stRevert", "idle"}
    BY <1>1, <1>2, <1>11, ControlEffect, HubEffect, GapEffect, NoDocsEffect
    DEF StRevert, stores, Kept, ReplaceStatus, CanReplace
  <2>3. <<d, "registered">> \notin gap' => Midway(pc[p], d)'
    BY <1>1, <2>1, <2>2, GapEffect DEF Stands, Midway, Kept, LocalStep
  <2>4. UNCHANGED docs
    BY <1>11 DEF StRevert, stores
  <2>5. pc'[p] \in Holding \cup {"rmHub", "rmRead", "rmRollback"} => job'[p] = job[p]
    BY <1>11, <2>2, ControlEffect DEF StRevert, Holding
  <2> QED
    BY <1>1, <2>1, <2>2, <2>3, <2>4, <2>5, StandsKept DEF LocalStep, Holding, Stands
<1> QED
  BY <1>3, <1>4, <1>5, <1>6, <1>7, <1>8, <1>9, <1>10, <1>11

LEMMA UpdateSteps ==
  ASSUME TypeOK, SerialInv, NEW p \in Proc, NEW d \in Device, d = job[p].dev,
         \/ UpRead(p) \/ UpSend(p) \/ UpCheck(p) \/ UpSave(p)
  PROVE  LocalStep(p, d) /\ Stands(p, d)'
<1>0. pc[p] # "idle"
  BY DEF UpRead, UpSend, UpCheck, UpSave
<1>1. Stands(p, d)
  BY <1>0, SerialStands
<1>2. /\ d # NoDevice /\ job[p] \in Job
      /\ job[p].want # "Absent" /\ Opposite(job[p].want) # "Absent"
  BY ConstantsAssumption DEF TypeOK, Job, Opposite
<1>3. CASE UpRead(p)
  <2>1. UNCHANGED <<stores, gap>> /\ pc[p] = "upRead" /\ Kept(d)
    BY <1>3, HubEffect, NoDocsEffect DEF UpRead, stores, Kept
  <2>2. ASSUME NEW g \in DocsOf(d), NEW l \in {"upSend", "upCheck"}, NEW s,
               Advance(p, l, [job[p] EXCEPT !.guid = g, !.state = s])
        PROVE  LocalControl(p, d) /\ Stands(p, d)'
    <3>1. PICK j : j = [job[p] EXCEPT !.guid = g, !.state = s]
      OBVIOUS
    <3>2. j.dev = d /\ j.guid = g
      BY <1>2, <3>1, JobExcept
    <3>0. Advance(p, l, j)
      BY <2>2, <3>1
    <3>3. LocalControl(p, d) /\ pc'[p] = l /\ job'[p] = j
      BY <3>0, <3>2, ControlEffect
    <3>4. <<d, "registered">> \notin gap' => Midway(pc[p], d)'
      BY <1>1, <2>1, <3>3 DEF Stands, Midway, Kept
    <3>5. docs' = docs /\ g \in Guid /\ docs[g].dev = d
      BY <2>1, <2>2 DEF stores, DocsOf
    <3> QED
      BY <1>1, <2>1, <3>2, <3>3, <3>4, <3>5 DEF Stands, Holding
  <2>3. ASSUME GoTo(p, "idle") PROVE LocalControl(p, d) /\ Stands(p, d)'
    <3>1. LocalControl(p, d) /\ pc'[p] = "idle"
      BY <2>3, ControlEffect
    <3>2. <<d, "registered">> \notin gap' => Midway(pc[p], d)'
      BY <1>1, <2>1, <3>1 DEF Stands, Midway, Kept
    <3> QED
      BY <1>1, <2>1, <3>1, <3>2, StandsKept DEF Holding, stores
  <2>4. LocalControl(p, d) /\ Stands(p, d)'
    BY <1>3, <2>2, <2>3 DEF UpRead
  <2> QED
    BY <2>1, <2>4, HubEffect, GapEffect, NoDocsEffect DEF LocalStep, stores
<1>4. CASE UpSend(p)
  <2>1. LocalStep(p, d)
    BY <1>1, <1>2, <1>4, ControlEffect, HubEffect, GapEffect, NoDocsEffect
    DEF UpSend, stores, LocalStep
  <2>2. /\ pc[p] = "upSend"
        /\ Kept(d) /\ pc'[p] \in {"upCheck", "upSend", "idle"}
    BY <1>1, <1>2, <1>4, ControlEffect, HubEffect, GapEffect, NoDocsEffect
    DEF UpSend, stores, Kept
  <2>3. <<d, "registered">> \notin gap' => Midway(pc[p], d)'
    BY <1>1, <2>1, <2>2, GapEffect DEF Stands, Midway, Kept, LocalStep
  <2>4. UNCHANGED docs
    BY <1>4 DEF UpSend, stores
  <2>5. pc'[p] \in Holding \cup {"rmHub", "rmRead", "rmRollback"} => job'[p] = job[p]
    BY <1>4, <2>2, ControlEffect DEF UpSend, Holding
  <2> QED
    BY <1>1, <2>1, <2>2, <2>3, <2>4, <2>5, StandsKept DEF LocalStep, Holding, Stands
<1>5. CASE UpCheck(p)
  <2>1. LocalStep(p, d)
    BY <1>1, <1>2, <1>5, ControlEffect, HubEffect, GapEffect, NoDocsEffect
    DEF UpCheck, stores, LocalStep
  <2>2. /\ pc[p] = "upCheck"
        /\ Kept(d) /\ pc'[p] \in {"upSave", "idle"}
    BY <1>1, <1>2, <1>5, ControlEffect, HubEffect, GapEffect, NoDocsEffect
    DEF UpCheck, stores, Kept
  <2>3. <<d, "registered">> \notin gap' => Midway(pc[p], d)'
    BY <1>1, <2>1, <2>2, GapEffect DEF Stands, Midway, Kept, LocalStep
  <2>4. UNCHANGED docs
    BY <1>5 DEF UpCheck, stores
  <2>5. pc'[p] \in Holding \cup {"rmHub", "rmRead", "rmRollback"} => job'[p] = job[p]
    BY <1>5, <2>2, ControlEffect DEF UpCheck, Holding
  <2> QED
    BY <1>1, <2>1, <2>2, <2>3, <2>4, <2>5, StandsKept DEF LocalStep, Holding, Stands
<1>6. CASE UpSave(p)
  <2>1. /\ pc[p] = "upSave" /\ job[p].guid \in Guid /\ docs[job[p].guid].dev = d
        /\ job[p].state \in DocState
    BY <1>1, <1>2, <1>6 DEF UpSave, Stands, Holding, Job, DocState
  <2>2. /\ LocalHub(d) /\ LocalGap(d) /\ LocalControl(p, d)
        /\ Absent(d)' <=> Absent(d)
        /\ Upsert(job[p].guid, d, job[p].state) \/ docs' = docs
        /\ pc'[p] \in {"idle"}
    BY <1>6, ControlEffect, HubEffect, GapEffect DEF UpSave
  <2>3. /\ DocsOf(d)' = DocsOf(d) /\ LocalDocs(p, d)
        /\ \A h \in Guid : docs'[h].dev = docs[h].dev
    BY <2>1, <2>2, ResaveEffect, NoDocsEffect DEF LocalDocs
  <2>4. <<d, "registered">> \notin gap' => Midway(pc[p], d)'
    BY <1>1, <2>1, <2>2, <2>3, GapEffect DEF Stands, Midway
  <2> QED
    BY <1>1, <2>2, <2>3, <2>4 DEF LocalStep, Stands, Holding
<1> QED
  BY <1>3, <1>4, <1>5, <1>6

-----------------------------------------------------------------------------
(* The theorems.                                                           *)

\* A caller that serialises starts an operation only where none runs.
LEMMA BeginSerial ==
  ASSUME Serial, TypeOK, SerialInv, NEW p \in Proc, NEW d \in Device, Begin(p, d)
  PROVE  SerialInv'
<1> PICK l \in {"addCheck", "addHub", "rmGet", "stGet", "upRead"},
         w \in {"Enabled", "Disabled"} : Start(p, d, l, w)
  BY DEF Begin, StartAdd, StartRemove, StartStatus, StartUpdate
<1>1. pc[p] = "idle" /\ Idle(d) /\ UNCHANGED <<hub, docs, gap>>
  BY DEF Start
<1>2. PICK j : j = [NoJob EXCEPT !.dev = d, !.want = w]
  OBVIOUS
<1>3. j.dev = d
  BY <1>2 DEF NoJob
<1>4. /\ pc'[p] = l /\ job'[p] = j
      /\ \A q \in Proc \ {p} : pc'[q] = pc[q] /\ job'[q] = job[q]
  BY <1>2 DEF Start, Advance, TypeOK
<1>5. UniqueDocs' /\ NewDocument' /\ HeldDocument'
  BY <1>1, <1>4 DEF SerialInv, UniqueDocs, NewDocument, HeldDocument, DocsOf
<1>6. Exclusive'
  BY <1>1, <1>3, <1>4 DEF SerialInv, Exclusive, Idle
<1>7. RegisteredAgree'
  <2> SUFFICES ASSUME NEW c \in Device, Sound(c, "registered")'
               PROVE  (~Absent(c) <=> DocsOf(c) # {})'
    BY DEF RegisteredAgree
  <2>1. Sound(c, "registered")
    BY <1>1, <1>4 DEF Sound, Idle
  <2> QED
    BY <1>1, <2>1 DEF SerialInv, RegisteredAgree, Absent, DocsOf
<1>8. ASSUME NEW q \in Proc, pc'[q] # "idle",
             <<job'[q].dev, "registered">> \notin gap'
      PROVE  Midway(pc[q], job[q].dev)'
  <2>1. CASE q = p
    <3>1. Sound(d, "registered")
      BY <1>1, <1>3, <1>4, <1>8, <2>1 DEF Sound
    <3>2. ~Absent(d) <=> DocsOf(d) # {}
      BY <3>1 DEF SerialInv, RegisteredAgree
    <3> QED
      BY <1>1, <1>3, <1>4, <2>1, <3>2 DEF Midway, Absent, DocsOf
  <2>2. CASE q # p
    BY <1>1, <1>4, <1>8, <2>2 DEF SerialInv, Midway, Absent, DocsOf
  <2> QED
    BY <2>1, <2>2
<1>9. \A q \in Proc : pc'[q] \in {"rmHub", "rmRead", "rmDelete", "rmRollback"} =>
        job'[q].seen # "Absent"
  BY <1>4 DEF SerialInv
<1> QED
  BY <1>5, <1>6, <1>7, <1>8, <1>9 DEF SerialInv

\* A process that dies between its two registrations is recorded in gap.
LEMMA CrashSerial ==
  ASSUME TypeOK, SerialInv, NEW p \in Proc, Crash(p), TypeOK'
  PROVE  SerialInv'
<1>0. pc[p] # "idle" /\ job[p].dev \in Device
  BY DEF Crash, TypeOK
<1> PICK d \in Device : d = job[p].dev
  BY <1>0
<1>1. Stands(p, d)
  BY <1>0, SerialStands
<1>2. /\ UNCHANGED <<hub, docs>> /\ pc'[p] = "idle" /\ LocalControl(p, d)
      /\ LocalGap(d)
      /\ "registered" \in CrashSpoils(pc[p]) => <<d, "registered">> \in gap'
  BY ControlEffect, GapEffect DEF Crash, stores
<1>3. pc[p] \in {"addTwin", "addRead", "addSave", "addRollback",
                 "rmRead", "rmDelete", "rmRollback"} => "registered" \in CrashSpoils(pc[p])
  BY DEF CrashSpoils
<1>4. <<d, "registered">> \notin gap' => Midway(pc[p], d)'
  BY <1>1, <1>2, <1>3, HubEffect, GapEffect, NoDocsEffect DEF Stands, Midway
<1>5. Stands(p, d)'
  BY <1>1, <1>2, <1>4, StandsKept DEF Holding
<1>6. LocalStep(p, d)
  BY <1>2, HubEffect, NoDocsEffect DEF LocalStep
<1> QED
  BY <1>0, <1>5, <1>6, LocalKeeps

LEMMA UnchangedSerial ==
  ASSUME SerialInv, UNCHANGED <<hub, docs, pc, job>>,
         \A c : <<c, "registered">> \in gap' <=> <<c, "registered">> \in gap
  PROVE  SerialInv'
  BY DEF SerialInv, UniqueDocs, NewDocument, HeldDocument, Exclusive,
         RegisteredAgree, Sound, Idle, Midway, Absent, DocsOf

LEMMA NextSerial ==
  ASSUME Serial, TypeOK, SerialInv, [Next]_vars
  PROVE  SerialInv'
<1>0. TypeOK'
  BY NextTyped
<1>1. ASSUME NEW p \in Proc, Call(p) PROVE SerialInv'
  <2>1. pc[p] # "idle" /\ job[p].dev \in Device
    BY <1>1 DEF TypeOK, Call, AddCheck, AddHub, AddTwin, AddRead, AddSave, AddTag,
                AddVirtual, AddRollback, RmGet, RmHub, RmRead, RmDelete, RmVirtual,
                RmRules, RmRollback, StGet, StHub, StRead, StSave, StTag, StKeys,
                StVirtual, StRevertGet, StRevert, UpRead, UpSend, UpCheck, UpSave
  <2> PICK d \in Device : d = job[p].dev
    BY <2>1
  <2>2. LocalStep(p, d) /\ Stands(p, d)'
    BY <1>1, AddSteps, RemoveSteps, StatusSteps, UpdateSteps DEF Call
  <2> QED
    BY <1>0, <2>1, <2>2, LocalKeeps
<1>2. ASSUME NEW d \in Device, SaveRule(d) PROVE SerialInv'
  <2>1. \A c : <<c, "registered">> \in gap' <=> <<c, "registered">> \in gap
    BY <1>2 DEF SaveRule, Spoil
  <2> QED
    BY <1>2, <2>1, UnchangedSerial DEF SaveRule
<1>3. CASE UNCHANGED vars
  BY <1>3, UnchangedSerial DEF vars
<1> QED
  BY <1>0, <1>1, <1>2, <1>3, BeginSerial, CrashSerial DEF Next

\* Under callers that serialise the operations of a device, every operation is
\* where the identity and the document of its device say: an identity without a
\* document, or a document without one, is what an operation in the middle of its
\* calls, or a failure that was not compensated, left (DeviceLogic.AddDeviceAsync
\* and RemoveDeviceAsync).
THEOREM SerialInvariant ==
  ASSUME Serial
  PROVE  Spec => [](TypeOK /\ SerialInv)
<1>1. Init => TypeOK /\ SerialInv
  BY InitTyped, InitSerial
<1>2. TypeOK /\ SerialInv /\ [Next]_vars => (TypeOK /\ SerialInv)'
  BY NextTyped, NextSerial
<1> QED
  BY <1>1, <1>2, PTL DEF Spec

-----------------------------------------------------------------------------
(* The stores of a device agree.  What an operation in the middle of its     *)
(* calls can say of its device (Tells), facet by facet: a facet in gap is    *)
(* given up.  Story says it of every running operation, and of a device at   *)
(* rest what the label "idle" tells.                                         *)

\* No failure was left uncompensated in this facet of d.
Clear(d, f) == <<d, f>> \notin gap /\ <<d, "registered">> \notin gap

\* Labels between the replacement of the identity and the update of its twin.
Switching == {"stRead", "stSave", "stTag", "stRevertGet", "stRevert"}
Removing == {"rmRead", "rmDelete", "rmRollback"}
Adding == {"addTwin", "addRead", "addSave", "addTag", "addVirtual", "addRollback"}

\* What the operation knows of the identity and of itself.
TellsHub(l, j, d) ==
  /\ l \in Switching \cup {"stHub"} => j.seen # "Absent"
  /\ l \in {"addVirtual", "stKeys", "stVirtual"} => d \in Simulated
  /\ l = "addSave" => j.state # "Disabled"
  /\ \A f \in {"status", "tag", "simulated"} : Clear(d, f) =>
       /\ l \in Adding \ {"addRollback"} => hub[d].status = "Enabled"
       /\ l \in {"rmHub", "rmRollback", "stHub"} => Absent(d) \/ hub[d].status = j.seen
       /\ l \in {"rmVirtual", "rmRules"} => Absent(d)
       /\ l \in {"stRead", "stSave", "stTag", "stKeys", "stVirtual"} =>
            hub[d].status = j.want
       /\ l \in {"stRevertGet", "stRevert"} => hub[d].status \in {j.want, j.seen}

\* The document follows the identity, or what was read of it.
TellsStatus(l, j, d) ==
  Clear(d, "status") => \A g \in DocsOf(d) :
    /\ l \notin Removing \cup (Switching \ {"stTag"}) =>
         Absent(d) \/ (docs[g].state = "Disabled" <=> hub[d].status = "Disabled")
    /\ l \in Removing \cup (Switching \ {"stTag"}) =>
         (docs[g].state = "Disabled" <=> j.seen = "Disabled")
    /\ l \in {"upSend", "upCheck", "upSave"} => j.state \in {docs[g].state, "Enabled"}

\* The twin tag follows the identity, or what was read of it.
TellsTag(l, j, d) ==
  Clear(d, "tag") =>
    /\ l \notin Switching \cup {"addTag"} => (Registered(d) => hub[d].tag = hub[d].status)
    /\ l \in Switching => hub[d].tag = j.seen

\* The simulator table follows the identity, or what was read of it.
TellsVirtual(l, j, d) ==
  Clear(d, "simulated") =>
    /\ l \notin Adding \cup Removing \cup Switching \cup {"rmVirtual", "stKeys", "stVirtual"} =>
         (d \in virt <=> d \in Simulated /\ hub[d].status = "Enabled")
    /\ l \in Adding => d \notin virt
    /\ l \in Removing \cup Switching =>
         (d \in virt <=> d \in Simulated /\ j.seen = "Enabled")

\* Only a removal that has deleted the document has rules left to delete.
TellsRules(l, d) ==
  Clear(d, "rules") /\ l \notin {"rmVirtual", "rmRules"} /\ d \in ruled => DocsOf(d) # {}

Tells(l, j, d) ==
  /\ TellsHub(l, j, d) /\ TellsStatus(l, j, d) /\ TellsTag(l, j, d)
  /\ TellsVirtual(l, j, d) /\ TellsRules(l, d)

Story ==
  /\ \A p \in Proc : pc[p] # "idle" => Tells(pc[p], job[p], job[p].dev)
  /\ \A d \in Device : Idle(d) => Tells("idle", NoJob, d)

\* A call of p on d leaves the entries of every other device alone.
Elsewhere(d) ==
  \A c \in Device \ {d} :
    /\ c \in virt' <=> c \in virt
    /\ c \in ruled' <=> c \in ruled
    /\ \A f \in Facet : <<c, f>> \in gap' <=> <<c, f>> \in gap

\* At rest nothing is told of the variables of an operation.
LEMMA IdleTells ==
  ASSUME NEW d, NEW j, NEW k, Tells("idle", j, d)'
  PROVE  Tells("idle", k, d)'
  BY DEF Tells, TellsHub, TellsStatus, TellsTag, TellsVirtual, TellsRules, Clear,
         Switching, Removing, Adding

\* What is told of a device depends on its own entries only.
LEMMA TellsElsewhere ==
  ASSUME TypeOK, NEW c \in Device, NEW l, NEW j, Tells(l, j, c),
         hub'[c] = hub[c], DocsOf(c)' = DocsOf(c),
         \A g \in DocsOf(c) : docs'[g] = docs[g],
         c \in virt' <=> c \in virt, c \in ruled' <=> c \in ruled,
         \A f \in Facet : <<c, f>> \in gap' <=> <<c, f>> \in gap
  PROVE  Tells(l, j, c)'
<1>1. \A f \in Facet : Clear(c, f)' <=> Clear(c, f)
  BY DEF Clear, Facet
<1>2. TellsHub(l, j, c)'
  BY <1>1 DEF Tells, TellsHub, Facet, Absent
<1>3. TellsStatus(l, j, c)'
  BY <1>1 DEF Tells, TellsStatus, Facet, Absent
<1>4. TellsTag(l, j, c)' /\ TellsVirtual(l, j, c)' /\ TellsRules(l, c)'
  BY <1>1 DEF Tells, TellsTag, TellsVirtual, TellsRules, Facet, Absent, Registered
<1> QED
  BY <1>2, <1>3, <1>4 DEF Tells

\* So a call of p on d need only show what can be said of d after it.
LEMMA StoryLocal ==
  ASSUME TypeOK, SerialInv, Story, NEW p \in Proc, pc[p] # "idle",
         NEW d \in Device, d = job[p].dev,
         LocalStep(p, d), Elsewhere(d), Stands(p, d), NEW l, NEW j,
         pc'[p] = l, l # "idle" => job'[p] = j, Tells(l, j, d)'
  PROVE  Story'
<1>1. \A q \in Proc \ {p} : pc'[q] = pc[q] /\ job'[q] = job[q]
  BY DEF LocalStep, LocalControl
<1>2. \A q \in Proc \ {p} : pc[q] # "idle" => job[q].dev # d
  BY DEF SerialInv, Exclusive
<1>3. pc'[p] = "idle" \/ job'[p].dev = d
  BY DEF LocalStep, LocalControl
<1>4. \A c \in Device \ {d} : hub'[c] = hub[c]
  BY DEF LocalStep, LocalHub
<1>5. \A g \in Guid : docs[g].dev \in Device \ {d} \/ docs'[g].dev \in Device \ {d}
                     => docs'[g] = docs[g]
  BY OtherDocs DEF LocalStep
<1>6. \A c \in Device \ {d} : DocsOf(c)' = DocsOf(c) /\ \A g \in DocsOf(c) : docs'[g] = docs[g]
  BY <1>5 DEF DocsOf
<1>7. ASSUME NEW c \in Device \ {d}, NEW m, NEW k, Tells(m, k, c) PROVE Tells(m, k, c)'
  BY <1>4, <1>6, <1>7, TellsElsewhere DEF Elsewhere
<1>8. ASSUME NEW q \in Proc, pc'[q] # "idle" PROVE Tells(pc[q], job[q], job[q].dev)'
  <2>1. CASE q = p
    <3>1. job'[q].dev = d
      BY <1>3, <1>8, <2>1
    <3> QED
      BY <1>8, <2>1, <3>1
  <2>2. CASE q # p
    <3>1. pc'[q] = pc[q] /\ job'[q] = job[q] /\ job[q].dev \in Device \ {d}
      BY <1>1, <1>2, <1>8, <2>2 DEF TypeOK
    <3>2. PICK c, m, k : /\ c \in Device \ {d}
                         /\ c = job[q].dev /\ m = pc[q] /\ k = job[q]
      BY <3>1
    <3>3. Tells(m, k, c)
      BY <1>8, <3>1, <3>2 DEF Story
    <3>4. Tells(m, k, c)'
      BY <1>7, <3>2, <3>3
    <3> QED
      BY <3>1, <3>2, <3>4
  <2> QED
    BY <2>1, <2>2
<1>9. ASSUME NEW c \in Device, Idle(c)' PROVE Tells("idle", NoJob, c)'
  <2>1. CASE c = d
    <3>1. pc'[p] = "idle"
      BY <1>3, <1>9, <2>1 DEF Idle
    <3> QED
      BY <2>1, <3>1, IdleTells
  <2>2. CASE c # d
    <3>1. Idle(c)
      BY <1>1, <1>9, <2>2 DEF Idle
    <3> QED
      BY <1>7, <2>2, <3>1 DEF Story
  <2> QED
    BY <2>1, <2>2
<1> QED
  BY <1>8, <1>9 DEF Story

\* Where a call of p takes it, and what it can then say of d.
TellsNext(p, d) ==
  \E l, j : pc'[p] = l /\ (l # "idle" => job'[p] = j) /\ Tells(l, j, d)'

-----------------------------------------------------------------------------
(* What the calls leave in the stores, and where they take their process.    *)

LEMMA HubValues ==
  ASSUME TypeOK, NEW d \in Device
  PROVE  /\ \A s, t : PutIdentity(d, s, t) => hub'[d].status = s /\ hub'[d].tag = t
         /\ \A s : CreateIdentity(d, s) =>
              Absent(d) /\ hub'[d].status = s /\ hub'[d].tag = "None"
         /\ DeleteIdentity(d) => ~Absent(d) /\ hub'[d].status = "Absent"
         /\ \A t : SetTag(d, t) =>
              ~Absent(d) /\ hub'[d].status = hub[d].status /\ hub'[d].tag = t
  BY DEF TypeOK, PutIdentity, CreateIdentity, DeleteIdentity, SetTag, NoIdentity,
         Identity

LEMMA ReplaceValues ==
  ASSUME TypeOK, NEW p \in Proc, NEW d \in Device, d = job[p].dev, NEW s,
         ReplaceStatus(p, s)
  PROVE  ~Absent(d) /\ hub'[d].status = s /\ hub'[d].tag = hub[d].tag
  BY HubValues DEF ReplaceStatus, CanReplace

LEMMA GapValues ==
  ASSUME NEW d
  PROVE  \A F : Spoil(d, F) => \A f : <<d, f>> \in gap' <=> <<d, f>> \in gap \/ f \in F
  BY DEF Spoil

LEMMA ControlValues ==
  ASSUME TypeOK, NEW p \in Proc, NEW l, NEW j,
         pc'[p] = l, l # "idle" => job'[p] = j
  PROVE  /\ \A m : GoTo(p, m) => l = m /\ (l # "idle" => j = job[p])
         /\ \A m, k : Advance(p, m, k) => l = m /\ (l # "idle" => j = k)
         /\ Retry(p) => l = pc[p] /\ (l # "idle" => j = job[p])
  BY DEF TypeOK, GoTo, Advance, Retry

LEMMA InsertValues ==
  ASSUME TypeOK, NEW g \in Guid, NEW d \in Device, DocsOf(d) = {}, NEW s,
         Upsert(g, d, s)
  PROVE  \A h \in DocsOf(d)' : docs'[h].state = s
  BY DEF TypeOK, Upsert, DocsOf

LEMMA ResaveValues ==
  ASSUME TypeOK, NEW g \in Guid, NEW d \in Device, docs[g].dev = d,
         \A h, i \in Guid : docs[h].dev = d /\ docs[i].dev = d => h = i,
         NEW s, Upsert(g, d, s)
  PROVE  /\ DocsOf(d)' = DocsOf(d)
         /\ \A h \in DocsOf(d) : h = g /\ docs'[h].state = s
  BY DEF TypeOK, Upsert, DocsOf

LEMMA AddTells ==
  ASSUME TypeOK, SerialInv, NEW p \in Proc, NEW d \in Device, d = job[p].dev,
         Tells(pc[p], job[p], d),
         \/ AddCheck(p) \/ AddHub(p) \/ AddTwin(p) \/ AddRead(p) \/ AddSave(p)
         \/ AddTag(p) \/ AddVirtual(p) \/ AddRollback(p)
  PROVE  TellsNext(p, d)
<1> SUFFICES ASSUME NEW l, NEW j, pc'[p] = l, l # "idle" => job'[p] = j
             PROVE  Tells(l, j, d)'
  BY DEF TellsNext
<1>0. pc[p] # "idle"
  BY DEF AddCheck, AddHub, AddTwin, AddRead, AddSave, AddTag, AddVirtual, AddRollback
<1>1. Stands(p, d)
  BY <1>0, SerialStands
<1>2. job[p] \in Job
  BY DEF TypeOK
<1>3. UNCHANGED docs => DocsOf(d)' = DocsOf(d)
  BY DEF DocsOf
<1>4. CASE AddCheck(p)
  <2>1. /\ pc[p] = "addCheck"
        /\ UNCHANGED <<hub, docs, virt, ruled, gap>>
        /\ GoTo(p, "addHub") \/ GoTo(p, "idle")
    BY <1>4 DEF AddCheck, stores
  <2>2. l \in {"addHub", "idle"}
    BY <1>2, <2>1, ControlValues
  <2> QED
    BY <1>1, <1>3, <2>1, <2>2
    DEF Tells, TellsHub, TellsStatus, TellsTag, TellsVirtual, TellsRules, Clear, Adding,
        Removing, Switching, Absent, Registered, Stands, Midway
<1>5. CASE AddHub(p)
  <2>1. /\ pc[p] = "addHub"
        /\ UNCHANGED <<docs, virt, ruled>>
        /\ \/ /\ CreateIdentity(d, "Enabled") /\ UNCHANGED gap
              /\ GoTo(p, "addTwin") \/ GoTo(p, "addRead")
           \/ Spoil(d, {"registered"}) /\ (GoTo(p, "idle") \/ Retry(p))
           \/ UNCHANGED <<hub, gap>> /\ (GoTo(p, "idle") \/ Retry(p))
    BY <1>5 DEF AddHub, stores
  <2>2. /\ \/ /\ l \in {"addTwin", "addRead"} /\ UNCHANGED gap
              /\ Absent(d) /\ hub'[d].status = "Enabled"
           \/ <<d, "registered">> \in gap' /\ l \in {"addHub", "idle"}
           \/ UNCHANGED <<hub, gap>> /\ l \in {"addHub", "idle"}
    BY <1>2, <2>1, ControlValues, HubValues, GapValues
  <2> QED
    BY <1>1, <1>3, <2>1, <2>2
    DEF Tells, TellsHub, TellsStatus, TellsTag, TellsVirtual, TellsRules, Clear, Adding,
        Removing, Switching, Absent, Registered, Stands, Midway
<1>6. CASE AddTwin(p)
  <2>1. /\ pc[p] = "addTwin"
        /\ UNCHANGED <<hub, docs, virt, ruled>>
        /\ \/ GoTo(p, "addRead") /\ UNCHANGED gap
           \/ GoTo(p, "idle") /\ Spoil(d, {"registered"})
    BY <1>6 DEF AddTwin, stores
  <2>2. /\ \/ l = "addRead" /\ UNCHANGED gap
           \/ l = "idle" /\ <<d, "registered">> \in gap'
    BY <1>2, <2>1, ControlValues, GapValues
  <2> QED
    BY <1>1, <1>3, <2>1, <2>2
    DEF Tells, TellsHub, TellsStatus, TellsTag, TellsVirtual, TellsRules, Clear, Adding,
        Removing, Switching, Absent, Registered, Stands, Midway
<1>7. CASE AddRead(p)
  <2>1. ASSUME NEW g, NEW s, Advance(p, "addSave", [job[p] EXCEPT !.guid = g, !.state = s])
        PROVE  l = "addSave" /\ j.state = s
    <3>1. PICK k : k = [job[p] EXCEPT !.guid = g, !.state = s]
      OBVIOUS
    <3>2. k.state = s
      BY <1>2, <3>1, JobExcept
    <3>3. Advance(p, "addSave", k)
      BY <2>1, <3>1
    <3> QED
      BY <3>2, <3>3, ControlValues
  <2>2. pc[p] = "addRead" /\ UNCHANGED <<hub, docs, virt, ruled, gap>>
    BY <1>7 DEF AddRead, stores
  <2>3. \/ l = "addSave" /\ j.state # "Disabled"
        \/ l = "addRollback"
    BY <1>7, <2>1, ControlValues DEF AddRead
  <2> QED
    BY <1>1, <1>3, <2>2, <2>3
    DEF Tells, TellsHub, TellsStatus, TellsTag, TellsVirtual, TellsRules, Clear, Adding,
        Removing, Switching, Absent, Registered, Stands, Midway
<1>8. CASE AddSave(p)
  <2>1. /\ pc[p] = "addSave"
        /\ UNCHANGED <<hub, virt, ruled>>
        /\ \/ /\ Upsert(job[p].guid, d, job[p].state) /\ GoTo(p, "addTag")
              /\ UNCHANGED gap
           \/ GoTo(p, "addRollback") /\ Spoil(d, {"registered"})
           \/ GoTo(p, "addRollback") /\ UNCHANGED <<docs, gap>>
    BY <1>8 DEF AddSave, stores
  <2>2. job[p].guid \in Guid /\ DocsOf(d) = {}
    BY <1>1, <2>1 DEF Stands
  <2>3. /\ \/ /\ l = "addTag" /\ UNCHANGED gap
              /\ \A g \in DocsOf(d)' : docs'[g].state = job[p].state
           \/ l = "addRollback" /\ <<d, "registered">> \in gap'
           \/ l = "addRollback" /\ UNCHANGED <<docs, gap>>
    BY <1>2, <2>1, <2>2, ControlValues, GapValues, InsertValues
  <2> QED
    BY <1>1, <1>3, <2>1, <2>2, <2>3
    DEF Tells, TellsHub, TellsStatus, TellsTag, TellsVirtual, TellsRules, Clear, Adding,
        Removing, Switching, Absent, Registered, Stands, Midway
<1>9. CASE AddTag(p)
  <2>1. /\ pc[p] = "addTag"
        /\ UNCHANGED <<docs, virt, ruled>>
        /\ \/ /\ SetTag(d, "Enabled") /\ UNCHANGED gap
              /\ GoTo(p, IF d \in Simulated THEN "addVirtual" ELSE "idle")
           \/ GoTo(p, "addRollback") /\ Spoil(d, {"registered"})
    BY <1>9 DEF AddTag, stores
  <2>2. /\ \/ /\ l = (IF d \in Simulated THEN "addVirtual" ELSE "idle") /\ UNCHANGED gap
              /\ hub'[d].status = hub[d].status /\ hub'[d].tag = "Enabled"
           \/ l = "addRollback" /\ <<d, "registered">> \in gap'
    BY <1>2, <2>1, ControlValues, GapValues, HubValues
  <2> QED
    BY <1>1, <1>3, <2>1, <2>2
    DEF Tells, TellsHub, TellsStatus, TellsTag, TellsVirtual, TellsRules, Clear, Adding,
        Removing, Switching, Absent, Registered, Stands, Midway
<1>10. CASE AddVirtual(p)
  <2>1. /\ pc[p] = "addVirtual"
        /\ UNCHANGED <<hub, docs, ruled>>
        /\ GoTo(p, "idle")
        /\ \/ virt' = virt \cup {d} /\ UNCHANGED gap
           \/ UNCHANGED virt /\ Spoil(d, {"simulated"})
    BY <1>10 DEF AddVirtual, stores
  <2>2. /\ l = "idle"
        /\ \A f \in {"status", "tag", "rules", "registered"} :
             <<d, f>> \in gap' <=> <<d, f>> \in gap
        /\ \/ virt' = virt \cup {d} /\ UNCHANGED gap
           \/ <<d, "simulated">> \in gap'
    BY <1>2, <2>1, ControlValues, GapValues
  <2> QED
    BY <1>1, <1>3, <2>1, <2>2
    DEF Tells, TellsHub, TellsStatus, TellsTag, TellsVirtual, TellsRules, Clear, Adding,
        Removing, Switching, Absent, Registered, Stands, Midway
<1>11. CASE AddRollback(p)
  <2>1. /\ pc[p] = "addRollback"
        /\ UNCHANGED <<docs, virt, ruled>>
        /\ GoTo(p, "idle") \/ Retry(p)
        /\ \/ DeleteIdentity(d) /\ UNCHANGED gap
           \/ GoTo(p, "idle") /\ Absent(d) /\ UNCHANGED <<hub, gap>>
           \/ Retry(p) /\ UNCHANGED <<hub, gap>>
           \/ Spoil(d, {"registered"})
    BY <1>11 DEF AddRollback, stores
  <2>2. /\ l \in {"idle", "addRollback"}
        /\ \/ hub'[d].status = "Absent" /\ UNCHANGED gap
           \/ UNCHANGED <<hub, gap>> /\ (l = "addRollback" \/ Absent(d))
           \/ <<d, "registered">> \in gap'
    BY <1>2, <2>1, ControlValues, GapValues, HubValues
  <2> QED
    BY <1>1, <1>3, <2>1, <2>2
    DEF Tells, TellsHub, TellsStatus, TellsTag, TellsVirtual, TellsRules, Clear, Adding,
        Removing, Switching, Absent, Registered, Stands, Midway
<1> QED
  BY <1>0, <1>4, <1>5, <1>6, <1>7, <1>8, <1>9, <1>10, <1>11

LEMMA RemoveTells ==
  ASSUME TypeOK, SerialInv, NEW p \in Proc, NEW d \in Device, d = job[p].dev,
         Tells(pc[p], job[p], d),
         \/ RmGet(p) \/ RmHub(p) \/ RmRead(p) \/ RmDelete(p) \/ RmVirtual(p)
         \/ RmRules(p) \/ RmRollback(p)
  PROVE  TellsNext(p, d)
<1> SUFFICES ASSUME NEW l, NEW j, pc'[p] = l, l # "idle" => job'[p] = j
             PROVE  Tells(l, j, d)'
  BY DEF TellsNext
<1>0. pc[p] # "idle"
  BY DEF RmGet, RmHub, RmRead, RmDelete, RmVirtual, RmRules, RmRollback
<1>1. Stands(p, d)
  BY <1>0, SerialStands
<1>2. job[p] \in Job
  BY DEF TypeOK
<1>3. UNCHANGED docs => DocsOf(d)' = DocsOf(d)
  BY DEF DocsOf
<1>4. CASE RmGet(p)
  <2>1. [job[p] EXCEPT !.seen = hub[d].status].seen = hub[d].status
    BY <1>2 DEF Job
  <2>2. /\ pc[p] = "rmGet"
        /\ UNCHANGED <<hub, docs, virt, ruled, gap>>
        /\ \/ \E k : k.seen = hub[d].status /\ Advance(p, "rmHub", k)
           \/ GoTo(p, "idle") \/ Retry(p)
    BY <1>4, <2>1 DEF RmGet, stores
  <2>3. (l = "rmHub" /\ j.seen = hub[d].status) \/ l \in {"rmGet", "idle"}
    BY <2>2, ControlValues
  <2> QED
    BY <1>1, <1>3, <2>2, <2>3
    DEF Tells, TellsHub, TellsStatus, TellsTag, TellsVirtual, TellsRules, Clear, Adding,
        Removing, Switching, Absent, Registered, Stands, Midway
<1>5. CASE RmHub(p)
  <2>1. /\ pc[p] = "rmHub"
        /\ UNCHANGED <<docs, virt, ruled>>
        /\ \/ DeleteIdentity(d) /\ GoTo(p, "rmRead") /\ UNCHANGED gap
           \/ Spoil(d, {"registered"}) /\ (GoTo(p, "idle") \/ Retry(p))
           \/ UNCHANGED <<hub, gap>> /\ (GoTo(p, "idle") \/ Retry(p))
    BY <1>5 DEF RmHub, stores
  <2>2. /\ l # "idle" => j = job[p]
        /\ \/ /\ l = "rmRead" /\ UNCHANGED gap
              /\ ~Absent(d) /\ hub'[d].status = "Absent"
           \/ <<d, "registered">> \in gap' /\ l \in {"rmHub", "idle"}
           \/ UNCHANGED <<hub, gap>> /\ l \in {"rmHub", "idle"}
    BY <1>2, <2>1, ControlValues, HubValues, GapValues
  <2> QED
    BY <1>1, <1>3, <2>1, <2>2
    DEF Tells, TellsHub, TellsStatus, TellsTag, TellsVirtual, TellsRules, Clear, Adding,
        Removing, Switching, Absent, Registered, Stands, Midway
<1>6. CASE RmRead(p)
  <2>1. \A g : [job[p] EXCEPT !.guid = g].seen = job[p].seen
    BY <1>2 DEF Job
  <2>2. /\ pc[p] = "rmRead"
        /\ UNCHANGED <<hub, docs, virt, ruled, gap>>
        /\ \/ \E k : k.seen = job[p].seen /\ Advance(p, "rmDelete", k)
           \/ GoTo(p, "rmRollback")
    BY <1>6, <2>1 DEF RmRead, stores
  <2>3. l \in {"rmDelete", "rmRollback"} /\ j.seen = job[p].seen
    BY <2>2, ControlValues
  <2> QED
    BY <1>1, <1>3, <2>2, <2>3
    DEF Tells, TellsHub, TellsStatus, TellsTag, TellsVirtual, TellsRules, Clear, Adding,
        Removing, Switching, Absent, Registered, Stands, Midway
<1>7. CASE RmDelete(p)
  <2>1. /\ pc[p] = "rmDelete"
        /\ UNCHANGED <<hub, virt, ruled>>
        /\ \/ DeleteDoc(job[p].guid) /\ GoTo(p, "rmVirtual") /\ UNCHANGED gap
           \/ GoTo(p, "rmRollback") /\ Spoil(d, {"registered"})
           \/ GoTo(p, "rmRollback") /\ UNCHANGED <<docs, gap>>
    BY <1>7 DEF RmDelete, stores
  <2>2. /\ job[p].guid \in Guid /\ docs[job[p].guid].dev = d
        /\ \A h, i \in Guid : docs[h].dev = d /\ docs[i].dev = d => h = i
    BY <1>1, <2>1 DEF Stands, Holding
  <2>3. /\ l # "idle" => j = job[p]
        /\ \/ l = "rmVirtual" /\ UNCHANGED gap /\ DocsOf(d)' = {}
           \/ l = "rmRollback" /\ <<d, "registered">> \in gap'
           \/ l = "rmRollback" /\ UNCHANGED <<docs, gap>>
    BY <1>2, <2>1, <2>2, ControlValues, GapValues, DeleteDocEffect
  <2> QED
    BY <1>1, <1>3, <2>1, <2>2, <2>3
    DEF Tells, TellsHub, TellsStatus, TellsTag, TellsVirtual, TellsRules, Clear, Adding,
        Removing, Switching, Absent, Registered, Stands, Midway
<1>8. CASE RmVirtual(p)
  <2>1. /\ pc[p] = "rmVirtual"
        /\ UNCHANGED <<hub, docs, ruled>>
        /\ GoTo(p, "rmRules")
        /\ \/ virt' = virt \ {d} /\ UNCHANGED gap
           \/ UNCHANGED virt /\ Spoil(d, {"simulated"})
    BY <1>8 DEF RmVirtual, stores
  <2>2. /\ l = "rmRules"
        /\ \A f \in {"status", "tag", "rules", "registered"} :
             <<d, f>> \in gap' <=> <<d, f>> \in gap
        /\ \/ d \notin virt' /\ UNCHANGED gap
           \/ <<d, "simulated">> \in gap'
    BY <1>2, <2>1, ControlValues, GapValues
  <2> QED
    BY <1>1, <1>3, <2>1, <2>2
    DEF Tells, TellsHub, TellsStatus, TellsTag, TellsVirtual, TellsRules, Clear, Adding,
        Removing, Switching, Absent, Registered, Stands, Midway
<1>9. CASE RmRules(p)
  <2>1. /\ pc[p] = "rmRules"
        /\ UNCHANGED <<hub, docs, virt>>
        /\ GoTo(p, "idle")
        /\ \/ ruled' = ruled \ {d} /\ gap' = gap \ {<<d, "rules">>}
           \/ UNCHANGED ruled /\ Spoil(d, {"rules"})
    BY <1>9 DEF RmRules, stores
  <2>2. /\ l = "idle"
        /\ \A f \in {"status", "tag", "simulated", "registered"} :
             <<d, f>> \in gap' <=> <<d, f>> \in gap
        /\ d \notin ruled' \/ <<d, "rules">> \in gap'
    BY <1>2, <2>1, ControlValues, GapValues
  <2> QED
    BY <1>1, <1>3, <2>1, <2>2
    DEF Tells, TellsHub, TellsStatus, TellsTag, TellsVirtual, TellsRules, Clear, Adding,
        Removing, Switching, Absent, Registered, Stands, Midway
<1>10. CASE RmRollback(p)
  <2>1. /\ pc[p] = "rmRollback"
        /\ UNCHANGED <<docs, virt, ruled>>
        /\ GoTo(p, "idle") \/ Retry(p)
        /\ \/ CreateIdentity(d, job[p].seen) /\ Spoil(d, {"tag"})
           \/ GoTo(p, "idle") /\ ~Absent(d) /\ UNCHANGED <<hub, gap>>
           \/ Retry(p) /\ UNCHANGED <<hub, gap>>
           \/ Spoil(d, {"registered"})
    BY <1>10 DEF RmRollback, stores
  <2>2. /\ l \in {"idle", "rmRollback"} /\ (l # "idle" => j = job[p])
        /\ \/ /\ Absent(d) /\ hub'[d].status = job[p].seen /\ <<d, "tag">> \in gap'
              /\ \A f \in {"status", "simulated", "rules", "registered"} :
                   <<d, f>> \in gap' <=> <<d, f>> \in gap
           \/ UNCHANGED <<hub, gap>> /\ (l = "rmRollback" \/ ~Absent(d))
           \/ <<d, "registered">> \in gap'
    BY <1>2, <2>1, ControlValues, GapValues, HubValues
  <2> QED
    BY <1>1, <1>3, <2>1, <2>2
    DEF Tells, TellsHub, TellsStatus, TellsTag, TellsVirtual, TellsRules, Clear, Adding,
        Removing, Switching, Absent, Registered, Stands, Midway
<1> QED
  BY <1>0, <1>4, <1>5, <1>6, <1>7, <1>8, <1>9, <1>10

LEMMA StatusTells ==
  ASSUME TypeOK, SerialInv, NEW p \in Proc, NEW d \in Device, d = job[p].dev,
         Tells(pc[p], job[p], d),
         \/ StGet(p) \/ StHub(p) \/ StRead(p) \/ StSave(p) \/ StTag(p) \/ StKeys(p)
         \/ StVirtual(p) \/ StRevertGet(p) \/ StRevert(p)
  PROVE  TellsNext(p, d)
<1> SUFFICES ASSUME NEW l, NEW j, pc'[p] = l, l # "idle" => job'[p] = j
             PROVE  Tells(l, j, d)'
  BY DEF TellsNext
<1>0. pc[p] # "idle"
  BY DEF StGet, StHub, StRead, StSave, StTag, StKeys, StVirtual, StRevertGet, StRevert
<1>1. Stands(p, d)
  BY <1>0, SerialStands
<1>2. job[p] \in Job
  BY DEF TypeOK
<1>3. UNCHANGED docs => DocsOf(d)' = DocsOf(d)
  BY DEF DocsOf
<1>4. CASE StGet(p)
  <2>1. [job[p] EXCEPT !.seen = hub[d].status, !.etag = hub[d].etag].seen = hub[d].status
    BY <1>2 DEF Job
  <2>2. /\ pc[p] = "stGet"
        /\ UNCHANGED <<hub, docs, virt, ruled, gap>>
        /\ \/ /\ ~Absent(d)
              /\ \E k : k.seen = hub[d].status /\ Advance(p, "stHub", k)
           \/ GoTo(p, "idle") \/ Retry(p)
    BY <1>4, <2>1 DEF StGet, stores
  <2>3. (l = "stHub" /\ j.seen = hub[d].status /\ ~Absent(d)) \/ l \in {"stGet", "idle"}
    BY <2>2, ControlValues
  <2> QED
    BY <1>1, <1>3, <2>2, <2>3
    DEF Tells, TellsHub, TellsStatus, TellsTag, TellsVirtual, TellsRules, Clear, Adding,
        Removing, Switching, Absent, Registered, Stands, Midway
<1>5. CASE StHub(p)
  <2>1. /\ pc[p] = "stHub"
        /\ UNCHANGED <<docs, virt, ruled>>
        /\ \/ ReplaceStatus(p, job[p].want) /\ GoTo(p, "stRead") /\ UNCHANGED gap
           \/ /\ Spoil(d, {"status", "tag", "simulated"})
              /\ GoTo(p, "idle") \/ Retry(p)
           \/ UNCHANGED <<hub, gap>> /\ (GoTo(p, "idle") \/ Retry(p))
    BY <1>5 DEF StHub, stores
  <2>2. /\ l # "idle" => j = job[p]
        /\ \A f \in {"rules", "registered"} : <<d, f>> \in gap' <=> <<d, f>> \in gap
        /\ \/ /\ l = "stRead" /\ UNCHANGED gap /\ ~Absent(d)
              /\ hub'[d].status = job[p].want /\ hub'[d].tag = hub[d].tag
           \/ /\ <<d, "status">> \in gap' /\ <<d, "tag">> \in gap'
              /\ <<d, "simulated">> \in gap' /\ l \in {"stHub", "idle"}
           \/ UNCHANGED <<hub, gap>> /\ l \in {"stHub", "idle"}
    BY <1>2, <2>1, ControlValues, ReplaceValues, GapValues
  <2> QED
    BY <1>1, <1>3, <2>1, <2>2
    DEF Tells, TellsHub, TellsStatus, TellsTag, TellsVirtual, TellsRules, Clear, Adding,
        Removing, Switching, Absent, Registered, Stands, Midway
<1>6. CASE StRead(p)
  <2>1. \A g : /\ [job[p] EXCEPT !.guid = g].seen = job[p].seen
              /\ [job[p] EXCEPT !.guid = g].want = job[p].want
    BY <1>2 DEF Job
  <2>2. /\ pc[p] = "stRead"
        /\ UNCHANGED <<hub, docs, virt, ruled, gap>>
        /\ \/ \E k : /\ k.seen = job[p].seen /\ k.want = job[p].want
                   /\ Advance(p, "stSave", k)
           \/ GoTo(p, "stRevertGet")
    BY <1>6, <2>1 DEF StRead, stores
  <2>3. l \in {"stSave", "stRevertGet"} /\ j.seen = job[p].seen /\ j.want = job[p].want
    BY <2>2, ControlValues
  <2> QED
    BY <1>1, <1>3, <2>2, <2>3
    DEF Tells, TellsHub, TellsStatus, TellsTag, TellsVirtual, TellsRules, Clear, Adding,
        Removing, Switching, Absent, Registered, Stands, Midway
<1>7. CASE StSave(p)
  <2>1. /\ pc[p] = "stSave"
        /\ UNCHANGED <<hub, virt, ruled>>
        /\ \/ /\ Upsert(job[p].guid, d, job[p].want)
              /\ GoTo(p, "stTag") /\ UNCHANGED gap
           \/ /\ Upsert(job[p].guid, d, job[p].want)
              /\ GoTo(p, "stRevertGet") /\ Spoil(d, {"status", "tag", "simulated"})
           \/ GoTo(p, "stRevertGet") /\ UNCHANGED <<docs, gap>>
    BY <1>7 DEF StSave, stores
  <2>2. /\ job[p].guid \in Guid /\ docs[job[p].guid].dev = d
        /\ \A h, i \in Guid : docs[h].dev = d /\ docs[i].dev = d => h = i
        /\ job[p].want \in DocState
    BY <1>1, <1>2, <2>1 DEF Stands, Holding, Job, DocState
  <2>3. /\ j = job[p]
        /\ DocsOf(d)' = DocsOf(d)
        /\ \A f \in {"rules", "registered"} : <<d, f>> \in gap' <=> <<d, f>> \in gap
        /\ \/ /\ l = "stTag" /\ UNCHANGED gap
              /\ \A g \in DocsOf(d) : docs'[g].state = job[p].want
           \/ /\ l = "stRevertGet"
              /\ <<d, "status">> \in gap' /\ <<d, "tag">> \in gap'
              /\ <<d, "simulated">> \in gap'
           \/ l = "stRevertGet" /\ UNCHANGED <<docs, gap>>
    BY <1>2, <2>1, <2>2, <1>3, ControlValues, GapValues, ResaveValues
  <2> QED
    BY <1>1, <1>3, <2>1, <2>2, <2>3
    DEF Tells, TellsHub, TellsStatus, TellsTag, TellsVirtual, TellsRules, Clear, Adding,
        Removing, Switching, Absent, Registered, Stands, Midway
<1>8. CASE StTag(p)
  <2>1. /\ pc[p] = "stTag"
        /\ UNCHANGED <<docs, virt, ruled>>
        /\ \/ /\ SetTag(d, job[p].want) /\ UNCHANGED gap
              /\ GoTo(p, IF d \notin Simulated THEN "idle"
                          ELSE IF job[p].want = "Enabled" THEN "stKeys" ELSE "stVirtual")
           \/ /\ GoTo(p, "stRevertGet")
              /\ SetTag(d, job[p].want) \/ UNCHANGED hub
              /\ Spoil(d, {"status", "tag", "simulated"})
    BY <1>8 DEF StTag, stores
  <2>2. /\ l # "idle" => j = job[p]
        /\ \A f \in {"rules", "registered"} : <<d, f>> \in gap' <=> <<d, f>> \in gap
        /\ hub'[d].status = hub[d].status
        /\ \/ /\ l = (IF d \notin Simulated THEN "idle"
                      ELSE IF job[p].want = "Enabled" THEN "stKeys" ELSE "stVirtual")
              /\ hub'[d].tag = job[p].want /\ UNCHANGED gap
           \/ /\ l = "stRevertGet"
              /\ <<d, "status">> \in gap' /\ <<d, "tag">> \in gap'
              /\ <<d, "simulated">> \in gap'
    BY <1>2, <2>1, ControlValues, GapValues, HubValues
  <2> QED
    BY <1>1, <1>3, <2>1, <2>2
    DEF Tells, TellsHub, TellsStatus, TellsTag, TellsVirtual, TellsRules, Clear, Adding,
        Removing, Switching, Absent, Registered, Stands, Midway
<1>9. CASE StKeys(p)
  <2>1. /\ pc[p] = "stKeys"
        /\ UNCHANGED <<hub, docs, virt, ruled>>
        /\ \/ GoTo(p, "stVirtual") /\ UNCHANGED gap
           \/ GoTo(p, "idle") /\ Spoil(d, {"simulated"})
    BY <1>9 DEF StKeys, stores
  <2>2. /\ l # "idle" => j = job[p]
        /\ \A f \in {"status", "tag", "rules", "registered"} :
             <<d, f>> \in gap' <=> <<d, f>> \in gap
        /\ \/ l = "stVirtual" /\ UNCHANGED gap
           \/ l = "idle" /\ <<d, "simulated">> \in gap'
    BY <1>2, <2>1, ControlValues, GapValues
  <2> QED
    BY <1>1, <1>3, <2>1, <2>2
    DEF Tells, TellsHub, TellsStatus, TellsTag, TellsVirtual, TellsRules, Clear, Adding,
        Removing, Switching, Absent, Registered, Stands, Midway
<1>10. CASE StVirtual(p)
  <2>1. /\ pc[p] = "stVirtual"
        /\ UNCHANGED <<hub, docs, ruled>>
        /\ GoTo(p, "idle")
        /\ \/ /\ virt' = IF job[p].want = "Enabled" THEN virt \cup {d} ELSE virt \ {d}
              /\ UNCHANGED gap
           \/ UNCHANGED virt /\ Spoil(d, {"simulated"})
    BY <1>10 DEF StVirtual, stores
  <2>2. /\ l = "idle"
        /\ \A f \in {"status", "tag", "rules", "registered"} :
             <<d, f>> \in gap' <=> <<d, f>> \in gap
        /\ \/ (d \in virt' <=> job[p].want = "Enabled") /\ UNCHANGED gap
           \/ <<d, "simulated">> \in gap'
    BY <1>2, <2>1, ControlValues, GapValues
  <2> QED
    BY <1>1, <1>3, <2>1, <2>2
    DEF Tells, TellsHub, TellsStatus, TellsTag, TellsVirtual, TellsRules, Clear, Adding,
        Removing, Switching, Absent, Registered, Stands, Midway
<1>11. CASE StRevertGet(p)
  <2>1. /\ [job[p] EXCEPT !.etag = hub[d].etag].seen = job[p].seen
        /\ [job[p] EXCEPT !.etag = hub[d].etag].want = job[p].want
    BY <1>2 DEF Job
  <2>2. /\ pc[p] = "stRevertGet"
        /\ UNCHANGED <<hub, docs, virt, ruled>>
        /\ \/ /\ \E k : /\ k.seen = job[p].seen /\ k.want = job[p].want
                      /\ Advance(p, "stRevert", k)
              /\ UNCHANGED gap
           \/ GoTo(p, "idle") /\ Spoil(d, {"status", "tag", "simulated"})
           \/ Retry(p) /\ UNCHANGED gap
    BY <1>11, <2>1 DEF StRevertGet, stores
  <2>3. /\ l # "idle" => j.seen = job[p].seen /\ j.want = job[p].want
        /\ \A f \in {"rules", "registered"} : <<d, f>> \in gap' <=> <<d, f>> \in gap
        /\ \/ l \in {"stRevertGet", "stRevert"} /\ UNCHANGED gap
           \/ /\ l = "idle"
              /\ <<d, "status">> \in gap' /\ <<d, "tag">> \in gap'
              /\ <<d, "simulated">> \in gap'
    BY <2>2, ControlValues, GapValues
  <2> QED
    BY <1>1, <1>3, <2>2, <2>3
    DEF Tells, TellsHub, TellsStatus, TellsTag, TellsVirtual, TellsRules, Clear, Adding,
        Removing, Switching, Absent, Registered, Stands, Midway
<1>12. CASE StRevert(p)
  <2>1. /\ pc[p] = "stRevert"
        /\ UNCHANGED <<docs, virt, ruled>>
        /\ GoTo(p, "idle") \/ Retry(p)
        /\ \/ /\ ReplaceStatus(p, Opposite(job[p].want))
              /\ Spoil(d, IF job[p].seen = job[p].want
                          THEN {"status", "tag", "simulated"} ELSE {})
           \/ /\ GoTo(p, "idle") /\ UNCHANGED hub
              /\ Spoil(d, IF job[p].seen = job[p].want
                          THEN {} ELSE {"status", "tag", "simulated"})
           \/ Retry(p) /\ UNCHANGED <<hub, gap>>
    BY <1>12 DEF StRevert, stores
  <2>2. job[p].seen \notin {"Absent", job[p].want} => Opposite(job[p].want) = job[p].seen
    BY <1>2 DEF Job, Status, Opposite
  <2>3. /\ l \in {"idle", "stRevert"} /\ (l # "idle" => j = job[p])
        /\ \A f \in {"rules", "registered"} : <<d, f>> \in gap' <=> <<d, f>> \in gap
        /\ \/ /\ hub'[d].status = Opposite(job[p].want) /\ hub'[d].tag = hub[d].tag
              /\ ~Absent(d) /\ job[p].seen # job[p].want
              /\ \A f : <<d, f>> \in gap' <=> <<d, f>> \in gap
           \/ /\ <<d, "status">> \in gap' /\ <<d, "tag">> \in gap'
              /\ <<d, "simulated">> \in gap'
           \/ /\ UNCHANGED hub /\ (l = "idle" => job[p].seen = job[p].want)
              /\ \A f : <<d, f>> \in gap' <=> <<d, f>> \in gap
    BY <1>2, <2>1, <2>2, ControlValues, GapValues, ReplaceValues
  <2> QED
    BY <1>1, <1>3, <2>1, <2>2, <2>3
    DEF Tells, TellsHub, TellsStatus, TellsTag, TellsVirtual, TellsRules, Clear, Adding,
        Removing, Switching, Absent, Registered, Stands, Midway
<1> QED
  BY <1>0, <1>4, <1>5, <1>6, <1>7, <1>8, <1>9, <1>10, <1>11, <1>12

LEMMA UpdateTells ==
  ASSUME TypeOK, SerialInv, NEW p \in Proc, NEW d \in Device, d = job[p].dev,
         Tells(pc[p], job[p], d),
         \/ UpRead(p) \/ UpSend(p) \/ UpCheck(p) \/ UpSave(p)
  PROVE  TellsNext(p, d)
<1> SUFFICES ASSUME NEW l, NEW j, pc'[p] = l, l # "idle" => job'[p] = j
             PROVE  Tells(l, j, d)'
  BY DEF TellsNext
<1>0. pc[p] # "idle"
  BY DEF UpRead, UpSend, UpCheck, UpSave
<1>1. Stands(p, d)
  BY <1>0, SerialStands
<1>2. job[p] \in Job
  BY DEF TypeOK
<1>3. UNCHANGED docs => DocsOf(d)' = DocsOf(d)
  BY DEF DocsOf
<1>4. CASE UpRead(p)
  <2>1. ASSUME NEW g, NEW s, NEW m, m \in {"upSend", "upCheck"},
               Advance(p, m, [job[p] EXCEPT !.guid = g, !.state = s])
        PROVE  l = m /\ j.state = s
    <3>1. PICK k : k = [job[p] EXCEPT !.guid = g, !.state = s]
      OBVIOUS
    <3>2. k.state = s
      BY <1>2, <3>1, JobExcept
    <3>3. Advance(p, m, k)
      BY <2>1, <3>1
    <3> QED
      BY <2>1, <3>2, <3>3, ControlValues
  <2>2. pc[p] = "upRead" /\ UNCHANGED <<hub, docs, virt, ruled, gap>>
    BY <1>4 DEF UpRead, stores
  <2>3. \/ \E g \in DocsOf(d) :
             \/ \E m \in {"upSend", "upCheck"} : l = m /\ j.state = docs[g].state
             \/ l = "upCheck" /\ j.state = "Enabled"
        \/ GoTo(p, "idle")
    BY <1>4, <2>1, Zenon DEF UpRead
  <2>4. \A g, h \in DocsOf(d) : g = h
    BY <1>1 DEF Stands, DocsOf
  <2> QED
    BY <1>1, <1>3, <2>2, <2>3, <2>4, ControlValues
    DEF Tells, TellsHub, TellsStatus, TellsTag, TellsVirtual, TellsRules, Clear, Adding,
        Removing, Switching, Absent, Registered, Stands, Midway
<1>5. CASE UpSend(p)
  <2>1. /\ pc[p] = "upSend"
        /\ UNCHANGED <<hub, docs, virt, ruled, gap>>
        /\ GoTo(p, "upCheck") \/ GoTo(p, "idle") \/ Retry(p)
    BY <1>5 DEF UpSend, stores
  <2>2. l \in {"upCheck", "upSend", "idle"} /\ (l # "idle" => j = job[p])
    BY <1>2, <2>1, ControlValues
  <2> QED
    BY <1>1, <1>3, <2>1, <2>2
    DEF Tells, TellsHub, TellsStatus, TellsTag, TellsVirtual, TellsRules, Clear, Adding,
        Removing, Switching, Absent, Registered, Stands, Midway
<1>6. CASE UpCheck(p)
  <2>1. /\ pc[p] = "upCheck"
        /\ UNCHANGED <<hub, docs, virt, ruled, gap>>
        /\ GoTo(p, "upSave") \/ GoTo(p, "idle")
    BY <1>6 DEF UpCheck, stores
  <2>2. l \in {"upSave", "idle"} /\ (l # "idle" => j = job[p])
    BY <1>2, <2>1, ControlValues
  <2> QED
    BY <1>1, <1>3, <2>1, <2>2
    DEF Tells, TellsHub, TellsStatus, TellsTag, TellsVirtual, TellsRules, Clear, Adding,
        Removing, Switching, Absent, Registered, Stands, Midway
<1>7. CASE UpSave(p)
  <2>1. /\ pc[p] = "upSave"
        /\ UNCHANGED <<hub, virt, ruled>>
        /\ GoTo(p, "idle")
        /\ \/ /\ Upsert(job[p].guid, d, job[p].state)
              /\ \/ Spoil(d, {"status"})
                 \/ /\ docs[job[p].guid].state = "Disabled" => job[p].state = "Disabled"
                    /\ Spoil(d, {})
           \/ UNCHANGED <<docs, gap>>
    BY <1>7 DEF UpSave, stores
  <2>2. /\ job[p].guid \in Guid /\ docs[job[p].guid].dev = d
        /\ \A h, i \in Guid : docs[h].dev = d /\ docs[i].dev = d => h = i
        /\ job[p].state \in DocState
    BY <1>1, <1>2, <2>1 DEF Stands, Holding, Job, DocState
  <2>3. /\ l = "idle"
        /\ DocsOf(d)' = DocsOf(d)
        /\ \A f \in {"tag", "simulated", "rules", "registered"} :
             <<d, f>> \in gap' <=> <<d, f>> \in gap
        /\ \/ /\ \A g \in DocsOf(d) : /\ docs'[g].state = job[p].state
                                  /\ docs[g].state = docs[job[p].guid].state
              /\ \/ <<d, "status">> \in gap'
                 \/ /\ docs[job[p].guid].state = "Disabled" => job[p].state = "Disabled"
                    /\ <<d, "status">> \in gap' <=> <<d, "status">> \in gap
           \/ UNCHANGED <<docs, gap>>
    <3>1. l = "idle"
      BY <1>2, <2>1, ControlValues
    <3>2. CASE /\ Upsert(job[p].guid, d, job[p].state)
               /\ \/ Spoil(d, {"status"})
                  \/ /\ docs[job[p].guid].state = "Disabled" => job[p].state = "Disabled"
                     /\ Spoil(d, {})
      <4>1. /\ DocsOf(d)' = DocsOf(d)
            /\ \A h \in DocsOf(d) : h = job[p].guid /\ docs'[h].state = job[p].state
        BY <3>2, <1>2, <2>2, ResaveValues
      <4>2. CASE Spoil(d, {"status"})
        <5>1. \A f : <<d, f>> \in gap' <=> <<d, f>> \in gap \/ f \in {"status"}
          BY <4>2, GapValues
        <5> QED
          BY <3>1, <4>1, <5>1
      <4>3. CASE /\ docs[job[p].guid].state = "Disabled" => job[p].state = "Disabled"
                 /\ Spoil(d, {})
        <5>1. \A f : <<d, f>> \in gap' <=> <<d, f>> \in gap
          BY <4>3, GapValues
        <5> QED
          BY <3>1, <4>1, <4>3, <5>1
      <4> QED
        BY <3>2, <4>2, <4>3
    <3>3. CASE UNCHANGED <<docs, gap>>
      BY <3>1, <3>3 DEF DocsOf
    <3> QED
      BY <2>1, <3>2, <3>3
  <2> QED
    BY <1>1, <1>3, <2>1, <2>2, <2>3
    DEF Tells, TellsHub, TellsStatus, TellsTag, TellsVirtual, TellsRules, Clear, Adding,
        Removing, Switching, Absent, Registered, Stands, Midway
<1> QED
  BY <1>0, <1>4, <1>5, <1>6, <1>7

LEMMA GapElsewhere ==
  ASSUME NEW d \in Device
  PROVE  /\ \A F : Spoil(d, F) => \A c \in Device \ {d}, f \in Facet :
                                    <<c, f>> \in gap' <=> <<c, f>> \in gap
         /\ UNCHANGED gap \/ gap' = gap \ {<<d, "rules">>} =>
              \A c \in Device \ {d}, f \in Facet :
                <<c, f>> \in gap' <=> <<c, f>> \in gap
  BY DEF Spoil

LEMMA CallElsewhere ==
  ASSUME NEW p \in Proc, NEW d \in Device, d = job[p].dev, Call(p)
  PROVE  Elsewhere(d)
<1>1. \A c \in Device \ {d} : (c \in virt' <=> c \in virt) /\ (c \in ruled' <=> c \in ruled)
  BY DEF Call, stores, AddCheck, AddHub, AddTwin, AddRead, AddSave, AddTag, AddVirtual,
         AddRollback, RmGet, RmHub, RmRead, RmDelete, RmVirtual, RmRules, RmRollback,
         StGet, StHub, StRead, StSave, StTag, StKeys, StVirtual, StRevertGet, StRevert,
         UpRead, UpSend, UpCheck, UpSave
<1>2. UNCHANGED gap \/ gap' = gap \ {<<d, "rules">>} \/ \E F : Spoil(d, F)
  <2>1. CASE \/ AddCheck(p) \/ AddHub(p) \/ AddTwin(p) \/ AddRead(p) \/ AddSave(p)
             \/ AddTag(p) \/ AddVirtual(p) \/ AddRollback(p)
    BY <2>1
    DEF AddCheck, AddHub, AddTwin, AddRead, AddSave, AddTag, AddVirtual, AddRollback
  <2>2. CASE \/ RmGet(p) \/ RmHub(p) \/ RmRead(p) \/ RmDelete(p) \/ RmVirtual(p)
             \/ RmRules(p) \/ RmRollback(p)
    BY <2>2 DEF RmGet, RmHub, RmRead, RmDelete, RmVirtual, RmRules, RmRollback
  <2>3. CASE \/ StGet(p) \/ StHub(p) \/ StRead(p) \/ StSave(p) \/ StTag(p)
             \/ StKeys(p) \/ StVirtual(p) \/ StRevertGet(p) \/ StRevert(p)
    BY <2>3
    DEF StGet, StHub, StRead, StSave, StTag, StKeys, StVirtual, StRevertGet, StRevert
  <2>4. CASE UpRead(p) \/ UpSend(p) \/ UpCheck(p) \/ UpSave(p)
    BY <2>4 DEF UpRead, UpSend, UpCheck, UpSave
  <2> QED
    BY <2>1, <2>2, <2>3, <2>4 DEF Call
<1> QED
  BY <1>1, <1>2, GapElsewhere DEF Elsewhere

LEMMA InitStory == Init => Story
  BY ConstantsAssumption
  DEF Init, Story, Idle, NoIdentity, NoDocument, DocsOf, Tells, TellsHub, TellsStatus,
      TellsTag, TellsVirtual, TellsRules, Clear, Adding, Removing, Switching, Absent,
      Registered

\* What is true of a device in the middle of an operation that dies is true of
\* it at rest, but for the facets CrashSpoils records.
LEMMA CrashStory ==
  ASSUME TypeOK, SerialInv, Story, NEW p \in Proc, Crash(p)
  PROVE  Story'
<1>0. pc[p] # "idle" /\ job[p].dev \in Device
  BY DEF Crash, TypeOK
<1> PICK d \in Device : d = job[p].dev
  BY <1>0
<1>1. Stands(p, d) /\ Tells(pc[p], job[p], d)
  BY <1>0, SerialStands DEF Story
<1>2. /\ UNCHANGED <<hub, docs, virt, ruled>> /\ pc'[p] = "idle"
      /\ LocalControl(p, d) /\ LocalGap(d) /\ Spoil(d, CrashSpoils(pc[p]))
  BY ControlEffect, GapEffect DEF Crash, stores
<1>3. LocalStep(p, d) /\ Elsewhere(d)
  BY <1>2, HubEffect, NoDocsEffect, GapElsewhere DEF LocalStep, Elsewhere
<1>4. \A f : <<d, f>> \in gap' <=> <<d, f>> \in gap \/ f \in CrashSpoils(pc[p])
  BY <1>2, GapValues
<1>5. /\ pc[p] \in (Adding \ {"addTag", "addVirtual"}) \cup Removing =>
           <<d, "registered">> \in gap'
      /\ pc[p] \in Switching => \A f \in {"status", "tag", "simulated"} : <<d, f>> \in gap'
      /\ pc[p] = "addTag" => <<d, "tag">> \in gap' /\ <<d, "simulated">> \in gap'
      /\ pc[p] \in {"addVirtual", "stKeys", "stVirtual", "rmVirtual"} =>
           <<d, "simulated">> \in gap'
      /\ pc[p] \in {"rmVirtual", "rmRules"} => <<d, "rules">> \in gap'
  BY <1>4 DEF CrashSpoils, Adding, Removing, Switching
<1>6. \A f : <<d, f>> \notin gap' => <<d, f>> \notin gap
  BY <1>4
<1>7. DocsOf(d)' = DocsOf(d)
  BY <1>2 DEF DocsOf
<1>8. ASSUME NEW j PROVE Tells("idle", j, d)'
  BY <1>1, <1>2, <1>5, <1>6, <1>7
  DEF Tells, TellsHub, TellsStatus, TellsTag, TellsVirtual, TellsRules, Clear, Adding,
      Removing, Switching, Absent, Registered, Stands, Midway
<1> QED
  BY <1>0, <1>1, <1>2, <1>3, <1>8, StoryLocal

\* An operation starts where nothing runs: what it may say of its device is
\* what holds of a device at rest.
LEMMA BeginStory ==
  ASSUME Serial, TypeOK, Story, NEW p \in Proc, NEW d \in Device, Begin(p, d)
  PROVE  Story'
<1> PICK l \in {"addCheck", "addHub", "rmGet", "stGet", "upRead"},
         w \in {"Enabled", "Disabled"} : Start(p, d, l, w)
  BY DEF Begin, StartAdd, StartRemove, StartStatus, StartUpdate
<1>1. pc[p] = "idle" /\ Idle(d) /\ UNCHANGED <<hub, docs, virt, ruled, gap>>
  BY DEF Start
<1>2. PICK j : j = [NoJob EXCEPT !.dev = d, !.want = w]
  OBVIOUS
<1>3. j.dev = d
  BY <1>2 DEF NoJob
<1>4. /\ pc'[p] = l /\ job'[p] = j
      /\ \A q \in Proc \ {p} : pc'[q] = pc[q] /\ job'[q] = job[q]
  BY <1>2 DEF Start, Advance, TypeOK
<1>5. Tells("idle", NoJob, d)
  BY <1>1 DEF Story
<1>6. Tells(l, j, d)
  BY <1>5
  DEF Tells, TellsHub, TellsStatus, TellsTag, TellsVirtual, TellsRules, Clear, Adding,
      Removing, Switching, Absent, Registered
<1>7. ASSUME NEW c, NEW m, NEW k, Tells(m, k, c) PROVE Tells(m, k, c)'
  BY <1>1, <1>7
  DEF DocsOf, Tells, TellsHub, TellsStatus, TellsTag, TellsVirtual, TellsRules, Clear,
      Adding, Removing, Switching, Absent, Registered
<1>8. ASSUME NEW q \in Proc, pc'[q] # "idle" PROVE Tells(pc[q], job[q], job[q].dev)'
  <2>1. PICK c, m, k : c = job'[q].dev /\ m = pc'[q] /\ k = job'[q]
    OBVIOUS
  <2>2. Tells(m, k, c)
    BY <1>3, <1>4, <1>6, <1>8, <2>1 DEF Story
  <2>3. Tells(m, k, c)'
    BY <1>7, <2>2
  <2> QED
    BY <2>1, <2>3
<1>9. \A c \in Device : Idle(c)' => Idle(c)
  BY <1>1, <1>4 DEF Idle
<1> QED
  BY <1>7, <1>8, <1>9 DEF Story

\* A rule saved for a device without document is on record.
LEMMA StillStory ==
  ASSUME Story, UNCHANGED <<hub, docs, virt, pc, job>>,
         \A c, f : f # "rules" => (<<c, f>> \in gap' <=> <<c, f>> \in gap),
         \A c : <<c, "rules">> \in gap => <<c, "rules">> \in gap',
         \A c \in ruled' : c \in ruled \/ DocsOf(c) # {} \/ <<c, "rules">> \in gap'
  PROVE  Story'
<1>1. UNCHANGED <<hub, docs, virt, pc, job>>
  OBVIOUS
<1>2. ASSUME NEW c, NEW m, NEW k, Tells(m, k, c) PROVE Tells(m, k, c)'
  BY <1>1, <1>2
  DEF DocsOf, Tells, TellsHub, TellsStatus, TellsTag, TellsVirtual, TellsRules, Clear,
      Adding, Removing, Switching, Absent, Registered
<1>3. ASSUME NEW q \in Proc, pc'[q] # "idle" PROVE Tells(pc[q], job[q], job[q].dev)'
  <2>1. PICK c, m, k : c = job'[q].dev /\ m = pc'[q] /\ k = job'[q]
    OBVIOUS
  <2>2. Tells(m, k, c)
    BY <1>1, <1>3, <2>1 DEF Story
  <2>3. Tells(m, k, c)'
    BY <1>2, <2>2
  <2> QED
    BY <2>1, <2>3
<1> QED
  BY <1>1, <1>2, <1>3 DEF Story, Idle

LEMMA NextStory ==
  ASSUME Serial, TypeOK, SerialInv, Story, [Next]_vars
  PROVE  Story'
<1>1. ASSUME NEW p \in Proc, Call(p) PROVE Story'
  <2>1. pc[p] # "idle" /\ job[p].dev \in Device
    BY <1>1
    DEF TypeOK, Call, AddCheck, AddHub, AddTwin, AddRead, AddSave, AddTag, AddVirtual,
        AddRollback, RmGet, RmHub, RmRead, RmDelete, RmVirtual, RmRules, RmRollback,
        StGet, StHub, StRead, StSave, StTag, StKeys, StVirtual, StRevertGet, StRevert,
        UpRead, UpSend, UpCheck, UpSave
  <2> PICK d \in Device : d = job[p].dev
    BY <2>1
  <2>2. LocalStep(p, d) /\ Stands(p, d)
    BY <1>1, <2>1, SerialStands, AddSteps, RemoveSteps, StatusSteps, UpdateSteps
    DEF Call
  <2>3. Elsewhere(d)
    BY <1>1, CallElsewhere
  <2>4. Tells(pc[p], job[p], d)
    BY <2>1 DEF Story
  <2>5. TellsNext(p, d)
    BY <1>1, <2>4, AddTells, RemoveTells, StatusTells, UpdateTells DEF Call
  <2>6. PICK l, j : pc'[p] = l /\ (l # "idle" => job'[p] = j) /\ Tells(l, j, d)'
    BY <2>5 DEF TellsNext
  <2> QED
    BY <2>1, <2>2, <2>3, <2>6, StoryLocal
<1>2. CASE UNCHANGED vars
  BY <1>2, StillStory DEF vars
<1>3. ASSUME NEW d \in Device, SaveRule(d) PROVE Story'
  <2>1. /\ UNCHANGED <<hub, docs, virt, pc, job>> /\ ruled' = ruled \cup {d}
        /\ Spoil(d, IF DocsOf(d) = {} THEN {"rules"} ELSE {})
    BY <1>3 DEF SaveRule
  <2>2. \A c, f : <<c, f>> \in gap' <=>
                   <<c, f>> \in gap \/ (c = d /\ f = "rules" /\ DocsOf(d) = {})
    BY <2>1 DEF Spoil
  <2> QED
    BY <2>1, <2>2, StillStory
<1> QED
  BY <1>1, <1>2, <1>3, BeginStory, CrashStory DEF Next

\* Under callers that serialise the operations of a device, the identity, its
\* twin tag, the document, the simulator table and the rules of a device at rest
\* agree, whatever calls failed or were never made on the way, but for what gap
\* records (DeviceLogic, the rollbacks of add and remove and the revert of an
\* enable or disable).
THEOREM DeviceStoresAgree ==
  ASSUME Serial
  PROVE  Spec => []StoresAgree
<1>1. Init => TypeOK /\ SerialInv /\ Story
  BY InitTyped, InitSerial, InitStory
<1>2. TypeOK /\ SerialInv /\ Story /\ [Next]_vars => (TypeOK /\ SerialInv /\ Story)'
  BY NextTyped, NextSerial, NextStory
<1>3. Story => StoresAgree
  BY DEF Story, StoresAgree, StatusAgree, TagAgree, SimulatorAgree, RulesGone, Sound,
         Tells, TellsHub, TellsStatus, TellsTag, TellsVirtual, TellsRules, Clear,
         Adding, Removing, Switching, Absent, Registered
<1> QED
  BY <1>1, <1>2, <1>3, PTL DEF Spec
=============================================================================
